----------------------------- MODULE SerialPort -----------------------------
(***************************************************************************)
(* The simulated UART (source/Hardware.cpp:52-159): a ring of bytes that   *)
(* serial_add_byte fills and serial_getc empties, and the suppression of   *)
(* the VM's echo where the terminal already echoes.                        *)
(*                                                                         *)
(* The main thread adds Ctrl-C and stdin under code_lock, the VM reads     *)
(* under code_lock, but __wait_for_interrupt adds its Ctrl-D after it has  *)
(* unlocked.  serial_add_byte is therefore four steps: store the byte,     *)
(* load the head, write it back, run the receive handler.                  *)
(***************************************************************************)
EXTENDS Integers, Sequences

CONSTANTS
    Size,           \* sizeof(serial_buffer): 10240
    Typed,          \* bytes the user types
    Printed,        \* bytes the program prints of its own accord
    MaxRead,        \* bound: bytes in one read of stdin (10240 in the code)
    Setups          \* of [attached, interactive, unread]; unread bounds the bytes
                    \* there may be once a read is added

ASSUME SizeAssumption ==
    Size \in Nat \ {0, 1} /\ MaxRead \in Nat
ASSUME SetupAssumption ==
    Setups \subseteq [attached : BOOLEAN, interactive : BOOLEAN, unread : Nat]

Control == {"ctrl_c", "ctrl_d", "nul"}          \* below ' '; 0 is never typed
Bytes == Typed \cup Printed \cup {"ctrl_d", "nul", "nl", "cr", "prompt"}

VARIABLES
    setup,          \* has the VM attached a receive handler, and is the run interactive?
    serial_buffer, serial_buffer_head, serial_buffer_tail, serial_buffer_echo,
    code_lock,      \* owner, or None
    pc,             \* where each thread is
    loaded,         \* the head each thread has loaded
    input,          \* what the main thread still has to add
    sent_ctrl_d,
    line,           \* bytes the VM has read and not yet echoed
    got,            \* what serial_getc last returned
    seen,           \* history: control characters the VM has read
    out             \* what the last serial_putc wrote to stdout

ringVars == <<serial_buffer, serial_buffer_head, serial_buffer_tail, serial_buffer_echo>>
vmVars   == <<line, got, seen, out>>
vars     == <<setup, ringVars, code_lock, pc, loaded, input, sent_ctrl_d, vmVars>>

Attached == setup.attached
interactive == setup.interactive
MaxUnread == setup.unread

None == "none"
Threads == {"main", "code"}
Slots == 0..(Size - 1)

Goto(t, label) == pc' = [pc EXCEPT ![t] = label]
At(t, label)   == pc[t] = label

NextUnwrapped(i) == i + 1                       \* mutant
NextSlot(i) == (i + 1) % Size

(* The bytes of the ring from slot i up to slot j. *)
Between(i, j) == [k \in 1..((j - i) % Size) |-> serial_buffer[(i + k - 1) % Size]]
Unread == Between(serial_buffer_tail, serial_buffer_head)
NotEchoed == Between(serial_buffer_echo, serial_buffer_tail)

AsTyped(c) == c                                 \* mutant: keeps '\n'
AsAdded(c) == IF c = "nl" THEN "cr" ELSE c

(***************************************************************************)
(* serial_add_byte, by either thread.                                      *)
(***************************************************************************)
Adding(t) == IF t = "main" THEN Head(input) ELSE "ctrl_d"

Store(t) ==
    /\ At(t, "add") /\ (t = "main" => input # <<>>)
    /\ serial_buffer' = [serial_buffer EXCEPT ![serial_buffer_head] = AsAdded(Adding(t))]
    /\ Goto(t, "load")
    /\ UNCHANGED <<serial_buffer_head, serial_buffer_tail, serial_buffer_echo,
                   code_lock, loaded, input, sent_ctrl_d, vmVars>>

Load(t) ==
    /\ At(t, "load")
    /\ loaded' = [loaded EXCEPT ![t] = serial_buffer_head]
    /\ Goto(t, "advance")
    /\ UNCHANGED <<ringVars, code_lock, input, sent_ctrl_d, vmVars>>

Advance(t) ==
    /\ At(t, "advance")
    /\ serial_buffer_head' = NextSlot(loaded[t])
    /\ input' = IF t = "main" THEN Tail(input) ELSE input
    /\ Goto(t, IF Attached THEN "irq" ELSE "added")
    /\ UNCHANGED <<serial_buffer, serial_buffer_tail, serial_buffer_echo,
                   code_lock, loaded, sent_ctrl_d, vmVars>>

(* serial_getc: what it returns goes to the VM's line. *)
Getc ==
    LET c == serial_buffer[serial_buffer_tail]
    IN  /\ serial_buffer_head # serial_buffer_tail
        /\ serial_buffer_tail' = NextSlot(serial_buffer_tail)
        /\ got' = c
        /\ seen' = seen \cup ({c} \cap Control)
        /\ line' = Append(line, c)

(* serial_irq: the attached handler takes a byte if there is one. *)
Irq(t) ==
    /\ At(t, "irq") /\ Goto(t, "added")
    /\ \/ Getc
       \/ serial_buffer_head = serial_buffer_tail
          /\ UNCHANGED <<serial_buffer_tail, got, seen, line>>
    /\ UNCHANGED <<serial_buffer, serial_buffer_head, serial_buffer_echo,
                   code_lock, loaded, input, sent_ctrl_d, out>>

AddByte(t) == Store(t) \/ Load(t) \/ Advance(t) \/ Irq(t)

(***************************************************************************)
(* The main thread: a read of stdin (or a Ctrl-C) is added under code_lock. *)
(***************************************************************************)
Read ==
    /\ At("main", "idle") /\ code_lock = None /\ code_lock' = "main"
    /\ \E len \in 1..MaxRead :
         /\ len + Len(Unread) + Len(line) <= MaxUnread
         /\ input' \in [1..len -> Typed]
    /\ Goto("main", "add")
    /\ UNCHANGED <<ringVars, loaded, sent_ctrl_d, vmVars>>

MainAdded ==
    /\ At("main", "added")
    /\ IF input # <<>> THEN Goto("main", "add") /\ UNCHANGED code_lock
                       ELSE Goto("main", "idle") /\ code_lock' = None
    /\ UNCHANGED <<ringVars, loaded, input, sent_ctrl_d, vmVars>>

(***************************************************************************)
(* The code thread.                                                        *)
(***************************************************************************)
(* The VM unlocks in the branch hook or in __WFI, which adds a Ctrl-D once. *)
Yield ==
    /\ At("code", "vm") /\ code_lock' = None
    /\ \/ Goto("code", "relock")
       \/ ~interactive /\ ~sent_ctrl_d /\ Goto("code", "add")
    /\ UNCHANGED <<ringVars, loaded, input, sent_ctrl_d, vmVars>>

CodeAdded ==
    /\ At("code", "added")
    /\ sent_ctrl_d' = TRUE
    /\ Goto("code", "relock")
    /\ UNCHANGED <<ringVars, code_lock, loaded, input, vmVars>>

Relock ==
    /\ At("code", "relock") /\ code_lock = None /\ code_lock' = "code"
    /\ Goto("code", "vm")
    /\ UNCHANGED <<ringVars, loaded, input, sent_ctrl_d, vmVars>>

(* Without a handler the VM polls: it reads a byte when it has echoed the
   one before. *)
Poll ==
    /\ At("code", "vm") /\ ~Attached /\ line = <<>> /\ Getc
    /\ UNCHANGED <<serial_buffer, serial_buffer_head, serial_buffer_echo,
                   code_lock, pc, loaded, input, sent_ctrl_d, out>>

PutcAlways(c) == out' = c /\ UNCHANGED serial_buffer_echo     \* mutant
PutcStuck(c) ==                                 \* mutant: echo stays put
    /\ out' = IF \E k \in 1..Len(NotEchoed) : NotEchoed[k] = c THEN None ELSE c
    /\ UNCHANGED serial_buffer_echo

(* serial_putc with _disable_echo: a byte that was typed and not yet passed
   over is dropped, and so are the typed bytes before it; if there is none,
   all are passed over and the byte is printed.  Control characters never
   match. *)
Putc(c) ==
    LET typed   == NotEchoed
        matches == {k \in 1..Len(typed) : typed[k] = c /\ typed[k] \notin Control}
    IN  \/ /\ matches # {}
           /\ \E k \in matches :
                /\ \A j \in matches : k <= j
                /\ serial_buffer_echo' = (serial_buffer_echo + k) % Size
           /\ out' = None
        \/ /\ matches = {}
           /\ serial_buffer_echo' = serial_buffer_tail
           /\ out' = c

(* The VM answers the next byte of its line: it echoes it, or begins a new
   prompt for a control character ('\r' is echoed as '\r' '\n', and serial_putc
   ignores every '\n'). *)
Answer(c) == IF c \in Control THEN "prompt" ELSE c

Echo ==
    /\ At("code", "vm") /\ line # <<>>
    /\ line' = Tail(line)
    /\ Putc(Answer(Head(line)))
    /\ UNCHANGED <<serial_buffer, serial_buffer_head, serial_buffer_tail,
                   code_lock, pc, loaded, input, sent_ctrl_d, got, seen>>

(* The program prints; when it polls, not between a byte and its echo. *)
ProgramPrints(c) ==
    /\ At("code", "vm") /\ (Attached \/ line = <<>>)
    /\ Putc(c)
    /\ UNCHANGED <<serial_buffer, serial_buffer_head, serial_buffer_tail,
                   code_lock, pc, loaded, input, sent_ctrl_d, line, got, seen>>

Init ==
    /\ setup \in Setups
    /\ serial_buffer = [i \in Slots |-> "nul"]
    /\ serial_buffer_head = 0 /\ serial_buffer_tail = 0 /\ serial_buffer_echo = 0
    /\ code_lock = None
    /\ pc = [t \in Threads |-> IF t = "main" THEN "idle" ELSE "relock"]
    /\ loaded = [t \in Threads |-> 0]
    /\ input = <<>> /\ sent_ctrl_d = FALSE
    /\ line = <<>> /\ got = None /\ seen = {} /\ out = None

Steps ==
    \/ \E t \in Threads : AddByte(t)
    \/ Read \/ MainAdded
    \/ Yield \/ CodeAdded \/ Relock \/ Poll \/ Echo
    \/ \E c \in Printed : ProgramPrints(c)
Next == Steps /\ UNCHANGED setup

Spec == Init /\ [][Next]_vars
-----------------------------------------------------------------------------
(* Type invariant. *)
TypeOK ==
    /\ setup \in Setups
    /\ serial_buffer \in [Slots -> Bytes]
    /\ {serial_buffer_head, serial_buffer_tail, serial_buffer_echo} \subseteq Slots
    /\ code_lock \in Threads \cup {None}
    /\ pc \in [Threads -> {"idle", "add", "load", "advance", "irq", "added", "vm", "relock"}]
    /\ loaded \in [Threads -> Slots]
    /\ input \in Seq(Bytes) /\ line \in Seq(Bytes)
    /\ sent_ctrl_d \in BOOLEAN /\ seen \subseteq Control
    /\ {got, out} \subseteq Bytes \cup {None}

(* The ring delivers what was typed, once and in order: it implements
   SerialFifo as long as it is not filled, only one thread adds, and the VM
   polls (Hardware.cpp:72-83, 109-117).  The other setups are not asked for. *)
Polled == interactive /\ ~Attached
Fifo == INSTANCE SerialFifo WITH input <- IF Polled THEN input ELSE <<>>,
                                 queue <- IF Polled THEN Unread ELSE <<>>,
                                 got <- IF Polled THEN got ELSE None
DeliversInOrder == Fifo!Spec

(* What the terminal has echoed already is not printed a second time, if the
   VM polls (Hardware.cpp:125-145). *)
EchoHidden == [][Polled /\ Echo /\ Head(line) \notin Control => out' = None]_vars

(* What the program prints of its own accord is not mistaken for an echo
   (Hardware.cpp:140-150). *)
OutputShown == [][Polled => \A c \in Printed : ProgramPrints(c) => out' = c]_vars

(* The Ctrl-D that ends a run that is not interactive reaches the VM
   (Main.cpp:212-218). *)
CtrlDKept ==
    sent_ctrl_d => "ctrl_d" \in seen \/ \E i \in 1..Len(Unread) : Unread[i] = "ctrl_d"
=============================================================================
