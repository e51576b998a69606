-------------------------------- MODULE Radio --------------------------------
(* The radio (source/Hardware.cpp:872-945 and the simulator_radio_* calls of *)
(* source/Main.cpp).  The address of a frame stands for its channel, base,   *)
(* prefix and data rate.  MicroPython configures, sends and receives; the    *)
(* client adds frames with microbit_radio_rx, and the rounds take those sent *)
(* and write them with microbit_radio_tx.  The queues have no bound.         *)
EXTENDS Naturals, Sequences
CONSTANTS
  Addresses,       \* channel, base, prefix and data rate
  Payloads,        \* contents of a frame
  MaxFrames        \* bound: frames sent, and frames waiting to be received

ASSUME RadioAssumption == MaxFrames \in Nat /\ Addresses # {}

VARIABLES
  radio_config,    \* _radio_enabled and the address
  radio_tx, radio_rx,
  sent             \* history: the frames sent, as they were to go out
radioVars == <<radio_config, radio_tx, radio_rx, sent>>

Frames == [data : Payloads, addr : Addresses]
RadioConfigs == [enabled : BOOLEAN, addr : Addresses]

RadioInit ==
  /\ \E a \in Addresses : radio_config = [enabled |-> FALSE, addr |-> a]
  /\ radio_tx = <<>> /\ radio_rx = <<>> /\ sent = <<>>

KeepsReceived(c) ==                            \* mutant: the old frames stay
  radio_config' = c /\ UNCHANGED <<radio_tx, radio_rx, sent>>

\* A configuration takes effect at once and throws the received frames away; frames
\* that wait to be sent keep the address they were sent with.
simulator_radio_config(c) ==
  radio_config' = c /\ radio_rx' = <<>> /\ UNCHANGED <<radio_tx, sent>>

simulator_radio_send(data) ==
  LET f == [data |-> data, addr |-> radio_config.addr]
  IN  /\ radio_tx' = Append(radio_tx, f) /\ sent' = Append(sent, f)
      /\ UNCHANGED <<radio_config, radio_rx>>

simulator_radio_receive ==
  /\ radio_rx # <<>> /\ radio_rx' = Tail(radio_rx)
  /\ UNCHANGED <<radio_config, radio_tx, sent>>

\* Whether the radio is enabled is not asked.
simulator_radio_add_rx(f) ==
  /\ radio_rx' = IF f.addr = radio_config.addr THEN Append(radio_rx, f) ELSE radio_rx
  /\ UNCHANGED <<radio_config, radio_tx, sent>>

\* simulator_radio_get_tx(), by which a round takes the oldest frame to be sent.
FrameNow == [Head(radio_tx) EXCEPT !.addr = radio_config.addr]   \* mutant: today's address
FrameSent == Head(radio_tx)
simulator_radio_get_tx ==
  /\ radio_tx # <<>> /\ radio_tx' = Tail(radio_tx)
  /\ UNCHANGED <<radio_config, radio_rx, sent>>

RadioNext ==
  \/ \E c \in RadioConfigs : simulator_radio_config(c)
  \/ \E p \in Payloads : Len(sent) < MaxFrames /\ simulator_radio_send(p)
  \/ simulator_radio_receive
  \/ \E f \in Frames : Len(radio_rx) < MaxFrames /\ simulator_radio_add_rx(f)

RadioType ==
  /\ radio_config \in RadioConfigs
  /\ radio_tx \in Seq(Frames) /\ radio_rx \in Seq(Frames) /\ sent \in Seq(Frames)

\* Across any changes of the configuration the VM receives only frames for the address it
\* has now.
ReceivedMatches == \A i \in DOMAIN radio_rx : radio_rx[i].addr = radio_config.addr
==============================================================================
