----------------------------- MODULE EventQueue -----------------------------
(* What the queue of the message bus promises: events wait in the order in   *)
(* which they were sent, at most Depth of them, an event is turned away only *)
(* when the queue is full, and they are taken from the front.  Events are    *)
(* numbered in the order of the calls of send().                             *)
EXTENDS Naturals, Sequences
CONSTANT Depth
VARIABLES queue, taken, dropped

Init == queue = <<>> /\ taken = 0 /\ dropped = {}

\* The queue with event n behind its first i events.
Placed(n, i) == SubSeq(queue, 1, i) \o <<n>> \o SubSeq(queue, i + 1, Len(queue))

Waiting == {queue[i] : i \in DOMAIN queue}

Accept(n) ==
  /\ Len(queue) < Depth
  /\ n > taken /\ n \notin Waiting \cup dropped
  /\ \E i \in 0..Len(queue) :        \* its place in the order of sending
       /\ \A j \in DOMAIN queue : IF j <= i THEN queue[j] < n ELSE queue[j] > n
       /\ queue' = Placed(n, i)
  /\ UNCHANGED <<taken, dropped>>

Refuse(n) ==
  /\ Len(queue) = Depth
  /\ n > taken /\ n \notin Waiting \cup dropped
  /\ dropped' = dropped \cup {n}
  /\ UNCHANGED <<queue, taken>>

Take ==
  /\ queue # <<>>
  /\ taken' = Head(queue)
  /\ queue' = Tail(queue)
  /\ UNCHANGED dropped

CONSTANT MaxSends
Next == Take \/ \E n \in 1..MaxSends : Accept(n) \/ Refuse(n)

vars == <<queue, taken, dropped>>
Spec == Init /\ [][Next]_vars
=============================================================================
