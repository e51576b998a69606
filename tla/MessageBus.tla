----------------------------- MODULE MessageBus -----------------------------
(* The message bus (source/MicroBitMessageBus.cpp).  Listeners are called on *)
(* the stack of whoever sends, and a handler may itself send, listen and     *)
(* ignore, so the calls in progress are a stack of activations:              *)
(*   "urgent"    queueEvent() walking the listeners for the urgent ones      *)
(*   "normal"    idleTick() walking them for the others                      *)
(*   "callback"  a handler inside async_callback()                           *)
(* A walk has "at": the listener it stands on, or nothing before the first.  *)
(* Events are numbered by their call of send(): number n is events[n].       *)
(* The queue is the linked list of the code: qhead, qtail and qnext, 0 for   *)
(* NULL.  Who calls the bus outside a handler is the MicroPython VM, which   *)
(* is not under src/: it makes any call, and idleTick() only from its top    *)
(* level.                                                                    *)
EXTENDS Integers, Sequences, FiniteSets

CONSTANTS
  Registrations,   \* the listeners that may be registered: id, value, handler, flags
  Events,          \* the events that may be sent: source, value
  Depth,           \* MESSAGE_BUS_LISTENER_MAX_QUEUE_DEPTH
  MaxSends,        \* bound: events sent in a behaviour
  MaxCalls,        \* bound: calls of listen() and ignore()
  MaxStack         \* bound: activations on the stack when a handler calls the bus

ANY == 0           \* MICROBIT_ID_ANY, MICROBIT_EVT_ANY
ListenerId == 9    \* MICROBIT_ID_MESSAGE_BUS_LISTENER

ASSUME DepthAssumption == Depth \in Nat
ASSUME BoundsAssumption == MaxSends \in Nat /\ MaxCalls \in Nat /\ MaxStack \in Nat
ASSUME RegistrationsAssumption ==
  Registrations \subseteq [id : Nat, value : Nat, handler : STRING, flags : SUBSET STRING]
ASSUME EventsAssumption == Events \subseteq [source : Nat, value : Nat]

VARIABLES
  listeners,       \* the list of listeners, a sequence of registrations
  busy, deleting,  \* the listeners with BUSY, with DELETING set
  pending,         \* evt_queue of each listener
  events,          \* the events sent so far
  qhead, qtail, qnext, queueLength,
  stack,           \* the activations, the innermost last
  calls,           \* calls of listen() and ignore() so far
  taken,           \* history: the last event taken off the queue
  dropped          \* history: the events turned away by a full queue

listVars  == <<listeners, deleting>>
queueVars == <<qhead, qtail, qnext, queueLength>>
vars == <<listeners, busy, deleting, pending, events, qhead, qtail, qnext, queueLength,
          stack, calls, taken, dropped>>

Init ==
  /\ listeners = <<>> /\ busy = {} /\ deleting = {}
  /\ pending = [l \in Registrations |-> <<>>]
  /\ events = <<>>
  /\ qhead = 0 /\ qtail = 0 /\ queueLength = 0
  /\ qnext = [n \in 0..MaxSends |-> 0]
  /\ stack = <<>> /\ calls = 0
  /\ taken = 0 /\ dropped = {}

--------------------------------------------------------------------------
(* The stack *)

Top == stack[Len(stack)]
Below == SubSeq(stack, 1, Len(stack) - 1)
SetTop(f) == [stack EXCEPT ![Len(stack)] = f]

\* process(events[n], urgent) about to look at the first listener.  prev is what
\* queueEvent() found at the tail of the queue when it was entered.
Walk(op, n, prev) == [op |-> op, n |-> n, at |-> {}, complete |-> TRUE, prev |-> prev]
Callback(l, n) == [op |-> "callback", n |-> n, l |-> l]

\* Code that may call the bus: the VM with nothing in progress, or a handler.
Caller == stack # <<>> => Top.op = "callback" /\ Len(stack) < MaxStack

\* The part of send() and queueEvent() before the urgent listeners are called.
Entered(st) == Append(st, Walk("urgent", Len(events) + 1, qtail))

--------------------------------------------------------------------------
(* process() *)

Urgent(l) == {"URGENT", "NONBLOCKING"} \subseteq l.flags
Matches(l, e) == l.id \in {e.source, ANY} /\ l.value \in {e.value, ANY}

\* Positions of the listeners that the walk f has still to look at.
Ahead(f) ==
  {i \in DOMAIN listeners : /\ Matches(listeners[i], events[f.n])
                            /\ \A j \in DOMAIN listeners : listeners[j] \in f.at => j < i}
Called(f, i) ==
  /\ Urgent(listeners[i]) <=> f.op = "urgent"
  /\ listeners[i] \notin deleting
NextCalls(f) == {i \in Ahead(f) : Called(f, i) /\ \A j \in Ahead(f) : Called(f, j) => i <= j}

\* async_callback(l) up to the first call of the handler, on top of the stack st.
Invoke(l, n, st) ==
  IF l \notin busy \/ l.flags \cap {"DROP_IF_BUSY", "QUEUE_IF_BUSY"} = {}
  THEN /\ busy' = busy \cup {l}
       /\ stack' = Append(st, Callback(l, n))
       /\ UNCHANGED pending
  ELSE /\ pending' = IF "DROP_IF_BUSY" \in l.flags THEN pending
                     ELSE [pending EXCEPT ![l] = Append(@, n)]
       /\ stack' = st
       /\ UNCHANGED busy

\* The walk reaches the next listener that is to have the event.  A blocking one goes
\* to invoke(), which in this build does nothing.
Deliver ==
  /\ stack # <<>> /\ Top.op # "callback"
  /\ \E i \in NextCalls(Top) :
       LET l == listeners[i]
           passed == \E j \in Ahead(Top) : j < i
           st == SetTop([Top EXCEPT !.at = {l}, !.complete = @ /\ ~passed])
       IN  IF "NONBLOCKING" \in l.flags
           THEN Invoke(l, Top.n, st)
           ELSE stack' = st /\ UNCHANGED <<busy, pending>>
  /\ UNCHANGED <<listVars, events, queueVars, calls, taken, dropped>>

\* The walk on top is over, and what its process() returns.
Walked(op) == stack # <<>> /\ Top.op = op /\ NextCalls(Top) = {}
Complete(f) == f.complete /\ Ahead(f) = {}

CallbackLeaves ==                              \* mutant: what was queued stays
  /\ stack # <<>> /\ Top.op = "callback"
  /\ busy' = busy \ {Top.l} /\ stack' = Below
  /\ UNCHANGED <<listVars, pending, events, queueVars, calls, taken, dropped>>

\* A handler returns: async_callback() goes on with what was queued for the listener,
\* or clears BUSY and is done.
CallbackReturns ==
  /\ stack # <<>> /\ Top.op = "callback"
  /\ LET l == Top.l
     IN  IF "QUEUE_IF_BUSY" \in l.flags /\ pending[l] # <<>>
         THEN /\ stack' = SetTop(Callback(l, Head(pending[l])))
              /\ pending' = [pending EXCEPT ![l] = Tail(@)]
              /\ UNCHANGED busy
         ELSE /\ busy' = busy \ {l}
              /\ stack' = Below
              /\ UNCHANGED pending
  /\ UNCHANGED <<listVars, events, queueVars, calls, taken, dropped>>

--------------------------------------------------------------------------
(* The queue of events *)

Send ==
  /\ Caller /\ Len(events) < MaxSends
  /\ \E e \in Events : events' = Append(events, e) /\ stack' = Entered(stack)
  /\ UNCHANGED <<listVars, busy, pending, queueVars, calls, taken, dropped>>

LinkedAtTail(prev, n) ==                       \* mutant: behind today's tail
  /\ qhead' = IF qtail = 0 THEN n ELSE qhead
  /\ qnext' = [qnext EXCEPT ![qtail] = IF qtail = 0 THEN 0 ELSE n]
  /\ qtail' = n
  /\ queueLength' = queueLength + 1

\* The links after event n is put behind prev, or at the head when prev is NULL.
LinkedAfter(prev, n) ==
  LET next == IF prev = 0 THEN qhead ELSE qnext[prev]
  IN  /\ qhead' = IF prev = 0 THEN n ELSE qhead
      /\ qnext' = [qnext EXCEPT ![n] = next, ![prev] = IF prev = 0 THEN 0 ELSE n]
      /\ qtail' = IF next = 0 THEN n ELSE qtail
      /\ queueLength' = queueLength + 1

OverFull == queueLength > Depth                \* mutant: one too many
Full == queueLength >= Depth

\* queueEvent() once process() has returned.
QueueEvent ==
  /\ Walked("urgent")
  /\ stack' = Below
  /\ \/ Complete(Top) /\ UNCHANGED <<queueVars, dropped>>
     \/ /\ ~Complete(Top) /\ Full
        /\ dropped' = dropped \cup {Top.n}
        /\ UNCHANGED queueVars
     \/ /\ ~Complete(Top) /\ ~Full
        /\ LinkedAfter(Top.prev, Top.n)
        /\ UNCHANGED dropped
  /\ UNCHANGED <<listVars, busy, pending, events, calls, taken>>

DequeueTailKept(st) ==                         \* mutant: the tail dangles
  IF qhead = 0
  THEN stack' = st /\ UNCHANGED <<queueVars, taken>>
  ELSE /\ qhead' = qnext[qhead] /\ qnext' = [qnext EXCEPT ![qhead] = 0]
       /\ queueLength' = queueLength - 1 /\ UNCHANGED qtail
       /\ stack' = Append(st, Walk("normal", qhead, 0)) /\ taken' = qhead
DequeueKept(st) ==                             \* mutant: the head is not moved on
  IF qhead = 0
  THEN stack' = st /\ UNCHANGED <<queueVars, taken>>
  ELSE stack' = Append(st, Walk("normal", qhead, 0)) /\ taken' = qhead /\ UNCHANGED queueVars

\* dequeueEvent(), with the event it returns processed next on top of the stack st.
Dequeue(st) ==
  IF qhead = 0
  THEN stack' = st /\ UNCHANGED <<queueVars, taken>>
  ELSE /\ qhead' = qnext[qhead]
       /\ qtail' = IF qnext[qhead] = 0 THEN 0 ELSE qtail
       /\ queueLength' = queueLength - 1
       /\ qnext' = [qnext EXCEPT ![qhead] = 0]
       /\ stack' = Append(st, Walk("normal", qhead, 0))
       /\ taken' = qhead

\* The flags word of a listener, and C's ! of it as a set of bits: bit 0, if the word is 0.
Flags(l) == l.flags \cup (IF l \in busy THEN {"BUSY"} ELSE {})
                    \cup (IF l \in deleting THEN {"DELETING"} ELSE {})
LogicalNot(word) == IF word = {} THEN {"BIT0"} ELSE {}

\* The condition of deleteMarkedListeners(): flags & DELETING && !flags & BUSY.
Deletable(l) == "DELETING" \in Flags(l) /\ "BUSY" \in LogicalNot(Flags(l))
DeleteMarked ==
  /\ LET kept[i \in 0..Len(listeners)] ==
           IF i = 0 THEN <<>>
           ELSE IF Deletable(listeners[i]) THEN kept[i - 1]
           ELSE Append(kept[i - 1], listeners[i])
     IN  listeners' = kept[Len(listeners)]
  /\ deleting' = {l \in deleting : ~Deletable(l)}

IdleTick ==
  /\ stack = <<>>
  /\ DeleteMarked
  /\ Dequeue(<<>>)
  /\ UNCHANGED <<busy, pending, events, calls, dropped>>

\* The event is processed.  scheduler_runqueue_empty() returns no value in this build,
\* so idleTick() goes on with the next event or leaves.
IdleContinues ==
  /\ Walked("normal")
  /\ Dequeue(Below) \/ (stack' = Below /\ UNCHANGED <<queueVars, taken>>)
  /\ UNCHANGED <<listVars, busy, pending, events, calls, dropped>>

--------------------------------------------------------------------------
(* Listeners *)

Same(l, r) == l.id = r.id /\ l.value = r.value /\ l.handler = r.handler
Less(l, r) == l.id < r.id \/ (l.id = r.id /\ l.value < r.value)

\* add(): behind the listeners that come before r; behind the first one when that is r's equal.
Inserted(r) ==
  LET before == Cardinality({i \in DOMAIN listeners : Less(listeners[i], r)})
      k == IF before = 0 /\ listeners # <<>> /\ ~Less(r, listeners[1]) THEN 1 ELSE before
  IN  SubSeq(listeners, 1, k) \o <<r>> \o SubSeq(listeners, k + 1, Len(listeners))

Registered(r) == {i \in DOMAIN listeners : Same(listeners[i], r)}

\* listen(): a listener that is there already is resurrected if it was to be deleted; a
\* new one is announced by an event.
Listen ==
  /\ Caller /\ calls < MaxCalls /\ calls' = calls + 1
  /\ \E r \in Registrations :
       \/ /\ Registered(r) # {}
          /\ deleting' = deleting \ {listeners[i] : i \in Registered(r)}
          /\ UNCHANGED <<listeners, events, stack>>
       \/ /\ Registered(r) = {} /\ Len(events) < MaxSends
          /\ listeners' = Inserted(r)
          /\ events' = Append(events, [source |-> ListenerId, value |-> r.id])
          /\ stack' = Entered(stack)
          /\ UNCHANGED deleting
  /\ UNCHANGED <<busy, pending, queueVars, taken, dropped>>

\* remove(): the listeners that match, where either number may be ANY.
Removed(id, value, handler) ==
  {l \in {listeners[i] : i \in DOMAIN listeners} :
     l.handler = handler /\ id \in {ANY, l.id} /\ value \in {ANY, l.value}}

\* ignore(id, value, handler) marks them.
Ignore ==
  /\ Caller /\ calls < MaxCalls /\ calls' = calls + 1
  /\ \E r \in Registrations : \E id \in {r.id, ANY}, value \in {r.value, ANY} :
       deleting' = deleting \cup Removed(id, value, r.handler)
  /\ UNCHANGED <<listeners, busy, pending, events, queueVars, stack, taken, dropped>>

--------------------------------------------------------------------------
BusStep == Deliver \/ CallbackReturns \/ QueueEvent \/ IdleContinues

Next == BusStep \/ IdleTick \/ Send \/ Listen \/ Ignore

\* Handlers return, and the VM calls the idle components time and again.
Spec == Init /\ [][Next]_vars /\ WF_vars(BusStep) /\ WF_vars(IdleTick)
--------------------------------------------------------------------------
(* Properties *)

Numbers == 1..MaxSends
Frames ==
  [op : {"urgent", "normal"}, n : Numbers, complete : BOOLEAN, prev : 0..MaxSends,
   at : {{}} \cup {{l} : l \in Registrations}]
  \cup [op : {"callback"}, n : Numbers, l : Registrations]

\* Every variable has its type.
TypeOK ==
  /\ listeners \in Seq(Registrations)
  /\ busy \subseteq Registrations /\ deleting \subseteq Registrations
  /\ pending \in [Registrations -> Seq(Numbers)]
  /\ events \in Seq([source : Nat, value : Nat]) /\ Len(events) <= MaxSends
  /\ qhead \in 0..MaxSends /\ qtail \in 0..MaxSends
  /\ qnext \in [0..MaxSends -> 0..MaxSends] /\ queueLength \in 0..Depth
  /\ stack \in Seq(Frames)
  /\ calls \in 0..MaxCalls /\ taken \in 0..MaxSends /\ dropped \subseteq Numbers

\* The events on the list that starts at head and is linked by next.
ChainFrom(head, next) ==
  LET node[k \in 0..MaxSends] == IF k = 0 THEN head ELSE next[node[k - 1]]
  IN  [k \in 1..Cardinality({j \in 0..MaxSends : node[j] # 0}) |-> node[k - 1]]
Chain == ChainFrom(qhead, qnext)

\* queueEvent() keeps a pointer to the tail across the calls of the urgent handlers, which
\* may queue events themselves: the list stays whole, the length and the tail are right,
\* and no such pointer is ever to an event that has left the queue.
ChainInv ==
  /\ Len(Chain) = queueLength
  /\ qtail = (IF Chain = <<>> THEN 0 ELSE Chain[Len(Chain)])
  /\ \A i \in DOMAIN stack :
       (stack[i].op = "urgent" /\ stack[i].prev # 0)
          => \E k \in DOMAIN Chain : Chain[k] = stack[i].prev

Serial(l) == l.flags \cap {"DROP_IF_BUSY", "QUEUE_IF_BUSY"} # {}
Active(l) == {i \in DOMAIN stack : stack[i].op = "callback" /\ stack[i].l = l}

\* However the handlers call the bus again, a listener that drops or queues when it is busy
\* is entered once at a time, its BUSY flag says whether it is, and nothing waits for it
\* when it is not.
SerialInv ==
  \A l \in Registrations :
    Serial(l) => /\ \A i, j \in Active(l) : i = j
                 /\ l \in busy <=> Active(l) # {}
                 /\ pending[l] # <<>> => l \in busy

\* The linked list is a queue in the order of the calls of send(), although an event is put
\* into it after the events that its own urgent handlers sent (the comment of queueEvent()),
\* and an event that still has a listener is turned away only when the queue is full.
Queue == INSTANCE EventQueue WITH queue <- Chain
OrderedQueue == Queue!Spec

\* An event in the queue is processed in the end, given that the VM calls idleTick().
Delivered == \A n \in Numbers : (\E k \in DOMAIN Chain : Chain[k] = n) ~> taken >= n
=============================================================================
