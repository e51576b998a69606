------------------------------ MODULE BusProofs ------------------------------
(* Theorems about MessageBus, for any listeners, events and bounds: the      *)
(* linked list is whole, no handler is entered twice that may not be, and    *)
(* the list with its event numbers is the queue that EventQueue describes.   *)
EXTENDS MessageBus, WellFoundedInduction, NaturalsInduction,
        SequenceTheorems, FiniteSetTheorems, TLAPS

LEMMA Bounds == Depth \in Nat /\ MaxSends \in Nat /\ MaxCalls \in Nat /\ MaxStack \in Nat
BY DepthAssumption, BoundsAssumption

\* What stands in for induction over numbers: a set of them has a least one.
LEMMA Least ==
  ASSUME NEW S \in SUBSET Nat, S # {}
  PROVE  \E m \in S : \A k \in S : m <= k
<1>1. PICK m \in S : \A k \in S : ~ (<<k, m>> \in OpToRel(<, Nat))
  BY NatLessThanWellFounded, WFMin
<1>2. \A k \in S : ~ (k < m)
  BY <1>1 DEF OpToRel
<1> QED BY <1>2

--------------------------------------------------------------------------
(* Linked lists: q is the list that starts at head and is linked by next. *)

Linked(q, head, next) ==
  /\ q \in Seq(Numbers) /\ Len(q) <= MaxSends
  /\ head = IF q = <<>> THEN 0 ELSE q[1]
  /\ next[0] = 0
  /\ \A k \in 1..Len(q) : next[q[k]] = IF k < Len(q) THEN q[k + 1] ELSE 0

Sorted(q) == \A i, j \in 1..Len(q) : i < j => q[i] < q[j]

\* What ChainFrom reads off the list is the list.
LEMMA ChainIsList ==
  ASSUME NEW q, NEW head, NEW next, Linked(q, head, next)
  PROVE  ChainFrom(head, next) = q
<1> DEFINE Step(f) == [k \in 0..MaxSends |-> IF k = 0 THEN head ELSE next[f[k - 1]]]
           w == [k \in 0..MaxSends |-> IF k < Len(q) THEN q[k + 1] ELSE 0]
           node == CHOOSE f : f = Step(f)
<1>1. Len(q) \in Nat /\ MaxSends \in Nat /\ (q = <<>> <=> Len(q) = 0)
  BY Bounds DEF Linked
<1>2. w = Step(w)
  <2>1. ASSUME NEW k \in 0..MaxSends PROVE w[k] = Step(w)[k]
    <3>1. CASE k = 0
      BY <1>1, <3>1 DEF Linked
    <3>2. CASE k # 0
      <4>1. k - 1 \in 0..MaxSends
        BY <1>1, <3>2
      <4>2. CASE k - 1 < Len(q)
        BY <1>1, <3>2, <4>1, <4>2 DEF Linked
      <4>3. CASE ~(k - 1 < Len(q))
        BY <1>1, <3>2, <4>1, <4>3 DEF Linked
      <4> QED BY <4>2, <4>3
    <3> QED BY <3>1, <3>2
  <2> QED BY <2>1
<1>3. node = Step(node)
  BY <1>2
<1> HIDE DEF node
<1>4. \A k \in 0..MaxSends : node[k] = w[k]
  <2> DEFINE Bad == {k \in 0..MaxSends : node[k] # w[k]}
  <2>1. SUFFICES ASSUME Bad # {} PROVE FALSE
    OBVIOUS
  <2>2. PICK m \in Bad : \A k \in Bad : m <= k
    <3>1. Bad \in SUBSET Nat
      BY <1>1
    <3> HIDE DEF Bad
    <3>2. \E m \in Bad : \A k \in Bad : m <= k
      BY <2>1, <3>1, Least
    <3> QED BY <3>2
  <2>3. node[m] = Step(node)[m] /\ w[m] = Step(w)[m]
    BY <1>2, <1>3
  <2>4. m # 0
    BY <1>1, <2>2, <2>3
  <2>5. node[m - 1] = w[m - 1] /\ m - 1 \in 0..MaxSends
    BY <1>1, <2>2, <2>4
  <2> QED BY <1>1, <2>2, <2>3, <2>4, <2>5
<1>5. {j \in 0..MaxSends : node[j] # 0} = 0..(Len(q) - 1)
  <2>1. \A k \in 1..Len(q) : q[k] # 0
    BY <1>1 DEF Linked, Numbers
  <2>2. \A j \in 0..MaxSends : node[j] # 0 <=> j < Len(q)
    BY <1>1, <1>4, <2>1
  <2> QED BY <1>1, <2>2 DEF Linked
<1>6. Cardinality(0..(Len(q) - 1)) = Len(q)
  <2>1. 0 \in Int /\ Len(q) - 1 \in Int
    BY <1>1
  <2>2. Cardinality(0..(Len(q) - 1))
          = IF 0 > Len(q) - 1 THEN 0 ELSE (Len(q) - 1) - 0 + 1
    BY <2>1, FS_Interval, Zenon
  <2> QED BY <1>1, <2>2
<1>7. ChainFrom(head, next) = [k \in 1..Len(q) |-> node[k - 1]]
  BY <1>5, <1>6 DEF ChainFrom, node
<1>8. ASSUME NEW k \in 1..Len(q) PROVE node[k - 1] = q[k]
  BY <1>1, <1>4 DEF Linked
<1> QED BY <1>1, <1>7, <1>8 DEF Linked

\* q with n behind its first i elements.
Put(q, i, n) == SubSeq(q, 1, i) \o <<n>> \o SubSeq(q, i + 1, Len(q))

LEMMA PutProperties ==
  ASSUME NEW S, NEW q \in Seq(S), NEW n \in S, NEW i \in 0..Len(q)
  PROVE  /\ Put(q, i, n) \in Seq(S) /\ Len(Put(q, i, n)) = Len(q) + 1
         /\ \A k \in 1..(Len(q) + 1) :
              Put(q, i, n)[k] = IF k <= i THEN q[k] ELSE IF k = i + 1 THEN n ELSE q[k - 1]
<1>0. i \in Nat /\ Len(q) \in Nat /\ i <= Len(q)
  OBVIOUS
<1> DEFINE a == SubSeq(q, 1, i)
           b == SubSeq(q, i + 1, Len(q))
<1>1. a \in Seq(S) /\ Len(a) = i /\ \A k \in 1..i : a[k] = q[k]
  OBVIOUS
<1>2. b \in Seq(S) /\ Len(b) = Len(q) - i /\ \A k \in 1..(Len(q) - i) : b[k] = q[i + k]
  OBVIOUS
<1> HIDE DEF a, b
<1> DEFINE c == a \o <<n>>
<1>3. /\ c \in Seq(S) /\ Len(c) = i + 1
      /\ \A k \in 1..(i + 1) : c[k] = IF k <= i THEN q[k] ELSE n
  BY <1>1
<1> HIDE DEF c
<1>4. /\ c \o b \in Seq(S) /\ Len(c \o b) = Len(c) + Len(b)
      /\ \A k \in 1..(Len(c) + Len(b)) :
           (c \o b)[k] = IF k <= Len(c) THEN c[k] ELSE b[k - Len(c)]
  BY <1>2, <1>3, ConcatProperties
<1>5. ASSUME NEW k \in 1..(Len(q) + 1)
      PROVE  (c \o b)[k] = IF k <= i THEN q[k] ELSE IF k = i + 1 THEN n ELSE q[k - 1]
  <2>0. k \in Nat /\ k \in 1..(Len(c) + Len(b))
    BY <1>0, <1>2, <1>3
  <2>1. CASE k <= i + 1
    BY <1>0, <1>2, <1>3, <1>4, <2>0, <2>1
  <2>2. CASE k > i + 1
    <3>1. k - (i + 1) \in 1..(Len(q) - i) /\ i + (k - (i + 1)) = k - 1 /\ k - Len(c) = k - (i + 1)
      BY <1>0, <1>3, <2>0, <2>2
    <3>2. (c \o b)[k] = b[k - (i + 1)]
      BY <1>0, <1>3, <1>4, <2>0, <2>2, <3>1
    <3>3. b[k - (i + 1)] = q[k - 1]
      BY <1>2, <3>1
    <3> QED BY <1>0, <2>0, <2>2, <3>2, <3>3
  <2> QED BY <1>0, <2>0, <2>1, <2>2
<1>6. Put(q, i, n) = c \o b
  BY DEF Put, a, b, c
<1>7. Len(c) + Len(b) = Len(q) + 1
  BY <1>0, <1>2, <1>3
<1> QED BY <1>4, <1>5, <1>6, <1>7

\* A sorted list has no more elements than there are numbers.
LEMMA SortedFits ==
  ASSUME NEW q \in Seq(Numbers), Sorted(q)
  PROVE  Len(q) <= MaxSends
<1> DEFINE Bad == {k \in 1..Len(q) : q[k] < k}
<1>1. Bad = {}
  <2>1. SUFFICES ASSUME Bad # {} PROVE FALSE
    OBVIOUS
  <2>2. Bad \in SUBSET Nat
    OBVIOUS
  <2>3. PICK m \in Bad : \A k \in Bad : m <= k
    <3> HIDE DEF Bad
    <3> QED BY <2>1, <2>2, Least
  <2>4. m # 1
    <3>1. q[m] \in Numbers
      BY <2>3
    <3> QED BY <2>3, <3>1, Bounds DEF Numbers
  <2>5. m - 1 \in 1..Len(q) /\ ~ (q[m - 1] < m - 1) /\ q[m - 1] < q[m]
    BY <2>3, <2>4 DEF Sorted
  <2> QED BY <2>3, <2>5, Bounds DEF Numbers
<1> QED BY <1>1, Bounds DEF Numbers

\* Whether event n goes behind the first i of the sorted list q.
Between(q, i, n) == \A j \in 1..Len(q) : IF j <= i THEN q[j] < n ELSE q[j] > n

\* What queueEvent() makes of the links when it puts event n behind prev.
Prev(q, i) == IF i = 0 THEN 0 ELSE q[i]
Rest(head, next, prev) == IF prev = 0 THEN head ELSE next[prev]
NewHead(head, prev, n) == IF prev = 0 THEN n ELSE head
NewNext(head, next, prev, n) ==
  [next EXCEPT ![n] = Rest(head, next, prev), ![prev] = IF prev = 0 THEN 0 ELSE n]

LEMMA LinkPut ==
  ASSUME NEW q, NEW head, NEW next \in [0..MaxSends -> 0..MaxSends],
         Linked(q, head, next), Sorted(q),
         NEW n \in Numbers, NEW i \in 0..Len(q), Between(q, i, n)
  PROVE  /\ Sorted(Put(q, i, n))
         /\ Linked(Put(q, i, n), NewHead(head, Prev(q, i), n), NewNext(head, next, Prev(q, i), n))
         /\ Rest(head, next, Prev(q, i)) = 0 <=> i = Len(q)
<1> DEFINE p == Put(q, i, n)
           prev == Prev(q, i)
           rest == Rest(head, next, prev)
           new == NewNext(head, next, prev, n)
<1> USE DEF Prev, Rest, NewHead, NewNext
<1>0. n \in Nat \ {0} /\ i \in Nat /\ Len(q) \in Nat /\ i <= Len(q)
  BY Bounds DEF Numbers, Linked
<1>1. /\ q \in Seq(Numbers) /\ Len(q) \in Nat
      /\ \A k \in 1..Len(q) : q[k] \in Numbers /\ q[k] \in Nat \ {0}
  <2>1. q \in Seq(Numbers)
    BY DEF Linked
  <2>2. \A k \in 1..Len(q) : q[k] \in Numbers
    BY <2>1
  <2>3. Numbers \subseteq Nat \ {0}
    BY Bounds DEF Numbers
  <2> QED BY <1>0, <2>1, <2>2, <2>3
<1>2. /\ p \in Seq(Numbers) /\ Len(p) = Len(q) + 1
      /\ \A k \in 1..(Len(q) + 1) :
           p[k] = IF k <= i THEN q[k] ELSE IF k = i + 1 THEN n ELSE q[k - 1]
  BY <1>1, PutProperties
<1> HIDE DEF p
<1>3. Sorted(p)
  <2> SUFFICES ASSUME NEW j \in 1..Len(p), NEW k \in 1..Len(p), j < k PROVE p[j] < p[k]
    BY DEF Sorted
  <2>1. CASE j <= i /\ k <= i
    <3>1. j \in 1..Len(q) /\ k \in 1..Len(q) /\ p[j] = q[j] /\ p[k] = q[k]
      BY <1>0, <1>2, <2>1
    <3> QED BY <3>1 DEF Sorted
  <2>2. CASE j <= i /\ k = i + 1
    BY <1>1, <1>2, <2>2 DEF Between
  <2>3. CASE j <= i /\ k > i + 1
    <3>1. j \in 1..Len(q) /\ k - 1 \in 1..Len(q) /\ j < k - 1 /\ p[j] = q[j] /\ p[k] = q[k - 1]
      BY <1>0, <1>2, <2>3
    <3> QED BY <3>1 DEF Sorted
  <2>4. CASE j = i + 1
    BY <1>0, <1>1, <1>2, <2>4 DEF Between
  <2>5. CASE j > i + 1
    BY <1>1, <1>2, <2>5 DEF Sorted
  <2> QED BY <2>1, <2>2, <2>3, <2>4, <2>5
<1>4. Len(p) <= MaxSends
  BY <1>2, <1>3, SortedFits
<1>5. rest = IF i = Len(q) THEN 0 ELSE q[i + 1]
  BY <1>1 DEF Linked, Numbers
<1>6. rest = 0 <=> i = Len(q)
  BY <1>1, <1>5 DEF Numbers
<1>7. (IF prev = 0 THEN n ELSE head) = p[1] /\ p # <<>>
  BY <1>1, <1>2 DEF Linked, Numbers
<1>8. /\ new[0] = 0
      /\ \A m \in Numbers : new[m] = IF m = prev THEN n ELSE IF m = n THEN rest ELSE next[m]
  <2>1. n # prev /\ n \in 0..MaxSends /\ n # 0
    <3>1. i # 0 => i \in 1..Len(q) /\ q[i] < n /\ q[i] \in Nat
      BY <1>0, <1>1 DEF Between
    <3>2. n # prev
      BY <1>0, <3>1
    <3> QED BY <1>0, <3>2, Bounds DEF Numbers
  <2>2. 0 \in 0..MaxSends /\ next[0] = 0
    BY Bounds DEF Linked
  <2>3. \A m \in Numbers : m \in 0..MaxSends /\ m # 0
    BY Bounds DEF Numbers
  <2> QED BY <2>1, <2>2, <2>3
<1>9. ASSUME NEW k \in 1..Len(p)
      PROVE  new[p[k]] = IF k < Len(p) THEN p[k + 1] ELSE 0
  <2>1. CASE k < i
    <3>1. p[k] = q[k] /\ p[k + 1] = q[k + 1] /\ prev = q[i] /\ k \in 1..Len(q) /\ k < Len(q)
      BY <1>1, <1>2, <2>1
    <3>2. q[k] < q[i] /\ q[k] < n
      BY <1>1, <2>1, <3>1 DEF Sorted, Between
    <3>3. q[k] # prev /\ q[k] # n
      BY <1>0, <1>1, <3>1, <3>2
    <3>4. next[q[k]] = q[k + 1] /\ k < Len(p)
      BY <1>2, <3>1 DEF Linked
    <3> QED BY <1>1, <1>8, <3>1, <3>3, <3>4
  <2>2. CASE k = i
    <3>1. p[k] = prev /\ prev \in Numbers /\ p[k + 1] = n /\ k < Len(p)
      BY <1>1, <1>2, <2>2
    <3> QED BY <1>8, <3>1
  <2>3. CASE k = i + 1
    <3>1. p[k] = n /\ n # prev
      BY <1>0, <1>1, <1>2, <2>3 DEF Between
    <3>2. k < Len(p) => p[k + 1] = q[i + 1]
      BY <1>1, <1>2, <2>3
    <3>3. new[p[k]] = rest
      BY <1>8, <3>1
    <3>4. k < Len(p) <=> i # Len(q)
      BY <1>0, <1>2, <2>3
    <3> QED BY <1>5, <3>2, <3>3, <3>4
  <2>4. CASE k > i + 1
    <3>1. p[k] = q[k - 1] /\ k - 1 \in 1..Len(q) /\ k - 1 > i
      BY <1>1, <1>2, <2>4
    <3>2. q[k - 1] > n /\ (i # 0 => q[i] < q[k - 1])
      BY <1>1, <3>1 DEF Sorted, Between
    <3>3. q[k - 1] # prev /\ q[k - 1] # n
      BY <1>0, <1>1, <3>1, <3>2
    <3>4. k < Len(p) => p[k + 1] = q[k] /\ (k - 1) + 1 = k
      BY <1>1, <1>2, <2>4
    <3>5. next[q[k - 1]] = IF k < Len(p) THEN p[k + 1] ELSE 0
      <4>1. next[q[k - 1]] = IF k - 1 < Len(q) THEN q[(k - 1) + 1] ELSE 0
        BY <3>1 DEF Linked
      <4>2. k - 1 < Len(q) <=> k < Len(p)
        BY <1>0, <1>2
      <4> QED BY <1>0, <3>4, <4>1, <4>2
    <3> QED BY <1>1, <1>8, <3>1, <3>3, <3>5
  <2> QED BY <1>2, <2>1, <2>2, <2>3, <2>4
<1> QED BY <1>2, <1>3, <1>4, <1>6, <1>7, <1>8, <1>9 DEF Linked, p

LEMMA LinkTail ==
  ASSUME NEW q, NEW head, NEW next \in [0..MaxSends -> 0..MaxSends],
         Linked(q, head, next), Sorted(q), head # 0
  PROVE  /\ q # <<>> /\ Head(q) = head
         /\ Sorted(Tail(q)) /\ Len(Tail(q)) = Len(q) - 1
         /\ Linked(Tail(q), next[head], [next EXCEPT ![head] = 0])
         /\ next[head] = 0 <=> Tail(q) = <<>>
<1>1. q \in Seq(Numbers) /\ Len(q) \in Nat /\ q # <<>> /\ Len(q) > 0 /\ head = q[1]
  BY DEF Linked
<1>2. /\ Tail(q) \in Seq(Numbers) /\ Len(Tail(q)) = Len(q) - 1
      /\ \A k \in 1..(Len(q) - 1) : Tail(q)[k] = q[k + 1]
  BY <1>1
<1>3. Sorted(Tail(q))
  BY <1>1, <1>2 DEF Sorted
<1>4. \A k \in 1..Len(q) : q[k] \in Numbers /\ q[k] \in Nat \ {0} /\ q[k] \in 0..MaxSends
  <2>1. \A k \in 1..Len(q) : q[k] \in Numbers
    BY <1>1
  <2> QED BY <2>1, Bounds DEF Numbers
<1>5. next[head] = IF 1 < Len(q) THEN q[2] ELSE 0
  <2>1. 1 \in 1..Len(q) /\ 1 + 1 = 2
    BY <1>1
  <2>2. next[q[1]] = IF 1 < Len(q) THEN q[1 + 1] ELSE 0
    BY <2>1 DEF Linked
  <2> QED BY <1>1, <2>1, <2>2
<1>6. ASSUME NEW k \in 1..(Len(q) - 1)
      PROVE  [next EXCEPT ![head] = 0][q[k + 1]] = IF k < Len(q) - 1 THEN q[k + 2] ELSE 0
  <2>1. q[k + 1] # head /\ k + 1 \in 1..Len(q) /\ q[k + 1] \in 0..MaxSends
    BY <1>1, <1>4 DEF Sorted
  <2> QED BY <1>1, <2>1 DEF Linked
<1>7. Linked(Tail(q), next[head], [next EXCEPT ![head] = 0])
  <2> DEFINE new == [next EXCEPT ![head] = 0]
             t == Tail(q)
  <2>1. head \in 0..MaxSends /\ new[0] = 0
    BY <1>1, <1>4, Bounds DEF Linked
  <2>2. next[head] = IF t = <<>> THEN 0 ELSE t[1]
    <3>1. t = <<>> <=> ~ (1 < Len(q))
      BY <1>1, <1>2
    <3>2. 1 < Len(q) => t[1] = q[2]
      <4>1. 1 < Len(q) => 1 \in 1..(Len(q) - 1) /\ 1 + 1 = 2
        BY <1>1
      <4> QED BY <1>2, <4>1
    <3> QED BY <1>5, <3>1, <3>2
  <2>3. ASSUME NEW k \in 1..Len(t) PROVE new[t[k]] = IF k < Len(t) THEN t[k + 1] ELSE 0
    BY <1>2, <1>6
  <2>4. Len(t) <= MaxSends
    BY <1>1, <1>2, Bounds DEF Linked
  <2> QED BY <1>2, <2>1, <2>2, <2>3, <2>4 DEF Linked
<1>8. next[head] = 0 <=> Tail(q) = <<>>
  <2>1. Tail(q) = <<>> <=> ~ (1 < Len(q))
    BY <1>1, <1>2
  <2>2. 1 < Len(q) => q[2] # 0
    <3>1. 1 < Len(q) => 2 \in 1..Len(q)
      BY <1>1
    <3> QED BY <1>4, <3>1
  <2> QED BY <1>5, <2>1, <2>2
<1> QED BY <1>1, <1>2, <1>3, <1>7, <1>8

--------------------------------------------------------------------------
(* The inductive invariant *)

\* The linked list holds the events that wait, in the order of the calls of send(), with
\* the right length and tail, and what was taken was sent before them.
QueueInv ==
  /\ Linked(Chain, qhead, qnext) /\ Sorted(Chain)
  /\ queueLength = Len(Chain)
  /\ qtail = IF Chain = <<>> THEN 0 ELSE Chain[Len(Chain)]
  /\ taken \in 0..Len(events) /\ dropped \subseteq 1..Len(events)
  /\ \A k \in 1..Len(Chain) : taken < Chain[k] /\ Chain[k] <= Len(events)

\* The event that the walk f is queueing belongs right behind f.prev.
Place(q, f) ==
  \E i \in 0..Len(q) : f.prev = Prev(q, i) /\ Between(q, i, f.n)

\* The calls of queueEvent() in progress: nested in the order of their events, none of
\* which is queued, taken or dropped; a walk of idleTick() is at the bottom of the stack.
WalkInv ==
  /\ \A i \in 1..Len(stack) : stack[i].op = "normal" => i = 1
  /\ \A i \in 1..Len(stack) : stack[i].op = "urgent" =>
       /\ stack[i].n \in 1..Len(events) \ dropped /\ stack[i].n > taken
       /\ Place(Chain, stack[i])
  /\ \A i, j \in 1..Len(stack) :
       i < j /\ stack[i].op = "urgent" /\ stack[j].op = "urgent" => stack[i].n < stack[j].n

\* Only a listener that queues has events queued for it.
PendingInv ==
  \A l \in Registrations : pending[l] # <<>> => "QUEUE_IF_BUSY" \in l.flags

--------------------------------------------------------------------------
(* Types *)

LEMMA FrameTypes ==
  ASSUME NEW n \in Numbers
  PROVE  /\ \A op \in {"urgent", "normal"}, prev \in 0..MaxSends : Walk(op, n, prev) \in Frames
         /\ \A l \in Registrations : Callback(l, n) \in Frames
         /\ \A f \in Frames : /\ f.n \in Numbers /\ f.op \in {"urgent", "normal", "callback"}
                              /\ f.op = "callback" => f.l \in Registrations
                              /\ f.op # "callback" => f.prev \in 0..MaxSends
<1>1. \A op \in {"urgent", "normal"}, prev \in 0..MaxSends : Walk(op, n, prev) \in Frames
  BY DEF Walk, Frames
<1>2. \A l \in Registrations : Callback(l, n) \in Frames
  BY DEF Callback, Frames
<1>3. ASSUME NEW f \in Frames
      PROVE  /\ f.n \in Numbers /\ f.op \in {"urgent", "normal", "callback"}
             /\ f.op = "callback" => f.l \in Registrations
             /\ f.op # "callback" => f.prev \in 0..MaxSends
  BY <1>3 DEF Frames
<1> QED BY <1>1, <1>2, <1>3

\* A walk moved on to listener l.
LEMMA WalkMoves ==
  ASSUME NEW f \in Frames, f.op # "callback", NEW l \in Registrations, NEW b \in BOOLEAN
  PROVE  /\ [f EXCEPT !.at = {l}, !.complete = @ /\ b] \in Frames
         /\ [f EXCEPT !.at = {l}, !.complete = @ /\ b].op = f.op
         /\ [f EXCEPT !.at = {l}, !.complete = @ /\ b].n = f.n
         /\ [f EXCEPT !.at = {l}, !.complete = @ /\ b].prev = f.prev
BY DEF Frames

\* The stack pushed, popped, and with another frame on top.
LEMMA StackTypes ==
  ASSUME NEW st \in Seq(Frames), NEW f \in Frames
  PROVE  /\ Append(st, f) \in Seq(Frames)
         /\ st # <<>> => /\ st[Len(st)] \in Frames /\ SubSeq(st, 1, Len(st) - 1) \in Seq(Frames)
                         /\ [st EXCEPT ![Len(st)] = f] \in Seq(Frames)
OBVIOUS

\* No listener is ever deleted: the condition of deleteMarkedListeners() is never true.
LEMMA NothingDeleted == \A l : ~Deletable(l)
BY DEF Deletable, LogicalNot

LEMMA NothingRemoved ==
  ASSUME listeners \in Seq(Registrations), DeleteMarked
  PROVE  UNCHANGED <<listeners, deleting>>
<1> DEFINE L == listeners
           Step(f) == [i \in 0..Len(L) |-> IF i = 0 THEN <<>>
                                           ELSE IF Deletable(L[i]) THEN f[i - 1]
                                           ELSE Append(f[i - 1], L[i])]
           w == [i \in 0..Len(L) |-> SubSeq(L, 1, i)]
           kept == CHOOSE f : f = Step(f)
<1>1. w = Step(w)
  <2>1. ASSUME NEW i \in 0..Len(L) PROVE w[i] = Step(w)[i]
    <3>1. CASE i = 0
      BY <3>1
    <3>2. CASE i # 0
      <4>1. i \in 1..Len(L) /\ i - 1 \in 0..Len(L)
        BY <3>2
      <4>2. SubSeq(L, 1, i) = Append(SubSeq(L, 1, i - 1), L[i])
        <5>1. /\ SubSeq(L, 1, i - 1) \in Seq(Registrations) /\ Len(SubSeq(L, 1, i - 1)) = i - 1
              /\ \A k \in 1..(i - 1) : SubSeq(L, 1, i - 1)[k] = L[k]
          BY <4>1
        <5>2. /\ SubSeq(L, 1, i) \in Seq(Registrations) /\ Len(SubSeq(L, 1, i)) = i
              /\ \A k \in 1..i : SubSeq(L, 1, i)[k] = L[k]
          BY <4>1
        <5> DEFINE a == SubSeq(L, 1, i - 1)
                   b == SubSeq(L, 1, i)
        <5>3. L[i] \in Registrations
          BY <4>1
        <5> HIDE DEF a, b
        <5>4. b = Append(a, L[i])
          BY <4>1, <5>1, <5>2, <5>3 DEF a, b
        <5> QED BY <5>4 DEF a, b
      <4> QED BY <3>2, <4>1, <4>2, NothingDeleted
    <3> QED BY <3>1, <3>2
  <2> QED BY <2>1
<1>2. kept = Step(kept)
  BY <1>1
<1>3. listeners' = kept[Len(L)]
  BY DEF DeleteMarked
<1> HIDE DEF kept
<1>4. kept[Len(L)] = w[Len(L)]
  <2> DEFINE Bad == {k \in 0..Len(L) : kept[k] # w[k]}
  <2>1. SUFFICES ASSUME Bad # {} PROVE FALSE
    <3>1. Len(L) \in 0..Len(L)
      OBVIOUS
    <3> QED BY <3>1
  <2>2. PICK m \in Bad : \A k \in Bad : m <= k
    <3>1. Bad \in SUBSET Nat
      OBVIOUS
    <3> HIDE DEF Bad
    <3> QED BY <2>1, <3>1, Least
  <2>3. kept[m] = Step(kept)[m] /\ w[m] = Step(w)[m]
    BY <1>1, <1>2
  <2>4. m # 0
    BY <2>2, <2>3
  <2>5. m \in 0..Len(L) /\ m - 1 \in 0..Len(L) /\ ~ (m <= m - 1)
    BY <2>2, <2>4
  <2>6. kept[m - 1] = w[m - 1]
    BY <2>2, <2>5
  <2> QED BY <2>2, <2>3, <2>4, <2>5, <2>6
<1>5. w[Len(L)] = L
  OBVIOUS
<1>6. deleting' = deleting
  BY NothingDeleted DEF DeleteMarked
<1> QED BY <1>3, <1>4, <1>5, <1>6

\* The head of the list, when there is one, and what Dequeue leaves.
LEMMA HeadOfQueue ==
  ASSUME TypeOK, QueueInv, qhead # 0
  PROVE  qhead \in Numbers /\ Chain # <<>> /\ qhead = Chain[1] /\ queueLength > 0
<1>1. Chain \in Seq(Numbers) /\ Chain # <<>> /\ qhead = Chain[1]
  BY DEF QueueInv, Linked
<1> QED BY <1>1 DEF QueueInv

\* add() puts the listener in and takes none out.
LEMMA InsertedType ==
  ASSUME listeners \in Seq(Registrations), NEW r \in Registrations
  PROVE  /\ Inserted(r) \in Seq(Registrations)
         /\ \A i \in DOMAIN listeners : \E j \in DOMAIN Inserted(r) : Inserted(r)[j] = listeners[i]
<1> DEFINE S == {i \in DOMAIN listeners : Less(listeners[i], r)}
           before == Cardinality(S)
           k == IF before = 0 /\ listeners # <<>> /\ ~Less(r, listeners[1]) THEN 1 ELSE before
<1>1. before \in 0..Len(listeners)
  <2>1. IsFiniteSet(1..Len(listeners)) /\ Cardinality(1..Len(listeners)) = Len(listeners)
    <3>1. 1 \in Int /\ Len(listeners) \in Int /\ Len(listeners) >= 0
      OBVIOUS
    <3>2. /\ IsFiniteSet(1..Len(listeners))
          /\ Cardinality(1..Len(listeners))
               = IF 1 > Len(listeners) THEN 0 ELSE Len(listeners) - 1 + 1
      BY <3>1, FS_Interval, Zenon
    <3> QED BY <3>1, <3>2
  <2>2. S \in SUBSET (1..Len(listeners))
    OBVIOUS
  <2> HIDE DEF S
  <2>3. /\ IsFiniteSet(S) /\ Cardinality(S) <= Cardinality(1..Len(listeners))
    BY <2>1, <2>2, FS_Subset
  <2>4. Cardinality(S) \in Nat
    BY <2>3, FS_CardinalityType
  <2> QED BY <2>1, <2>3, <2>4
<1>2. k \in 0..Len(listeners)
  <2> HIDE DEF before
  <2>1. listeners # <<>> => Len(listeners) >= 1
    OBVIOUS
  <2> QED BY <1>1, <2>1
<1>3. Inserted(r) = SubSeq(listeners, 1, k) \o <<r>> \o SubSeq(listeners, k + 1, Len(listeners))
  BY DEF Inserted
<1> HIDE DEF k
<1>4. Inserted(r) = Put(listeners, k, r)
  BY <1>3 DEF Put
<1>5. /\ Put(listeners, k, r) \in Seq(Registrations) /\ k \in Nat
      /\ Len(Put(listeners, k, r)) = Len(listeners) + 1
      /\ \A m \in 1..(Len(listeners) + 1) :
           Put(listeners, k, r)[m]
             = IF m <= k THEN listeners[m] ELSE IF m = k + 1 THEN r ELSE listeners[m - 1]
  BY <1>2, PutProperties
<1>6. ASSUME NEW i \in DOMAIN listeners
      PROVE  \E j \in DOMAIN Inserted(r) : Inserted(r)[j] = listeners[i]
  <2>1. i \in Nat /\ i \in 1..Len(listeners)
    OBVIOUS
  <2>2. DOMAIN Inserted(r) = 1..(Len(listeners) + 1)
    BY <1>4, <1>5
  <2>3. CASE i <= k
    BY <1>4, <1>5, <2>1, <2>2, <2>3
  <2>4. CASE i > k
    <3>1. /\ i + 1 \in 1..(Len(listeners) + 1) /\ ~ (i + 1 <= k) /\ i + 1 # k + 1
          /\ (i + 1) - 1 = i
      BY <1>5, <2>1, <2>4
    <3> QED BY <1>4, <1>5, <2>2, <3>1
  <2> QED BY <1>5, <2>1, <2>3, <2>4
<1> QED BY <1>4, <1>5, <1>6

LEMMA NumbersType == Numbers \subseteq 0..MaxSends /\ 0 \in 0..MaxSends
BY Bounds DEF Numbers

LEMMA SmallTypes ==
  \A r \in Registrations : [source |-> ListenerId, value |-> r.id] \in [source : Nat, value : Nat]
BY Bounds, RegistrationsAssumption DEF Numbers, ListenerId
\* dequeueEvent() and the walk of the event it takes.
LEMMA DequeueTypes ==
  ASSUME TypeOK, QueueInv, NEW st \in Seq(Frames), Dequeue(st)
  PROVE  /\ stack' \in Seq(Frames) /\ qhead' \in 0..MaxSends /\ qtail' \in 0..MaxSends
         /\ qnext' \in [0..MaxSends -> 0..MaxSends] /\ queueLength' \in 0..Depth
         /\ taken' \in 0..MaxSends
<1>1. CASE qhead = 0
  BY <1>1 DEF Dequeue, TypeOK, queueVars
<1>2. CASE qhead # 0
  <2>1. qhead \in Numbers /\ qhead \in 0..MaxSends /\ queueLength > 0 /\ 0 \in 0..MaxSends
    BY <1>2, HeadOfQueue, NumbersType
  <2>2. Walk("normal", qhead, 0) \in Frames
    BY <2>1, FrameTypes
  <2>3. stack' \in Seq(Frames)
    BY <1>2, <2>2, StackTypes DEF Dequeue
  <2>4. /\ qtail \in 0..MaxSends /\ qnext \in [0..MaxSends -> 0..MaxSends]
        /\ queueLength \in 0..Depth
    BY DEF TypeOK
  <2>5. /\ qhead' = qnext[qhead] /\ qtail' = (IF qnext[qhead] = 0 THEN 0 ELSE qtail)
        /\ queueLength' = queueLength - 1 /\ qnext' = [qnext EXCEPT ![qhead] = 0]
        /\ taken' = qhead
    BY <1>2 DEF Dequeue
  <2>6. queueLength' \in 0..Depth
    BY <2>1, <2>4, <2>5, Bounds
  <2>7. qhead' \in 0..MaxSends /\ qtail' \in 0..MaxSends
    BY <2>1, <2>4, <2>5
  <2>8. qnext' \in [0..MaxSends -> 0..MaxSends]
    BY <2>1, <2>4, <2>5
  <2> QED BY <2>1, <2>3, <2>5, <2>6, <2>7, <2>8
<1> QED BY <1>1, <1>2

LEMMA EnteredTypes ==
  ASSUME TypeOK, Len(events) < MaxSends, NEW e \in [source : Nat, value : Nat]
  PROVE  /\ Entered(stack) \in Seq(Frames)
         /\ Append(events, e) \in Seq([source : Nat, value : Nat])
         /\ Len(Append(events, e)) <= MaxSends
<1>1. Len(events) + 1 \in Numbers
  <2>1. Len(events) \in Nat
    BY DEF TypeOK
  <2> QED BY <2>1, Bounds DEF Numbers
<1>2. Walk("urgent", Len(events) + 1, qtail) \in Frames
  BY <1>1, FrameTypes DEF TypeOK
<1>3. Entered(stack) \in Seq(Frames)
  BY <1>2, StackTypes DEF TypeOK, Entered
<1> QED BY <1>3, Bounds DEF TypeOK

LEMMA TypeStep == ASSUME TypeOK, QueueInv, [Next]_vars PROVE TypeOK'
<1> USE DEF listVars, queueVars
<1>1. CASE Deliver
  <2>1. PICK i \in NextCalls(Top) :
          LET l == listeners[i]
              passed == \E j \in Ahead(Top) : j < i
              st == SetTop([Top EXCEPT !.at = {l}, !.complete = @ /\ ~passed])
          IN  IF "NONBLOCKING" \in l.flags
              THEN Invoke(l, Top.n, st)
              ELSE stack' = st /\ UNCHANGED <<busy, pending>>
    BY <1>1 DEF Deliver
  <2> DEFINE l == listeners[i]
             b == ~(\E j \in Ahead(Top) : j < i)
             f == [Top EXCEPT !.at = {l}, !.complete = @ /\ b]
             st == SetTop(f)
  <2>2. l \in Registrations
    BY DEF NextCalls, Ahead, TypeOK
  <2>3. stack # <<>> /\ Top \in Frames /\ Top.op # "callback" /\ b \in BOOLEAN
    BY <1>1, StackTypes DEF Deliver, TypeOK, Top
  <2>4. f \in Frames
    <3> HIDE DEF l, b
    <3> QED BY <2>2, <2>3, WalkMoves
  <2>5. st \in Seq(Frames)
    <3> HIDE DEF f
    <3> QED BY <2>3, <2>4, StackTypes DEF SetTop, TypeOK
  <2>6. Top.n \in Numbers
    BY <2>3, FrameTypes DEF Frames
  <2>7. Invoke(l, Top.n, st) \/ (stack' = st /\ UNCHANGED <<busy, pending>>)
    BY <2>1
  <2> HIDE DEF l, st
  <2>8. stack' \in Seq(Frames)
    <3>1. Callback(l, Top.n) \in Frames
      BY <2>2, <2>6, FrameTypes
    <3> QED BY <2>5, <2>7, <3>1, StackTypes DEF Invoke
  <2>9. busy' \subseteq Registrations /\ pending' \in [Registrations -> Seq(Numbers)]
    <3>1. /\ busy \subseteq Registrations /\ pending \in [Registrations -> Seq(Numbers)]
          /\ Append(pending[l], Top.n) \in Seq(Numbers)
      BY <2>2, <2>6 DEF TypeOK
    <3>2. [pending EXCEPT ![l] = Append(@, Top.n)] \in [Registrations -> Seq(Numbers)]
      BY <3>1
    <3> QED BY <2>2, <2>7, <3>1, <3>2 DEF Invoke
  <2> QED BY <1>1, <2>8, <2>9 DEF Deliver, TypeOK
<1>2. CASE CallbackReturns
  <2>1. stack # <<>> /\ Top.op = "callback" /\ Top \in Frames
    BY <1>2, StackTypes DEF CallbackReturns, TypeOK, Top
  <2>2. Top.l \in Registrations
    BY <2>1 DEF Frames
  <2>3. CASE "QUEUE_IF_BUSY" \in Top.l.flags /\ pending[Top.l] # <<>>
    <3>1. pending[Top.l] \in Seq(Numbers)
      BY <2>2 DEF TypeOK
    <3>2. Head(pending[Top.l]) \in Numbers /\ Tail(pending[Top.l]) \in Seq(Numbers)
      BY <2>3, <3>1
    <3>3. Callback(Top.l, Head(pending[Top.l])) \in Frames
      BY <2>2, <3>2, FrameTypes
    <3>4. stack' \in Seq(Frames)
      <4>1. stack' = [stack EXCEPT ![Len(stack)] = Callback(Top.l, Head(pending[Top.l]))]
        BY <1>2, <2>3 DEF CallbackReturns, SetTop
      <4> QED BY <2>1, <3>3, <4>1, StackTypes DEF TypeOK
    <3> QED BY <1>2, <2>2, <2>3, <3>2, <3>4 DEF CallbackReturns, TypeOK
  <2>4. CASE ~("QUEUE_IF_BUSY" \in Top.l.flags /\ pending[Top.l] # <<>>)
    <3>1. stack' \in Seq(Frames)
      BY <1>2, <2>1, <2>4, StackTypes DEF CallbackReturns, Below, TypeOK
    <3> QED BY <1>2, <2>2, <2>4, <3>1 DEF CallbackReturns, TypeOK
  <2> QED BY <2>3, <2>4
<1>3. CASE QueueEvent
  <2>1. /\ stack # <<>> /\ Top \in Frames /\ Top.op = "urgent"
        /\ stack' \in Seq(Frames)
    BY <1>3, StackTypes DEF QueueEvent, Walked, TypeOK, Top, Below
  <2>2. Top.n \in Numbers /\ Top.prev \in 0..MaxSends
    BY <2>1 DEF Frames
  <2>3. CASE UNCHANGED queueVars
    <3>1. dropped' \subseteq Numbers
      BY <1>3, <2>2, <2>3 DEF QueueEvent, TypeOK
    <3> QED BY <1>3, <2>1, <2>3, <3>1 DEF QueueEvent, TypeOK
  <2>4. CASE ~Full /\ LinkedAfter(Top.prev, Top.n) /\ UNCHANGED dropped
    <3>1. Top.n \in 0..MaxSends
      BY <2>2, NumbersType
    <3>2. /\ qhead' \in 0..MaxSends /\ qtail' \in 0..MaxSends
          /\ qnext' \in [0..MaxSends -> 0..MaxSends] /\ queueLength' \in 0..Depth
      <4>1. /\ qhead \in 0..MaxSends /\ qtail \in 0..MaxSends /\ queueLength \in 0..Depth
            /\ qnext \in [0..MaxSends -> 0..MaxSends]
        BY DEF TypeOK
      <4>2. queueLength' \in 0..Depth
        BY <2>4, <4>1, Bounds DEF LinkedAfter, Full
      <4>3. qhead' \in 0..MaxSends /\ qtail' \in 0..MaxSends
        BY <2>2, <2>4, <3>1, <4>1 DEF LinkedAfter
      <4> DEFINE next == IF Top.prev = 0 THEN qhead ELSE qnext[Top.prev]
                 last == IF Top.prev = 0 THEN 0 ELSE Top.n
      <4>4. next \in 0..MaxSends /\ last \in 0..MaxSends
        BY <2>2, <3>1, <4>1
      <4>5. qnext' = [qnext EXCEPT ![Top.n] = next, ![Top.prev] = last]
        BY <2>4 DEF LinkedAfter
      <4> HIDE DEF next, last
      <4>6. qnext' \in [0..MaxSends -> 0..MaxSends]
        BY <2>2, <3>1, <4>1, <4>4, <4>5
      <4> QED BY <4>2, <4>3, <4>6
    <3> QED BY <1>3, <2>1, <2>4, <3>2 DEF QueueEvent, TypeOK
  <2> QED BY <1>3, <2>3, <2>4 DEF QueueEvent
<1>4. CASE IdleContinues
  <2>1. Below \in Seq(Frames)
    BY <1>4, StackTypes DEF IdleContinues, Walked, TypeOK, Below
  <2>2. CASE Dequeue(Below)
    BY <1>4, <2>1, <2>2, DequeueTypes DEF IdleContinues, TypeOK
  <2>3. CASE stack' = Below /\ UNCHANGED <<queueVars, taken>>
    BY <1>4, <2>1, <2>3 DEF IdleContinues, TypeOK
  <2> QED BY <1>4, <2>2, <2>3 DEF IdleContinues
<1>5. CASE IdleTick
  <2>1. UNCHANGED <<listeners, deleting>>
    BY <1>5, NothingRemoved DEF IdleTick, TypeOK
  <2>2. <<>> \in Seq(Frames)
    OBVIOUS
  <2> QED BY <1>5, <2>1, <2>2, DequeueTypes DEF IdleTick, TypeOK
<1>6. CASE Send
  BY <1>6, EnteredTypes, EventsAssumption DEF Send, TypeOK
<1>7. CASE Listen
  <2>0. calls' \in 0..MaxCalls
    BY <1>7, Bounds DEF Listen, TypeOK
  <2>1. CASE UNCHANGED <<listeners, events, stack>> /\ deleting' \subseteq deleting
    BY <1>7, <2>0, <2>1 DEF Listen, TypeOK
  <2>2. CASE \E r \in Registrations :
               /\ Len(events) < MaxSends /\ listeners' = Inserted(r)
               /\ events' = Append(events, [source |-> ListenerId, value |-> r.id])
               /\ stack' = Entered(stack)
               /\ UNCHANGED deleting
    <3>1. listeners' \in Seq(Registrations)
      BY <2>2, InsertedType DEF TypeOK
    <3>2. /\ stack' \in Seq(Frames) /\ events' \in Seq([source : Nat, value : Nat])
          /\ Len(events') <= MaxSends
      BY <2>2, EnteredTypes, SmallTypes
    <3> QED BY <1>7, <2>0, <2>2, <3>1, <3>2 DEF Listen, TypeOK
  <2> QED BY <1>7, <2>1, <2>2 DEF Listen
<1>8. CASE Ignore
  <2>1. deleting' \subseteq Registrations
    <3>1. \A id, value, handler : Removed(id, value, handler) \subseteq Registrations
      BY DEF Removed, TypeOK
    <3> QED BY <1>8, <3>1 DEF Ignore, TypeOK
  <2>2. calls' \in 0..MaxCalls
    BY <1>8, Bounds DEF Ignore, TypeOK
  <2> QED BY <1>8, <2>1, <2>2 DEF Ignore, TypeOK
<1>9. CASE UNCHANGED vars
  BY <1>9 DEF vars, TypeOK
<1> QED BY <1>1, <1>2, <1>3, <1>4, <1>5, <1>6, <1>7, <1>8, <1>9 DEF Next, BusStep

--------------------------------------------------------------------------
(* What the steps do to the queue *)

\* An event is sent: its walk goes on the stack.
Enters ==
  /\ Len(events) < MaxSends /\ Len(events') = Len(events) + 1
  /\ stack' = Entered(stack)
  /\ UNCHANGED <<queueVars, taken, dropped>>

\* Nothing is done with events but the calls of handlers: the walks that t has, s has.
SameWalks(s, t) ==
  \A i \in 1..Len(t) : \/ t[i].op = "callback"
                       \/ /\ i <= Len(s) /\ t[i].op = s[i].op
                          /\ t[i].n = s[i].n /\ t[i].prev = s[i].prev
Stays ==
  /\ Len(events') = Len(events) /\ SameWalks(stack, stack')
  /\ UNCHANGED <<queueVars, taken, dropped>>

\* The event at the head is taken, with no other event in progress.
Takes ==
  /\ qhead # 0 /\ Dequeue(<<>>)
  /\ Len(events') = Len(events) /\ UNCHANGED dropped

LEMMA StackWalks ==
  ASSUME NEW s \in Seq(Frames)
  PROVE  /\ SameWalks(s, s) /\ SameWalks(s, <<>>) /\ SameWalks(s, SubSeq(s, 1, Len(s) - 1))
         /\ \A f \in Frames : f.op = "callback" => SameWalks(s, Append(s, f))
         /\ \A f \in Frames :
              s # <<>> /\ (f.op = "callback" \/ (/\ f.op = s[Len(s)].op /\ f.n = s[Len(s)].n
                                                 /\ f.prev = s[Len(s)].prev))
              => SameWalks(s, [s EXCEPT ![Len(s)] = f])
<1>1. SameWalks(s, s) /\ SameWalks(s, <<>>)
  BY DEF SameWalks
<1>2. SameWalks(s, SubSeq(s, 1, Len(s) - 1))
  BY DEF SameWalks
<1>3. ASSUME NEW f \in Frames, f.op = "callback" PROVE SameWalks(s, Append(s, f))
  BY <1>3 DEF SameWalks
<1>4. ASSUME NEW f \in Frames, s # <<>>,
             f.op = "callback" \/ (/\ f.op = s[Len(s)].op /\ f.n = s[Len(s)].n
                                   /\ f.prev = s[Len(s)].prev)
      PROVE  SameWalks(s, [s EXCEPT ![Len(s)] = f])
  <2> DEFINE t == [s EXCEPT ![Len(s)] = f]
  <2>1. Len(t) = Len(s) /\ \A i \in 1..Len(s) : t[i] = IF i = Len(s) THEN f ELSE s[i]
    BY <1>4
  <2> HIDE DEF t
  <2>2. ASSUME NEW i \in 1..Len(s)
        PROVE  \/ t[i].op = "callback"
               \/ i <= Len(s) /\ t[i].op = s[i].op /\ t[i].n = s[i].n /\ t[i].prev = s[i].prev
    BY <1>4, <2>1
  <2>3. SameWalks(s, t)
    BY <2>1, <2>2 DEF SameWalks
  <2> QED BY <2>3 DEF t
<1> QED BY <1>1, <1>2, <1>3, <1>4

LEMMA SameWalksOver ==
  ASSUME NEW r \in Seq(Frames), NEW s \in Seq(Frames), NEW t \in Seq(Frames),
         SameWalks(r, s), SameWalks(s, t)
  PROVE  SameWalks(r, t)
BY DEF SameWalks

\* Every step is of one of these kinds.
LEMMA KindsOfStep ==
  ASSUME TypeOK, QueueInv, WalkInv, [Next]_vars
  PROVE  Enters \/ Stays \/ QueueEvent \/ Takes
<1> USE DEF listVars, queueVars
<1>0. stack \in Seq(Frames)
  BY DEF TypeOK
<1>1. CASE Deliver
  <2>1. PICK i \in NextCalls(Top) :
          LET l == listeners[i]
              passed == \E j \in Ahead(Top) : j < i
              st == SetTop([Top EXCEPT !.at = {l}, !.complete = @ /\ ~passed])
          IN  IF "NONBLOCKING" \in l.flags
              THEN Invoke(l, Top.n, st)
              ELSE stack' = st /\ UNCHANGED <<busy, pending>>
    BY <1>1 DEF Deliver
  <2> DEFINE l == listeners[i]
             b == ~(\E j \in Ahead(Top) : j < i)
             f == [Top EXCEPT !.at = {l}, !.complete = @ /\ b]
             st == SetTop(f)
  <2>2. l \in Registrations
    BY DEF NextCalls, Ahead, TypeOK
  <2>3. stack # <<>> /\ Top \in Frames /\ Top.op # "callback" /\ b \in BOOLEAN
    BY <1>0, <1>1, StackTypes DEF Deliver, Top
  <2>4. f \in Frames /\ f.op = Top.op /\ f.n = Top.n /\ f.prev = Top.prev
    <3> HIDE DEF l, b
    <3> QED BY <2>2, <2>3, WalkMoves
  <2>5. st \in Seq(Frames) /\ SameWalks(stack, st)
    <3> HIDE DEF f
    <3> QED BY <1>0, <2>3, <2>4, StackTypes, StackWalks DEF SetTop, Top
  <2>6. Callback(l, Top.n) \in Frames /\ Callback(l, Top.n).op = "callback"
    <3>1. Top.n \in Numbers
      BY <2>3 DEF Frames
    <3> QED BY <2>2, <3>1, FrameTypes DEF Callback
  <2>7. Invoke(l, Top.n, st) \/ (stack' = st /\ UNCHANGED <<busy, pending>>)
    BY <2>1
  <2> HIDE DEF l, st
  <2>8. SameWalks(stack, stack')
    <3>1. stack' = st \/ stack' = Append(st, Callback(l, Top.n))
      BY <2>7 DEF Invoke
    <3>2. SameWalks(st, st) /\ SameWalks(st, Append(st, Callback(l, Top.n)))
      BY <2>5, <2>6, StackWalks
    <3>3. Append(st, Callback(l, Top.n)) \in Seq(Frames)
      BY <2>5, <2>6, StackTypes
    <3> QED BY <1>0, <2>5, <3>1, <3>2, <3>3, SameWalksOver
  <2> QED BY <1>1, <2>8 DEF Deliver, Stays
<1>2. CASE CallbackReturns
  <2>1. stack # <<>> /\ Top.op = "callback" /\ Top \in Frames /\ Top.l \in Registrations
    BY <1>0, <1>2, StackTypes, FrameTypes DEF CallbackReturns, Top, Frames
  <2>2. CASE "QUEUE_IF_BUSY" \in Top.l.flags /\ pending[Top.l] # <<>>
    <3>1. Callback(Top.l, Head(pending[Top.l])) \in Frames
      <4>1. pending[Top.l] \in Seq(Numbers)
        BY <2>1 DEF TypeOK
      <4> QED BY <2>1, <2>2, <4>1, FrameTypes
    <3>2. stack' = [stack EXCEPT ![Len(stack)] = Callback(Top.l, Head(pending[Top.l]))]
      BY <1>2, <2>2 DEF CallbackReturns, SetTop
    <3> QED BY <1>0, <1>2, <2>1, <3>1, <3>2, StackWalks DEF CallbackReturns, Stays, Callback
  <2>3. CASE ~("QUEUE_IF_BUSY" \in Top.l.flags /\ pending[Top.l] # <<>>)
    BY <1>0, <1>2, <2>3, StackWalks DEF CallbackReturns, Stays, Below
  <2> QED BY <2>2, <2>3
<1>3. CASE IdleContinues
  <2>1. stack # <<>> /\ Top.op = "normal" /\ Len(stack) \in 1..Len(stack)
    BY <1>0, <1>3 DEF IdleContinues, Walked
  <2>2. Len(stack) = 1
    BY <2>1 DEF WalkInv, Top
  <2>3. Below = <<>>
    BY <1>0, <2>2 DEF Below
  <2>4. CASE qhead # 0 /\ Dequeue(Below)
    BY <1>3, <2>3, <2>4 DEF IdleContinues, Takes
  <2>5. CASE stack' = Below /\ UNCHANGED <<queueVars, taken>>
    BY <1>0, <1>3, <2>5, StackWalks DEF IdleContinues, Stays, Below
  <2> QED BY <1>3, <2>4, <2>5 DEF IdleContinues, Dequeue
<1>4. CASE IdleTick
  <2>1. CASE qhead # 0
    BY <1>4, <2>1 DEF IdleTick, Takes
  <2>2. CASE qhead = 0
    BY <1>0, <1>4, <2>2, StackWalks DEF IdleTick, Dequeue, Stays
  <2> QED BY <2>1, <2>2
<1>5. CASE Send
  BY <1>5 DEF Send, Enters, TypeOK
<1>6. CASE Listen
  <2>1. CASE UNCHANGED <<listeners, events, stack>>
    BY <1>0, <1>6, <2>1, StackWalks DEF Listen, Stays
  <2>2. CASE \E r \in Registrations :
               /\ Len(events) < MaxSends /\ stack' = Entered(stack)
               /\ events' = Append(events, [source |-> ListenerId, value |-> r.id])
    BY <1>6, <2>2 DEF Listen, Enters, TypeOK
  <2> QED BY <1>6, <2>1, <2>2 DEF Listen
<1>7. CASE Ignore
  BY <1>0, <1>7, StackWalks DEF Ignore, Stays
<1>8. CASE UNCHANGED vars
  BY <1>0, <1>8, StackWalks DEF vars, Stays
<1> QED BY <1>1, <1>2, <1>3, <1>4, <1>5, <1>6, <1>7, <1>8 DEF Next, BusStep

--------------------------------------------------------------------------
(* The invariant is kept, and what becomes of the queue *)

LEMMA ChainAfter ==
  ASSUME NEW q, Linked(q, qhead', qnext')
  PROVE  Chain' = q
BY ChainIsList DEF Chain

LEMMA ChainKept == ASSUME UNCHANGED queueVars PROVE Chain' = Chain
BY DEF Chain, queueVars

LEMMA TopOfChain ==
  ASSUME QueueInv
  PROVE  /\ Chain \in Seq(Numbers) /\ Len(Chain) \in Nat
         /\ \A k \in 1..Len(Chain) : Chain[k] \in Nat \ {0}
         /\ qtail = IF 0 < Len(Chain) THEN Chain[Len(Chain)] ELSE 0
<1>1. Chain \in Seq(Numbers)
  BY DEF QueueInv, Linked
<1>2. Numbers \subseteq Nat \ {0}
  BY Bounds DEF Numbers
<1>3. \A k \in 1..Len(Chain) : Chain[k] \in Numbers
  BY <1>1, ElementOfSeq
<1>4. \A k \in 1..Len(Chain) : Chain[k] \in Nat \ {0}
  BY <1>2, <1>3
<1>5. Chain = <<>> <=> ~ (0 < Len(Chain))
  BY <1>1
<1> QED BY <1>1, <1>4, <1>5 DEF QueueInv

LEMMA EntersKeeps ==
  ASSUME TypeOK, QueueInv, WalkInv, Enters
  PROVE  QueueInv' /\ WalkInv' /\ Chain' = Chain
<1> DEFINE N == Len(events) + 1
           f == Walk("urgent", N, qtail)
<1>1. Len(events) \in Nat /\ stack \in Seq(Frames) /\ f \in Frames /\ N \in Nat
  <2>1. Len(events) \in Nat /\ stack \in Seq(Frames)
    BY DEF TypeOK
  <2>2. N \in Numbers
    BY <2>1, Bounds DEF Enters, Numbers
  <2> HIDE DEF N
  <2>3. f \in Frames
    BY <2>2, FrameTypes DEF TypeOK
  <2> QED BY <2>1, <2>3 DEF N
<1>2. Chain' = Chain
  BY ChainKept DEF Enters
<1>3. QueueInv'
  BY <1>1, <1>2, TopOfChain DEF QueueInv, Enters, queueVars
<1>4. stack' = Append(stack, f) /\ f.op = "urgent" /\ f.n = N /\ f.prev = qtail
  BY DEF Enters, Entered, Walk
<1> HIDE DEF f
<1>5. /\ Len(stack') = Len(stack) + 1 /\ Len(stack) \in Nat
      /\ \A i \in 1..Len(stack) : stack'[i] = stack[i]
      /\ stack'[Len(stack) + 1] = f
  BY <1>1, <1>4
<1>6. Place(Chain, f)
  <2>1. Between(Chain, Len(Chain), f.n)
    BY <1>1, <1>4, TopOfChain DEF Between, QueueInv
  <2> QED BY <1>4, <2>1, TopOfChain DEF Place, Prev
<1>7. f.n \in 1..Len(events') \ dropped' /\ f.n > taken'
  BY <1>1, <1>4 DEF Enters, QueueInv
<1>8. ASSUME NEW i \in 1..Len(stack), stack[i].op = "urgent"
      PROVE  /\ stack[i].n \in 1..Len(events') \ dropped' /\ stack[i].n > taken'
             /\ Place(Chain, stack[i]) /\ stack[i].n < f.n
  BY <1>1, <1>4, <1>8 DEF WalkInv, Enters
<1>9. \A i \in 1..Len(stack') : stack'[i].op = "urgent" =>
        /\ stack'[i].n \in 1..Len(events') \ dropped' /\ stack'[i].n > taken'
        /\ Place(Chain', stack'[i])
  BY <1>2, <1>5, <1>6, <1>7, <1>8
<1>10. \A i \in 1..Len(stack') : stack'[i].op = "normal" => i = 1
  BY <1>4, <1>5 DEF WalkInv
<1>11. \A i, j \in 1..Len(stack') :
         i < j /\ stack'[i].op = "urgent" /\ stack'[j].op = "urgent" => stack'[i].n < stack'[j].n
  <2> SUFFICES ASSUME NEW i \in 1..Len(stack'), NEW j \in 1..Len(stack'), i < j,
                      stack'[i].op = "urgent", stack'[j].op = "urgent"
               PROVE  stack'[i].n < stack'[j].n
    OBVIOUS
  <2>1. i \in 1..Len(stack) /\ stack'[i] = stack[i]
    BY <1>5
  <2>2. CASE j = Len(stack) + 1
    BY <1>5, <1>8, <2>1, <2>2
  <2>3. CASE j # Len(stack) + 1
    <3>1. j \in 1..Len(stack) /\ stack'[j] = stack[j]
      BY <1>5, <2>3
    <3> QED BY <2>1, <3>1 DEF WalkInv
  <2> QED BY <2>2, <2>3
<1> QED BY <1>2, <1>3, <1>9, <1>10, <1>11 DEF WalkInv

LEMMA StaysKeeps ==
  ASSUME TypeOK, TypeOK', QueueInv, WalkInv, Stays
  PROVE  QueueInv' /\ WalkInv' /\ Chain' = Chain
<1>1. stack \in Seq(Frames) /\ stack' \in Seq(Frames) /\ Len(stack) \in Nat /\ Len(stack') \in Nat
  BY DEF TypeOK
<1>2. Chain' = Chain
  BY ChainKept DEF Stays
<1>3. QueueInv'
  BY <1>2 DEF QueueInv, Stays, queueVars
<1>4. ASSUME NEW i \in 1..Len(stack'), stack'[i].op # "callback"
      PROVE  /\ i \in 1..Len(stack) /\ stack'[i].op = stack[i].op
             /\ stack'[i].n = stack[i].n /\ stack'[i].prev = stack[i].prev
  BY <1>1, <1>4 DEF Stays, SameWalks
<1>5. ASSUME NEW i \in 1..Len(stack'), stack'[i].op = "urgent"
      PROVE  /\ stack'[i].n \in 1..Len(events') \ dropped' /\ stack'[i].n > taken'
             /\ Place(Chain', stack'[i])
  BY <1>2, <1>4, <1>5 DEF WalkInv, Stays, Place
<1>6. \A i \in 1..Len(stack') : stack'[i].op = "normal" => i = 1
  BY <1>4 DEF WalkInv
<1>7. \A i, j \in 1..Len(stack') :
        i < j /\ stack'[i].op = "urgent" /\ stack'[j].op = "urgent" => stack'[i].n < stack'[j].n
  BY <1>4 DEF WalkInv
<1> QED BY <1>2, <1>3, <1>5, <1>6, <1>7 DEF WalkInv

LEMMA TakesKeeps ==
  ASSUME TypeOK, QueueInv, WalkInv, Takes
  PROVE  /\ QueueInv' /\ WalkInv'
         /\ Chain # <<>> /\ Chain' = Tail(Chain) /\ taken' = Head(Chain)
<1>1. /\ qhead' = qnext[qhead] /\ qtail' = (IF qnext[qhead] = 0 THEN 0 ELSE qtail)
      /\ queueLength' = queueLength - 1 /\ qnext' = [qnext EXCEPT ![qhead] = 0]
      /\ stack' = <<Walk("normal", qhead, 0)>> /\ taken' = qhead
      /\ Len(events') = Len(events) /\ dropped' = dropped /\ qhead # 0
  BY DEF Takes, Dequeue
<1>2. qnext \in [0..MaxSends -> 0..MaxSends] /\ Len(events) \in Nat
  BY DEF TypeOK
<1> DEFINE q == Chain
           t == Tail(q)
<1>3. q \in Seq(Numbers) /\ Linked(q, qhead, qnext) /\ Sorted(q) /\ Len(q) \in Nat
  BY TopOfChain DEF QueueInv
<1>4. /\ q # <<>> /\ Head(q) = qhead
      /\ Sorted(t) /\ Len(t) = Len(q) - 1
      /\ Linked(t, qhead', qnext')
      /\ qnext[qhead] = 0 <=> t = <<>>
  <2>1. /\ q # <<>> /\ Head(q) = qhead
        /\ Sorted(Tail(q)) /\ Len(Tail(q)) = Len(q) - 1
        /\ Linked(Tail(q), qnext[qhead], [qnext EXCEPT ![qhead] = 0])
        /\ qnext[qhead] = 0 <=> Tail(q) = <<>>
    BY <1>1, <1>2, <1>3, LinkTail
  <2> QED BY <1>1, <2>1
<1>5. Chain' = t
  BY <1>4, ChainAfter
<1>6. t \in Seq(Numbers) /\ \A k \in 1..Len(t) : t[k] = q[k + 1] /\ k + 1 \in 1..Len(q)
  BY <1>3, <1>4
<1>7. qtail' = IF t = <<>> THEN 0 ELSE t[Len(t)]
  <2>1. qtail = q[Len(q)]
    BY <1>4 DEF QueueInv
  <2>2. t # <<>> => Len(t) \in 1..Len(t) /\ Len(t) + 1 = Len(q)
    BY <1>3, <1>4, <1>6
  <2> QED BY <1>1, <1>4, <1>6, <2>1, <2>2
<1>8. qhead = q[1] /\ 1 \in 1..Len(q)
  BY <1>3, <1>4
<1>9. taken' \in 0..Len(events')
  BY <1>1, <1>8, TopOfChain DEF QueueInv
<1>10. \A k \in 1..Len(t) : taken' < t[k] /\ t[k] <= Len(events')
  BY <1>1, <1>6, <1>8 DEF QueueInv, Sorted
<1>11. queueLength' = Len(t) /\ dropped' \subseteq 1..Len(events')
  BY <1>1, <1>4 DEF QueueInv
<1>12. QueueInv'
  <2> HIDE DEF t
  <2> QED BY <1>4, <1>5, <1>7, <1>9, <1>10, <1>11 DEF QueueInv
<1>13. WalkInv'
  <2>1. Len(stack') = 1 /\ stack'[1].op = "normal"
    BY <1>1 DEF Walk
  <2> QED BY <2>1 DEF WalkInv
<1> QED BY <1>1, <1>4, <1>5, <1>12, <1>13

\* An event that an inner call has queued leaves the place of an earlier one where it was.
LEMMA PlaceKept ==
  ASSUME NEW q \in Seq(Numbers), NEW i \in 0..Len(q), NEW n \in Numbers, Between(q, i, n),
         NEW g, g.n \in Nat, g.n < n, Place(q, g)
  PROVE  Place(Put(q, i, n), g)
<1>0. n \in Nat /\ Len(q) \in Nat /\ i \in Nat /\ \A k \in 1..Len(q) : q[k] \in Nat
  <2>1. \A k \in 1..Len(q) : q[k] \in Numbers
    OBVIOUS
  <2>2. Numbers \subseteq Nat
    BY Bounds DEF Numbers
  <2>3. Len(q) \in Nat /\ i \in Nat
    OBVIOUS
  <2>4. n \in Nat /\ \A k \in 1..Len(q) : q[k] \in Nat
    BY <2>1, <2>2
  <2> QED BY <2>3, <2>4
<1> DEFINE p == Put(q, i, n)
<1>1. /\ Len(p) = Len(q) + 1
      /\ \A k \in 1..(Len(q) + 1) :
           p[k] = IF k <= i THEN q[k] ELSE IF k = i + 1 THEN n ELSE q[k - 1]
  BY PutProperties
<1> HIDE DEF p
<1>2. PICK j \in 0..Len(q) : g.prev = (IF j = 0 THEN 0 ELSE q[j]) /\ Between(q, j, g.n)
  BY DEF Place, Prev
<1>3. j <= i
  <2>1. SUFFICES ASSUME i < j PROVE FALSE
    BY <1>0
  <2>2. j \in 1..Len(q) /\ ~ (j <= i)
    BY <1>0, <2>1
  <2>3. q[j] < g.n /\ q[j] > n
    BY <1>0, <1>2, <2>2 DEF Between
  <2> QED BY <1>0, <2>2, <2>3
<1>4. j \in 0..Len(p) /\ g.prev = IF j = 0 THEN 0 ELSE p[j]
  BY <1>0, <1>1, <1>2, <1>3
<1>5. ASSUME NEW k \in 1..Len(p) PROVE IF k <= j THEN p[k] < g.n ELSE p[k] > g.n
  <2>1. CASE k <= i
    BY <1>0, <1>1, <1>2, <1>3, <2>1 DEF Between
  <2>2. CASE k = i + 1
    BY <1>0, <1>1, <1>3, <2>2
  <2>3. CASE k > i + 1
    <3>1. k - 1 \in 1..Len(q) /\ ~ (k - 1 <= j) /\ ~ (k <= j) /\ p[k] = q[k - 1]
      BY <1>0, <1>1, <1>3, <2>3
    <3> QED BY <1>2, <3>1 DEF Between
  <2> QED BY <1>0, <2>1, <2>2, <2>3
<1> QED BY <1>4, <1>5 DEF Place, Prev, Between, p

LEMMA Popped ==
  ASSUME NEW S, NEW s \in Seq(S), s # <<>>
  PROVE  /\ Len(SubSeq(s, 1, Len(s) - 1)) = Len(s) - 1
         /\ \A i \in 1..Len(SubSeq(s, 1, Len(s) - 1)) : SubSeq(s, 1, Len(s) - 1)[i] = s[i]
<1>1. Len(s) \in Nat /\ 1 <= Len(s)
  OBVIOUS
<1>2. Len(SubSeq(s, 1, Len(s) - 1)) = Len(s) - 1
  BY <1>1
<1>3. \A i \in 1..(Len(s) - 1) : SubSeq(s, 1, Len(s) - 1)[i] = s[i]
  BY <1>1
<1> QED BY <1>2, <1>3

\* The walks below the one on top, when it is over.
LEMMA BelowTop ==
  ASSUME TypeOK, WalkInv, stack # <<>>, Top.op = "urgent", stack' = Below
  PROVE  /\ Len(stack') = Len(stack) - 1 /\ Len(stack) \in Nat
         /\ Top.n \in 1..Len(events) \ dropped /\ Top.n > taken /\ Place(Chain, Top)
         /\ \A i \in 1..Len(stack') :
              /\ stack'[i] = stack[i] /\ i \in 1..Len(stack)
              /\ stack[i].op = "urgent" => stack[i].n < Top.n
<1>1. stack \in Seq(Frames) /\ Len(stack) \in 1..Len(stack)
  BY DEF TypeOK
<1>2. Len(stack') = Len(stack) - 1 /\ \A i \in 1..Len(stack') : stack'[i] = stack[i]
  BY <1>1, Popped DEF Below
<1>3. /\ Top.n \in 1..Len(events) \ dropped /\ Top.n > taken /\ Place(Chain, Top)
      /\ \A i \in 1..Len(stack) : i < Len(stack) /\ stack[i].op = "urgent" => stack[i].n < Top.n
  BY <1>1 DEF WalkInv, Top
<1>4. ASSUME NEW i \in 1..Len(stack') PROVE i \in 1..Len(stack) /\ i < Len(stack)
  BY <1>1, <1>2
<1> QED BY <1>1, <1>2, <1>3, <1>4

LEMMA BelowKeeps ==
  ASSUME TypeOK, WalkInv, stack # <<>>, Top.op = "urgent", stack' = Below,
         Len(events') = Len(events), taken' = taken, dropped' \subseteq dropped \cup {Top.n},
         \A g : g.n \in Nat /\ g.n < Top.n /\ Place(Chain, g) => Place(Chain', g)
  PROVE  WalkInv'
<1>1. ASSUME NEW i \in 1..Len(stack'), stack'[i].op = "urgent"
      PROVE  /\ stack'[i].n \in 1..Len(events') \ dropped' /\ stack'[i].n > taken'
             /\ Place(Chain', stack'[i])
  <2>1. /\ i \in 1..Len(stack) /\ stack'[i] = stack[i] /\ stack[i].op = "urgent"
        /\ stack[i].n < Top.n
    BY <1>1, BelowTop
  <2>2. stack[i].n \in 1..Len(events) \ dropped /\ stack[i].n > taken /\ Place(Chain, stack[i])
    BY <2>1 DEF WalkInv
  <2>3. Top.n \in 1..Len(events)
    BY BelowTop
  <2>4. Len(events) \in Nat /\ stack[i].n \in Nat /\ stack[i].n # Top.n
    <3>1. Len(events) \in Nat
      BY DEF TypeOK
    <3> QED BY <2>1, <2>2, <2>3, <3>1
  <2> QED BY <2>1, <2>2, <2>4
<1>2. \A i \in 1..Len(stack') : stack'[i].op = "normal" => i = 1
  BY BelowTop DEF WalkInv
<1>3. \A i, j \in 1..Len(stack') :
        i < j /\ stack'[i].op = "urgent" /\ stack'[j].op = "urgent" => stack'[i].n < stack'[j].n
  BY BelowTop DEF WalkInv
<1> QED BY <1>1, <1>2, <1>3 DEF WalkInv

LEMMA QueueEventKeeps ==
  ASSUME TypeOK, QueueInv, WalkInv, QueueEvent
  PROVE  /\ QueueInv' /\ WalkInv'
         /\ \/ UNCHANGED <<Chain, taken, dropped>>
            \/ \E n \in 1..MaxSends : Queue!Accept(n) \/ Queue!Refuse(n)
<1> DEFINE q == Chain
           n == Top.n
<1>1. stack # <<>> /\ Top.op = "urgent" /\ stack' = Below /\ events' = events /\ taken' = taken
  BY DEF QueueEvent, Walked
<1>2. n \in 1..Len(events) \ dropped /\ n > taken /\ Place(Chain, Top)
  BY <1>1, BelowTop
<1>3. q \in Seq(Numbers) /\ Linked(q, qhead, qnext) /\ Sorted(q) /\ Len(q) \in Nat
  BY TopOfChain DEF QueueInv
<1>4. /\ qnext \in [0..MaxSends -> 0..MaxSends] /\ Len(events) \in Nat
      /\ queueLength \in 0..Depth /\ Len(events) <= MaxSends
  BY DEF TypeOK
<1>5. n \in Numbers /\ n \in Nat
  <2>1. n \in Nat /\ 1 <= n /\ n <= Len(events)
    BY <1>2, <1>4
  <2> QED BY <1>4, <2>1, Bounds DEF Numbers
<1>6. PICK i \in 0..Len(q) : Top.prev = Prev(q, i) /\ Between(q, i, n)
  BY <1>2 DEF Place
<1>7. n \notin {q[k] : k \in DOMAIN q}
  <2>1. \A k \in 1..Len(q) : q[k] # n /\ q[k] \in Nat
    BY <1>5, <1>6, TopOfChain DEF Between
  <2>2. DOMAIN q = 1..Len(q)
    BY <1>3
  <2> QED BY <2>1, <2>2
<1>8. CASE UNCHANGED <<queueVars, dropped>>
  <2>1. Chain' = Chain
    BY <1>8, ChainKept
  <2>2. WalkInv'
    BY <1>1, <1>8, <2>1, BelowKeeps
  <2> QED BY <1>1, <1>8, <2>1, <2>2 DEF QueueInv, queueVars
<1>9. CASE Full /\ dropped' = dropped \cup {n} /\ UNCHANGED queueVars
  <2>1. Chain' = Chain
    BY <1>9, ChainKept
  <2>2. WalkInv'
    BY <1>1, <1>9, <2>1, BelowKeeps
  <2>3. QueueInv'
    BY <1>1, <1>2, <1>9, <2>1 DEF QueueInv, queueVars
  <2>4. Len(Chain) = Depth
    BY <1>4, <1>9, Bounds DEF Full, QueueInv
  <2>5. Queue!Refuse(n)
    BY <1>1, <1>2, <1>7, <1>9, <2>1, <2>4 DEF Queue!Refuse, Queue!Waiting
  <2> QED BY <1>5, <2>2, <2>3, <2>5 DEF Numbers
<1>10. CASE ~Full /\ LinkedAfter(Top.prev, n) /\ UNCHANGED dropped
  <2> DEFINE prev == Top.prev
             rest == Rest(qhead, qnext, prev)
             p == Put(q, i, n)
  <2>1. /\ qhead' = NewHead(qhead, prev, n) /\ qnext' = NewNext(qhead, qnext, prev, n)
        /\ qtail' = (IF rest = 0 THEN n ELSE qtail)
        /\ queueLength' = queueLength + 1
    BY <1>10 DEF LinkedAfter, NewHead, NewNext, Rest
  <2>2. /\ Sorted(p)
        /\ rest = 0 <=> i = Len(q)
        /\ Linked(p, NewHead(qhead, prev, n), NewNext(qhead, qnext, prev, n))
    <3>1. prev = Prev(q, i)
      BY <1>6
    <3> HIDE DEF prev, q, n
    <3> QED BY <1>3, <1>4, <1>5, <1>6, <3>1, LinkPut
  <2>3. Linked(p, qhead', qnext') /\ Chain' = p
    BY <2>1, <2>2, ChainAfter
  <2>4. /\ Len(p) = Len(q) + 1
        /\ \A k \in 1..(Len(q) + 1) :
             p[k] = IF k <= i THEN q[k] ELSE IF k = i + 1 THEN n ELSE q[k - 1]
    <3> HIDE DEF q, n
    <3> QED BY <1>3, <1>5, <1>6, PutProperties
  <2>5. WalkInv'
    <3>1. \A g : g.n \in Nat /\ g.n < n /\ Place(q, g) => Place(p, g)
      BY <1>3, <1>5, <1>6, PlaceKept
    <3> QED BY <1>1, <1>10, <2>3, <3>1, BelowKeeps
  <2>6. qtail' = IF p = <<>> THEN 0 ELSE p[Len(p)]
    <3>1. p # <<>> /\ Len(p) \in 1..(Len(q) + 1)
      BY <1>3, <2>3, <2>4 DEF Linked
    <3>2. CASE i = Len(q)
      BY <1>3, <2>1, <2>2, <2>4, <3>1, <3>2
    <3>3. CASE i # Len(q)
      <4>1. ~ (Len(p) <= i) /\ Len(p) # i + 1 /\ Len(p) - 1 = Len(q) /\ 0 < Len(q)
        BY <1>3, <2>4, <3>3
      <4>2. p[Len(p)] = q[Len(q)]
        BY <2>4, <3>1, <4>1
      <4>3. qtail = q[Len(q)]
        BY <4>1, TopOfChain
      <4> QED BY <2>1, <2>2, <3>1, <3>3, <4>2, <4>3
    <3> QED BY <3>2, <3>3
  <2>7. \A k \in 1..Len(p) : taken' < p[k] /\ p[k] <= Len(events')
    <3>1. \A k \in 1..Len(q) : taken < q[k] /\ q[k] <= Len(events)
      BY DEF QueueInv
    <3>2. taken < n /\ n <= Len(events)
      BY <1>2, <1>4
    <3>3. ASSUME NEW k \in 1..Len(p), k # i + 1
          PROVE  \E j \in 1..Len(q) : p[k] = q[j]
      <4>1. CASE k <= i
        BY <1>3, <2>4, <4>1
      <4>2. CASE k > i + 1
        <5>1. k - 1 \in 1..Len(q) /\ p[k] = q[k - 1]
          BY <1>3, <2>4, <4>2
        <5> QED BY <5>1
      <4> QED BY <1>3, <2>4, <3>3, <4>1, <4>2
    <3>4. p[i + 1] = n
      BY <1>3, <2>4
    <3> HIDE DEF p, q, n
    <3> QED BY <1>1, <3>1, <3>2, <3>3, <3>4
  <2>8. QueueInv'
    <3>1. queueLength' = Len(p)
      BY <2>1, <2>4 DEF QueueInv
    <3>2. taken' \in 0..Len(events') /\ dropped' \subseteq 1..Len(events')
      BY <1>1, <1>10 DEF QueueInv
    <3> HIDE DEF p
    <3> QED BY <2>2, <2>3, <2>6, <2>7, <3>1, <3>2 DEF QueueInv
  <2>9. Queue!Accept(n)
    <3>1. Len(Chain) < Depth
      BY <1>4, <1>10, Bounds DEF Full, QueueInv
    <3>2. \A j \in DOMAIN Chain : IF j <= i THEN Chain[j] < n ELSE Chain[j] > n
      BY <1>3, <1>6 DEF Between
    <3>3. Chain' = Queue!Placed(n, i)
      BY <2>3 DEF Put, Queue!Placed
    <3> QED BY <1>1, <1>2, <1>7, <1>10, <3>1, <3>2, <3>3 DEF Queue!Accept, Queue!Waiting
  <2> QED BY <1>5, <2>5, <2>8, <2>9 DEF Numbers
<1> QED BY <1>8, <1>9, <1>10 DEF QueueEvent

--------------------------------------------------------------------------
(* A handler that may not be entered twice is not *)

\* The activations of listener l on the stack s.
Calls(s, l) == {i \in 1..Len(s) : s[i].op = "callback" /\ s[i].l = l}

LEMMA ActiveCalls ==
  ASSUME stack \in Seq(Frames), stack' \in Seq(Frames)
  PROVE  \A l : Active(l) = Calls(stack, l) /\ Active(l)' = Calls(stack', l)
BY DEF Active, Calls

LEMMA CallsOfNothing == \A l : Calls(<<>>, l) = {}
BY DEF Calls

LEMMA CallsPushed ==
  ASSUME NEW s \in Seq(Frames), NEW f \in Frames, NEW l
  PROVE  Calls(Append(s, f), l)
           = Calls(s, l) \cup (IF f.op = "callback" /\ f.l = l THEN {Len(s) + 1} ELSE {})
<1>1. /\ Len(Append(s, f)) = Len(s) + 1 /\ Append(s, f)[Len(s) + 1] = f /\ Len(s) \in Nat
      /\ \A i \in 1..Len(s) : Append(s, f)[i] = s[i]
  OBVIOUS
<1> QED BY <1>1 DEF Calls

LEMMA CallsUnder ==
  ASSUME NEW s \in Seq(Frames), NEW f \in Frames, f.op # "callback", NEW l
  PROVE  Calls(Append(s, f), l) = Calls(s, l)
<1>1. Calls(Append(s, f), l) = Calls(s, l) \cup {}
  BY CallsPushed
<1> QED BY <1>1

LEMMA CallsPopped ==
  ASSUME NEW s \in Seq(Frames), s # <<>>, NEW l
  PROVE  Calls(SubSeq(s, 1, Len(s) - 1), l) = Calls(s, l) \ {Len(s)}
BY Popped DEF Calls

LEMMA CallsReplaced ==
  ASSUME NEW s \in Seq(Frames), s # <<>>, NEW f \in Frames, NEW l,
         (f.op = "callback" /\ f.l = l)
           <=> (s[Len(s)].op = "callback" /\ s[Len(s)].l = l)
  PROVE  Calls([s EXCEPT ![Len(s)] = f], l) = Calls(s, l)
<1>1. /\ Len([s EXCEPT ![Len(s)] = f]) = Len(s)
      /\ \A i \in 1..Len(s) : [s EXCEPT ![Len(s)] = f][i] = IF i = Len(s) THEN f ELSE s[i]
  OBVIOUS
<1> QED BY <1>1 DEF Calls

\* Calls, BUSY flags and queues as they were.
LEMMA SerialKept ==
  ASSUME TypeOK, TypeOK', SerialInv, PendingInv, UNCHANGED <<busy, pending>>,
         \A l : Calls(stack', l) = Calls(stack, l)
  PROVE  SerialInv' /\ PendingInv'
<1>1. \A l : Active(l)' = Active(l)
  BY ActiveCalls DEF TypeOK
<1> QED BY <1>1 DEF SerialInv, PendingInv

LEMMA DequeueCalls ==
  ASSUME TypeOK, QueueInv, NEW st \in Seq(Frames), Dequeue(st), NEW l
  PROVE  Calls(stack', l) = Calls(st, l)
<1>1. CASE qhead = 0
  BY <1>1 DEF Dequeue
<1>2. CASE qhead # 0
  <2>1. Walk("normal", qhead, 0) \in Frames
    BY <1>2, HeadOfQueue, NumbersType, FrameTypes
  <2>2. Walk("normal", qhead, 0).op # "callback"
    BY DEF Walk
  <2>3. stack' = Append(st, Walk("normal", qhead, 0))
    BY <1>2 DEF Dequeue
  <2> QED BY <2>1, <2>2, <2>3, CallsUnder
<1> QED BY <1>1, <1>2

LEMMA SerialStep ==
  ASSUME TypeOK, TypeOK', QueueInv, SerialInv, PendingInv, [Next]_vars
  PROVE  SerialInv' /\ PendingInv'
<1>0. stack \in Seq(Frames) /\ stack' \in Seq(Frames)
  BY DEF TypeOK
<1>1. CASE Deliver
  <2>1. PICK i \in NextCalls(Top) :
          LET l == listeners[i]
              passed == \E j \in Ahead(Top) : j < i
              st == SetTop([Top EXCEPT !.at = {l}, !.complete = @ /\ ~passed])
          IN  IF "NONBLOCKING" \in l.flags
              THEN Invoke(l, Top.n, st)
              ELSE stack' = st /\ UNCHANGED <<busy, pending>>
    BY <1>1 DEF Deliver
  <2> DEFINE l == listeners[i]
             b == ~(\E j \in Ahead(Top) : j < i)
             f == [Top EXCEPT !.at = {l}, !.complete = @ /\ b]
             st == SetTop(f)
  <2>2. l \in Registrations
    BY DEF NextCalls, Ahead, TypeOK
  <2>3. stack # <<>> /\ Top \in Frames /\ Top.op # "callback" /\ b \in BOOLEAN
    BY <1>0, <1>1, StackTypes DEF Deliver, Top
  <2>4. f \in Frames /\ f.op = Top.op
    <3> HIDE DEF l, b
    <3> QED BY <2>2, <2>3, WalkMoves
  <2>5. st \in Seq(Frames) /\ \A k : Calls(st, k) = Calls(stack, k)
    <3> HIDE DEF f
    <3>1. st \in Seq(Frames)
      BY <1>0, <2>3, <2>4, StackTypes DEF SetTop
    <3>2. ASSUME NEW k PROVE Calls(st, k) = Calls(stack, k)
      BY <1>0, <2>3, <2>4, CallsReplaced DEF SetTop, Top
    <3> QED BY <3>1, <3>2
  <2>6. Callback(l, Top.n) \in Frames /\ Callback(l, Top.n).op = "callback"
        /\ Callback(l, Top.n).l = l
    <3>1. Top.n \in Numbers
      BY <2>3 DEF Frames
    <3> QED BY <2>2, <3>1, FrameTypes DEF Callback
  <2>7. Invoke(l, Top.n, st) \/ (stack' = st /\ UNCHANGED <<busy, pending>>)
    BY <2>1
  <2> HIDE DEF l, st
  <2>8. CASE UNCHANGED <<busy, pending>> /\ stack' = st
    BY <2>5, <2>8, SerialKept
  <2>9. CASE /\ l \notin busy \/ ~Serial(l)
             /\ busy' = busy \cup {l} /\ UNCHANGED pending
             /\ stack' = Append(st, Callback(l, Top.n))
    <3>1. ASSUME NEW k
          PROVE  Calls(stack', k)
                   = IF k = l THEN Calls(stack, l) \cup {Len(st) + 1} ELSE Calls(stack, k)
      <4>1. Calls(stack', k) = Calls(st, k) \cup (IF k = l THEN {Len(st) + 1} ELSE {})
        BY <2>5, <2>6, <2>9, CallsPushed
      <4> QED BY <2>5, <4>1
    <3>2. \A k : Active(k)' = IF k = l THEN Active(l) \cup {Len(st) + 1} ELSE Active(k)
      BY <1>0, <3>1, ActiveCalls
    <3>3. Serial(l) => Active(l) = {}
      BY <2>2, <2>9 DEF SerialInv
    <3> QED BY <2>2, <2>9, <3>2, <3>3 DEF SerialInv, PendingInv
  <2>10. CASE /\ l \in busy /\ "QUEUE_IF_BUSY" \in l.flags
              /\ UNCHANGED busy /\ pending' = [pending EXCEPT ![l] = Append(@, Top.n)]
              /\ stack' = st
    <3>1. \A k : Active(k)' = Active(k)
      BY <1>0, <2>5, <2>10, ActiveCalls
    <3>2. \A k \in Registrations : pending'[k] = IF k = l THEN Append(pending[l], Top.n) ELSE pending[k]
      BY <2>2, <2>10 DEF TypeOK
    <3> QED BY <2>2, <2>10, <3>1, <3>2 DEF SerialInv, PendingInv
  <2> QED BY <2>2, <2>7, <2>8, <2>9, <2>10 DEF Invoke, Serial, TypeOK
<1>2. CASE CallbackReturns
  <2>1. stack # <<>> /\ Top.op = "callback" /\ Top \in Frames /\ Top.l \in Registrations
    BY <1>0, <1>2, StackTypes DEF CallbackReturns, Top, Frames
  <2>2. CASE "QUEUE_IF_BUSY" \in Top.l.flags /\ pending[Top.l] # <<>>
    <3> DEFINE f == Callback(Top.l, Head(pending[Top.l]))
    <3>1. /\ stack' = [stack EXCEPT ![Len(stack)] = f] /\ UNCHANGED busy
          /\ pending' = [pending EXCEPT ![Top.l] = Tail(@)]
      BY <1>2, <2>2 DEF CallbackReturns, SetTop
    <3>2. f \in Frames /\ f.op = "callback" /\ f.l = Top.l
      <4>1. pending[Top.l] \in Seq(Numbers)
        BY <2>1 DEF TypeOK
      <4> QED BY <2>1, <2>2, <4>1, FrameTypes DEF Callback
    <3>3. ASSUME NEW l PROVE Calls(stack', l) = Calls(stack, l)
      <4> HIDE DEF f
      <4>1. (f.op = "callback" /\ f.l = l)
              <=> (stack[Len(stack)].op = "callback" /\ stack[Len(stack)].l = l)
        BY <2>1, <3>2 DEF Top
      <4>2. Calls([stack EXCEPT ![Len(stack)] = f], l) = Calls(stack, l)
        BY <1>0, <2>1, <3>2, <4>1, CallsReplaced
      <4> QED BY <3>1, <4>2
    <3>4. \A l : Active(l)' = Active(l)
      BY <1>0, <3>3, ActiveCalls
    <3>5. \A l \in Registrations : pending'[l] # <<>> => pending[l] # <<>>
      BY <2>1, <2>2, <3>1 DEF TypeOK
    <3> QED BY <3>1, <3>4, <3>5 DEF SerialInv, PendingInv
  <2>3. CASE ~("QUEUE_IF_BUSY" \in Top.l.flags /\ pending[Top.l] # <<>>)
    <3>0. PICK t : t = Top.l
      OBVIOUS
    <3>1. busy' = busy \ {t} /\ stack' = Below /\ UNCHANGED pending
      BY <1>2, <2>3, <3>0 DEF CallbackReturns
    <3>2. ASSUME NEW l PROVE Calls(stack', l) = Calls(stack, l) \ {Len(stack)}
      BY <1>0, <2>1, <3>1, CallsPopped DEF Below
    <3>3. \A l : Active(l)' = Active(l) \ {Len(stack)}
      BY <1>0, <3>2, ActiveCalls
    <3>4. \A l : Len(stack) \in Active(l) <=> l = t
      BY <1>0, <2>1, <3>0 DEF Active, Top
    <3>5. Serial(t) => Active(t)' = {}
      <4>1. Len(stack) \in Active(t)
        BY <3>4
      <4>2. Serial(t) => \A i \in Active(t) : i = Len(stack)
        BY <2>1, <3>0, <4>1 DEF SerialInv
      <4>3. Active(t)' = Active(t) \ {Len(stack)}
        BY <3>3
      <4> QED BY <4>2, <4>3
    <3>6. \A l : l # t => Active(l)' = Active(l)
      BY <3>3, <3>4
    <3>7. pending[t] = <<>>
      BY <2>1, <2>3, <3>0 DEF PendingInv
    <3>8. ASSUME NEW l \in Registrations, Serial(l)
          PROVE  /\ \A i, j \in Active(l)' : i = j
                 /\ l \in busy' <=> Active(l)' # {}
                 /\ pending'[l] # <<>> => l \in busy'
      <4>1. CASE l = t
        BY <3>1, <3>5, <3>7, <3>8, <4>1
      <4>2. CASE l # t
        <5>1. Active(l)' = Active(l) /\ (l \in busy' <=> l \in busy) /\ pending'[l] = pending[l]
          BY <3>1, <3>6, <4>2
        <5>2. /\ \A i, j \in Active(l) : i = j
              /\ l \in busy <=> Active(l) # {}
              /\ pending[l] # <<>> => l \in busy
          BY <3>8 DEF SerialInv
        <5> QED BY <5>1, <5>2
      <4> QED BY <4>1, <4>2
    <3> QED BY <3>1, <3>8 DEF SerialInv, PendingInv
  <2> QED BY <2>2, <2>3
<1>3. CASE QueueEvent
  <2>1. stack # <<>> /\ Top.op = "urgent" /\ stack' = Below /\ UNCHANGED <<busy, pending>>
    BY <1>3 DEF QueueEvent, Walked
  <2>2. \A l : Len(stack) \notin Calls(stack, l)
    BY <2>1 DEF Calls, Top
  <2>3. ASSUME NEW l PROVE Calls(stack', l) = Calls(stack, l)
    <3>1. Calls(stack', l) = Calls(stack, l) \ {Len(stack)}
      BY <1>0, <2>1, CallsPopped DEF Below
    <3> QED BY <2>2, <3>1
  <2> QED BY <2>1, <2>3, SerialKept
<1>4. CASE IdleContinues
  <2>1. stack # <<>> /\ Top.op = "normal" /\ UNCHANGED <<busy, pending>>
    BY <1>4 DEF IdleContinues, Walked
  <2>2. Below \in Seq(Frames) /\ \A l : Calls(Below, l) = Calls(stack, l)
    <3>1. \A l : Len(stack) \notin Calls(stack, l)
      BY <2>1 DEF Calls, Top
    <3>2. ASSUME NEW l PROVE Calls(Below, l) = Calls(stack, l)
      <4>1. Calls(Below, l) = Calls(stack, l) \ {Len(stack)}
        BY <1>0, <2>1, CallsPopped DEF Below
      <4> QED BY <3>1, <4>1
    <3>3. Below \in Seq(Frames)
      BY <1>0, <2>1, StackTypes DEF Below
    <3> QED BY <3>2, <3>3
  <2>3. \A l : Calls(stack', l) = Calls(Below, l)
    BY <1>4, <2>2, DequeueCalls DEF IdleContinues
  <2> QED BY <2>1, <2>2, <2>3, SerialKept
<1>5. CASE IdleTick
  <2>1. stack = <<>> /\ <<>> \in Seq(Frames) /\ UNCHANGED <<busy, pending>>
    BY <1>5 DEF IdleTick
  <2>2. \A l : Calls(stack', l) = Calls(stack, l)
    BY <1>5, <2>1, DequeueCalls DEF IdleTick
  <2> QED BY <2>1, <2>2, SerialKept
<1>6. CASE Send \/ Listen
  <2>1. UNCHANGED <<busy, pending>> /\ (stack' = stack \/ stack' = Entered(stack))
    BY <1>6 DEF Send, Listen
  <2>2. CASE stack' = Entered(stack)
    <3> DEFINE f == Walk("urgent", Len(events) + 1, qtail)
    <3>1. stack' = Append(stack, f) /\ f.op # "callback"
      BY <2>2 DEF Entered, Walk
    <3>2. f \in Frames
      <4>1. stack'[Len(stack) + 1] = f /\ Len(stack) + 1 \in 1..Len(stack')
        BY <1>0, <3>1
      <4> QED BY <1>0, <4>1, ElementOfSeq
    <3>3. ASSUME NEW l PROVE Calls(stack', l) = Calls(stack, l)
      <4>1. Calls(Append(stack, f), l) = Calls(stack, l)
        <5> HIDE DEF f
        <5> QED BY <1>0, <3>1, <3>2, CallsUnder
      <4> QED BY <3>1, <4>1
    <3> QED BY <2>1, <3>3, SerialKept
  <2> QED BY <2>1, <2>2, SerialKept
<1>7. CASE Ignore \/ UNCHANGED vars
  BY <1>7, SerialKept DEF Ignore, vars
<1> QED BY <1>1, <1>2, <1>3, <1>4, <1>5, <1>6, <1>7 DEF Next, BusStep

--------------------------------------------------------------------------
(* The theorems *)

BusInv == TypeOK /\ QueueInv /\ WalkInv /\ SerialInv /\ PendingInv

LEMMA BusInit ==
  ASSUME Init
  PROVE  BusInv /\ Chain = <<>>
<1>1. Chain = <<>> /\ Linked(<<>>, qhead, qnext)
  <2>1. <<>> \in Seq(Numbers) /\ ~ (0 < Len(<<>>)) /\ Len(<<>>) <= MaxSends
    BY Bounds
  <2>2. qnext[0] = 0 /\ qhead = 0
    BY NumbersType DEF Init
  <2>3. \A k \in 1..Len(<<>>) : FALSE
    BY <2>1
  <2>4. Linked(<<>>, qhead, qnext)
    BY <2>1, <2>2, <2>3 DEF Linked
  <2> QED BY <2>4, ChainIsList DEF Chain
<1>2. QueueInv
  <2>1. Len(<<>>) = 0 /\ 1..Len(<<>>) = {}
    OBVIOUS
  <2>2. Sorted(<<>>)
    BY <2>1 DEF Sorted
  <2>3. taken \in 0..Len(events) /\ dropped \subseteq 1..Len(events) /\ qtail = 0
        /\ queueLength = 0
    BY DEF Init
  <2> QED BY <1>1, <2>1, <2>2, <2>3 DEF QueueInv
<1>3. TypeOK
  <2>1. /\ listeners \in Seq(Registrations) /\ stack \in Seq(Frames)
        /\ events \in Seq([source : Nat, value : Nat]) /\ Len(events) <= MaxSends
    BY Bounds DEF Init
  <2>2. pending \in [Registrations -> Seq(Numbers)] /\ qnext \in [0..MaxSends -> 0..MaxSends]
    BY NumbersType DEF Init
  <2>3. /\ qhead \in 0..MaxSends /\ qtail \in 0..MaxSends /\ queueLength \in 0..Depth
        /\ calls \in 0..MaxCalls /\ taken \in 0..MaxSends
    BY Bounds DEF Init
  <2> QED BY <2>1, <2>2, <2>3 DEF Init, TypeOK
<1>4. WalkInv /\ SerialInv /\ PendingInv
  <2>1. stack = <<>> /\ 1..Len(stack) = {} /\ DOMAIN stack = {}
    BY DEF Init
  <2>2. \A l \in Registrations : pending[l] = <<>> /\ l \notin busy
    BY DEF Init
  <2> QED BY <2>1, <2>2 DEF WalkInv, SerialInv, PendingInv, Active
<1> QED BY <1>1, <1>2, <1>3, <1>4 DEF BusInv

\* A step keeps the invariant, and is a step of EventQueue or leaves its variables alone.
LEMMA BusStepKeeps ==
  ASSUME BusInv, [Next]_vars
  PROVE  BusInv' /\ [Queue!Next]_(Queue!vars)
<1> USE DEF BusInv
<1>1. TypeOK'
  BY TypeStep
<1>2. SerialInv' /\ PendingInv'
  BY <1>1, SerialStep
<1>3. Enters \/ Stays \/ QueueEvent \/ Takes
  BY KindsOfStep
<1>4. CASE Enters
  BY <1>1, <1>2, <1>4, EntersKeeps DEF Enters, Queue!vars
<1>5. CASE Stays
  BY <1>1, <1>2, <1>5, StaysKeeps DEF Stays, Queue!vars
<1>6. CASE Takes
  <2>1. /\ QueueInv' /\ WalkInv' /\ Chain # <<>> /\ Chain' = Tail(Chain) /\ taken' = Head(Chain)
    BY <1>1, <1>6, TakesKeeps
  <2>2. Queue!Take
    BY <1>6, <2>1 DEF Takes, Queue!Take
  <2> QED BY <1>1, <1>2, <2>1, <2>2 DEF Queue!Next
<1>7. CASE QueueEvent
  <2>1. /\ QueueInv' /\ WalkInv'
        /\ \/ UNCHANGED <<Chain, taken, dropped>>
           \/ \E n \in 1..MaxSends : Queue!Accept(n) \/ Queue!Refuse(n)
    BY <1>1, <1>7, QueueEventKeeps
  <2> QED BY <1>1, <1>2, <2>1 DEF Queue!Next, Queue!vars
<1> QED BY <1>3, <1>4, <1>5, <1>6, <1>7

LEMMA BusInvariant == Spec => []BusInv
<1>1. Init => BusInv
  BY BusInit
<1>2. BusInv /\ [Next]_vars => BusInv'
  BY BusStepKeeps
<1> QED BY <1>1, <1>2, PTL DEF Spec

\* Every variable keeps its type, whatever the handlers call: in particular no pointer of
\* the queue leaves the events, and the length stays between 0 and Depth.
THEOREM BusTypeCorrect == Spec => []TypeOK
<1>1. BusInv => TypeOK
  BY DEF BusInv
<1> QED BY <1>1, BusInvariant, PTL

\* The linked list of queueEvent() and dequeueEvent() is whole, and the pointer into it that
\* each queueEvent() in progress keeps is never to an event that has left it.
THEOREM ListWhole == Spec => []ChainInv
<1>1. ASSUME BusInv PROVE ChainInv
  <2>1. ASSUME NEW i \in DOMAIN stack, stack[i].op = "urgent", stack[i].prev # 0
        PROVE  \E k \in DOMAIN Chain : Chain[k] = stack[i].prev
    <3>1. PICK k \in 0..Len(Chain) : stack[i].prev = Prev(Chain, k)
      <4>1. i \in 1..Len(stack)
        BY <1>1 DEF BusInv, TypeOK
      <4> QED BY <1>1, <2>1, <4>1 DEF BusInv, WalkInv, Place
    <3>2. k \in 1..Len(Chain) /\ Chain[k] = stack[i].prev
      BY <2>1, <3>1 DEF Prev
    <3>3. DOMAIN Chain = 1..Len(Chain)
      BY <1>1 DEF BusInv, QueueInv, Linked
    <3> QED BY <3>2, <3>3
  <2> QED BY <1>1, <2>1 DEF ChainInv, BusInv, QueueInv
<1> QED BY <1>1, BusInvariant, PTL

\* However deep the handlers call the bus again, a listener that drops or queues events
\* while it is busy is entered once at a time (the BUSY flag of async_callback()).
THEOREM HandlersSerial == Spec => []SerialInv
<1>1. BusInv => SerialInv
  BY DEF BusInv
<1> QED BY <1>1, BusInvariant, PTL

\* The bus implements the abstract queue: queueEvent() puts an event at its place in the
\* order of the calls of send(), although its urgent handlers have queued events meanwhile.
THEOREM ListIsQueue == Spec => OrderedQueue
<1>1. Init => Queue!Init
  BY BusInit DEF Init, Queue!Init
<1>2. BusInv /\ [Next]_vars => [Queue!Next]_(Queue!vars)
  BY BusStepKeeps
<1> QED BY <1>1, <1>2, BusInvariant, PTL DEF Spec, OrderedQueue, Queue!Spec

\* Who is registered stays so: ignore() only marks a listener, and deleteMarkedListeners()
\* removes none of the marked, for its !l->flags & MESSAGE_BUS_LISTENER_BUSY is 0.
ListenersStay ==
  \A i \in DOMAIN listeners : \E j \in DOMAIN listeners' : listeners'[j] = listeners[i]

\* No step of the bus takes a listener off its list.
THEOREM NoListenerDeleted == Spec => [][ListenersStay]_vars
<1>1. ASSUME BusInv, [Next]_vars PROVE [ListenersStay]_vars
  <2>1. CASE UNCHANGED listeners
    BY <2>1 DEF ListenersStay
  <2>2. CASE IdleTick
    BY <1>1, <2>2, NothingRemoved DEF IdleTick, BusInv, TypeOK, ListenersStay
  <2>3. CASE Listen
    <3>1. UNCHANGED listeners \/ \E r \in Registrations : listeners' = Inserted(r)
      BY <2>3 DEF Listen
    <3> QED BY <1>1, <2>1, <3>1, InsertedType DEF BusInv, TypeOK, ListenersStay
  <2>4. CASE Deliver \/ CallbackReturns \/ QueueEvent \/ IdleContinues \/ Send \/ Ignore
    BY <2>1, <2>4 DEF Deliver, CallbackReturns, QueueEvent, IdleContinues, Send, Ignore, listVars
  <2> QED BY <1>1, <2>2, <2>3, <2>4 DEF Next, BusStep
<1> QED BY <1>1, BusInvariant, PTL DEF Spec
=============================================================================
