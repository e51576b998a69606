---------------------------- MODULE SerialProofs ----------------------------
(***************************************************************************)
(* The indices and bytes of the serial port keep their types for every     *)
(* size of ring, although two threads may add to it at once: the head is   *)
(* always written as a loaded head plus one, modulo the size.              *)
(* For a VM that polls, and a user who leaves room in the ring, the ring   *)
(* is the queue of SerialFifo, and the echo filter drops exactly what the  *)
(* VM echoes: at every read the ring still holds what its echoes are       *)
(* compared with.                                                          *)
(***************************************************************************)
EXTENDS SerialPort, TLAPS

(* While main is inside serial_add_byte there is a byte to add. *)
Sending == pc["main"] \in {"load", "advance"} => input # <<>>

(* Moving on by any number of slots stays inside the ring. *)
LEMMA SlotArithmetic ==
    /\ 0 \in Slots
    /\ \A i \in Slots : NextSlot(i) \in Slots
    /\ \A i \in Slots, k \in Nat : (i + k) % Size \in Slots
    /\ \A i, j \in Slots : (j - i) % Size \in Nat
BY SizeAssumption DEF Slots, NextSlot

(* The bytes between two slots form a sequence. *)
LEMMA BetweenLength ==
    ASSUME NEW i \in Slots, NEW j \in Slots
    PROVE  Len(Between(i, j)) \in Nat
<1>1. (j - i) % Size \in Nat
  BY SlotArithmetic
<1> DEFINE d == (j - i) % Size
<1>2. d \in Nat
  BY <1>1
<1> HIDE DEF d
<1>3. Between(i, j) = [k \in 1..d |-> serial_buffer[(i + k - 1) % Size]]
  BY DEF Between, d
<1> QED BY <1>2, <1>3

(* What serial_getc changes. *)
LEMMA GetcTypes ==
    ASSUME TypeOK, Getc
    PROVE  /\ serial_buffer_tail' \in Slots
           /\ got' \in Bytes
           /\ line' \in Seq(Bytes)
           /\ seen' \subseteq Control
<1> DEFINE c == serial_buffer[serial_buffer_tail]
<1>1. c \in Bytes
  BY DEF TypeOK
<1>2. serial_buffer_tail' \in Slots
  BY SlotArithmetic DEF Getc, TypeOK
<1>3. line' = Append(line, c)
  BY DEF Getc
<1>4. line' \in Seq(Bytes)
  BY <1>1, <1>3 DEF TypeOK
<1>5. seen' \subseteq Control
  BY DEF Getc, TypeOK
<1>6. got' \in Bytes
  BY <1>1 DEF Getc
<1> QED BY <1>2, <1>4, <1>5, <1>6

(* What serial_putc changes. *)
LEMMA PutcTypes ==
    ASSUME TypeOK, NEW c \in Bytes, Putc(c)
    PROVE  /\ serial_buffer_echo' \in Slots
           /\ out' \in Bytes \cup {None}
<1>1. serial_buffer_echo \in Slots /\ serial_buffer_tail \in Slots
  BY DEF TypeOK
<1>2. Len(NotEchoed) \in Nat
  BY <1>1, BetweenLength DEF NotEchoed
<1>3. \/ serial_buffer_echo' = serial_buffer_tail
      \/ \E k \in 1..Len(NotEchoed) : serial_buffer_echo' = (serial_buffer_echo + k) % Size
  BY DEF Putc
<1>4. serial_buffer_echo' \in Slots
  <2>1. CASE serial_buffer_echo' = serial_buffer_tail
    BY <1>1, <2>1
  <2>2. ASSUME NEW k \in 1..Len(NotEchoed),
               serial_buffer_echo' = (serial_buffer_echo + k) % Size
        PROVE  serial_buffer_echo' \in Slots
    <3>1. k \in Nat
      BY <1>2
    <3> QED BY <1>1, <2>2, <3>1, SlotArithmetic
  <2> QED BY <1>3, <2>1, <2>2
<1>5. out' \in Bytes \cup {None}
  BY DEF Putc
<1> QED BY <1>4, <1>5

LEMMA TypeInit == Init => TypeOK /\ Sending
<1> SUFFICES ASSUME Init PROVE TypeOK /\ Sending
  OBVIOUS
<1>1. serial_buffer \in [Slots -> Bytes]
  BY DEF Init, Bytes
<1>2. {serial_buffer_head, serial_buffer_tail, serial_buffer_echo} \subseteq Slots
  BY SlotArithmetic DEF Init
<1>3. /\ pc \in [Threads -> {"idle", "add", "load", "advance", "irq", "added", "vm", "relock"}]
      /\ pc["main"] = "idle"
      /\ loaded \in [Threads -> Slots]
  BY SlotArithmetic DEF Init, Threads
<1>4. input \in Seq(Bytes) /\ line \in Seq(Bytes)
  BY DEF Init
<1> QED BY <1>1, <1>2, <1>3, <1>4 DEF Init, TypeOK, Sending

(* Every step of either thread keeps the types. *)
LEMMA TypeStep == TypeOK /\ Sending /\ [Next]_vars => TypeOK' /\ Sending'
<1> SUFFICES ASSUME TypeOK, Sending, [Next]_vars
             PROVE  TypeOK' /\ Sending'
  OBVIOUS
<1>0. setup' \in Setups
  BY DEF TypeOK, Next, vars
<1> USE <1>0
<1>1. ASSUME NEW t \in Threads, Store(t)
      PROVE  TypeOK' /\ Sending'
  <2>1. Adding(t) \in Bytes
    BY <1>1 DEF Store, Adding, TypeOK, Threads, Bytes
  <2>2. AsAdded(Adding(t)) \in Bytes
    BY <2>1 DEF AsAdded, Bytes
  <2>3. serial_buffer' \in [Slots -> Bytes]
    BY <1>1, <2>2 DEF Store, TypeOK
  <2>4. pc' \in [Threads -> {"idle", "add", "load", "advance", "irq", "added", "vm", "relock"}]
    BY <1>1 DEF Store, Goto, TypeOK
  <2>5. Sending'
    BY <1>1 DEF Store, Goto, At, Sending, TypeOK, Threads
  <2> QED BY <1>1, <2>3, <2>4, <2>5 DEF Store, TypeOK, vmVars
<1>2. ASSUME NEW t \in Threads, Load(t)
      PROVE  TypeOK' /\ Sending'
  BY <1>2 DEF Load, Goto, At, Sending, TypeOK, Threads, ringVars, vmVars
<1>3. ASSUME NEW t \in Threads, Advance(t)
      PROVE  TypeOK' /\ Sending'
  <2>1. serial_buffer_head' \in Slots
    BY <1>3, SlotArithmetic DEF Advance, TypeOK
  <2>2. t = "main" => input # <<>>
    BY <1>3 DEF Advance, At, Sending
  <2>3. input' \in Seq(Bytes)
    BY <1>3, <2>2 DEF Advance, TypeOK
  <2>4. pc' \in [Threads -> {"idle", "add", "load", "advance", "irq", "added", "vm", "relock"}]
    BY <1>3 DEF Advance, Goto, TypeOK
  <2>5. Sending'
    BY <1>3 DEF Advance, Goto, At, Sending, TypeOK, Threads
  <2> QED BY <1>3, <2>1, <2>3, <2>4, <2>5 DEF Advance, TypeOK, vmVars
<1>4. ASSUME NEW t \in Threads, Irq(t)
      PROVE  TypeOK' /\ Sending'
  <2>1. /\ serial_buffer_tail' \in Slots /\ got' \in Bytes \cup {None}
        /\ line' \in Seq(Bytes) /\ seen' \subseteq Control
    BY <1>4, GetcTypes DEF Irq, TypeOK
  <2>2. pc' \in [Threads -> {"idle", "add", "load", "advance", "irq", "added", "vm", "relock"}]
    BY <1>4 DEF Irq, Goto, TypeOK
  <2>3. Sending'
    BY <1>4 DEF Irq, Goto, At, Sending, TypeOK, Threads
  <2> QED BY <1>4, <2>1, <2>2, <2>3 DEF Irq, TypeOK
<1>5. CASE Read
  <2>1. input' \in Seq(Bytes)
    <3>1. PICK len \in 1..MaxRead : input' \in [1..len -> Typed]
      BY <1>5 DEF Read
    <3>2. len \in Nat
      BY <3>1, SizeAssumption
    <3>3. Typed \subseteq Bytes
      BY DEF Bytes
    <3> QED BY <3>1, <3>2, <3>3
  <2>2. Sending'
    BY <1>5 DEF Read, Goto, Sending, TypeOK, Threads
  <2> QED BY <1>5, <2>1, <2>2 DEF Read, Goto, TypeOK, Threads, ringVars, vmVars
<1>6. CASE MainAdded
  BY <1>6 DEF MainAdded, Goto, At, Sending, TypeOK, Threads, ringVars, vmVars
<1>7. CASE Yield
  BY <1>7 DEF Yield, Goto, At, Sending, TypeOK, Threads, ringVars, vmVars
<1>8. CASE CodeAdded
  BY <1>8 DEF CodeAdded, Goto, At, Sending, TypeOK, Threads, ringVars, vmVars
<1>9. CASE Relock
  BY <1>9 DEF Relock, Goto, At, Sending, TypeOK, Threads, ringVars, vmVars
<1>10. CASE Poll
  <2>1. Getc
    BY <1>10 DEF Poll
  <2> QED BY <1>10, <2>1, GetcTypes DEF Poll, TypeOK, Sending
<1>11. CASE Echo
  <2>1. Head(line) \in Bytes /\ line' \in Seq(Bytes)
    BY <1>11 DEF Echo, TypeOK
  <2>2. Answer(Head(line)) \in Bytes
    BY <2>1 DEF Answer, Bytes
  <2>3. serial_buffer_echo' \in Slots /\ out' \in Bytes \cup {None}
    BY <1>11, <2>2, PutcTypes DEF Echo
  <2> QED BY <1>11, <2>1, <2>3 DEF Echo, TypeOK, Sending
<1>12. ASSUME NEW c \in Printed, ProgramPrints(c)
       PROVE  TypeOK' /\ Sending'
  <2>1. c \in Bytes
    BY DEF Bytes
  <2>2. serial_buffer_echo' \in Slots /\ out' \in Bytes \cup {None}
    BY <1>12, <2>1, PutcTypes DEF ProgramPrints
  <2> QED BY <1>12, <2>2 DEF ProgramPrints, TypeOK, Sending
<1>13. CASE UNCHANGED vars
  BY <1>13 DEF vars, ringVars, vmVars, TypeOK, Sending
<1> QED
  BY <1>1, <1>2, <1>3, <1>4, <1>5, <1>6, <1>7, <1>8, <1>9, <1>10, <1>11,
     <1>12, <1>13 DEF Next, Steps, AddByte

(* Hardware.cpp:72-151: head, tail and echo never leave the ring, whatever its
   size, in spite of the unlocked addition of Main.cpp:216. *)
THEOREM TypeCorrect == Spec => []TypeOK
<1>1. Init => TypeOK /\ Sending
  BY TypeInit
<1>2. TypeOK /\ Sending /\ [Next]_vars => (TypeOK /\ Sending)'
  BY TypeStep
<1> QED BY <1>1, <1>2, PTL DEF Spec

-----------------------------------------------------------------------------
(* The ring as a sequence of bytes. *)

Dist(i, j) == (j - i) % Size           \* from slot i up to slot j
Slot(i, k) == (i + k - 1) % Size        \* the k-th slot from i on
Ring(b, i, j) == [k \in 1..Dist(i, j) |-> b[Slot(i, k)]]

LEMMA Remainders ==
    ASSUME NEW x \in Int
    PROVE  /\ x \in 0..(Size - 1) => x % Size = x
           /\ x \in Size..(2 * Size - 1) => x % Size = x - Size
           /\ x \in (-Size)..(0 - 1) => x % Size = x + Size
<1> DEFINE n == Size
<1>0. n \in Nat \ {0}
  BY SizeAssumption
<1> HIDE DEF n
<1>1. ASSUME x \in 0..(n - 1) PROVE x % n = x
  BY <1>0, <1>1
<1>2. ASSUME x \in n..(2 * n - 1) PROVE x % n = x - n
  BY <1>0, <1>2
<1>3. ASSUME x \in (-n)..(0 - 1) PROVE x % n = x + n
  BY <1>0, <1>3
<1> QED BY <1>1, <1>2, <1>3 DEF n

(* Distances and positions in the ring without remainders. *)
LEMMA RingArithmetic ==
    /\ \A i \in Slots : NextSlot(i) = IF i = Size - 1 THEN 0 ELSE i + 1
    /\ \A i, j \in Slots : Dist(i, j) = IF i <= j THEN j - i ELSE j - i + Size
    /\ \A i \in Slots, k \in 1..Size :
         Slot(i, k) = IF i + k - 1 < Size THEN i + k - 1 ELSE i + k - 1 - Size
<1>0. Size \in Nat \ {0, 1}
  BY SizeAssumption
<1>1. ASSUME NEW i \in Slots PROVE NextSlot(i) = IF i = Size - 1 THEN 0 ELSE i + 1
  <2>1. CASE i = Size - 1
    <3>1. i + 1 \in Int /\ i + 1 \in Size..(2 * Size - 1) /\ (i + 1) - Size = 0
      BY <1>0, <2>1
    <3>2. (i + 1) % Size = (i + 1) - Size
      BY <3>1, Remainders
    <3> QED BY <2>1, <3>1, <3>2 DEF NextSlot
  <2>2. CASE i # Size - 1
    <3>1. i + 1 \in Int /\ i + 1 \in 0..(Size - 1)
      BY <1>0, <2>2 DEF Slots
    <3>2. (i + 1) % Size = i + 1
      BY <3>1, Remainders
    <3> QED BY <2>2, <3>2 DEF NextSlot
  <2> QED BY <2>1, <2>2
<1>2. ASSUME NEW i \in Slots, NEW j \in Slots
      PROVE  Dist(i, j) = IF i <= j THEN j - i ELSE j - i + Size
  <2>1. j - i \in Int
        /\ (i <= j => j - i \in 0..(Size - 1)) /\ (~ (i <= j) => j - i \in (-Size)..(0 - 1))
    BY <1>0 DEF Slots
  <2> QED BY <2>1, Remainders DEF Dist
<1>3. ASSUME NEW i \in Slots, NEW k \in 1..Size
      PROVE  Slot(i, k) = IF i + k - 1 < Size THEN i + k - 1 ELSE i + k - 1 - Size
  <2>0. PICK x \in Int : x = i + k - 1
    BY <1>0 DEF Slots
  <2>1. x \in 0..(2 * Size - 1)
    BY <1>0, <2>0 DEF Slots
  <2>2. Slot(i, k) = x % Size
    BY <2>0 DEF Slot
  <2>3. ASSUME x < Size PROVE Slot(i, k) = x
    <3>1. x \in 0..(Size - 1)
      BY <1>0, <2>1, <2>3
    <3> QED BY <2>1, <2>2, <3>1, Remainders
  <2>4. ASSUME ~ (x < Size) PROVE Slot(i, k) = x - Size
    <3>1. x \in Size..(2 * Size - 1)
      BY <1>0, <2>1, <2>4
    <3> QED BY <2>1, <2>2, <3>1, Remainders
  <2>5. Slot(i, k) = IF x < Size THEN x ELSE x - Size
    BY <2>3, <2>4
  <2>6. i \in Int /\ k \in Int /\ Size \in Int
    BY <1>0 DEF Slots
  <2> QED BY <2>0, <2>5, <2>6
<1> QED BY <1>1, <1>2, <1>3

LEMMA RingSlots ==
    /\ \A i \in Slots : NextSlot(i) \in Slots /\ Slot(i, 1) = i
    /\ \A i, j \in Slots : Dist(i, j) \in 0..(Size - 1) /\ (Dist(i, j) = 0 <=> i = j)
    /\ \A i, j \in Slots : /\ Dist(i, j) < Size - 1 =>
                               /\ Dist(i, NextSlot(j)) = Dist(i, j) + 1
                               /\ Slot(i, Dist(i, j) + 1) = j
                           /\ i # j => Dist(NextSlot(i), j) = Dist(i, j) - 1
    /\ \A i, j \in Slots, k \in Nat \ {0} :
         k <= Dist(i, j) => Slot(i, k) \in Slots /\ Slot(i, k) # j
    /\ \A i \in Slots, k \in 1..(Size - 1) : Slot(NextSlot(i), k) = Slot(i, k + 1)
<1>0. Size \in Nat \ {0, 1} /\ Slots = 0..(Size - 1)
  BY SizeAssumption DEF Slots
<1>1. ASSUME NEW i \in Slots
      PROVE  /\ i \in 0..(Size - 1)
             /\ NextSlot(i) = IF i = Size - 1 THEN 0 ELSE i + 1
             /\ NextSlot(i) \in Slots /\ Slot(i, 1) = i
  <2>1. i \in 0..(Size - 1) /\ 1 \in 1..Size
    BY <1>0
  <2>2. NextSlot(i) = IF i = Size - 1 THEN 0 ELSE i + 1
    BY RingArithmetic
  <2>3. Slot(i, 1) = IF i + 1 - 1 < Size THEN i + 1 - 1 ELSE i + 1 - 1 - Size
    BY <2>1, RingArithmetic
  <2> QED BY <1>0, <2>1, <2>2, <2>3
<1>2. ASSUME NEW i \in Slots, NEW j \in Slots
      PROVE  /\ Dist(i, j) = IF i <= j THEN j - i ELSE j - i + Size
             /\ Dist(i, j) \in 0..(Size - 1) /\ (Dist(i, j) = 0 <=> i = j)
  <2>1. Dist(i, j) = IF i <= j THEN j - i ELSE j - i + Size
    BY RingArithmetic
  <2> QED BY <1>0, <1>1, <2>1
<1>3. ASSUME NEW i \in Slots, NEW j \in Slots, Dist(i, j) < Size - 1
      PROVE  Dist(i, NextSlot(j)) = Dist(i, j) + 1 /\ Slot(i, Dist(i, j) + 1) = j
  <2>0. Dist(i, j) \in 0..(Size - 1)
    BY <1>2
  <2>1. Dist(i, j) + 1 \in 1..Size
    BY <1>0, <2>0
  <2>2. Slot(i, Dist(i, j) + 1) =
          IF i + (Dist(i, j) + 1) - 1 < Size THEN i + (Dist(i, j) + 1) - 1
                                             ELSE i + (Dist(i, j) + 1) - 1 - Size
    BY <2>1, RingArithmetic
  <2>3. /\ Dist(i, j) = IF i <= j THEN j - i ELSE j - i + Size
        /\ i \in 0..(Size - 1) /\ j \in 0..(Size - 1)
    BY <1>1, <1>2
  <2>4. Slot(i, Dist(i, j) + 1) = j
    BY <1>0, <2>2, <2>3
  <2> DEFINE n == NextSlot(j)
  <2>5. n \in Slots /\ n = IF j = Size - 1 THEN 0 ELSE j + 1
    BY <1>1
  <2> HIDE DEF n
  <2>6. Dist(i, n) = IF i <= n THEN n - i ELSE n - i + Size
    BY <1>2, <2>5
  <2>7. Dist(i, n) = Dist(i, j) + 1
    BY <1>0, <1>3, <2>3, <2>5, <2>6
  <2> QED BY <2>4, <2>7 DEF n
<1>4. ASSUME NEW i \in Slots, NEW j \in Slots, i # j
      PROVE  Dist(NextSlot(i), j) = Dist(i, j) - 1
  <2> DEFINE n == NextSlot(i)
  <2>1. n \in Slots /\ n = IF i = Size - 1 THEN 0 ELSE i + 1
    BY <1>1
  <2>2. /\ Dist(i, j) = IF i <= j THEN j - i ELSE j - i + Size
        /\ i \in 0..(Size - 1) /\ j \in 0..(Size - 1)
    BY <1>1, <1>2
  <2> HIDE DEF n
  <2>3. Dist(n, j) = IF n <= j THEN j - n ELSE j - n + Size
    BY <1>2, <2>1
  <2>4. Dist(n, j) = Dist(i, j) - 1
    BY <1>0, <1>4, <2>1, <2>2, <2>3
  <2> QED BY <2>4 DEF n
<1>5. ASSUME NEW i \in Slots, NEW j \in Slots, NEW k \in Nat \ {0}, k <= Dist(i, j)
      PROVE  Slot(i, k) \in Slots /\ Slot(i, k) # j
  <2>1. /\ Dist(i, j) = IF i <= j THEN j - i ELSE j - i + Size
        /\ Dist(i, j) \in 0..(Size - 1)
        /\ i \in 0..(Size - 1) /\ j \in 0..(Size - 1)
    BY <1>1, <1>2
  <2>2. k \in 1..Size
    BY <1>0, <1>5, <2>1
  <2>3. Slot(i, k) = IF i + k - 1 < Size THEN i + k - 1 ELSE i + k - 1 - Size
    BY <2>2, RingArithmetic
  <2> QED BY <1>0, <1>5, <2>1, <2>2, <2>3
<1>6. ASSUME NEW i \in Slots, NEW k \in 1..(Size - 1)
      PROVE  Slot(NextSlot(i), k) = Slot(i, k + 1)
  <2> DEFINE n == NextSlot(i)
             m == k + 1
  <2>1. n \in Slots /\ (n = IF i = Size - 1 THEN 0 ELSE i + 1) /\ i \in 0..(Size - 1)
    BY <1>1
  <2>2. k \in 1..Size /\ m \in 1..Size /\ m = k + 1 /\ k \in Nat
    BY <1>0
  <2> HIDE DEF n, m
  <2>3. Slot(n, k) = IF n + k - 1 < Size THEN n + k - 1 ELSE n + k - 1 - Size
    BY <2>1, <2>2, RingArithmetic
  <2>4. Slot(i, m) = IF i + m - 1 < Size THEN i + m - 1 ELSE i + m - 1 - Size
    BY <2>1, <2>2, RingArithmetic
  <2>5. Slot(n, k) = Slot(i, m)
    BY <1>0, <2>1, <2>2, <2>3, <2>4
  <2> QED BY <2>5 DEF n, m
<1> QED BY <1>1, <1>2, <1>3, <1>4, <1>5, <1>6

LEMMA RingRound == \A i \in Slots : Dist(NextSlot(i), i) = Size - 1
<1> TAKE i \in Slots
<1> DEFINE n == NextSlot(i)
<1>0. Size \in Nat \ {0, 1} /\ i \in 0..(Size - 1)
  BY SizeAssumption DEF Slots
<1>1. n \in Slots /\ n = IF i = Size - 1 THEN 0 ELSE i + 1
  BY RingArithmetic, RingSlots
<1> HIDE DEF n
<1>2. Dist(n, i) = IF n <= i THEN i - n ELSE i - n + Size
  BY <1>1, RingArithmetic
<1>3. Dist(n, i) = Size - 1
  BY <1>0, <1>1, <1>2
<1> QED BY <1>3 DEF n

LEMMA RingType ==
    ASSUME NEW b \in [Slots -> Bytes], NEW i \in Slots, NEW j \in Slots
    PROVE  /\ Dist(i, j) \in 0..(Size - 1)
           /\ Ring(b, i, j) \in Seq(Bytes) /\ Len(Ring(b, i, j)) = Dist(i, j)
           /\ Ring(b, i, j) = <<>> <=> i = j
<1>1. Dist(i, j) \in 0..(Size - 1)
  BY RingSlots
<1>2. \A k \in 1..Dist(i, j) : Slot(i, k) \in Slots
  <2>1. \A k \in 1..Dist(i, j) : k \in Nat \ {0} /\ k <= Dist(i, j)
    BY <1>1
  <2> QED BY <2>1, RingSlots
<1> DEFINE d == Dist(i, j)
           f(k) == Slot(i, k)
<1>3. d \in Nat /\ Ring(b, i, j) = [k \in 1..d |-> b[f(k)]]
  BY <1>1, SizeAssumption DEF Ring
<1>4. \A k \in 1..d : b[f(k)] \in Bytes
  BY <1>2
<1>5. d = 0 <=> i = j
  BY RingSlots
<1> HIDE DEF d, f
<1>6. Ring(b, i, j) \in Seq(Bytes) /\ Len(Ring(b, i, j)) = d
  BY <1>3, <1>4
<1>7. Ring(b, i, j) = <<>> <=> d = 0
  BY <1>3, <1>6
<1> QED BY <1>1, <1>5, <1>6, <1>7 DEF d

(* The byte stored at the head becomes the last one when the head moves on, if
   the ring does not become full by it. *)
LEMMA RingAppend ==
    ASSUME NEW b \in [Slots -> Bytes], NEW i \in Slots, NEW j \in Slots,
           Dist(i, j) < Size - 1
    PROVE  Ring(b, i, NextSlot(j)) = Append(Ring(b, i, j), b[j])
<1> DEFINE d == Dist(i, j)
           r == Ring(b, i, j)
           s == Ring(b, i, NextSlot(j))
<1>1. Size \in Nat \ {0, 1} /\ d \in 0..(Size - 1) /\ d < Size - 1
  BY RingType, SizeAssumption
<1>2. NextSlot(j) \in Slots /\ Dist(i, NextSlot(j)) = d + 1
  BY RingSlots
<1>3. Slot(i, d + 1) = j
  BY RingSlots
<1>4. /\ r \in Seq(Bytes) /\ Len(r) = d
      /\ \A k \in 1..d : r[k] = b[Slot(i, k)]
  BY RingType DEF Ring
<1>5. /\ s \in Seq(Bytes) /\ Len(s) = d + 1
      /\ \A k \in 1..(d + 1) : s[k] = b[Slot(i, k)]
  BY <1>2, RingType DEF Ring
<1>6. b[j] \in Bytes
  OBVIOUS
<1> HIDE DEF d, r, s
<1>7. s = Append(r, b[j])
  <2>1. Append(r, b[j]) \in Seq(Bytes) /\ Len(Append(r, b[j])) = Len(s)
    BY <1>1, <1>4, <1>5, <1>6
  <2>2. ASSUME NEW k \in 1..(d + 1) PROVE s[k] = Append(r, b[j])[k]
    <3>1. CASE k \in 1..d
      BY <1>1, <1>4, <1>5, <1>6, <3>1
    <3>2. CASE k = d + 1
      BY <1>1, <1>3, <1>4, <1>5, <1>6, <3>2
    <3>3. k \in 1..d \/ k = d + 1
      BY <1>1
    <3> QED BY <3>1, <3>2, <3>3
  <2> QED BY <1>1, <1>5, <2>1, <2>2
<1> QED BY <1>7 DEF r, s

(* serial_getc takes the first byte. *)
LEMMA RingTail ==
    ASSUME NEW b \in [Slots -> Bytes], NEW i \in Slots, NEW j \in Slots, i # j
    PROVE  /\ Ring(b, i, j) # <<>> /\ Head(Ring(b, i, j)) = b[i]
           /\ Ring(b, NextSlot(i), j) = Tail(Ring(b, i, j))
<1> DEFINE d == Dist(i, j)
           r == Ring(b, i, j)
           s == Ring(b, NextSlot(i), j)
<1>0. Dist(i, j) \in 0..(Size - 1) /\ Dist(i, j) # 0
  BY RingSlots
<1>1. Size \in Nat \ {0, 1} /\ d \in 1..(Size - 1)
  BY <1>0, SizeAssumption
<1>2. NextSlot(i) \in Slots /\ Dist(NextSlot(i), j) = d - 1
  BY RingSlots
<1>3. \A k \in 1..(d - 1) : Slot(NextSlot(i), k) = Slot(i, k + 1)
  <2>1. \A k \in 1..(d - 1) : k \in 1..(Size - 1)
    BY <1>1
  <2> QED BY <2>1, RingSlots
<1>4. /\ r \in Seq(Bytes) /\ Len(r) = d
      /\ \A k \in 1..d : r[k] = b[Slot(i, k)]
  BY RingType DEF Ring
<1>5. /\ s \in Seq(Bytes) /\ Len(s) = d - 1
      /\ \A k \in 1..(d - 1) : s[k] = b[Slot(NextSlot(i), k)]
  BY <1>2, RingType DEF Ring
<1>6. Slot(i, 1) = i /\ 1 \in 1..d
  BY <1>1, RingSlots
<1> HIDE DEF d, r, s
<1>7. r # <<>> /\ r[1] = b[i]
  BY <1>1, <1>4, <1>6
<1>8. s = Tail(r)
  <2>1. /\ Tail(r) \in Seq(Bytes) /\ Len(Tail(r)) = d - 1
        /\ \A k \in 1..(d - 1) : Tail(r)[k] = r[k + 1]
    BY <1>1, <1>4, <1>7
  <2>2. ASSUME NEW k \in 1..(d - 1) PROVE s[k] = Tail(r)[k]
    <3>1. k + 1 \in 1..d
      BY <1>1
    <3> QED BY <1>3, <1>4, <1>5, <2>1, <3>1
  <2> QED BY <1>1, <1>5, <2>1, <2>2
<1> QED BY <1>4, <1>7, <1>8 DEF r, s

(* A byte stored at the head is not among those that wait. *)
LEMMA RingStore ==
    ASSUME NEW b \in [Slots -> Bytes], NEW i \in Slots, NEW j \in Slots, NEW c
    PROVE  Ring([b EXCEPT ![j] = c], i, j) = Ring(b, i, j)
<1>1. ASSUME NEW k \in 1..Dist(i, j)
      PROVE  Slot(i, k) \in Slots /\ Slot(i, k) # j
  <2>1. k \in Nat \ {0} /\ k <= Dist(i, j)
    BY RingType, SizeAssumption
  <2> QED BY <2>1, RingSlots
<1>2. \A k \in 1..Dist(i, j) :
        [b EXCEPT ![j] = c][Slot(i, k)] = b[Slot(i, k)]
  BY <1>1
<1> QED BY <1>2 DEF Ring

-----------------------------------------------------------------------------
(* The polling VM. *)

(* No more is typed than the ring holds. *)
Fits == \A s \in Setups : s.interactive /\ ~s.attached => s.unread < Size

(* What was typed and is not yet answered fits in the ring; main adds one byte
   at a time, at the head; and the VM has echoed all it has read, but for the
   byte behind serial_buffer_echo. *)
PollInv ==
    Polled =>
      /\ Len(Unread) + Len(input) + Len(line) <= MaxUnread
      /\ pc["code"] \in {"vm", "relock"}
      /\ pc["main"] \in {"idle", "add", "load", "advance", "added"}
      /\ pc["main"] = "idle" => input = <<>>
      /\ pc["main"] \in {"add", "load", "advance"} => input # <<>>
      /\ pc["main"] \in {"load", "advance"} =>
           serial_buffer[serial_buffer_head] = AsAdded(Head(input))
      /\ pc["main"] = "advance" => loaded["main"] = serial_buffer_head
      /\ IF line = <<>> THEN serial_buffer_echo = serial_buffer_tail
         ELSE /\ serial_buffer_tail = NextSlot(serial_buffer_echo)
              /\ line = <<serial_buffer[serial_buffer_echo]>>

LEMMA UnreadRing ==
    /\ Unread = Ring(serial_buffer, serial_buffer_tail, serial_buffer_head)
    /\ NotEchoed = Ring(serial_buffer, serial_buffer_echo, serial_buffer_tail)
    /\ Unread' = Ring(serial_buffer', serial_buffer_tail', serial_buffer_head')
BY DEF Unread, NotEchoed, Between, Ring, Dist, Slot

LEMMA UnreadType ==
    ASSUME TypeOK
    PROVE  /\ Unread \in Seq(Bytes) /\ NotEchoed \in Seq(Bytes)
           /\ Len(Unread) = Dist(serial_buffer_tail, serial_buffer_head)
           /\ Len(input) \in Nat /\ Len(line) \in Nat /\ Len(Unread) \in Nat
<1>1. /\ serial_buffer \in [Slots -> Bytes] /\ serial_buffer_head \in Slots
      /\ serial_buffer_tail \in Slots /\ serial_buffer_echo \in Slots
      /\ input \in Seq(Bytes) /\ line \in Seq(Bytes)
  BY DEF TypeOK
<1>2. Unread \in Seq(Bytes) /\ NotEchoed \in Seq(Bytes)
  BY <1>1, RingType, UnreadRing
<1>3. Len(Unread) = Dist(serial_buffer_tail, serial_buffer_head)
  BY <1>1, RingType, UnreadRing
<1> QED BY <1>1, <1>2, <1>3

(* A poll: the first byte that waits is the one that is not echoed. *)
LEMMA PollTakes ==
    ASSUME TypeOK, Getc, UNCHANGED <<serial_buffer, serial_buffer_head>>
    PROVE  /\ Unread # <<>> /\ Unread' = Tail(Unread) /\ got' = Head(Unread)
           /\ serial_buffer_tail' = NextSlot(serial_buffer_tail)
           /\ line' = Append(line, serial_buffer[serial_buffer_tail])
<1>1. /\ serial_buffer \in [Slots -> Bytes] /\ serial_buffer_head \in Slots
      /\ serial_buffer_tail \in Slots
  BY DEF TypeOK
<1>2. /\ serial_buffer_tail # serial_buffer_head
      /\ serial_buffer_tail' = NextSlot(serial_buffer_tail)
      /\ got' = serial_buffer[serial_buffer_tail]
      /\ line' = Append(line, serial_buffer[serial_buffer_tail])
  BY DEF Getc
<1>3. Unread' = Ring(serial_buffer, NextSlot(serial_buffer_tail), serial_buffer_head)
  BY <1>2, UnreadRing
<1> QED BY <1>1, <1>2, <1>3, RingTail, UnreadRing

(* An addition by the main thread, when the ring does not become full by it. *)
LEMMA AdvanceAppends ==
    ASSUME TypeOK, Len(Unread) < Size - 1,
           serial_buffer_head' = NextSlot(serial_buffer_head),
           UNCHANGED <<serial_buffer, serial_buffer_tail>>
    PROVE  Unread' = Append(Unread, serial_buffer[serial_buffer_head])
<1>1. /\ serial_buffer \in [Slots -> Bytes] /\ serial_buffer_head \in Slots
      /\ serial_buffer_tail \in Slots
  BY DEF TypeOK
<1>2. Unread' = Ring(serial_buffer, serial_buffer_tail, NextSlot(serial_buffer_head))
  BY UnreadRing
<1> QED BY <1>1, <1>2, RingAppend, UnreadRing, UnreadType

(* The slot that is overwritten holds neither a byte that waits nor the one
   that is still to be echoed. *)
LEMMA StoreKeeps ==
    ASSUME TypeOK, PollInv, Polled, Fits, NEW c,
           serial_buffer' = [serial_buffer EXCEPT ![serial_buffer_head] = c],
           input # <<>>, UNCHANGED <<serial_buffer_head, serial_buffer_tail>>
    PROVE  /\ Unread' = Unread
           /\ serial_buffer'[serial_buffer_head] = c
           /\ line # <<>> =>
                serial_buffer'[serial_buffer_echo] = serial_buffer[serial_buffer_echo]
<1>1. /\ serial_buffer \in [Slots -> Bytes] /\ serial_buffer_head \in Slots
      /\ serial_buffer_tail \in Slots /\ serial_buffer_echo \in Slots
      /\ input \in Seq(Bytes) /\ line \in Seq(Bytes) /\ setup \in Setups
  BY DEF TypeOK
<1>2. Unread' = Unread
  BY <1>1, RingStore, UnreadRing
<1>3. ASSUME line # <<>> PROVE serial_buffer_echo # serial_buffer_head
  <2>1. serial_buffer_tail = NextSlot(serial_buffer_echo)
    BY <1>3 DEF PollInv
  <2>2. Len(Unread) < Size - 1 /\ Len(Unread) + 1 < Size - 1
    <3>1. MaxUnread < Size /\ MaxUnread \in Nat
      BY <1>1, SetupAssumption DEF Fits, Polled, Attached, interactive, MaxUnread
    <3>2. 0 < Len(line) /\ 0 < Len(input)
      BY <1>1, <1>3
    <3>3. Len(Unread) + Len(input) + Len(line) <= MaxUnread
      BY DEF PollInv
    <3> QED BY <3>1, <3>2, <3>3, UnreadType, SizeAssumption
  <2>3. Dist(NextSlot(serial_buffer_echo), serial_buffer_head) < Size - 2
    BY <2>1, <2>2, UnreadType, SizeAssumption
  <2>4. Dist(NextSlot(serial_buffer_echo), serial_buffer_echo) = Size - 1
    BY <1>1, RingRound
  <2> QED BY <2>3, <2>4, SizeAssumption
<1> QED BY <1>1, <1>2, <1>3


LEMMA PollInit == ASSUME Init, Fits PROVE PollInv
<1>1. serial_buffer_head = 0 /\ serial_buffer_tail = 0 /\ serial_buffer \in [Slots -> Bytes]
  BY DEF Init, Bytes
<1>2. Unread = <<>>
  BY <1>1, RingType, SlotArithmetic, UnreadRing
<1>3. MaxUnread \in Nat
  BY SetupAssumption DEF Init, MaxUnread
<1>4. Len(<<>>) + Len(<<>>) + Len(<<>>) <= MaxUnread
  BY <1>3
<1>5. pc["code"] = "relock" /\ pc["main"] = "idle" /\ input = <<>> /\ line = <<>>
  BY DEF Init, Threads
<1> QED BY <1>1, <1>2, <1>4, <1>5 DEF PollInv, Init

(* Steps that change neither the ring nor what is typed nor the VM's line. *)
LEMMA PollKept ==
    ASSUME TypeOK, PollInv, UNCHANGED <<setup, ringVars, input, line>>,
           Polled => /\ pc'["code"] \in {"vm", "relock"}
                     /\ \/ pc'["main"] = pc["main"] /\ loaded'["main"] = loaded["main"]
                        \/ pc'["main"] = "idle" /\ input = <<>>
                        \/ pc'["main"] = "add" /\ input # <<>>
                        \/ /\ pc["main"] = "load" /\ pc'["main"] = "advance"
                           /\ loaded'["main"] = serial_buffer_head
    PROVE  PollInv'
<1> SUFFICES ASSUME Polled PROVE PollInv'
  BY DEF PollInv, Polled, interactive, Attached
<1>1. Unread' = Unread
  BY UnreadRing DEF ringVars
<1>2. MaxUnread' = MaxUnread
  BY DEF MaxUnread
<1> QED BY <1>1, <1>2 DEF PollInv, ringVars

(* What serial_putc does to the pointer: everything read is passed over. *)
LEMMA PutcPasses ==
    ASSUME TypeOK, PollInv, Polled, NEW c, Putc(c)
    PROVE  /\ line = <<>> => out' = c /\ serial_buffer_echo' = serial_buffer_tail
           /\ line # <<>> =>
                IF c = Head(line) /\ c \notin Control
                THEN out' = None /\ serial_buffer_echo' = serial_buffer_tail
                ELSE out' = c /\ serial_buffer_echo' = serial_buffer_tail
<1> DEFINE matches == {k \in 1..Len(NotEchoed) : NotEchoed[k] = c /\ NotEchoed[k] \notin Control}
<1>0. /\ serial_buffer \in [Slots -> Bytes] /\ serial_buffer_echo \in Slots
      /\ serial_buffer_tail \in Slots
  BY DEF TypeOK
<1>1. \/ matches = {} /\ serial_buffer_echo' = serial_buffer_tail /\ out' = c
      \/ /\ matches # {} /\ out' = None
         /\ \E k \in matches : serial_buffer_echo' = (serial_buffer_echo + k) % Size
  BY DEF Putc
<1>2. ASSUME line = <<>> PROVE matches = {}
  <2>1. NotEchoed = <<>>
    BY <1>0, <1>2, RingType, UnreadRing DEF PollInv
  <2> QED BY <2>1
<1>3. ASSUME line # <<>>
      PROVE  /\ matches \subseteq {1} /\ (1 \in matches <=> c = Head(line) /\ c \notin Control)
             /\ serial_buffer_tail = (serial_buffer_echo + 1) % Size
  <2>1. /\ serial_buffer_tail = NextSlot(serial_buffer_echo)
        /\ line = <<serial_buffer[serial_buffer_echo]>>
    BY <1>3 DEF PollInv
  <2>2. Dist(serial_buffer_echo, serial_buffer_tail) = 1
    <3>1. /\ Dist(serial_buffer_echo, serial_buffer_echo) = 0
          /\ Dist(serial_buffer_echo, serial_buffer_echo) < Size - 1
      BY <1>0, RingSlots, SizeAssumption
    <3> QED BY <1>0, <2>1, <3>1, RingSlots
  <2>3. Len(NotEchoed) = 1 /\ NotEchoed[1] = serial_buffer[serial_buffer_echo]
    <3>1. Slot(serial_buffer_echo, 1) = serial_buffer_echo
      BY <1>0, RingSlots
    <3>2. NotEchoed = [k \in 1..1 |-> serial_buffer[Slot(serial_buffer_echo, k)]]
      BY <2>2, UnreadRing DEF Ring
    <3> QED BY <3>1, <3>2
  <2>4. Head(line) = serial_buffer[serial_buffer_echo]
    BY <2>1
  <2> QED BY <2>1, <2>3, <2>4 DEF NextSlot
<1> HIDE DEF matches
<1> QED BY <1>1, <1>2, <1>3


(* A step of a polling VM keeps the invariant, and is a step of the queue that
   SerialFifo describes or leaves it alone. *)
LEMMA PollStep ==
    ASSUME TypeOK, TypeOK', PollInv, Fits, Polled, [Next]_vars
    PROVE  PollInv' /\ [Fifo!Next]_(Fifo!vars)
<1>0. /\ setup' = setup /\ Polled' /\ ~Attached /\ ~Attached' /\ MaxUnread' = MaxUnread
      /\ interactive /\ setup \in Setups
  BY DEF Next, vars, Polled, interactive, Attached, MaxUnread, TypeOK
<1>1. MaxUnread \in Nat /\ MaxUnread < Size
  BY <1>0, SetupAssumption DEF Fits, Attached, interactive, MaxUnread
<1>2. /\ pc["code"] \in {"vm", "relock"} /\ "main" \in Threads /\ "code" \in Threads
      /\ pc \in [Threads -> {"idle", "add", "load", "advance", "irq", "added", "vm", "relock"}]
      /\ loaded \in [Threads -> Slots]
      /\ input \in Seq(Bytes) /\ line \in Seq(Bytes) /\ serial_buffer_head \in Slots
      /\ serial_buffer \in [Slots -> Bytes] /\ serial_buffer_tail \in Slots
  BY DEF PollInv, TypeOK, Threads
<1>3. ASSUME input' = input, got' = got, Unread' = Unread PROVE [Fifo!Next]_(Fifo!vars)
  BY <1>0, <1>3 DEF Fifo!vars
<1>4. ASSUME UNCHANGED <<ringVars, input, line, got>>,
             /\ pc'["code"] \in {"vm", "relock"}
             /\ \/ pc'["main"] = pc["main"] /\ loaded'["main"] = loaded["main"]
                \/ pc'["main"] = "idle" /\ input = <<>>
                \/ pc'["main"] = "add" /\ input # <<>>
                \/ /\ pc["main"] = "load" /\ pc'["main"] = "advance"
                   /\ loaded'["main"] = serial_buffer_head
      PROVE  PollInv' /\ [Fifo!Next]_(Fifo!vars)
  <2>1. PollInv'
    BY <1>0, <1>4, PollKept
  <2>2. Unread' = Unread
    BY <1>4, UnreadRing DEF ringVars
  <2> QED BY <1>3, <1>4, <2>1, <2>2
<1>5. ASSUME NEW t \in Threads, AddByte(t), t # "main"
      PROVE  FALSE
  BY <1>2, <1>5 DEF AddByte, Store, Load, Advance, Irq, At, Threads
<1>6. CASE Store("main")
  <2>1. input # <<>> /\ pc["main"] = "add"
    BY <1>6 DEF Store, At
  <2>2. /\ serial_buffer' = [serial_buffer EXCEPT ![serial_buffer_head] = AsAdded(Head(input))]
        /\ UNCHANGED <<serial_buffer_head, serial_buffer_tail, serial_buffer_echo,
                       loaded, input, line, got>>
        /\ pc' = [pc EXCEPT !["main"] = "load"]
    BY <1>6 DEF Store, Adding, Goto, vmVars
  <2>3. /\ Unread' = Unread
        /\ serial_buffer'[serial_buffer_head] = AsAdded(Head(input))
        /\ line # <<>> => serial_buffer'[serial_buffer_echo] = serial_buffer[serial_buffer_echo]
    BY <2>1, <2>2, StoreKeeps
  <2>4. pc'["main"] = "load" /\ pc'["code"] = pc["code"]
    BY <1>2, <2>2
  <2>5. PollInv'
    BY <1>0, <2>1, <2>2, <2>3, <2>4 DEF PollInv
  <2> QED BY <1>3, <2>2, <2>3, <2>5
<1>7. CASE Load("main")
  <2>1. /\ pc["main"] = "load" /\ pc' = [pc EXCEPT !["main"] = "advance"]
        /\ loaded' = [loaded EXCEPT !["main"] = serial_buffer_head]
        /\ UNCHANGED <<ringVars, input, line, got>>
    BY <1>7 DEF Load, At, Goto, vmVars
  <2>2. /\ pc'["main"] = "advance" /\ pc'["code"] = pc["code"]
        /\ loaded'["main"] = serial_buffer_head
    BY <1>2, <2>1
  <2> QED BY <1>2, <1>4, <2>1, <2>2
<1>8. CASE Advance("main")
  <2>1. /\ pc["main"] = "advance" /\ pc' = [pc EXCEPT !["main"] = "added"]
        /\ serial_buffer_head' = NextSlot(loaded["main"]) /\ input' = Tail(input)
        /\ UNCHANGED <<serial_buffer, serial_buffer_tail, serial_buffer_echo, line, got>>
    BY <1>0, <1>8 DEF Advance, At, Goto, vmVars
  <2>2. /\ input # <<>> /\ loaded["main"] = serial_buffer_head
        /\ serial_buffer[serial_buffer_head] = AsAdded(Head(input))
        /\ Len(Unread) + Len(input) + Len(line) <= MaxUnread
    BY <2>1 DEF PollInv
  <2>3. /\ Len(Unread) \in Nat /\ Unread \in Seq(Bytes) /\ Len(line) \in Nat
        /\ Len(input) \in Nat /\ 0 < Len(input) /\ Len(Tail(input)) = Len(input) - 1
    BY <1>2, <2>2, UnreadType
  <2>4. Len(Unread) < Size - 1
    BY <1>1, <2>2, <2>3, SizeAssumption
  <2>5. Unread' = Append(Unread, AsAdded(Head(input)))
    BY <2>1, <2>2, <2>4, AdvanceAppends
  <2>6. AsAdded(Head(input)) \in Bytes
    BY <1>2, <2>2
  <2>7. Len(Unread') = Len(Unread) + 1
    BY <2>3, <2>5, <2>6
  <2>8. Len(Unread') + Len(input') + Len(line') <= MaxUnread'
    BY <1>0, <1>1, <2>1, <2>2, <2>3, <2>7
  <2>9. pc'["main"] = "added" /\ pc'["code"] = pc["code"]
    BY <1>2, <2>1
  <2>10. PollInv'
    BY <2>1, <2>8, <2>9 DEF PollInv
  <2>11. Fifo!Add
    BY <1>0, <2>1, <2>2, <2>5 DEF Fifo!Add, Fifo!AsAdded, AsAdded
  <2> QED BY <2>10, <2>11 DEF Fifo!Next
<1>9. CASE Irq("main")
  BY <1>9 DEF Irq, At, PollInv
<1>10. CASE Read
  <2>1. PICK len \in 1..MaxRead : /\ len + Len(Unread) + Len(line) <= MaxUnread
                                  /\ input' \in [1..len -> Typed]
    BY <1>10 DEF Read
  <2>2. /\ pc["main"] = "idle" /\ pc' = [pc EXCEPT !["main"] = "add"]
        /\ UNCHANGED <<ringVars, line, got>>
    BY <1>10 DEF Read, At, Goto, vmVars
  <2>3. len \in Nat /\ 0 < len
    BY SizeAssumption
  <2>4. input' \in Seq(Bytes) /\ Len(input') = len
    <3>1. Typed \subseteq Bytes
      BY DEF Bytes
    <3> QED BY <2>1, <2>3, <3>1
  <2>5. Unread' = Unread
    BY <2>2, UnreadRing DEF ringVars
  <2>6. Len(Unread') + Len(input') + Len(line') <= MaxUnread'
    <3>1. Len(Unread) \in Nat /\ Len(line) \in Nat
      BY UnreadType
    <3> QED BY <1>0, <1>1, <2>1, <2>2, <2>3, <2>4, <2>5, <3>1
  <2>7. input' # <<>>
    BY <2>3, <2>4
  <2>8. pc'["main"] = "add" /\ pc'["code"] = pc["code"]
    BY <1>2, <2>2
  <2>9. PollInv'
    BY <2>2, <2>6, <2>7, <2>8 DEF PollInv, ringVars
  <2>10. input = <<>>
    BY <2>2 DEF PollInv
  <2>11. Fifo!Type
    BY <1>0, <2>2, <2>4, <2>5, <2>10 DEF Fifo!Type
  <2> QED BY <2>9, <2>11 DEF Fifo!Next
<1>11. CASE MainAdded
  <2>1. /\ UNCHANGED <<ringVars, input, line, got>>
        /\ \/ input # <<>> /\ pc' = [pc EXCEPT !["main"] = "add"]
           \/ input = <<>> /\ pc' = [pc EXCEPT !["main"] = "idle"]
    BY <1>11 DEF MainAdded, Goto, vmVars
  <2>2. /\ pc'["code"] = pc["code"]
        /\ \/ input # <<>> /\ pc'["main"] = "add"
           \/ input = <<>> /\ pc'["main"] = "idle"
    BY <1>2, <2>1
  <2> QED BY <1>2, <1>4, <2>1, <2>2
<1>12. CASE Yield \/ Relock
  <2>1. /\ UNCHANGED <<ringVars, input, line, got, loaded>>
        /\ \E p \in {"vm", "relock"} : pc' = [pc EXCEPT !["code"] = p]
    BY <1>0, <1>12 DEF Yield, Relock, Goto, vmVars
  <2>2. pc'["code"] \in {"vm", "relock"} /\ pc'["main"] = pc["main"]
    BY <1>2, <2>1
  <2> QED BY <1>4, <2>1, <2>2
<1>13. CASE CodeAdded
  BY <1>2, <1>13 DEF CodeAdded, At
<1>14. CASE Poll
  <2>1. /\ line = <<>> /\ Getc
        /\ UNCHANGED <<serial_buffer, serial_buffer_head, serial_buffer_echo, pc, loaded, input>>
    BY <1>14 DEF Poll
  <2>2. /\ Unread # <<>> /\ Unread' = Tail(Unread) /\ got' = Head(Unread)
        /\ serial_buffer_tail' = NextSlot(serial_buffer_tail)
        /\ line' = Append(line, serial_buffer[serial_buffer_tail])
    BY <2>1, PollTakes
  <2>3. line' = <<serial_buffer[serial_buffer_tail]>> /\ Len(line') = 1 /\ Len(line) = 0
        /\ line' # <<>>
    BY <2>1, <2>2
  <2>4. Len(Unread') + Len(input') + Len(line') <= MaxUnread'
    <3>1. /\ Len(Unread) \in Nat /\ 0 < Len(Unread) /\ Len(Tail(Unread)) = Len(Unread) - 1
          /\ Len(input) \in Nat
      BY <2>2, UnreadType
    <3>2. Len(Unread) + Len(input) + Len(line) <= MaxUnread
      BY DEF PollInv
    <3> QED BY <1>0, <1>1, <2>1, <2>2, <2>3, <3>1, <3>2
  <2>5. serial_buffer_echo = serial_buffer_tail
    BY <2>1 DEF PollInv
  <2>6. PollInv'
    BY <2>1, <2>2, <2>3, <2>4, <2>5 DEF PollInv
  <2>7. Fifo!Get
    BY <1>0, <2>1, <2>2 DEF Fifo!Get
  <2> QED BY <2>6, <2>7 DEF Fifo!Next
<1>15. ASSUME NEW c, Putc(c), line' = <<>>,
              UNCHANGED <<serial_buffer, serial_buffer_head, serial_buffer_tail,
                          pc, loaded, input, got>>
       PROVE  PollInv' /\ [Fifo!Next]_(Fifo!vars)
  <2>1. serial_buffer_echo' = serial_buffer_tail
    BY <1>15, PutcPasses
  <2>2. Unread' = Unread
    BY <1>15, UnreadRing
  <2>3. Len(Unread') + Len(input') + Len(line') <= MaxUnread'
    <3>1. Len(<<>>) = 0 /\ Len(line) \in Nat /\ Len(Unread) \in Nat /\ Len(input) \in Nat
      BY UnreadType
    <3>2. Len(Unread) + Len(input) + Len(line) <= MaxUnread
      BY DEF PollInv
    <3> QED BY <1>0, <1>1, <1>15, <2>2, <3>1, <3>2
  <2>4. PollInv'
    BY <1>15, <2>1, <2>3 DEF PollInv
  <2> QED BY <1>3, <1>15, <2>2, <2>4
<1>16. CASE Echo
  <2>1. line' = <<>>
    <3>1. line # <<>> /\ line' = Tail(line)
      BY <1>16 DEF Echo
    <3>2. line = <<serial_buffer[serial_buffer_echo]>>
      BY <3>1 DEF PollInv
    <3> QED BY <3>1, <3>2
  <2> QED BY <1>15, <1>16, <2>1 DEF Echo
<1>17. ASSUME NEW c \in Printed, ProgramPrints(c)
       PROVE  PollInv' /\ [Fifo!Next]_(Fifo!vars)
  <2>1. line = <<>> /\ line' = line
    BY <1>0, <1>17 DEF ProgramPrints
  <2> QED BY <1>15, <1>17, <2>1 DEF ProgramPrints
<1>18. CASE UNCHANGED vars
  BY <1>2, <1>4, <1>18 DEF vars, vmVars
<1> QED
  BY <1>5, <1>6, <1>7, <1>8, <1>9, <1>10, <1>11, <1>12, <1>13, <1>14, <1>16, <1>17, <1>18
  DEF Next, Steps, AddByte

LEMMA SerialInvariant ==
    ASSUME Fits PROVE Spec => [](TypeOK /\ Sending /\ PollInv)
<1>1. Init => TypeOK /\ Sending /\ PollInv
  BY TypeInit, PollInit
<1>2. TypeOK /\ Sending /\ PollInv /\ [Next]_vars => (TypeOK /\ Sending /\ PollInv)'
  <2> SUFFICES ASSUME TypeOK, Sending, PollInv, [Next]_vars
               PROVE  (TypeOK /\ Sending /\ PollInv)'
    OBVIOUS
  <2>1. TypeOK' /\ Sending'
    BY TypeStep
  <2>2. CASE Polled
    BY <2>1, <2>2, PollStep
  <2>3. CASE ~Polled
    BY <2>1, <2>3 DEF PollInv, Polled, interactive, Attached, Next, vars
  <2> QED BY <2>1, <2>2, <2>3
<1> QED BY <1>1, <1>2, PTL DEF Spec

(* Hardware.cpp:72-83, 109-117: whatever the size of the ring, a VM that polls
   reads what was typed once and in order, as long as no more is typed than the
   ring holds: serial_add_byte itself does not look whether it is full. *)
THEOREM InOrder == ASSUME Fits PROVE Spec => DeliversInOrder
<1>1. Init => Fifo!Init
  <2> SUFFICES ASSUME Init PROVE Fifo!Init
    OBVIOUS
  <2>1. Unread = <<>>
    <3>1. serial_buffer_head = 0 /\ serial_buffer_tail = 0 /\ serial_buffer \in [Slots -> Bytes]
      BY DEF Init, Bytes
    <3> QED BY <3>1, RingType, SlotArithmetic, UnreadRing
  <2> QED BY <2>1 DEF Init, Fifo!Init, None
<1>2. TypeOK /\ Sending /\ PollInv /\ [Next]_vars => [Fifo!Next]_(Fifo!vars)
  <2> SUFFICES ASSUME TypeOK, Sending, PollInv, [Next]_vars PROVE [Fifo!Next]_(Fifo!vars)
    OBVIOUS
  <2>1. CASE Polled
    BY <2>1, TypeStep, PollStep
  <2>2. CASE ~Polled
    BY <2>2 DEF Fifo!vars, Polled, interactive, Attached, Next, vars
  <2> QED BY <2>1, <2>2
<1> QED BY <1>1, <1>2, SerialInvariant, PTL DEF Spec, DeliversInOrder, Fifo!Spec

(* Hardware.cpp:125-145: the echo of a byte that the terminal has shown already
   is dropped, under the same condition. *)
THEOREM EchoIsHidden == ASSUME Fits PROVE Spec => EchoHidden
<1>1. TypeOK /\ PollInv /\ [Next]_vars
        => [Polled /\ Echo /\ Head(line) \notin Control => out' = None]_vars
  <2> SUFFICES ASSUME TypeOK, PollInv, Polled, Echo, Head(line) \notin Control
               PROVE  out' = None
    OBVIOUS
  <2>1. line # <<>> /\ Putc(Head(line))
    BY DEF Echo, Answer
  <2> QED BY <2>1, PutcPasses
<1> QED BY <1>1, SerialInvariant, PTL DEF Spec, EchoHidden

(* Hardware.cpp:140-150: what the program prints is printed, although it may be
   what was typed. *)
THEOREM OutputIsShown == ASSUME Fits PROVE Spec => OutputShown
<1>1. TypeOK /\ PollInv /\ [Next]_vars
        => [Polled => \A c \in Printed : ProgramPrints(c) => out' = c]_vars
  <2> SUFFICES ASSUME TypeOK, PollInv, Polled, NEW c \in Printed, ProgramPrints(c)
               PROVE  out' = c
    OBVIOUS
  <2>1. line = <<>> /\ Putc(c)
    BY DEF ProgramPrints, Polled
  <2> QED BY <2>1, PutcPasses
<1> QED BY <1>1, SerialInvariant, PTL DEF Spec, OutputShown
=============================================================================
