---------------------------- MODULE RandomSource ----------------------------
(* Random numbers (source/Hardware.cpp:839-905): the marker may inject one   *)
(* number for a number of calls, or for all of them, and is told when the    *)
(* program has drawn more.                                                   *)
EXTENDS Integers
CONSTANTS
  INT32_MAX,       \* the largest int32_t; "for all calls" is that many
  Repeats          \* the repeat values of the client, negative ones included
ASSUME RandomAssumption == INT32_MAX \in Nat /\ Repeats \subseteq Int

VARIABLES
  inject_random, remaining_random,
  choice_count,    \* _random_choice_count: -1 before the client sets it
  granted, drawn   \* history: of the last injection, what it allows and what it gave
randomVars == <<inject_random, remaining_random, choice_count, granted, drawn>>

RandomInit ==
  /\ inject_random = FALSE /\ remaining_random = 0 /\ choice_count = -1
  /\ granted = 0 /\ drawn = 0

Allowed(repeat) == IF repeat < 0 THEN INT32_MAX ELSE repeat

\* set_random_state(next, repeat) with next >= 0, and with next < 0: then what remained of
\* the injection stays, and with it whether it was exceeded.
InjectRandom(repeat) ==
  /\ inject_random' = TRUE /\ remaining_random' = Allowed(repeat)
  /\ granted' = Allowed(repeat) /\ drawn' = 0
  /\ UNCHANGED choice_count
StopInjecting ==
  inject_random' = FALSE /\ UNCHANGED <<remaining_random, choice_count, granted, drawn>>

GetsAlways ==                                  \* mutant: counts rand() too
  /\ remaining_random' = remaining_random - 1
  /\ drawn' = IF inject_random THEN drawn + 1 ELSE drawn
  /\ UNCHANGED <<inject_random, choice_count, granted>>

\* Bound: no more than INT32_MAX numbers are drawn from one injection.
get_random ==
  /\ drawn < INT32_MAX
  /\ IF inject_random
     THEN remaining_random' = remaining_random - 1 /\ drawn' = drawn + 1
     ELSE UNCHANGED <<remaining_random, drawn>>
  /\ UNCHANGED <<inject_random, choice_count, granted>>

has_exceeded_random_call_limit == remaining_random < 0

\* set_random_choice(); get_random_choice() has one to give when the count is positive.
set_random_choice(count) ==
  choice_count' = count /\ UNCHANGED <<inject_random, remaining_random, granted, drawn>>
get_random_choice == choice_count > 0

RandomNext ==
  \/ \E r \in Repeats : InjectRandom(r)
  \/ StopInjecting
  \/ get_random
  \/ \E n \in {0, 1} : set_random_choice(n)

RandomType ==
  /\ inject_random \in BOOLEAN /\ remaining_random \in Int
  /\ choice_count \in Int /\ granted \in Nat /\ drawn \in Nat

\* The flag that the marker is shown means that the program has drawn more numbers from
\* the last injection than it allows, also when injecting has stopped since and whatever
\* was drawn from rand().
ExceededExact == has_exceeded_random_call_limit <=> drawn > granted
=============================================================================
