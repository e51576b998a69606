------------------------------- MODULE Ticker -------------------------------
(***************************************************************************)
(* The simulated 16us ticker (source/ticker.cpp): three fast timers with   *)
(* callbacks and the slow timer that counts 6ms macro ticks.               *)
(*                                                                         *)
(* Nothing here measures time: a caller of fire_ticker passes the number   *)
(* of ticks that the previous call of its own told it to wait.  There are  *)
(* two such callers, the event loop (or, in fast mode, the code thread)    *)
(* and fastforward_timer, each with a count of its own (Main.cpp:137,      *)
(* 1077, 1157).  All calls hold code_lock, so each is one step.            *)
(***************************************************************************)
EXTENDS Integers

CONSTANTS
    Fast,           \* indices of the fast timers: 0, 1 and 2 in the code
    MACRO,          \* ticks in a macro tick: 375
    STEP,           \* the longest wait between two calls: 75
    US_PER_TICK,    \* microseconds in a tick: 16
    W,              \* the counters are uint32_t: 2^32
    Delays,         \* what a fast callback may return: microseconds to its
                    \* author (ticker.cpp:41-43), but added as ticks
    InitialDelays,  \* initial_delay_us arguments of set_ticker_callback
    Horizon         \* bound: the tick count the model runs to

ASSUME SizeAssumption ==
    /\ MACRO \in Nat /\ STEP \in Nat /\ US_PER_TICK \in Nat /\ W \in Nat /\ Horizon \in Nat
    /\ 0 < STEP /\ STEP < MACRO /\ 6 <= MACRO /\ MACRO < W /\ 0 < US_PER_TICK
    /\ Fast \subseteq 0..2
ASSUME DelayAssumption ==
    /\ Delays \subseteq 0..(W - 1) /\ InitialDelays \subseteq 0..(W - 1)

VARIABLES
    ticks, macro_ticks,
    system_ticks,   \* ::ticks, the clock behind systemTime()
    timer_ticks,    \* tick count at which each timer is next due; 3 is slow
    callbacks,      \* fast timers with a callback
    until,          \* the ticks each caller will pass to fire_ticker
    since_macro,    \* history: ticks run since the last macro tick
    short           \* history: by how much the delays of each callback so far
                    \* were shorter than a wait, in all

vars == <<ticks, macro_ticks, system_ticks, timer_ticks, callbacks, until, since_macro, short>>

Timers == Fast \cup {3}
Callers == {"loop", "fastforward"}

(* uint32_t addition and subtraction. *)
Add32(a, b) == (a + b) % W
Sub32(a, b) == (a - b) % W

(* set_ticker_callback and clear_ticker_callback. *)
SetTicker(i, initial_delay_us) ==
    /\ callbacks' = callbacks \cup {i}
    /\ timer_ticks' = [timer_ticks EXCEPT ![i] =
                         Add32(ticks, initial_delay_us \div US_PER_TICK)]
    /\ short' = [short EXCEPT ![i] = 0]
    /\ UNCHANGED <<ticks, macro_ticks, system_ticks, until, since_macro>>

ClearTicker(i) ==
    /\ callbacks' = callbacks \ {i}
    /\ timer_ticks' = [timer_ticks EXCEPT ![i] = 0]
    /\ short' = [short EXCEPT ![i] = 0]
    /\ UNCHANGED <<ticks, macro_ticks, system_ticks, until, since_macro>>

(* mutants: re-arm from the current time, so that late calls drift; re-arm by
   the wrong period. *)
AdvanceDrifting(i, now, delay) == Add32(now, delay)
AdvanceStep(i, now, delay) == Add32(timer_ticks[i], STEP)
(* A due timer is moved on from when it was due, not from now. *)
Advance(i, now, delay) == Add32(timer_ticks[i], delay)

(* mutant: the fast timers are forgotten. *)
DueSlowOnly(i, now) == now >= timer_ticks[i] /\ i = 3
Due(i, now) == now >= timer_ticks[i] /\ (i = 3 \/ i \in callbacks)

(* The ticks until the next call: at most STEP, less if a timer is due before. *)
NextCall(now, timers, wait) ==
    LET limit == Add32(now, STEP)
        due   == {limit} \cup {timers[i] : i \in {j \in Timers :
                                  timers[j] > now /\ timers[j] < limit}}
    IN  \E next \in due : (\A t \in due : next <= t) /\ wait = Sub32(next, now)

Shortfall(delay) == IF delay < STEP THEN STEP - delay ELSE 0

(* fire_ticker: each timer that is due fires once, however late it is. *)
Fire(c) ==
    LET now == Add32(ticks, until[c])
    IN  /\ ticks + until[c] <= Horizon
        /\ ticks' = now
        /\ system_ticks' = Add32(macro_ticks * 6, 0)
        /\ macro_ticks' = IF Due(3, now) THEN Add32(macro_ticks, 1) ELSE macro_ticks
        /\ \E delay \in [{i \in Fast : Due(i, now)} -> Delays] :
             /\ timer_ticks' = [i \in Timers |->
                  IF Due(i, now)
                    THEN Advance(i, now, IF i = 3 THEN MACRO ELSE delay[i])
                    ELSE timer_ticks[i]]
             /\ short' = [i \in Fast |->
                  short[i] + IF Due(i, now) THEN Shortfall(delay[i]) ELSE 0]
        /\ \E wait \in 1..STEP : /\ NextCall(now, timer_ticks', wait)
                                 /\ until' = [until EXCEPT ![c] = wait]
        /\ since_macro' = IF Due(3, now) THEN 0 ELSE since_macro + until[c]
        /\ UNCHANGED callbacks

StartFromZero ==                                \* mutant: the count starts from 0
    /\ until' = [until EXCEPT !["fastforward"] = 0]
    /\ UNCHANGED <<ticks, macro_ticks, system_ticks, timer_ticks, callbacks, since_macro, short>>

(* A new fastforward_timer starts from 75 ticks; the loop keeps its count. *)
StartFastForward ==
    /\ until' = [until EXCEPT !["fastforward"] = STEP]
    /\ UNCHANGED <<ticks, macro_ticks, system_ticks, timer_ticks, callbacks, since_macro, short>>

Init ==
    /\ ticks = 0 /\ macro_ticks = 0 /\ system_ticks = 0
    /\ timer_ticks = [i \in Timers |-> 0]
    /\ callbacks = {}
    /\ until = [c \in Callers |-> STEP]
    /\ since_macro = MACRO
    /\ short = [i \in Fast |-> 0]

Next ==
    \/ \E c \in Callers : Fire(c)
    \/ StartFastForward
    \/ \E i \in Fast : ClearTicker(i) \/ \E d \in InitialDelays : SetTicker(i, d)

Spec == Init /\ [][Next]_vars
-----------------------------------------------------------------------------
(* The counters do not wrap before the horizon. *)
NoWrap ==
    /\ Horizon + MACRO < W
    /\ \A d \in Delays \cup InitialDelays : Horizon + d < W

(* Type invariant. *)
TypeOK ==
    /\ ticks \in 0..(W - 1) /\ macro_ticks \in 0..(W - 1) /\ system_ticks \in 0..(W - 1)
    /\ timer_ticks \in [Timers -> 0..(W - 1)]
    /\ callbacks \subseteq Fast
    /\ until \in [Callers -> 1..STEP]
    /\ since_macro \in Nat
    /\ short \in [Fast -> Nat]

(* Macro ticks keep time with ticks and never drift, whichever caller runs
   the ticker: after any call the slow timer is due at the next multiple of
   375 ticks, and macro_ticks counts the multiples passed (ticker.cpp:36-38,
   65).  The system clock is at most one macro tick behind. *)
MacroRate ==
    \/ ticks = 0 /\ macro_ticks = 0 /\ timer_ticks[3] = 0
    \/ /\ timer_ticks[3] = MACRO * macro_ticks
       /\ ticks < timer_ticks[3] /\ timer_ticks[3] <= ticks + MACRO
       /\ system_ticks \in {6 * macro_ticks, 6 * (macro_ticks - 1)}

(* What is left of the latency bound of ticker.cpp:137-139: a fast callback is
   overdue by less than one wait between calls, 75 ticks, and all that its own
   delays have fallen short of a wait since it was set.  Each run of a late
   call gives it back less than a wait has taken, so a callback that always
   asks for less (as the display does, Main.cpp:427) falls behind for ever. *)
LatencyBounded == \A i \in callbacks : ticks < timer_ticks[i] + STEP + short[i]

(* Two macro ticks are never closer than 375 ticks less one wait, counting the
   ticks of the call that makes the second (ticker.cpp:36-38, 65). *)
MacroTickSpacing ==
    [][\A c \in Callers : Fire(c) /\ macro_ticks' # macro_ticks
          => since_macro + until[c] >= MACRO - STEP]_vars

(* The slow timer is never put off for longer than it takes to catch up with
   the macro ticks that it ran too early when the tick counter wrapped: there
   is one in each call before the wrap (ticker.cpp:65, 124-130). *)
NoStandstill == since_macro <= MACRO * ((MACRO \div STEP) + 2)
=============================================================================
