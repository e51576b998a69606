---------------------------- MODULE TickerProofs ----------------------------
(***************************************************************************)
(* Proofs about Ticker.  Up to a horizon at which no counter wraps, for    *)
(* every macro tick length, every longest wait and every set of delays:    *)
(* macro ticks keep exact time with ticks and are at least a macro tick    *)
(* less one wait apart, and a fast callback is late by less than one wait  *)
(* and what its own delays have fallen short of a wait.                    *)
(***************************************************************************)
EXTENDS Ticker, TLAPS

(* uint32_t arithmetic stays in range, and is exact below the width. *)
LEMMA Remainder == ASSUME NEW a \in Int PROVE a % W \in 0..(W - 1)
BY SizeAssumption

LEMMA NoRemainder == ASSUME NEW a \in 0..(W - 1) PROVE a % W = a
BY SizeAssumption

LEMMA DelayRange == \A d \in Delays \cup InitialDelays : d \in Nat
BY DelayAssumption, SizeAssumption

LEMMA TypeInit == Init => TypeOK
BY SizeAssumption DEF Init, TypeOK, Timers, Callers

LEMMA TypeStep == ASSUME TypeOK, [Next]_vars PROVE TypeOK'
<1> USE DEF TypeOK, Timers, Callers
<1>1. ASSUME NEW c \in Callers, Fire(c) PROVE TypeOK'
  <2>1. ticks' \in 0..(W - 1)
    <3>1. ticks + until[c] \in Int
      BY <1>1, SizeAssumption
    <3> QED BY <1>1, <3>1, Remainder DEF Fire, Add32
  <2>2. macro_ticks' \in 0..(W - 1)
    <3>1. (macro_ticks + 1) % W \in 0..(W - 1)
      BY Remainder
    <3> QED BY <1>1, <3>1 DEF Fire, Add32
  <2>3. system_ticks' \in 0..(W - 1)
    <3>1. (macro_ticks * 6 + 0) % W \in 0..(W - 1)
      BY Remainder
    <3> QED BY <1>1, <3>1 DEF Fire, Add32
  <2>4. timer_ticks' \in [Timers -> 0..(W - 1)]
    <3>1. PICK delay \in [{i \in Fast : Due(i, Add32(ticks, until[c]))} -> Delays] :
            timer_ticks' = [i \in Timers |->
                IF Due(i, Add32(ticks, until[c]))
                  THEN Advance(i, Add32(ticks, until[c]), IF i = 3 THEN MACRO ELSE delay[i])
                  ELSE timer_ticks[i]]
      BY <1>1 DEF Fire
    <3>2. ASSUME NEW i \in Timers, Due(i, Add32(ticks, until[c]))
          PROVE  Advance(i, Add32(ticks, until[c]), IF i = 3 THEN MACRO ELSE delay[i])
                   \in 0..(W - 1)
      <4>1. (IF i = 3 THEN MACRO ELSE delay[i]) \in Nat
        <5>1. CASE i = 3
          BY <5>1, SizeAssumption
        <5>2. CASE i # 3
          <6>1. delay[i] \in Delays
            BY <3>2, <5>2
          <6>2. delay[i] \in Nat
            BY <6>1, DelayRange
          <6> QED BY <5>2, <6>2
        <5> QED BY <5>1, <5>2
      <4>2. timer_ticks[i] + (IF i = 3 THEN MACRO ELSE delay[i]) \in Int
        BY <4>1
      <4> QED BY <4>2, Remainder DEF Advance, Add32
    <3> QED BY <3>1, <3>2
  <2>5. until' \in [Callers -> 1..STEP] /\ callbacks' \subseteq Fast
    BY <1>1 DEF Fire
  <2>6. since_macro' \in Nat
    BY <1>1 DEF Fire
  <2>7. short' \in [Fast -> Nat]
    <3>1. PICK delay \in [{i \in Fast : Due(i, Add32(ticks, until[c]))} -> Delays] :
            short' = [i \in Fast |->
              short[i] + IF Due(i, Add32(ticks, until[c])) THEN Shortfall(delay[i]) ELSE 0]
      BY <1>1 DEF Fire
    <3>2. ASSUME NEW i \in Fast, Due(i, Add32(ticks, until[c]))
          PROVE  Shortfall(delay[i]) \in Nat
      <4>1. delay[i] \in Nat
        BY <3>2, DelayRange
      <4> QED BY <4>1, SizeAssumption DEF Shortfall
    <3> QED BY <3>1, <3>2
  <2> QED BY <2>1, <2>2, <2>3, <2>4, <2>5, <2>6, <2>7
<1>2. CASE StartFastForward
  BY <1>2, SizeAssumption DEF StartFastForward
<1>3. ASSUME NEW i \in Fast, ClearTicker(i) PROVE TypeOK'
  BY <1>3, SizeAssumption DEF ClearTicker
<1>4. ASSUME NEW i \in Fast, NEW d \in InitialDelays, SetTicker(i, d) PROVE TypeOK'
  <2>1. d \div US_PER_TICK \in Int
    BY SizeAssumption, DelayAssumption
  <2>2. Add32(ticks, d \div US_PER_TICK) \in 0..(W - 1)
    BY <2>1, Remainder DEF Add32
  <2> QED BY <1>4, <2>2 DEF SetTicker
<1>5. CASE UNCHANGED vars
  BY <1>5 DEF vars
<1> QED BY <1>1, <1>2, <1>3, <1>4, <1>5 DEF Next

(* The type invariant. *)
THEOREM TypeCorrect == Spec => []TypeOK
BY TypeInit, TypeStep, PTL DEF Spec

(* One call of fire_ticker, with no counter wrapping. *)
LEMMA FireExact ==
    ASSUME NoWrap, TypeOK, ticks <= Horizon, NEW c \in Callers, Fire(c)
    PROVE  /\ ticks' = ticks + until[c] /\ ticks' <= Horizon
           /\ \A i \in Timers :
                \/ ~Due(i, ticks') /\ timer_ticks'[i] = timer_ticks[i]
                \/ /\ Due(i, ticks') /\ i = 3
                   /\ timer_ticks'[i] = timer_ticks[i] + MACRO
                \/ /\ Due(i, ticks') /\ i # 3
                   /\ \E d \in Delays :
                        /\ timer_ticks'[i] = timer_ticks[i] + d
                        /\ short'[i] = short[i] + Shortfall(d)
           /\ \A i \in Fast : ~Due(i, ticks') => short'[i] = short[i]
<1> USE DEF TypeOK, Timers, Callers
<1>1. ticks + until[c] \in 0..(W - 1)
  BY SizeAssumption DEF Fire, NoWrap
<1>2. ticks' = ticks + until[c] /\ ticks' <= Horizon
  BY <1>1, NoRemainder DEF Fire, Add32
<1> DEFINE now == Add32(ticks, until[c])
<1>0. ticks' = now
  BY DEF Fire
<1>3. PICK delay \in [{i \in Fast : Due(i, now)} -> Delays] :
        /\ timer_ticks' = [i \in Timers |->
             IF Due(i, now)
               THEN Advance(i, now, IF i = 3 THEN MACRO ELSE delay[i])
               ELSE timer_ticks[i]]
        /\ short' = [i \in Fast |->
             short[i] + IF Due(i, now) THEN Shortfall(delay[i]) ELSE 0]
  BY DEF Fire
<1> HIDE DEF now
<1>4. ASSUME NEW i \in Timers, Due(i, ticks')
      PROVE  timer_ticks'[i] = timer_ticks[i] + (IF i = 3 THEN MACRO ELSE delay[i])
  <2> DEFINE d == IF i = 3 THEN MACRO ELSE delay[i]
  <2>1. d \in Nat /\ Horizon + d < W
    <3>1. CASE i = 3
      BY <3>1, SizeAssumption DEF NoWrap
    <3>2. CASE i # 3
      <4>1. delay[i] \in Delays
        BY <1>0, <1>3, <1>4, <3>2
      <4>2. delay[i] \in Nat /\ Horizon + delay[i] < W
        BY <4>1, DelayRange DEF NoWrap
      <4> QED BY <3>2, <4>2
    <3> QED BY <3>1, <3>2
  <2>2. timer_ticks[i] <= ticks'
    BY <1>4 DEF Due
  <2>3. timer_ticks[i] + d \in 0..(W - 1)
    BY <1>2, <2>1, <2>2, SizeAssumption
  <2>4. timer_ticks'[i] = (timer_ticks[i] + d) % W
    BY <1>0, <1>3, <1>4 DEF Advance, Add32
  <2> QED BY <2>3, <2>4, NoRemainder
<1>5. ASSUME NEW i \in Timers, ~Due(i, ticks')
      PROVE  timer_ticks'[i] = timer_ticks[i]
  BY <1>0, <1>3, <1>5
<1>6. ASSUME NEW i \in Timers, i # 3, Due(i, ticks')
      PROVE  delay[i] \in Delays /\ short'[i] = short[i] + Shortfall(delay[i])
  BY <1>0, <1>3, <1>6
<1>7. ASSUME NEW i \in Fast, ~Due(i, ticks') PROVE short'[i] = short[i]
  BY <1>0, <1>3, <1>7
<1>8. ASSUME NEW i \in Timers
      PROVE  \/ ~Due(i, ticks') /\ timer_ticks'[i] = timer_ticks[i]
             \/ /\ Due(i, ticks') /\ i = 3
                /\ timer_ticks'[i] = timer_ticks[i] + MACRO
             \/ /\ Due(i, ticks') /\ i # 3
                /\ \E d \in Delays : /\ timer_ticks'[i] = timer_ticks[i] + d
                                    /\ short'[i] = short[i] + Shortfall(d)
  BY <1>4, <1>5, <1>6
<1> QED BY <1>2, <1>7, <1>8

(* Ticks never pass the horizon, so that FireExact applies to every call. *)
InHorizon == ticks <= Horizon

LEMMA HorizonStep ==
    ASSUME NoWrap, TypeOK, InHorizon, [Next]_vars PROVE InHorizon'
<1>1. ASSUME NEW c \in Callers, Fire(c) PROVE InHorizon'
  BY <1>1, FireExact DEF InHorizon
<1>2. ASSUME UNCHANGED ticks PROVE InHorizon'
  BY <1>2 DEF InHorizon
<1> QED BY <1>1, <1>2 DEF Next, StartFastForward, ClearTicker, SetTicker, vars

LEMMA RateStep ==
    ASSUME NoWrap, TypeOK, InHorizon, MacroRate, [Next]_vars PROVE MacroRate'
<1> USE DEF TypeOK, Timers, Callers
<1>1. ASSUME NEW c \in Callers, Fire(c) PROVE MacroRate'
  <2>1. /\ ticks' = ticks + until[c] /\ ticks' <= Horizon
        /\ until[c] \in 1..STEP
    BY <1>1, FireExact DEF InHorizon
  <2>2. 6 * macro_ticks \in 0..(W - 1) /\ macro_ticks + 1 < W
    BY SizeAssumption DEF MacroRate, NoWrap, InHorizon
  <2>3. system_ticks' = 6 * macro_ticks
    BY <1>1, <2>2, NoRemainder DEF Fire, Add32
  <2>4. CASE Due(3, ticks')
    <3>1. timer_ticks'[3] = timer_ticks[3] + MACRO
      BY <1>1, <2>4, FireExact DEF InHorizon
    <3>2. macro_ticks' = macro_ticks + 1
      <4>1. macro_ticks' = (macro_ticks + 1) % W
        BY <1>1, <2>4 DEF Fire, Add32
      <4>2. macro_ticks + 1 \in 0..(W - 1)
        BY <2>2, SizeAssumption
      <4> QED BY <4>1, <4>2, NoRemainder
    <3>3. timer_ticks[3] <= ticks'
      BY <2>4 DEF Due
    <3>4. timer_ticks'[3] = MACRO * macro_ticks'
      BY <3>1, <3>2, SizeAssumption DEF MacroRate
    <3>5. ticks' < timer_ticks'[3] /\ timer_ticks'[3] <= ticks' + MACRO
      BY <2>1, <3>1, <3>3, SizeAssumption DEF MacroRate
    <3> QED BY <2>3, <3>2, <3>4, <3>5 DEF MacroRate
  <2>5. CASE ~Due(3, ticks')
    <3>1. timer_ticks'[3] = timer_ticks[3]
      BY <1>1, <2>5, FireExact DEF InHorizon
    <3>2. macro_ticks' = macro_ticks
      BY <1>1, <2>5 DEF Fire
    <3>3. ticks' < timer_ticks[3]
      BY <2>1, <2>5 DEF Due
    <3>4. timer_ticks[3] = MACRO * macro_ticks /\ timer_ticks[3] <= ticks' + MACRO
      BY <2>1, <3>3, SizeAssumption DEF MacroRate
    <3> QED BY <2>3, <3>1, <3>2, <3>3, <3>4 DEF MacroRate
  <2> QED BY <2>4, <2>5
<1>2. CASE StartFastForward
  BY <1>2 DEF StartFastForward, MacroRate
<1>3. ASSUME NEW i \in Fast, ClearTicker(i) PROVE MacroRate'
  BY <1>3, SizeAssumption DEF ClearTicker, MacroRate
<1>4. ASSUME NEW i \in Fast, NEW d \in InitialDelays, SetTicker(i, d) PROVE MacroRate'
  BY <1>4, SizeAssumption DEF SetTicker, MacroRate
<1>5. CASE UNCHANGED vars
  BY <1>5 DEF vars, MacroRate
<1> QED BY <1>1, <1>2, <1>3, <1>4, <1>5 DEF Next

(* ticker.cpp:36-38, 65: macro ticks never drift from ticks, whichever of
   the two callers runs the ticker and whatever the fast callbacks ask for. *)
THEOREM MacroRateHolds == ASSUME NoWrap PROVE Spec => []MacroRate
<1>1. Init => InHorizon /\ MacroRate
  BY SizeAssumption DEF Init, InHorizon, MacroRate, Timers
<1>2. TypeOK /\ InHorizon /\ [Next]_vars => InHorizon'
  BY HorizonStep
<1>3. TypeOK /\ InHorizon /\ MacroRate /\ [Next]_vars => MacroRate'
  BY RateStep
<1> QED BY <1>1, <1>2, <1>3, TypeCorrect, PTL DEF Spec

LEMMA LatencyStep ==
    ASSUME NoWrap, TypeOK, InHorizon, LatencyBounded, [Next]_vars
    PROVE  LatencyBounded'
<1> USE DEF TypeOK, Timers, Callers
<1>1. ASSUME NEW c \in Callers, Fire(c) PROVE LatencyBounded'
  <2> SUFFICES ASSUME NEW i \in callbacks PROVE ticks' < timer_ticks'[i] + STEP + short'[i]
    BY <1>1 DEF LatencyBounded, Fire
  <2>1. /\ ticks' = ticks + until[c] /\ until[c] \in 1..STEP
        /\ ticks < timer_ticks[i] + STEP + short[i]
    BY <1>1, FireExact DEF InHorizon, LatencyBounded
  <2>2. /\ i \in Timers /\ i \in Fast /\ i # 3
        /\ ticks \in Nat /\ timer_ticks[i] \in Nat /\ short[i] \in Nat /\ STEP \in Nat
    BY SizeAssumption
  <2>3. CASE Due(i, ticks')
    <3>1. PICK d \in Delays : /\ timer_ticks'[i] = timer_ticks[i] + d
                              /\ short'[i] = short[i] + Shortfall(d)
      BY <1>1, <2>2, <2>3, FireExact DEF InHorizon
    <3>2. d \in Nat
      BY DelayRange
    <3>3. Shortfall(d) \in Nat /\ d + Shortfall(d) >= STEP
      BY <2>2, <3>2 DEF Shortfall
    <3> HIDE DEF TypeOK, Timers, Callers
    <3> QED BY <2>1, <2>2, <3>1, <3>2, <3>3
  <2>4. CASE ~Due(i, ticks')
    <3>1. timer_ticks'[i] = timer_ticks[i]
      BY <1>1, <2>2, <2>4, FireExact DEF InHorizon
    <3>2. ticks' < timer_ticks[i]
      BY <2>1, <2>2, <2>4 DEF Due
    <3>3. short'[i] = short[i]
      BY <1>1, <2>2, <2>4, FireExact DEF InHorizon
    <3> QED BY <2>1, <2>2, <3>1, <3>2, <3>3, SizeAssumption
  <2> QED BY <2>3, <2>4
<1>2. CASE StartFastForward
  BY <1>2 DEF StartFastForward, LatencyBounded
<1>3. ASSUME NEW i \in Fast, ClearTicker(i) PROVE LatencyBounded'
  BY <1>3 DEF ClearTicker, LatencyBounded
<1>4. ASSUME NEW i \in Fast, NEW d \in InitialDelays, SetTicker(i, d) PROVE LatencyBounded'
  <2>1. d \div US_PER_TICK \in 0..d
    BY SizeAssumption, DelayAssumption
  <2>2. ticks + (d \div US_PER_TICK) \in 0..(W - 1)
    BY <2>1, DelayAssumption, SizeAssumption DEF InHorizon, NoWrap
  <2>3. timer_ticks' = [timer_ticks EXCEPT ![i] = ticks + (d \div US_PER_TICK)]
    BY <1>4, <2>2, NoRemainder DEF SetTicker, Add32
  <2>4. ticks' = ticks /\ callbacks' = callbacks \cup {i} /\ short' = [short EXCEPT ![i] = 0]
    BY <1>4 DEF SetTicker
  <2>5. ASSUME NEW k \in callbacks' PROVE ticks' < timer_ticks'[k] + STEP + short'[k]
    <3>1. CASE k = i
      <4>1. timer_ticks'[k] = ticks + (d \div US_PER_TICK) /\ short'[k] = 0
        BY <2>3, <2>4, <3>1
      <4> QED BY <2>1, <2>4, <4>1, DelayAssumption, SizeAssumption
    <3>2. CASE k # i
      BY <2>3, <2>4, <3>2 DEF LatencyBounded
    <3> QED BY <3>1, <3>2
  <2> QED BY <2>5 DEF LatencyBounded
<1>5. CASE UNCHANGED vars
  BY <1>5 DEF vars, LatencyBounded
<1> QED BY <1>1, <1>2, <1>3, <1>4, <1>5 DEF Next

(* ticker.cpp:137-139: whatever a fast callback asks for, it is late by less
   than one wait, 75 ticks, and what its own delays have fallen short of one. *)
THEOREM LatencyHolds == ASSUME NoWrap PROVE Spec => []LatencyBounded
<1>1. Init => InHorizon /\ LatencyBounded
  BY SizeAssumption DEF Init, InHorizon, LatencyBounded
<1>2. TypeOK /\ InHorizon /\ [Next]_vars => InHorizon'
  BY HorizonStep
<1>3. TypeOK /\ InHorizon /\ LatencyBounded /\ [Next]_vars => LatencyBounded'
  BY LatencyStep
<1> QED BY <1>1, <1>2, <1>3, TypeCorrect, PTL DEF Spec

(* Ticks since the last macro tick: it ran at most one wait late. *)
Spaced == since_macro >= ticks - timer_ticks[3] + (MACRO - STEP)

LEMMA SpacedStep ==
    ASSUME NoWrap, TypeOK, InHorizon, MacroRate, Spaced, [Next]_vars
    PROVE  /\ Spaced'
           /\ \A c \in Callers : Fire(c) /\ macro_ticks' # macro_ticks
                => since_macro + until[c] >= MACRO - STEP
<1> USE DEF TypeOK, Timers, Callers
<1>1. ASSUME NEW c \in Callers, Fire(c)
      PROVE  /\ Spaced'
             /\ macro_ticks' # macro_ticks => since_macro + until[c] >= MACRO - STEP
  <2>1. ticks' = ticks + until[c] /\ until[c] \in 1..STEP
    BY <1>1, FireExact DEF InHorizon
  <2>2. ticks \in Nat /\ timer_ticks[3] \in Nat /\ since_macro \in Nat /\ STEP \in Nat /\ MACRO \in Nat
    BY SizeAssumption
  <2>3. ticks <= timer_ticks[3]
    BY <2>2 DEF MacroRate
  <2>4. CASE Due(3, ticks')
    <3>1. timer_ticks'[3] = timer_ticks[3] + MACRO /\ since_macro' = 0
      <4>1. since_macro' = 0
        BY <1>1, <2>1, <2>4, FireExact DEF Fire, InHorizon
      <4>2. timer_ticks'[3] = timer_ticks[3] + MACRO
        BY <1>1, <2>4, FireExact DEF InHorizon
      <4> QED BY <4>1, <4>2
    <3>2. timer_ticks[3] <= ticks'
      BY <2>4 DEF Due
    <3>3. Spaced'
      BY <2>1, <2>2, <2>3, <3>1 DEF Spaced
    <3>4. since_macro + until[c] >= MACRO - STEP
      BY <2>1, <2>2, <3>2 DEF Spaced
    <3> QED BY <3>3, <3>4
  <2>5. CASE ~Due(3, ticks')
    <3>1. timer_ticks'[3] = timer_ticks[3] /\ macro_ticks' = macro_ticks
          /\ since_macro' = since_macro + until[c]
      <4>1. timer_ticks'[3] = timer_ticks[3]
        BY <1>1, <2>5, FireExact DEF InHorizon
      <4>2. macro_ticks' = macro_ticks /\ since_macro' = since_macro + until[c]
        BY <1>1, <2>5 DEF Fire
      <4> QED BY <4>1, <4>2
    <3> QED BY <2>1, <2>2, <3>1 DEF Spaced
  <2> QED BY <2>4, <2>5
<1>2. CASE StartFastForward
  BY <1>2 DEF StartFastForward, Spaced
<1>3. ASSUME NEW i \in Fast, ClearTicker(i) PROVE Spaced'
  BY <1>3, SizeAssumption DEF ClearTicker, Spaced
<1>4. ASSUME NEW i \in Fast, NEW d \in InitialDelays, SetTicker(i, d) PROVE Spaced'
  BY <1>4, SizeAssumption DEF SetTicker, Spaced
<1>5. CASE UNCHANGED vars
  BY <1>5 DEF vars, Spaced
<1> QED BY <1>1, <1>2, <1>3, <1>4, <1>5 DEF Next

(* ticker.cpp:36-38, 65: two macro ticks are never closer than MACRO - STEP
   ticks, since each runs less than a wait late, or, the first one, just one;
   the ticks of the second are those of the call that makes it. *)
THEOREM SpacingHolds == ASSUME NoWrap PROVE Spec => MacroTickSpacing
<1>1. Init => Spaced
  BY SizeAssumption DEF Init, Spaced, Timers
<1>2. TypeOK /\ InHorizon /\ MacroRate /\ Spaced /\ [Next]_vars => Spaced'
  BY SpacedStep
<1>3. TypeOK /\ InHorizon /\ MacroRate /\ Spaced /\ [Next]_vars
        => [\A c \in Callers : Fire(c) /\ macro_ticks' # macro_ticks
              => since_macro + until[c] >= MACRO - STEP]_vars
  BY SpacedStep
<1>4. Init => InHorizon
  BY SizeAssumption DEF Init, InHorizon
<1>5. TypeOK /\ InHorizon /\ [Next]_vars => InHorizon'
  BY HorizonStep
<1> QED BY <1>1, <1>2, <1>3, <1>4, <1>5, TypeCorrect, MacroRateHolds, PTL DEF Spec, MacroTickSpacing
=============================================================================
