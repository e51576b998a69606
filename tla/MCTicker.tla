------------------------------ MODULE MCTicker ------------------------------
(***************************************************************************)
(* Ticker with callbacks that ask for less than one wait between calls,    *)
(* for as long, and for longer.                                            *)
(***************************************************************************)
EXTENDS Ticker

AnyDelays == {STEP - 1, STEP, 2 * STEP + 1}
LongDelays == STEP..(2 * STEP + 1)
=============================================================================
