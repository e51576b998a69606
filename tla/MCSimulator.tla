---------------------------- MODULE MCSimulator ----------------------------
(***************************************************************************)
(* Values for the constants of Simulator that a .cfg cannot write.         *)
(***************************************************************************)
EXTENDS Simulator

OneCheck == <<"led">>
TwoChecks == <<"led", "random">>
MarkerCheck == <<"marker">>
=============================================================================
