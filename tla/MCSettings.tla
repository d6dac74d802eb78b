------------------------------ MODULE MCSettings ------------------------------
(***************************************************************************)
(* Five frequencies, sweeps of two to four points, two areas of two pages *)
(* of three words.                                                         *)
(***************************************************************************)
EXTENDS SettingsStore

TwoPages == <<1..3, 4..6>>
Typed    == 0..6
Factory  == [frequency0 |-> 2, frequency1 |-> 4, sweep_points |-> 2,
             measurement_mode |-> FULL]
===============================================================================
