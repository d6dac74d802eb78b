--------------------------- MODULE MCVNAMeasurement ---------------------------
(***************************************************************************)
(* VNAMeasurement on a small instance.  The rising sweep crosses the bands *)
(* of the gain tables; the main thread replaces it by the carrier or by a  *)
(* host's sweep, or the reverse, at any period.                            *)
(***************************************************************************)
EXTENDS VNAMeasurement

Rising  == [start |-> 1, step |-> 2, points |-> 3, repeats |-> 1]
Carrier == [start |-> 4, step |-> 0, points |-> 2, repeats |-> 1]
Short   == [start |-> 1, step |-> 2, points |-> 2, repeats |-> 2]
\* The host has not yet written how many points and values it wants.
Started == [start |-> 4, step |-> 0, points |-> 0, repeats |-> 0]

SweptAndCarrier == {Rising, Carrier}
Registers       == {Short, Started}
AllModes        == {"FULL", "REFL_THRU", "REFL_THRU_REFERENCE"}
Torn            == {0}
===============================================================================
