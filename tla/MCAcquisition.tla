----------------------------- MODULE MCAcquisition -----------------------------
(***************************************************************************)
(* Acquisition with two sweeps of two points for the user and one of three *)
(* for the host.                                                           *)
(***************************************************************************)
EXTENDS Acquisition

Low  == [start |-> 1, step |-> 1, points |-> 2]
High == [start |-> 4, step |-> 1, points |-> 2]
Wide == [start |-> 7, step |-> 1, points |-> 3, repeats |-> 1]

TwoSweeps  == {Low, High}
LowSweep   == {Low}
WideSweep  == {Wide}
None       == {}
OneOrTwo   == {1, 2}
One        == {1}
Two        == {2}
BothModes  == {"FULL", "REFL_THRU"}
FullMode   == {"FULL"}

\* What the points queued and plotted were measured at steers nothing and is left
\* out of a state where no property reads it.
ValuesAside ==
    <<engine, settings, dataPointsPerFreq, average, ecal, collect,
      [n \in DOMAIN usbTxQueue |-> usbTxQueue[n].freqIndex], props, usbDataMode,
      lastUSBDataMode, ui_disabled, main, during, history>>
===============================================================================
