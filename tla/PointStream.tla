------------------------------ MODULE PointStream ------------------------------
(***************************************************************************)
(* What VNAMeasurement promises the receiver of emitDataPoint, with no     *)
(* phases, waits, switches or gains: the points of the sweep in force come *)
(* in order, each as often as was asked, at the frequency its index        *)
(* stands for, and from the first one after every reset.  While the main   *)
(* thread is replacing the sweep nothing is promised.                      *)
(***************************************************************************)
EXTENDS Integers

CONSTANT Configurations  \* records [start, step, points, repeats]

VARIABLES sweep,      \* the configuration in force
          changing,   \* it is being replaced
          index,      \* freqIndex of the point being measured
          repeat,     \* how often it has been emitted
          frequency   \* the frequency it is measured at

vars == <<sweep, changing, index, repeat, frequency>>

Init == changing = TRUE

\* A sweep of one point never moves on; its repetitions are not counted.
Last == sweep.points > 1 /\ repeat + 1 >= sweep.repeats

FrequencyOf(i) == sweep.start + sweep.step * i

\* The receiver is given the point with the current index.
Emit ==
    /\ ~changing
    /\ IF Last
       THEN /\ index' = IF index + 1 < sweep.points THEN index + 1 ELSE 0
            /\ repeat' = 0
            /\ frequency' = FrequencyOf(index')
       ELSE /\ repeat' = IF sweep.points > 1 THEN repeat + 1 ELSE repeat
            /\ UNCHANGED <<index, frequency>>
    /\ UNCHANGED <<sweep, changing>>

BeginChange ==
    /\ ~changing
    /\ changing' = TRUE

\* Anything may happen while the sweep is being replaced.
Disturb == changing /\ changing'

\* The new sweep starts at its first point.
Restart ==
    /\ changing
    /\ changing' = FALSE
    /\ sweep' \in Configurations
    /\ index' = 0 /\ repeat' = 0
    /\ frequency' = sweep'.start

Next == Emit \/ BeginChange \/ Disturb \/ Restart

Spec == Init /\ [][Next]_vars
===============================================================================
