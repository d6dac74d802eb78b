---------------------------- MODULE VNAMeasurement ----------------------------
(***************************************************************************)
(* The measurement engine: class VNAMeasurement (vna_measurement.cpp) with *)
(* the callbacks main2.cpp installs in it.  The ADC interrupt delivers one *)
(* correlated value per period; sampleProcessor_emitValue() waits for the  *)
(* synthesizer and the rf switches to settle, sums nMeasureCount periods   *)
(* and then moves to the next phase, point or sweep.  It is one action     *)
(* here, by its branches, because nothing interrupts the interrupt.  The   *)
(* main thread, whose stores the interrupt sees one by one, replaces the   *)
(* sweep and changes the mode.                                             *)
(*                                                                         *)
(* A measured value is abstracted to the set of conditions (frequency,     *)
(* switch positions, gain) under which its periods were taken.             *)
(***************************************************************************)
EXTENDS Integers, Sequences

CONSTANTS
    UISweeps,           \* the sweeps the user asks for: [start, step, points, repeats]
    HostSweeps,         \* and those the host asks for, one register at a time
    TornFreqs,          \* what half a 64-bit store may leave in sweepStartHz
    Modes,              \* the values of current_props._measurement_mode
    NWaitSwitch,        \* nWaitSwitch
    NWaitSynth,         \* nWaitSynth, as setFrequency() computes it
    FirstPointWait,     \* BOARD_MEASUREMENT_FIRST_POINT_WAIT
    NPeriods,           \* nPeriods * nPeriodsMultiplier
    NPeriodsCal,        \* nPeriodsCalibrating * nPeriodsMultiplier
    EcalInterval,       \* MEASUREMENT_ECAL_INTERVAL
    MaxGain,            \* RFSW_BBGAIN_MAX
    LowBand,            \* updateIFrequency(): no gain up to this frequency
    MidBand, HighBand,  \* measurementGetDefaultGain(): above these 1 and 2
    BootFreq,           \* the frequency set at boot, main2.cpp:1671
    MaxRepeats,         \* bound: dpCounterSynth is not counted beyond this
    MaxChanges,         \* bound: changes by the main thread after the first
    MaxDuring           \* bound: periods that pass between a change's stores

SweepArgs == [start : Nat, step : Nat, points : Nat, repeats : Nat]
Sweeps == UISweeps \cup HostSweeps

ASSUME MeasurementAssumption ==
    /\ TornFreqs \subseteq Nat /\ BootFreq \in Nat
    /\ Sweeps \subseteq SweepArgs
    /\ Modes \subseteq {"FULL", "REFL_THRU", "REFL_THRU_REFERENCE"}
    /\ {NWaitSwitch, NWaitSynth, FirstPointWait, NPeriods, NPeriodsCal,
        EcalInterval, MaxGain, MaxRepeats} \subseteq Nat \ {0}
    /\ NWaitSynth <= FirstPointWait
    /\ {LowBand, MidBand, HighBand} \subseteq Nat
    /\ {MaxChanges, MaxDuring} \subseteq Nat
    /\ \A s \in Sweeps : s.repeats <= MaxRepeats
    /\ LowBand <= MidBand /\ MidBand <= HighBand /\ MaxGain >= 2

VARIABLES
    \* shared between the main thread and the interrupt
    sweepStartHz, sweepStepHz, sweepPoints, sweepDataPointsPerFreq,
    sweepCurrPoint,     \* index of the point being measured; -1 asks to restart
    measurement_mode, ecalIntervalPoints,
    \* of the interrupt
    measurementPhase, nMeasureCount,
    periodCounterSynth, periodCounterSwitch, dpCounterSynth,
    ecalCounter, ecalCounterOffset,
    currThruGain, gainMax, gainChangeOccurred,
    clipFlag,           \* VNAMeasurement::clipFlag
    reported,           \* the flag emitDataPoint was given in the last period
    currFreq,
    currDP,             \* conditions of the periods summed so far
    summed,             \* how many they are
    currFwd, currRefl, currThru,
    \* the board
    currFreqHz,         \* the frequency the synthesizers are set to
    rfsw,               \* the switches: [refl, recv, ecal, bbgain]
    \* the main thread
    todo,               \* the stores of its current change still to come
    target,             \* the sweep it is setting
    configured,         \* current_props._measurement_mode
    changes,            \* how many changes it has begun
    during,             \* periods since it began the current one
    \* history
    sinceSwitch,        \* periods since a switch moved, up to NWaitSwitch
    sinceSynth,         \* periods since the frequency moved, up to NWaitSynth
    clippedSum,         \* the ADC clipped in a period that is in the sum
    clippedTerm,        \* in one of a term the point already has, but for THRU's
    clippedLeft,        \* in one that was measured and then thrown away by a restart
    pointClipped        \* in one of a term of the point emitted in the last period

sweepArgs == <<sweepStartHz, sweepStepHz, sweepPoints, sweepDataPointsPerFreq>>
modeArgs  == <<measurement_mode, ecalIntervalPoints>>
counters  == <<periodCounterSynth, periodCounterSwitch, dpCounterSynth>>
ecalVars  == <<ecalCounter, ecalCounterOffset>>
gainVars  == <<currThruGain, gainMax, gainChangeOccurred>>
sums      == <<currDP, summed, clippedSum>>
results   == <<currFwd, currRefl, currThru>>
board     == <<currFreqHz, rfsw>>
main      == <<todo, target, configured, changes>>
emitted   == <<reported, pointClipped>>
clips     == <<clippedTerm, clippedLeft>>
history   == <<sinceSwitch, sinceSynth, clips, emitted>>
engine    == <<measurementPhase, nMeasureCount, counters, ecalVars, gainVars,
               clipFlag, currFreq, sums, results, board, history>>
vars      == <<sweepArgs, sweepCurrPoint, modeArgs, engine, main, during>>

Phases == {"REFERENCE", "REFL", "THRU", "ECALLOAD"}
Switches == [refl : {"ON", "OFF"}, recv : {"REFL", "PORT2"},
             ecal : {"OPEN", "NORMAL", "LOAD"}, bbgain : 0 .. MaxGain]

MinOf(a, b) == IF a < b THEN a ELSE b

-------------------------------------------------------------------------------
(* Plausible mistakes in the operators below; the project's mutants.       *)

\* The sum is kept over a reset.
ClearSumsNot == UNCHANGED <<currDP, summed, clippedSum>>
\* REFL relies on REFERENCE having set the switches.
SetPhaseReflAlways(sw) == [sw EXCEPT !.ecal = "NORMAL"]
\* The sweep wraps round one point late.
PointAfterLate(p) == IF p + 1 > sweepPoints THEN 0 ELSE p + 1
\* The counter stops at its limit.
CountEcalSaturated(n) == IF n + 1 >= ecalIntervalPoints THEN n ELSE n + 1
\* updateIFrequency() lowers the limit and not the gain.
GainAtKept(f) == currThruGain
\* One period less after the switches moved.
SwitchSettledEarly(n) == n + 1 >= NWaitSwitch
\* The gain is raised again after it was reduced.
MayRaiseAgain == currThruGain < gainMax
\* The gain is raised without a limit.
MayRaiseBeyond == ~gainChangeOccurred
\* clipFlag = clipped for clipFlag |= clipped.
ClipFlagAfterLast(counts) == counts

-------------------------------------------------------------------------------
(* The board.                                                              *)

\* measurementGetDefaultGain(freqHz)
DefaultGain(f) == IF f > HighBand THEN 2 ELSE IF f > MidBand THEN 1 ELSE 0

\* updateIFrequency(): the largest gain that may be used at a frequency.
GainMaxAt(f) == IF f <= LowBand THEN 0 ELSE MaxGain

\* The REFL branch of measurementPhaseChanged(): only when REFERENCE may have
\* been skipped are all the switches moved.
SetPhaseRefl(sw) ==
    IF measurement_mode = "REFL_THRU"
    THEN [sw EXCEPT !.refl = "ON", !.recv = "REFL", !.ecal = "NORMAL"]
    ELSE [sw EXCEPT !.ecal = "NORMAL"]

\* measurementPhaseChanged(ph)
SwitchesFor(ph) ==
    CASE ph = "REFERENCE" ->
           [rfsw EXCEPT !.refl = "ON", !.recv = "REFL", !.ecal = "OPEN",
                        !.bbgain = DefaultGain(currFreqHz)]
      [] ph = "REFL" ->
           [SetPhaseRefl(rfsw) EXCEPT !.bbgain = DefaultGain(currFreqHz)]
      [] ph = "THRU" ->
           [rfsw EXCEPT !.ecal = "NORMAL", !.refl = "OFF", !.recv = "PORT2",
                        !.bbgain = currThruGain]
      [] ph = "ECALLOAD" ->
           [rfsw EXCEPT !.refl = "ON", !.recv = "REFL", !.ecal = "LOAD",
                        !.bbgain = DefaultGain(currFreqHz)]

\* The condition a period is measured under.
Condition == [freq |-> currFreqHz, rf |-> rfsw]

\* What the history remembers of one period in which the board became b.
Elapsed(sw, f) ==
    /\ rfsw' = sw
    /\ sinceSwitch' = IF sw # rfsw THEN 0 ELSE MinOf(sinceSwitch + 1, NWaitSwitch)
    /\ currFreqHz' = f
    /\ sinceSynth' = IF f # currFreqHz THEN 0 ELSE MinOf(sinceSynth + 1, NWaitSynth)

-------------------------------------------------------------------------------
(* Parts of the interrupt handler.                                         *)

ClearSums == currDP' = {} /\ summed' = 0 /\ clippedSum' = FALSE

\* setMeasurementPhase(ph) but for the switches, which Elapsed sets together
\* with the frequency.
SetMeasurementPhase(ph) ==
    /\ measurementPhase' = ph
    /\ nMeasureCount' = IF ph = "ECALLOAD" THEN NPeriodsCal ELSE NPeriods
    /\ ClearSums

\* The point after p; sweepPoints may have shrunk below p.
PointAfter(p) == IF p + 1 >= sweepPoints THEN 0 ELSE p + 1

\* currThruGain after updateIFrequency(f).
GainAt(f) == IF f <= LowBand THEN 0 ELSE currThruGain

\* sweepAdvance(), with the switches as setMeasurementPhase() has set them:
\* the frequency, then what it implies for the gains, then the waits.  offset
\* and interval are ecalCounterOffset and ecalIntervalPoints when it is called.
SweepAdvance(p, sw, offset, interval) ==
    LET q == PointAfter(p)
        f == sweepStartHz + sweepStepHz * q
    IN
    /\ sweepCurrPoint' = q
    /\ currFreq' = f
    /\ Elapsed([sw EXCEPT !.bbgain = DefaultGain(f)], f)
    /\ gainMax' = GainMaxAt(f)
    /\ periodCounterSwitch' = 0
    /\ gainChangeOccurred' = FALSE
    /\ IF q = 0
       THEN /\ periodCounterSynth' = FirstPointWait
            /\ currThruGain' = gainMax'
            /\ ecalCounterOffset' = IF offset + 1 >= interval
                                    THEN 0 ELSE offset + 1
       ELSE /\ periodCounterSynth' = NWaitSynth
            /\ currThruGain' = GainAt(f)
            /\ ecalCounterOffset' = offset

\* ecalCounter++ with its wrap-around.
CountEcal(n) == IF n + 1 >= ecalIntervalPoints THEN 0 ELSE n + 1

\* The point has been emitted as often as was asked.
PointDone == dpCounterSynth + 1 >= sweepDataPointsPerFreq /\ sweepPoints > 1

\* ecalCounter when doEmitValue() returns.
EcalCounterAfterEmit ==
    IF PointDone /\ PointAfter(sweepCurrPoint) = 0
    THEN ecalCounterOffset ELSE ecalCounter

\* periodCounterSwitch >= nWaitSwitch: the period counts.
SwitchSettled(n) == n >= NWaitSwitch
Sampling == SwitchSettled(periodCounterSwitch)

\* The period is counted against S11: clipFlag |= clipped in every phase but THRU.
CountsClip(clipped) == Sampling /\ clipped /\ measurementPhase # "THRU"
ClipFlagAfter(counts) == clipFlag \/ counts

\* What the history remembers: whether the sum, with this period, and the terms of
\* the point, with the one that this sum is for, have a clipped period.
SumClipped(clipped) == clippedSum \/ (Sampling /\ clipped)
TermClipped(clipped) ==
    clippedTerm \/ (measurementPhase # "THRU" /\ SumClipped(clipped))

\* Nothing is emitted in this period.
EmitsNothing == reported' = FALSE /\ pointClipped' = FALSE

\* The phase ends and the point goes on.
NoteClip(clipped) ==
    /\ clipFlag' = ClipFlagAfter(CountsClip(clipped))
    /\ clippedTerm' = TermClipped(clipped)
    /\ UNCHANGED clippedLeft
    /\ EmitsNothing

\* The callback passes clipFlag on with the point; doEmitValue() then clears it.
ReportClip(clipped) ==
    /\ reported' = ClipFlagAfter(CountsClip(clipped))
    /\ clipFlag' = FALSE
    /\ pointClipped' = TermClipped(clipped)
    /\ clippedTerm' = FALSE /\ clippedLeft' = FALSE

\* setMeasurementPhase(ph) and doEmitValue(); the callback of emitDataPoint sees
\* the point before it is left, and interval is what it leaves.
PhaseAndEmit(ph, interval, clipped) ==
    /\ SetMeasurementPhase(ph)
    /\ ReportClip(clipped)
    /\ IF PointDone
       THEN /\ dpCounterSynth' = 0
            /\ SweepAdvance(sweepCurrPoint, SwitchesFor(ph), ecalCounterOffset,
                            interval)
       ELSE \* Bound: only whether the count reaches the number asked matters.
            /\ dpCounterSynth' = MinOf(dpCounterSynth + 1, MaxRepeats)
            /\ Elapsed(SwitchesFor(ph), currFreqHz)
            /\ periodCounterSwitch' = 0
            /\ gainChangeOccurred' = FALSE
            /\ UNCHANGED <<sweepCurrPoint, currFreq, gainMax, currThruGain,
                           periodCounterSynth, ecalCounterOffset>>

-------------------------------------------------------------------------------
(* The interrupt handler, sampleProcessor_emitValue().                     *)

\* sweepCurrPoint is -1: start the sweep, whatever was going on.  clipFlag is left
\* as the point that is given up has made it.
Restart ==
    /\ sweepCurrPoint = -1
    /\ SetMeasurementPhase("REFERENCE")
    /\ dpCounterSynth' = 0
    /\ SweepAdvance(-1, SwitchesFor("REFERENCE"), 0, ecalIntervalPoints)
    /\ ecalCounter' = 0
    /\ clippedLeft' = (clippedLeft \/ TermClipped(FALSE))
    /\ clippedTerm' = FALSE
    /\ EmitsNothing
    /\ UNCHANGED <<sweepArgs, modeArgs, clipFlag, results, main>>

\* A period passes while the synthesizer settles.
WaitSynth ==
    /\ sweepCurrPoint # -1 /\ periodCounterSynth > 0
    /\ periodCounterSynth' = periodCounterSynth - 1
    /\ gainChangeOccurred' = FALSE
    /\ Elapsed(rfsw, currFreqHz)
    /\ EmitsNothing
    /\ UNCHANGED <<sweepArgs, sweepCurrPoint, modeArgs, measurementPhase,
                   nMeasureCount, periodCounterSwitch, dpCounterSynth, ecalVars,
                   currThruGain, gainMax, clipFlag, currFreq, sums, results,
                   main, clips>>

Measuring == sweepCurrPoint # -1 /\ periodCounterSynth = 0

\* The period is the last one of its phase.
Complete == periodCounterSwitch + 1 >= NWaitSwitch + nMeasureCount

\* currDP and its count with this period.
SummedDP == IF Sampling THEN currDP \cup {Condition} ELSE currDP
SummedCount == IF Sampling THEN summed + 1 ELSE summed

\* The ADC clipped and a lower gain may help.
MustReduce(clipped) ==
    Sampling /\ clipped /\ measurementPhase = "THRU" /\ currThruGain > 0

\* The measurement is repeated with another gain.
ChangeGain(g) ==
    /\ currThruGain' = g
    /\ Elapsed([rfsw EXCEPT !.bbgain = g], currFreqHz)
    /\ gainChangeOccurred' = TRUE
    /\ periodCounterSwitch' = 0
    /\ ClearSums /\ EmitsNothing
    /\ UNCHANGED <<sweepArgs, sweepCurrPoint, modeArgs, measurementPhase,
                   nMeasureCount, periodCounterSynth, dpCounterSynth, ecalVars,
                   gainMax, clipFlag, currFreq, results, main, clips>>

ReduceGain ==
    /\ Measuring /\ MustReduce(TRUE)
    /\ ChangeGain(currThruGain - 1)

\* The phase goes on.
KeepMeasuring(clipped) ==
    /\ Measuring /\ ~MustReduce(clipped) /\ ~Complete
    /\ clipFlag' = ClipFlagAfter(CountsClip(clipped))
    /\ currDP' = SummedDP /\ summed' = SummedCount
    /\ clippedSum' = SumClipped(clipped)
    /\ periodCounterSwitch' = periodCounterSwitch + 1
    /\ Elapsed(rfsw, currFreqHz)
    /\ EmitsNothing
    /\ UNCHANGED <<sweepArgs, sweepCurrPoint, modeArgs, measurementPhase,
                   nMeasureCount, periodCounterSynth, dpCounterSynth, ecalVars,
                   gainVars, currFreq, results, main, clips>>

\* REFERENCE and REFL end and the next phase of the same point begins.
NextPhase(ph) ==
    /\ SetMeasurementPhase(ph)
    /\ Elapsed(SwitchesFor(ph), currFreqHz)
    /\ periodCounterSwitch' = 0
    /\ gainChangeOccurred' = FALSE
    /\ UNCHANGED <<sweepArgs, sweepCurrPoint, modeArgs, periodCounterSynth,
                   dpCounterSynth, currThruGain, gainMax, currFreq, main>>

FinishReference(clipped) ==
    /\ Measuring /\ Complete /\ measurementPhase = "REFERENCE"
    /\ NoteClip(clipped)
    /\ currFwd' = SummedDP
    /\ NextPhase("REFL")
    /\ UNCHANGED <<ecalVars, currRefl, currThru>>

FinishRefl(clipped) ==
    /\ Measuring /\ Complete /\ measurementPhase = "REFL"
    /\ NoteClip(clipped)
    /\ currRefl' = SummedDP
    /\ NextPhase("THRU")
    /\ UNCHANGED <<ecalVars, currFwd, currThru>>

\* The gain may be raised only if it was not changed in this phase.
MayRaise == currThruGain < gainMax /\ ~gainChangeOccurred

ThruComplete(clipped) ==
    /\ Measuring /\ Complete /\ measurementPhase = "THRU"
    /\ ~MustReduce(clipped)

\* The signal is weak.
RaiseGain(clipped) ==
    /\ ThruComplete(clipped) /\ MayRaise
    /\ ChangeGain(currThruGain + 1)

\* THRU ends and the point is measured against the error box first.
StartEcal(clipped) ==
    /\ ThruComplete(clipped)
    /\ measurement_mode = "FULL" /\ ecalCounter = 0
    /\ NoteClip(clipped)
    /\ currThru' = SummedDP
    /\ NextPhase("ECALLOAD")
    /\ ecalCounter' = CountEcal(ecalCounter)
    /\ UNCHANGED <<ecalCounterOffset, currFwd, currRefl>>

\* THRU ends and the point is emitted without an ecal measurement.  ecalCounter
\* counts after sweepAdvance() may have set it.
EmitWithoutEcal(clipped) ==
    /\ ThruComplete(clipped)
    /\ measurement_mode = "FULL" => ecalCounter # 0
    /\ currThru' = SummedDP
    /\ PhaseAndEmit(IF measurement_mode = "REFL_THRU" THEN "REFL"
                                                      ELSE "REFERENCE",
                    ecalIntervalPoints, clipped)
    /\ ecalCounter' = IF measurement_mode = "FULL"
                      THEN CountEcal(EcalCounterAfterEmit)
                      ELSE EcalCounterAfterEmit
    /\ UNCHANGED <<sweepArgs, modeArgs, currFwd, currRefl, main>>

\* emitDataPoint() may complete the ecal measurement (main2.cpp:1074-1077).
EcalDone ==
    \/ UNCHANGED modeArgs
    \/ ecalIntervalPoints' = EcalInterval /\ measurement_mode' = configured

EmitWithEcal(clipped) ==
    /\ Measuring /\ Complete /\ measurementPhase = "ECALLOAD"
    /\ EcalDone
    /\ PhaseAndEmit("REFERENCE", ecalIntervalPoints', clipped)
    /\ ecalCounter' = EcalCounterAfterEmit
    /\ UNCHANGED <<sweepArgs, currFwd, currRefl, currThru, main>>

Handler ==
    \/ Restart \/ WaitSynth \/ ReduceGain
    \/ \E clipped \in BOOLEAN :
          \/ KeepMeasuring(clipped)
          \/ FinishReference(clipped) \/ FinishRefl(clipped)
          \/ RaiseGain(clipped) \/ StartEcal(clipped)
          \/ EmitWithoutEcal(clipped) \/ EmitWithEcal(clipped)

\* Bound: a change takes the main thread less than MaxDuring periods.
Interrupt ==
    /\ Handler
    /\ IF todo = <<>> THEN UNCHANGED during
                     ELSE during < MaxDuring /\ during' = during + 1

-------------------------------------------------------------------------------
(* The main thread.  A change is a sequence of stores.                     *)

StoreNames == {"mode", "interval", "startWord", "start", "stepWord", "step",
               "points", "repeats", "restart"}

\* setSweep(): both frequencies are 64 bits wide and stored in two halves.
SetSweepStores == <<"startWord", "start", "stepWord", "step", "points",
                    "repeats", "restart">>

\* setVNASweepToUI()
UIStores == <<"mode", "interval">> \o SetSweepStores

\* cmdRegisterWrite() of a sweep register, with setVNASweepToUSB()
USBStores == <<"startWord", "start", "stepWord", "step", "repeats", "points",
               "restart", "interval">>

\* cal_collect()
CollectStores == <<"mode", "interval", "restart">>

\* updateAveraging()
AveragingStores == <<"repeats", "restart">>

BeginChange(stores) ==
    /\ todo = <<>> /\ changes < MaxChanges
    /\ changes' = changes + 1
    /\ todo' = stores
    /\ UNCHANGED <<sweepArgs, sweepCurrPoint, modeArgs, engine, during>>

\* The user or the host asks for a sweep; the user also for a mode.
SetVNASweepToUI ==
    /\ BeginChange(UIStores)
    /\ target' \in UISweeps /\ configured' \in Modes

SetVNASweepToUSB ==
    /\ BeginChange(USBStores)
    /\ target' \in HostSweeps /\ UNCHANGED configured

CalCollect ==
    /\ BeginChange(CollectStores)
    /\ UNCHANGED <<target, configured>>

UpdateAveraging ==
    /\ BeginChange(AveragingStores)
    /\ \E n \in {s.repeats : s \in UISweeps} : target' = [target EXCEPT !.repeats = n]
    /\ UNCHANGED configured

\* One store that asks for no restart.
ChangeInPlace ==
    /\ todo = <<>> /\ changes < MaxChanges
    /\ changes' = changes + 1
    /\ UNCHANGED <<sweepArgs, sweepCurrPoint, engine, todo, target, configured,
                   during>>

\* The callback of cal_collect(): the standard has been measured.
CalCollected ==
    /\ ChangeInPlace
    /\ ecalIntervalPoints' = EcalInterval
    /\ UNCHANGED measurement_mode

\* cal_done(): the configured mode is restored.
CalDone ==
    /\ ChangeInPlace
    /\ measurement_mode' = configured
    /\ UNCHANGED ecalIntervalPoints

\* The next store of the change.
Store ==
    /\ todo # <<>>
    /\ todo' = Tail(todo)
    /\ during' = IF todo' = <<>> THEN 0 ELSE during
    /\ LET store == Head(todo)
           Becomes(name, var, value) == IF store = name THEN value ELSE var
       IN
       /\ IF store = "startWord"
          THEN sweepStartHz' \in TornFreqs
          ELSE sweepStartHz' = Becomes("start", sweepStartHz, target.start)
       /\ IF store = "stepWord"
          THEN sweepStepHz' \in {s.step : s \in Sweeps}
          ELSE sweepStepHz' = Becomes("step", sweepStepHz, target.step)
       /\ sweepPoints' = Becomes("points", sweepPoints, target.points)
       /\ sweepDataPointsPerFreq' =
              Becomes("repeats", sweepDataPointsPerFreq, target.repeats)
       /\ sweepCurrPoint' = Becomes("restart", sweepCurrPoint, -1)
       /\ measurement_mode' = Becomes("mode", measurement_mode, "FULL")
       /\ ecalIntervalPoints' = Becomes("interval", ecalIntervalPoints, 1)
    /\ UNCHANGED <<engine, target, configured, changes>>

MainThread ==
    \/ SetVNASweepToUI \/ SetVNASweepToUSB \/ CalCollect \/ UpdateAveraging
    \/ CalCollected \/ CalDone \/ Store

-------------------------------------------------------------------------------
\* The members' initial values; the ADC already runs when the main thread sets
\* its first sweep (main2.cpp:1673-1708), so that the first phase has no periods.
Init ==
    /\ sweepStartHz = 0 /\ sweepStepHz = 0 /\ sweepPoints = 1
    /\ sweepDataPointsPerFreq = 1 /\ sweepCurrPoint = 0
    /\ measurement_mode = "FULL" /\ ecalIntervalPoints = 8
    /\ measurementPhase = "REFERENCE" /\ nMeasureCount = 0
    /\ periodCounterSynth = 0 /\ periodCounterSwitch = 0 /\ dpCounterSynth = 0
    /\ ecalCounter = 0 /\ ecalCounterOffset = 0
    /\ currThruGain = 0 /\ gainMax = MaxGain /\ gainChangeOccurred = FALSE
    /\ clipFlag = FALSE /\ currFreq = 0
    /\ currDP = {} /\ summed = 0
    /\ currFwd = {} /\ currRefl = {} /\ currThru = {}
    /\ currFreqHz = BootFreq
    /\ rfsw = [refl |-> "ON", recv |-> "REFL", ecal |-> "NORMAL",
               bbgain |-> DefaultGain(BootFreq)]
    /\ todo = UIStores /\ target \in UISweeps /\ configured \in Modes
    /\ changes = 0 /\ during = 0
    /\ sinceSwitch = NWaitSwitch /\ sinceSynth = NWaitSynth
    /\ reported = FALSE /\ pointClipped = FALSE
    /\ clippedSum = FALSE /\ clippedTerm = FALSE /\ clippedLeft = FALSE

Next == Interrupt \/ MainThread

\* The ADC never stops and the main thread finishes what it has begun.
Spec == Init /\ [][Next]_vars
FairSpec == Spec /\ WF_vars(Interrupt) /\ WF_vars(Store)

-------------------------------------------------------------------------------
(* Properties.                                                             *)

Conditions == [freq : Nat, rf : Switches]

TypeOK ==
    /\ sweepStartHz \in Nat /\ sweepStepHz \in Nat
    /\ sweepPoints \in Nat /\ sweepDataPointsPerFreq \in Nat
    /\ sweepCurrPoint \in Nat \cup {-1}
    /\ measurement_mode \in Modes \cup {"FULL"}
    /\ ecalIntervalPoints \in Nat \ {0}
    /\ measurementPhase \in Phases
    /\ nMeasureCount \in Nat
    /\ periodCounterSynth \in Nat
    /\ periodCounterSwitch \in Nat
    /\ dpCounterSynth \in 0 .. MaxRepeats
    /\ ecalCounter \in Nat /\ ecalCounterOffset \in Nat
    /\ currThruGain \in 0 .. MaxGain /\ gainMax \in 0 .. MaxGain
    /\ gainChangeOccurred \in BOOLEAN /\ clipFlag \in BOOLEAN
    /\ currFreq \in Nat
    /\ summed \in Nat
    /\ {currDP, currFwd, currRefl, currThru} \subseteq SUBSET Conditions
    /\ currFreqHz \in Nat /\ rfsw \in Switches
    /\ todo \in Seq(StoreNames) /\ target \in SweepArgs
    /\ configured \in Modes
    /\ changes \in 0 .. MaxChanges /\ during \in 0 .. MaxDuring
    /\ sinceSwitch \in 0 .. NWaitSwitch /\ sinceSynth \in 0 .. NWaitSynth
    /\ {reported, pointClipped, clippedSum, clippedTerm, clippedLeft} \subseteq BOOLEAN

\* The main thread is replacing the sweep, or the interrupt has not yet seen
\* that it has.
Changing ==
    sweepCurrPoint = -1 \/ \E i \in DOMAIN todo : todo[i] = "restart"

\* A point is given to emitDataPoint in this step.
Emits ==
    /\ measurementPhase \in {"THRU", "ECALLOAD"}
    /\ measurementPhase' \in {"REFERENCE", "REFL"}
    /\ sweepCurrPoint # -1

\* No period is summed before the switches have been still for nWaitSwitch
\* periods and the synthesizer for nWaitSynth, whichever phase, gain change or
\* restart moved them (vna_measurement.cpp:89-96, vna_measurement.hpp:26-30).
Settled ==
    Measuring /\ Sampling =>
        sinceSwitch = NWaitSwitch /\ sinceSynth = NWaitSynth

\* The count by which a sum is divided is the number of periods in it
\* (vna_measurement.cpp:129-131): no reset clears the one and not the other.
MeanIsOverSummed ==
    Measuring /\ ~Changing =>
        summed = IF Sampling THEN periodCounterSwitch - NWaitSwitch ELSE 0

\* The receiver gain stays in the range of the frequency being measured, also
\* when a sweep wraps round from a band with gain to one without
\* (main2.cpp:333-357, vna_measurement.cpp:66-68).
GainInRange == currThruGain <= gainMax /\ (~Changing => gainMax = GainMaxAt(currFreq))

\* What a measurement at the current point should have been taken under.
Taken(refl, recv, ecal, gain) ==
    {[freq |-> currFreq, rf |-> [refl |-> refl, recv |-> recv, ecal |-> ecal,
                                 bbgain |-> gain]]}

\* Every measurement in an emitted point was taken at the frequency of the point
\* and with the switches and the gain of its phase, through gain changes, mode
\* changes and skipped phases; the gain by which S21 is scaled is the one THRU
\* was measured with (main2.cpp:992).  Only in MEASURE_MODE_REFL_THRU is the
\* reference older than the point.
PointCoherent ==
    [][Emits /\ ~Changing =>
         /\ currRefl = Taken("ON", "REFL", "NORMAL", DefaultGain(currFreq))
         /\ currThru' = Taken("OFF", "PORT2", "NORMAL", currThruGain)
         /\ measurement_mode # "REFL_THRU" =>
               currFwd = Taken("ON", "REFL", "OPEN", DefaultGain(currFreq))
         /\ measurementPhase = "ECALLOAD" =>
               SummedDP = Taken("ON", "REFL", "LOAD", DefaultGain(currFreq))]_vars

\* The flag handed over with a point says whether the ADC clipped in a period that
\* is in one of the terms measured for it, over phases, gain steps and restarts:
\* no clip is lost, none is carried over to the next point and one that was not
\* summed, or only for a S21 that is measured again, does not count ("not show
\* clippederror on thru measure", vna_measurement.cpp:116).  A clip of the point
\* that a restart has thrown away is kept, and marks the first point after it and
\* no other (vna_measurement.cpp:79-88, 216-222, main2.cpp:999-1000, 1195-1197).
ClipsReported == [][Emits => reported' = (pointClipped' \/ clippedLeft)]_vars

\* Points keep coming, whatever the ADC delivers: the search for a gain ends
\* (vna_measurement.cpp:101-115, 144-158).
KeepsEmitting == []<><<Emits>>_vars

\* With ecal enabled the error box is measured again and again.
EcalKeepsComing ==
    <>[](measurement_mode = "FULL") =>
        []<><<Emits /\ measurementPhase = "ECALLOAD">>_vars

\* With ecal enabled it is measured again and again at every point of the sweep
\* ("every ecalIntervalPoints we will measure one frequency point for ecal",
\* vna_measurement.hpp:38).
EcalReachesEveryPoint ==
    \A i \in 0 .. 2 :
        <>[](measurement_mode = "FULL" /\ i < sweepPoints) =>
            []<><<Emits /\ measurementPhase = "ECALLOAD"
                        /\ sweepCurrPoint = i>>_vars

-------------------------------------------------------------------------------
Stream == INSTANCE PointStream
            WITH Configurations <- SweepArgs,
                 sweep <- [start |-> sweepStartHz, step |-> sweepStepHz,
                           points |-> sweepPoints,
                           repeats |-> sweepDataPointsPerFreq],
                 changing <- Changing,
                 index <- sweepCurrPoint,
                 repeat <- IF sweepPoints > 1 THEN dpCounterSynth ELSE 0,
                 frequency <- currFreq

\* The receiver of emitDataPoint sees a stream of points.
ImplementsPointStream == Stream!Spec
===============================================================================
