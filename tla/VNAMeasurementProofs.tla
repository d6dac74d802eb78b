------------------------ MODULE VNAMeasurementProofs ------------------------
(***************************************************************************)
(* Proofs about VNAMeasurement: its invariants, what an emitted point was  *)
(* measured under, and that it implements PointStream.                     *)
(***************************************************************************)
EXTENDS VNAMeasurement, SequenceTheorems, TLAPS

-------------------------------------------------------------------------------
(* The inductive invariant, in parts.                                      *)

\* Whatever a change still stores, the restart comes after it; only the ecal
\* interval may follow the restart.
RestartFollows ==
    \A i \in DOMAIN todo :
        todo[i] = "interval" \/ \E j \in DOMAIN todo : i <= j /\ todo[j] = "restart"

\* Outside a change of the configuration the mode is FULL or the configured one:
\* it never leaves REFL_THRU but by a change that restarts the sweep.
ModeKnown ==
    measurement_mode \in {"FULL", configured} \/ (todo # <<>> /\ todo[1] = "mode")

\* The bound on the repetitions is none on the sweeps asked for.
RepeatsKnown ==
    target.repeats <= MaxRepeats /\ sweepDataPointsPerFreq <= MaxRepeats

\* The counters never run ahead of the time that has really passed.
Waited ==
    /\ sinceSwitch >= MinOf(periodCounterSwitch, NWaitSwitch)
    /\ sinceSynth + periodCounterSynth >= NWaitSynth

\* What has been summed in the current phase.
Summing ==
    /\ summed = IF Sampling THEN periodCounterSwitch - NWaitSwitch ELSE 0
    /\ currDP = IF summed = 0 THEN {} ELSE {Condition}

\* The switches of a phase, in whatever order the phases came.
PhaseSwitches ==
    CASE measurementPhase = "REFERENCE" ->
           [refl |-> "ON", recv |-> "REFL", ecal |-> "OPEN",
            bbgain |-> DefaultGain(currFreq)]
      [] measurementPhase = "REFL" ->
           [refl |-> "ON", recv |-> "REFL", ecal |-> "NORMAL",
            bbgain |-> DefaultGain(currFreq)]
      [] measurementPhase = "THRU" ->
           [refl |-> "OFF", recv |-> "PORT2", ecal |-> "NORMAL",
            bbgain |-> currThruGain]
      [] measurementPhase = "ECALLOAD" ->
           [refl |-> "ON", recv |-> "REFL", ecal |-> "LOAD",
            bbgain |-> DefaultGain(currFreq)]

\* The board is where the current point and phase want it.
BoardSet ==
    ~Changing => /\ nMeasureCount >= 1
                 /\ currFreqHz = currFreq
                 /\ rfsw = PhaseSwitches

\* The phases of the current point that are over left their measurements.
PhasesKept ==
    ~Changing =>
        /\ measurementPhase \in {"THRU", "ECALLOAD"} =>
              currRefl = Taken("ON", "REFL", "NORMAL", DefaultGain(currFreq))
        /\ measurementPhase = "ECALLOAD" =>
              currThru = Taken("OFF", "PORT2", "NORMAL", currThruGain)
        /\ measurement_mode # "REFL_THRU" /\ measurementPhase # "REFERENCE" =>
              currFwd = Taken("ON", "REFL", "OPEN", DefaultGain(currFreq))

\* The flag has gathered what clipped in the S11 terms of the current point and in
\* the ones given up before it.
ClipsKnown ==
    clipFlag = (clippedLeft \/ clippedTerm
                  \/ (clippedSum /\ measurementPhase # "THRU"))

IInv ==
    /\ TypeOK
    /\ RestartFollows /\ ModeKnown /\ RepeatsKnown
    /\ Waited /\ Summing
    /\ GainInRange /\ ClipsKnown
    /\ BoardSet /\ PhasesKept

-------------------------------------------------------------------------------
(* Lemmas about the operators.                                             *)

\* The frequency of a point is a number.
LEMMA PointFrequency ==
    ASSUME NEW a \in Nat, NEW b \in Nat, NEW q \in Nat
    PROVE  a + b * q \in Nat
  OBVIOUS

LEMMA DefaultGainInRange ==
    ASSUME NEW f \in Nat PROVE DefaultGain(f) \in 0 .. MaxGain
  BY MeasurementAssumption DEF DefaultGain

\* A setting of the switches is determined by its four parts.
LEMMA SwitchesEqual ==
    ASSUME NEW s \in Switches, NEW t \in Switches,
           s.refl = t.refl, s.recv = t.recv, s.ecal = t.ecal, s.bbgain = t.bbgain
    PROVE  s = t
  BY DEF Switches

\* What measurementPhaseChanged() does, part by part.
LEMMA SwitchesForValue ==
    ASSUME rfsw \in Switches, currFreqHz \in Nat, currThruGain \in 0 .. MaxGain
    PROVE  /\ SwitchesFor("REFERENCE") =
                 [refl |-> "ON", recv |-> "REFL", ecal |-> "OPEN",
                  bbgain |-> DefaultGain(currFreqHz)]
           /\ SwitchesFor("REFL") =
                 [refl |-> IF measurement_mode = "REFL_THRU" THEN "ON" ELSE rfsw.refl,
                  recv |-> IF measurement_mode = "REFL_THRU" THEN "REFL" ELSE rfsw.recv,
                  ecal |-> "NORMAL", bbgain |-> DefaultGain(currFreqHz)]
           /\ SwitchesFor("THRU") =
                 [refl |-> "OFF", recv |-> "PORT2", ecal |-> "NORMAL",
                  bbgain |-> currThruGain]
           /\ SwitchesFor("ECALLOAD") =
                 [refl |-> "ON", recv |-> "REFL", ecal |-> "LOAD",
                  bbgain |-> DefaultGain(currFreqHz)]
  <1> DEFINE d == DefaultGain(currFreqHz)
  <1>1. d \in 0 .. MaxGain
    BY DefaultGainInRange
  <1>2. SwitchesFor("REFERENCE") =
          [rfsw EXCEPT !.refl = "ON", !.recv = "REFL", !.ecal = "OPEN", !.bbgain = d]
    BY DEF SwitchesFor
  <1>3. SwitchesFor("REFL") = [SetPhaseRefl(rfsw) EXCEPT !.bbgain = d]
    BY DEF SwitchesFor
  <1>4. SwitchesFor("THRU") =
          [rfsw EXCEPT !.ecal = "NORMAL", !.refl = "OFF", !.recv = "PORT2",
                       !.bbgain = currThruGain]
    BY DEF SwitchesFor
  <1>5. SwitchesFor("ECALLOAD") =
          [rfsw EXCEPT !.refl = "ON", !.recv = "REFL", !.ecal = "LOAD", !.bbgain = d]
    BY DEF SwitchesFor
  <1> HIDE DEF d
  <1>6. SwitchesFor("REFL") =
          [refl |-> IF measurement_mode = "REFL_THRU" THEN "ON" ELSE rfsw.refl,
           recv |-> IF measurement_mode = "REFL_THRU" THEN "REFL" ELSE rfsw.recv,
           ecal |-> "NORMAL", bbgain |-> d]
    BY <1>1, <1>3 DEF SetPhaseRefl, Switches
  <1> QED
    BY <1>1, <1>2, <1>4, <1>5, <1>6 DEF d, Switches

LEMMA SwitchesForType ==
    ASSUME TypeOK, NEW ph \in Phases
    PROVE  SwitchesFor(ph) \in Switches
  <1>1. DefaultGain(currFreqHz) \in 0 .. MaxGain
    BY DefaultGainInRange DEF TypeOK
  <1>2. rfsw \in Switches /\ currThruGain \in 0 .. MaxGain /\ currFreqHz \in Nat
    BY DEF TypeOK
  <1> QED
    BY <1>1, <1>2, SwitchesForValue DEF Phases, Switches

\* PhaseSwitches, phase by phase.
LEMMA PhaseSwitchesValue ==
    /\ measurementPhase = "REFERENCE" =>
          PhaseSwitches = [refl |-> "ON", recv |-> "REFL", ecal |-> "OPEN",
                           bbgain |-> DefaultGain(currFreq)]
    /\ measurementPhase = "REFL" =>
          PhaseSwitches = [refl |-> "ON", recv |-> "REFL", ecal |-> "NORMAL",
                           bbgain |-> DefaultGain(currFreq)]
    /\ measurementPhase = "THRU" =>
          PhaseSwitches = [refl |-> "OFF", recv |-> "PORT2", ecal |-> "NORMAL",
                           bbgain |-> currThruGain]
    /\ measurementPhase = "ECALLOAD" =>
          PhaseSwitches = [refl |-> "ON", recv |-> "REFL", ecal |-> "LOAD",
                           bbgain |-> DefaultGain(currFreq)]
  BY DEF PhaseSwitches

\* The types of the constants, one by one.
LEMMA Constants ==
    /\ NWaitSwitch \in Nat \ {0} /\ NWaitSynth \in Nat \ {0}
    /\ FirstPointWait \in Nat \ {0} /\ NWaitSynth <= FirstPointWait
    /\ NPeriods \in Nat \ {0} /\ NPeriodsCal \in Nat \ {0}
    /\ EcalInterval \in Nat \ {0} /\ MaxGain \in Nat \ {0}
    /\ MaxRepeats \in Nat \ {0} /\ MaxChanges \in Nat /\ MaxDuring \in Nat
    /\ Modes \subseteq {"FULL", "REFL_THRU", "REFL_THRU_REFERENCE"}
  BY MeasurementAssumption

\* A period passes: the board's types, and the waits cannot fall behind by more
\* than it counts.
LEMMA ElapsedTypes ==
    ASSUME TypeOK, NEW sw \in Switches, NEW f \in Nat, Elapsed(sw, f)
    PROVE  /\ rfsw' \in Switches /\ currFreqHz' \in Nat
           /\ sinceSwitch' \in 0 .. NWaitSwitch
           /\ sinceSynth' \in 0 .. NWaitSynth
  <1>1. sinceSwitch \in 0 .. NWaitSwitch /\ sinceSynth \in 0 .. NWaitSynth
    BY DEF TypeOK
  <1> QED
    BY <1>1, Constants DEF Elapsed, MinOf

LEMMA SumAtLeast ==
    ASSUME NEW a \in Nat, NEW b \in Nat, NEW c \in Nat, b >= c PROVE a + b >= c
  OBVIOUS

\* A period that is taken from the counter is added to the time waited.
LEMMA WaitShared ==
    ASSUME NEW a \in Nat, NEW b \in Nat, NEW c \in Nat, NEW d \in Nat,
           a + b >= c, d >= b - 1
    PROVE  MinOf(a + 1, c) + d >= c
  BY DEF MinOf

\* A period passes and the counter of the switches restarts: both waits hold if
\* the synthesizer's is not shortened.
LEMMA ElapsedWaited ==
    ASSUME TypeOK, Waited, NEW sw, NEW f, Elapsed(sw, f),
           periodCounterSwitch' \in Nat, periodCounterSynth' \in Nat,
           \/ periodCounterSwitch' = 0
           \/ sw = rfsw /\ periodCounterSwitch' <= periodCounterSwitch + 1,
           \/ periodCounterSynth' >= NWaitSynth
           \/ f = currFreqHz /\ periodCounterSynth' >= periodCounterSynth - 1
    PROVE  Waited'
  <1>1. sinceSwitch \in 0 .. NWaitSwitch /\ sinceSynth \in 0 .. NWaitSynth
        /\ periodCounterSwitch \in Nat /\ periodCounterSynth \in Nat
    BY DEF TypeOK
  <1>2. sinceSwitch' >= MinOf(periodCounterSwitch', NWaitSwitch)
    BY <1>1, Constants DEF Elapsed, MinOf, Waited
  <1>3. sinceSynth' + periodCounterSynth' >= NWaitSynth
    <2>1. sinceSynth' \in Nat /\ NWaitSynth \in Nat
      BY <1>1, Constants DEF Elapsed, MinOf
    <2>2. CASE periodCounterSynth' >= NWaitSynth
      BY <2>1, <2>2, SumAtLeast
    <2>3. CASE f = currFreqHz /\ periodCounterSynth' >= periodCounterSynth - 1
      <3>1. sinceSynth' = MinOf(sinceSynth + 1, NWaitSynth)
        BY <2>3 DEF Elapsed
      <3>2. sinceSynth + periodCounterSynth >= NWaitSynth
        BY DEF Waited
      <3> QED
        BY <1>1, <2>1, <2>3, <3>1, <3>2, WaitShared
    <2> QED
      BY <2>2, <2>3
  <1> QED
    BY <1>2, <1>3 DEF Waited

\* A phase ends: the clips of its sum are now those of its term.
LEMMA NoteClipKeeps ==
    ASSUME TypeOK, ClipsKnown, NEW clipped \in BOOLEAN, NoteClip(clipped),
           clippedSum' = FALSE
    PROVE  /\ ClipsKnown' /\ clipFlag' \in BOOLEAN
           /\ {reported', pointClipped', clippedSum', clippedTerm', clippedLeft'}
                 \subseteq BOOLEAN
  BY DEF TypeOK, ClipsKnown, NoteClip, EmitsNothing, ClipFlagAfter, CountsClip,
         TermClipped, SumClipped

\* A point is emitted: the flag and the history begin again.
LEMMA ReportClipKeeps ==
    ASSUME TypeOK, ClipsKnown, NEW clipped \in BOOLEAN, ReportClip(clipped),
           clippedSum' = FALSE
    PROVE  /\ ClipsKnown' /\ clipFlag' \in BOOLEAN
           /\ {reported', pointClipped', clippedSum', clippedTerm', clippedLeft'}
                 \subseteq BOOLEAN
  BY DEF TypeOK, ClipsKnown, ReportClip, ClipFlagAfter, CountsClip, TermClipped,
         SumClipped

-------------------------------------------------------------------------------
(* The interrupt handler keeps the invariant, branch by branch.            *)

LEMMA WaitSynthKeeps ==
    ASSUME IInv, WaitSynth, during' \in 0 .. MaxDuring
    PROVE  IInv'
  <1> USE DEF IInv, WaitSynth, sweepArgs, modeArgs, ecalVars, sums, results, main,
              clips, EmitsNothing
  <1>1. Elapsed(rfsw, currFreqHz) /\ rfsw' = rfsw /\ currFreqHz' = currFreqHz
    BY DEF Elapsed
  <1>2. TypeOK'
    <2>1. /\ sinceSwitch' \in 0 .. NWaitSwitch /\ sinceSynth' \in 0 .. NWaitSynth
      BY <1>1, ElapsedTypes DEF TypeOK
    <2>2. periodCounterSynth' \in Nat
      BY DEF TypeOK
    <2> QED
      BY <1>1, <2>1, <2>2 DEF TypeOK
  <1>3. RestartFollows' /\ ModeKnown' /\ RepeatsKnown'
    BY DEF RestartFollows, ModeKnown, RepeatsKnown
  <1>4. Waited'
    BY <1>1, <1>2, ElapsedWaited DEF TypeOK
  <1>5. Summing'
    BY <1>1 DEF Summing, Sampling, SwitchSettled, Condition
  <1>6. Changing' = Changing
    BY DEF Changing
  <1>7. GainInRange' /\ ClipsKnown'
    BY <1>6 DEF GainInRange, ClipsKnown, GainMaxAt
  <1>8. BoardSet' /\ PhasesKept'
    BY <1>1, <1>6 DEF BoardSet, PhasesKept, PhaseSwitches, DefaultGain, Taken
  <1> QED
    BY <1>2, <1>3, <1>4, <1>5, <1>7, <1>8

\* Whether the configuration is being replaced is not decided by a period that
\* neither starts a sweep nor belongs to one that was asked to restart.
LEMMA ChangingKept ==
    ASSUME sweepCurrPoint # -1, sweepCurrPoint' # -1, todo' = todo
    PROVE  Changing' = Changing
  BY DEF Changing

\* The measurement of a complete phase is one of the conditions the phase is for.
LEMMA CompletePhase ==
    ASSUME IInv, Measuring, Complete, ~Changing
    PROVE  SummedDP = {[freq |-> currFreq, rf |-> PhaseSwitches]}
  <1>1. nMeasureCount \in Nat /\ nMeasureCount >= 1 /\ periodCounterSwitch \in Nat
    BY DEF IInv, BoardSet, TypeOK
  <1>2. Sampling
    BY <1>1, Constants DEF Complete, Sampling, SwitchSettled
  <1>3. currDP \subseteq {Condition}
    BY DEF IInv, Summing
  <1>4. Condition = [freq |-> currFreq, rf |-> PhaseSwitches]
    BY DEF IInv, BoardSet, Condition
  <1> QED
    BY <1>2, <1>3, <1>4 DEF SummedDP

LEMMA SummedTypes ==
    ASSUME TypeOK
    PROVE  SummedDP \in SUBSET Conditions /\ SummedCount \in Nat
  <1>1. Condition \in Conditions
    BY DEF TypeOK, Condition, Conditions
  <1>2. currDP \in SUBSET Conditions /\ summed \in Nat
    BY DEF TypeOK
  <1> QED
    BY <1>1, <1>2 DEF SummedDP, SummedCount

LEMMA KeepMeasuringKeeps ==
    ASSUME IInv, NEW clipped \in BOOLEAN, KeepMeasuring(clipped),
           during' \in 0 .. MaxDuring
    PROVE  IInv'
  <1> USE DEF IInv, KeepMeasuring, sweepArgs, modeArgs, ecalVars, gainVars,
              results, main, clips, EmitsNothing
  <1>1. Elapsed(rfsw, currFreqHz) /\ rfsw' = rfsw /\ currFreqHz' = currFreqHz
    BY DEF Elapsed
  <1>2. TypeOK'
    <2>1. /\ sinceSwitch' \in 0 .. NWaitSwitch /\ sinceSynth' \in 0 .. NWaitSynth
      BY <1>1, ElapsedTypes DEF TypeOK
    <2>2. currDP' \in SUBSET Conditions /\ summed' \in Nat
      BY SummedTypes
    <2>3. periodCounterSwitch' \in Nat
      BY DEF TypeOK
    <2>4. /\ clipFlag' \in BOOLEAN
          /\ {reported', pointClipped', clippedSum', clippedTerm', clippedLeft'}
                \subseteq BOOLEAN
      BY DEF ClipFlagAfter, CountsClip, SumClipped, TypeOK
    <2> QED
      BY <1>1, <2>1, <2>2, <2>3, <2>4 DEF TypeOK
  <1>3. RestartFollows' /\ ModeKnown' /\ RepeatsKnown'
    BY DEF RestartFollows, ModeKnown, RepeatsKnown
  <1>4. Waited'
    BY <1>1, <1>2, ElapsedWaited DEF TypeOK
  <1>5. Summing'
    <2>1. Condition' = Condition
      BY <1>1 DEF Condition
    <2>2. periodCounterSwitch \in Nat /\ summed \in Nat /\ NWaitSwitch \in Nat \ {0}
      BY Constants DEF TypeOK
    <2>3. summed' = IF Sampling' THEN periodCounterSwitch' - NWaitSwitch ELSE 0
      BY <2>2 DEF Summing, Sampling, SwitchSettled, SummedCount
    <2>4. currDP' = IF summed' = 0 THEN {} ELSE {Condition}
      BY <2>2 DEF Summing, Sampling, SwitchSettled, SummedCount, SummedDP
    <2> QED
      BY <2>1, <2>3, <2>4 DEF Summing
  <1>6. Changing' = Changing
    BY DEF Changing
  <1>7. GainInRange' /\ ClipsKnown'
    <2>1. ClipsKnown'
      BY DEF ClipsKnown, ClipFlagAfter, CountsClip, SumClipped, TypeOK
    <2> QED
      BY <1>6, <2>1 DEF GainInRange, GainMaxAt
  <1>8. BoardSet' /\ PhasesKept'
    BY <1>1, <1>6 DEF BoardSet, PhasesKept, PhaseSwitches, DefaultGain, Taken
  <1> QED
    BY <1>2, <1>3, <1>4, <1>5, <1>7, <1>8

\* A gain within the limit may be set in THRU at any period.
LEMMA ChangeGainKeeps ==
    ASSUME IInv, Measuring, measurementPhase = "THRU",
           NEW g \in 0 .. gainMax, ChangeGain(g), during' \in 0 .. MaxDuring
    PROVE  IInv'
  <1> USE DEF IInv, ChangeGain, sweepArgs, modeArgs, ecalVars, results, main,
              ClearSums, clips, EmitsNothing
  <1> DEFINE sw == [rfsw EXCEPT !.bbgain = g]
  <1>1. g \in 0 .. MaxGain /\ sw \in Switches
    <2>1. g \in 0 .. MaxGain
      <3>1. gainMax \in 0 .. MaxGain
        BY DEF TypeOK
      <3>2. MaxGain \in Nat
        BY Constants
      <3> QED
        BY <3>1, <3>2
    <2> QED
      BY <2>1 DEF TypeOK, Switches
  <1>2. Elapsed(sw, currFreqHz) /\ rfsw' = sw /\ currFreqHz' = currFreqHz
    BY DEF Elapsed
  <1>3. TypeOK'
    <2>1. /\ rfsw' \in Switches
          /\ sinceSwitch' \in 0 .. NWaitSwitch /\ sinceSynth' \in 0 .. NWaitSynth
      BY <1>1, <1>2, ElapsedTypes DEF TypeOK
    <2>2. currDP' \in SUBSET Conditions
      OBVIOUS
    <2> QED
      BY <1>1, <1>2, <2>1, <2>2 DEF TypeOK
  <1>4. RestartFollows' /\ ModeKnown' /\ RepeatsKnown'
    BY DEF RestartFollows, ModeKnown, RepeatsKnown
  <1>5. Waited'
    <2>1. /\ periodCounterSynth' = periodCounterSynth /\ periodCounterSynth \in Nat
          /\ periodCounterSwitch' = 0
      BY DEF TypeOK
    <2> HIDE DEF sw
    <2> QED
      BY <1>2, <2>1, ElapsedWaited
  <1>6. Summing'
    BY Constants DEF Summing, Sampling, SwitchSettled
  <1>7. Changing' = Changing
    BY DEF Changing
  <1>8. GainInRange' /\ ClipsKnown'
    BY <1>7 DEF GainInRange, ClipsKnown, GainMaxAt, TypeOK
  <1>9. ASSUME ~Changing PROVE rfsw' = PhaseSwitches'
    <2>1. rfsw = [refl |-> "OFF", recv |-> "PORT2", ecal |-> "NORMAL",
                  bbgain |-> currThruGain]
      BY <1>9, PhaseSwitchesValue DEF BoardSet
    <2>2. rfsw' = [refl |-> "OFF", recv |-> "PORT2", ecal |-> "NORMAL",
                   bbgain |-> g]
      BY <1>2, <2>1
    <2> QED
      BY <2>2 DEF PhaseSwitches
  <1>10. BoardSet' /\ PhasesKept'
    BY <1>2, <1>7, <1>9 DEF BoardSet, PhasesKept, DefaultGain, Taken
  <1> QED
    BY <1>3, <1>4, <1>5, <1>6, <1>8, <1>10

LEMMA ReduceGainKeeps ==
    ASSUME IInv, ReduceGain, during' \in 0 .. MaxDuring PROVE IInv'
  <1>1. currThruGain - 1 \in 0 .. gainMax
    BY DEF ReduceGain, MustReduce, IInv, TypeOK, GainInRange
  <1> QED
    BY <1>1, ChangeGainKeeps DEF ReduceGain, MustReduce

LEMMA RaiseGainKeeps ==
    ASSUME IInv, NEW clipped \in BOOLEAN, RaiseGain(clipped),
           during' \in 0 .. MaxDuring
    PROVE  IInv'
  <1>1. currThruGain + 1 \in 0 .. gainMax
    BY DEF RaiseGain, MayRaise, IInv, TypeOK, GainInRange
  <1> QED
    BY <1>1, ChangeGainKeeps DEF RaiseGain, ThruComplete

\* The next phase of a point begins.
LEMMA NextPhaseKeeps ==
    ASSUME IInv, Measuring, NEW ph \in Phases, NextPhase(ph), todo' = todo,
           NEW clipped \in BOOLEAN, NoteClip(clipped),
           during' \in 0 .. MaxDuring,
           ecalCounter' \in Nat /\ ecalCounterOffset' = ecalCounterOffset,
           {currFwd', currRefl', currThru'} \subseteq SUBSET Conditions
    PROVE  /\ TypeOK'
           /\ RestartFollows' /\ ModeKnown' /\ RepeatsKnown'
           /\ Waited' /\ Summing' /\ GainInRange' /\ ClipsKnown'
           /\ Changing' = Changing
           /\ nMeasureCount' >= 1 /\ currFreq' = currFreq
           /\ currFreqHz' = currFreqHz /\ rfsw' = SwitchesFor(ph)
  <1> USE DEF IInv, NextPhase, SetMeasurementPhase, sweepArgs, modeArgs, main,
              ClearSums
  <1> DEFINE sw == SwitchesFor(ph)
  <1>1. sw \in Switches
    BY SwitchesForType
  <1>2. Elapsed(sw, currFreqHz) /\ rfsw' = sw /\ currFreqHz' = currFreqHz
    BY DEF Elapsed
  <1> HIDE DEF sw
  <1>3. nMeasureCount' \in Nat \ {0}
    BY Constants
  <1>4. TypeOK'
    <2>1. /\ rfsw' \in Switches
          /\ sinceSwitch' \in 0 .. NWaitSwitch /\ sinceSynth' \in 0 .. NWaitSynth
      BY <1>1, <1>2, ElapsedTypes DEF TypeOK
    <2>2. currDP' \in SUBSET Conditions
      OBVIOUS
    <2>3. /\ clipFlag' \in BOOLEAN
          /\ {reported', pointClipped', clippedSum', clippedTerm', clippedLeft'}
                \subseteq BOOLEAN
      BY NoteClipKeeps
    <2> QED
      BY <1>2, <1>3, <2>1, <2>2, <2>3 DEF TypeOK
  <1>5. RestartFollows' /\ ModeKnown' /\ RepeatsKnown'
    BY DEF RestartFollows, ModeKnown, RepeatsKnown
  <1>6. Waited'
    <2>1. /\ periodCounterSynth' = periodCounterSynth /\ periodCounterSynth \in Nat
          /\ periodCounterSwitch' = 0
      BY DEF TypeOK
    <2> QED
      BY <1>2, <2>1, ElapsedWaited
  <1>7. Summing'
    BY Constants DEF Summing, Sampling, SwitchSettled
  <1>8. Changing' = Changing
    BY DEF Changing
  <1>9. GainInRange' /\ ClipsKnown'
    BY <1>8, NoteClipKeeps DEF GainInRange, GainMaxAt
  <1> QED
    BY <1>2, <1>3, <1>4, <1>5, <1>6, <1>7, <1>8, <1>9 DEF sw

LEMMA FinishReferenceKeeps ==
    ASSUME IInv, NEW clipped \in BOOLEAN, FinishReference(clipped),
           during' \in 0 .. MaxDuring
    PROVE  IInv'
  <1> USE DEF FinishReference
  <1>1. NextPhase("REFL") /\ "REFL" \in Phases /\ todo' = todo
    BY DEF NextPhase, main, Phases
  <1>2. /\ ecalCounter' \in Nat /\ ecalCounterOffset' = ecalCounterOffset
        /\ {currFwd', currRefl', currThru'} \subseteq SUBSET Conditions
    BY SummedTypes DEF IInv, TypeOK, ecalVars
  <1>3. /\ TypeOK'
        /\ RestartFollows' /\ ModeKnown' /\ RepeatsKnown'
        /\ Waited' /\ Summing' /\ GainInRange' /\ ClipsKnown'
        /\ Changing' = Changing
        /\ nMeasureCount' >= 1 /\ currFreq' = currFreq
        /\ currFreqHz' = currFreqHz /\ rfsw' = SwitchesFor("REFL")
    BY <1>1, <1>2, NextPhaseKeeps
  <1>4. measurementPhase' = "REFL"
    BY DEF NextPhase, SetMeasurementPhase
  <1>5. ASSUME ~Changing
        PROVE  /\ PhaseSwitches = [refl |-> "ON", recv |-> "REFL", ecal |-> "OPEN",
                                   bbgain |-> DefaultGain(currFreq)]
               /\ rfsw = PhaseSwitches /\ currFreqHz = currFreq
    BY <1>5, PhaseSwitchesValue DEF IInv, BoardSet
  <1>6. ASSUME ~Changing PROVE rfsw' = PhaseSwitches'
    <2>1. rfsw' = [refl |-> "ON", recv |-> "REFL", ecal |-> "NORMAL",
                   bbgain |-> DefaultGain(currFreq)]
      BY <1>3, <1>5, <1>6, SwitchesForValue DEF IInv, TypeOK
    <2> QED
      BY <1>3, <1>4, <2>1 DEF PhaseSwitches, DefaultGain
  <1>7. BoardSet'
    BY <1>3, <1>5, <1>6 DEF BoardSet
  <1>8. ASSUME ~Changing
        PROVE  currFwd' = Taken("ON", "REFL", "OPEN", DefaultGain(currFreq))
    BY <1>5, <1>8, CompletePhase DEF Taken
  <1>9. PhasesKept'
    BY <1>3, <1>4, <1>8 DEF PhasesKept, Taken, DefaultGain
  <1> QED
    BY <1>3, <1>7, <1>9 DEF IInv

LEMMA FinishReflKeeps ==
    ASSUME IInv, NEW clipped \in BOOLEAN, FinishRefl(clipped),
           during' \in 0 .. MaxDuring
    PROVE  IInv'
  <1> USE DEF FinishRefl
  <1>1. NextPhase("THRU") /\ "THRU" \in Phases /\ todo' = todo
    BY DEF NextPhase, main, Phases
  <1>2. /\ ecalCounter' \in Nat /\ ecalCounterOffset' = ecalCounterOffset
        /\ {currFwd', currRefl', currThru'} \subseteq SUBSET Conditions
    BY SummedTypes DEF IInv, TypeOK, ecalVars
  <1>3. /\ TypeOK'
        /\ RestartFollows' /\ ModeKnown' /\ RepeatsKnown'
        /\ Waited' /\ Summing' /\ GainInRange' /\ ClipsKnown'
        /\ Changing' = Changing
        /\ nMeasureCount' >= 1 /\ currFreq' = currFreq
        /\ currFreqHz' = currFreqHz /\ rfsw' = SwitchesFor("THRU")
    BY <1>1, <1>2, NextPhaseKeeps
  <1>4. /\ measurementPhase' = "THRU" /\ currThruGain' = currThruGain
        /\ measurement_mode' = measurement_mode /\ currFwd' = currFwd
    BY DEF NextPhase, SetMeasurementPhase, modeArgs
  <1>5. ASSUME ~Changing
        PROVE  /\ PhaseSwitches = [refl |-> "ON", recv |-> "REFL", ecal |-> "NORMAL",
                                   bbgain |-> DefaultGain(currFreq)]
               /\ rfsw = PhaseSwitches /\ currFreqHz = currFreq
    BY <1>5, PhaseSwitchesValue DEF IInv, BoardSet
  <1>6. rfsw' = [refl |-> "OFF", recv |-> "PORT2", ecal |-> "NORMAL",
                 bbgain |-> currThruGain]
    BY <1>3, SwitchesForValue DEF IInv, TypeOK
  <1>7. rfsw' = PhaseSwitches'
    BY <1>4, <1>6 DEF PhaseSwitches
  <1>8. BoardSet'
    BY <1>3, <1>5, <1>7 DEF BoardSet
  <1>9. ASSUME ~Changing
        PROVE  currRefl' = Taken("ON", "REFL", "NORMAL", DefaultGain(currFreq))
    BY <1>5, <1>9, CompletePhase DEF Taken
  <1>10. PhasesKept'
    BY <1>3, <1>4, <1>9 DEF PhasesKept, Taken, DefaultGain, IInv
  <1> QED
    BY <1>3, <1>8, <1>10 DEF IInv

LEMMA StartEcalKeeps ==
    ASSUME IInv, NEW clipped \in BOOLEAN, StartEcal(clipped),
           during' \in 0 .. MaxDuring
    PROVE  IInv'
  <1> USE DEF StartEcal, ThruComplete
  <1>1. NextPhase("ECALLOAD") /\ "ECALLOAD" \in Phases /\ todo' = todo
    BY DEF NextPhase, main, Phases
  <1>2. /\ ecalCounter' \in Nat /\ ecalCounterOffset' = ecalCounterOffset
        /\ {currFwd', currRefl', currThru'} \subseteq SUBSET Conditions
    BY SummedTypes DEF IInv, TypeOK, CountEcal
  <1>3. /\ TypeOK'
        /\ RestartFollows' /\ ModeKnown' /\ RepeatsKnown'
        /\ Waited' /\ Summing' /\ GainInRange' /\ ClipsKnown'
        /\ Changing' = Changing
        /\ nMeasureCount' >= 1 /\ currFreq' = currFreq
        /\ currFreqHz' = currFreqHz /\ rfsw' = SwitchesFor("ECALLOAD")
    BY <1>1, <1>2, NextPhaseKeeps
  <1>4. /\ measurementPhase' = "ECALLOAD" /\ currThruGain' = currThruGain
        /\ measurement_mode' = measurement_mode
    BY DEF NextPhase, SetMeasurementPhase, modeArgs
  <1>5. ASSUME ~Changing
        PROVE  /\ PhaseSwitches = [refl |-> "OFF", recv |-> "PORT2",
                                   ecal |-> "NORMAL", bbgain |-> currThruGain]
               /\ rfsw = PhaseSwitches /\ currFreqHz = currFreq
    BY <1>5, PhaseSwitchesValue DEF IInv, BoardSet
  <1>6. ASSUME ~Changing PROVE rfsw' = PhaseSwitches'
    <2>1. rfsw' = [refl |-> "ON", recv |-> "REFL", ecal |-> "LOAD",
                   bbgain |-> DefaultGain(currFreq)]
      BY <1>3, <1>5, <1>6, SwitchesForValue DEF IInv, TypeOK
    <2> QED
      BY <1>3, <1>4, <2>1 DEF PhaseSwitches, DefaultGain
  <1>7. BoardSet'
    BY <1>3, <1>5, <1>6 DEF BoardSet
  <1>8. ASSUME ~Changing
        PROVE  currThru' = Taken("OFF", "PORT2", "NORMAL", currThruGain)
    BY <1>5, <1>8, CompletePhase DEF Taken
  <1>9. PhasesKept'
    BY <1>3, <1>4, <1>8 DEF PhasesKept, Taken, DefaultGain, IInv
  <1> QED
    BY <1>3, <1>7, <1>9 DEF IInv

\* A point of the sweep begins: its frequency, gains and waits.
LEMMA SweepAdvanceSets ==
    ASSUME TypeOK, NEW p \in Nat \cup {-1}, NEW sw \in Switches,
           NEW offset \in Nat, NEW interval \in Nat,
           SweepAdvance(p, sw, offset, interval)
    PROVE  /\ sweepCurrPoint' \in Nat /\ currFreq' \in Nat /\ currFreqHz' = currFreq'
           /\ rfsw' = [sw EXCEPT !.bbgain = DefaultGain(currFreq')]
           /\ rfsw' \in Switches /\ Elapsed(rfsw', currFreqHz')
           /\ gainMax' = GainMaxAt(currFreq') /\ gainMax' \in 0 .. MaxGain
           /\ currThruGain' \in 0 .. MaxGain /\ currThruGain' <= gainMax'
           /\ periodCounterSwitch' = 0 /\ gainChangeOccurred' = FALSE
           /\ periodCounterSynth' \in Nat /\ periodCounterSynth' >= NWaitSynth
           /\ ecalCounterOffset' \in Nat
  <1> DEFINE q == PointAfter(p)
             f == sweepStartHz + sweepStepHz * q
  <1>1. q \in Nat
    BY DEF PointAfter
  <1>2. f \in Nat
    BY <1>1, PointFrequency DEF TypeOK
  <1>3. /\ sweepCurrPoint' = q /\ currFreq' = f
        /\ Elapsed([sw EXCEPT !.bbgain = DefaultGain(f)], f)
        /\ gainMax' = GainMaxAt(f)
        /\ periodCounterSwitch' = 0 /\ gainChangeOccurred' = FALSE
        /\ q = 0 => /\ periodCounterSynth' = FirstPointWait
                    /\ currThruGain' = gainMax'
                    /\ ecalCounterOffset' = IF offset + 1 >= interval
                                            THEN 0 ELSE offset + 1
        /\ q # 0 => /\ periodCounterSynth' = NWaitSynth
                    /\ currThruGain' = GainAt(f)
                    /\ ecalCounterOffset' = offset
    BY DEF SweepAdvance
  <1> HIDE DEF q, f
  <1>4. /\ rfsw' = [sw EXCEPT !.bbgain = DefaultGain(currFreq')]
        /\ currFreqHz' = currFreq' /\ Elapsed(rfsw', currFreqHz')
    BY <1>3 DEF Elapsed
  <1>5. rfsw' \in Switches
    BY <1>2, <1>3, <1>4, DefaultGainInRange DEF Switches
  <1>6. gainMax' = GainMaxAt(currFreq') /\ gainMax' \in 0 .. MaxGain
    BY <1>3, Constants DEF GainMaxAt
  <1>7. currThruGain' \in 0 .. MaxGain /\ currThruGain' <= gainMax'
    <2>1. currThruGain \in 0 .. MaxGain /\ MaxGain \in Nat
      BY Constants DEF TypeOK
    <2>2. CASE q = 0
      BY <1>3, <1>6, <2>1, <2>2
    <2>3. CASE q # 0
      BY <1>3, <2>1, <2>3 DEF GainMaxAt, GainAt
    <2> QED
      BY <2>2, <2>3
  <1>8. periodCounterSynth' \in Nat /\ periodCounterSynth' >= NWaitSynth
    <2>1. /\ NWaitSynth \in Nat /\ FirstPointWait \in Nat
          /\ NWaitSynth <= FirstPointWait
      BY Constants
    <2> QED
      BY <1>3, <2>1
  <1>9. ecalCounterOffset' \in Nat
    BY <1>3
  <1> QED
    BY <1>1, <1>2, <1>3, <1>4, <1>5, <1>6, <1>7, <1>8, <1>9

LEMMA RestartKeeps ==
    ASSUME IInv, Restart, during' \in 0 .. MaxDuring
    PROVE  IInv'
  <1> USE DEF IInv, Restart, SetMeasurementPhase, ClearSums, sweepArgs, modeArgs,
              results, main, EmitsNothing
  <1> DEFINE sw == SwitchesFor("REFERENCE")
  <1>1. sw \in Switches
    BY SwitchesForType DEF Phases
  <1>2. sw = [refl |-> "ON", recv |-> "REFL", ecal |-> "OPEN",
              bbgain |-> DefaultGain(currFreqHz)]
    BY SwitchesForValue DEF TypeOK
  <1> HIDE DEF sw
  <1>3. /\ sweepCurrPoint' \in Nat /\ currFreq' \in Nat /\ currFreqHz' = currFreq'
        /\ rfsw' = [sw EXCEPT !.bbgain = DefaultGain(currFreq')]
        /\ rfsw' \in Switches /\ Elapsed(rfsw', currFreqHz')
        /\ gainMax' = GainMaxAt(currFreq') /\ gainMax' \in 0 .. MaxGain
        /\ currThruGain' \in 0 .. MaxGain /\ currThruGain' <= gainMax'
        /\ periodCounterSwitch' = 0 /\ gainChangeOccurred' = FALSE
        /\ periodCounterSynth' \in Nat /\ periodCounterSynth' >= NWaitSynth
        /\ ecalCounterOffset' \in Nat
    <2>1. SweepAdvance(-1, sw, 0, ecalIntervalPoints) /\ ecalIntervalPoints \in Nat
      BY DEF sw, TypeOK
    <2> QED
      BY <1>1, <2>1, SweepAdvanceSets
  <1>4. nMeasureCount' \in Nat \ {0}
    BY Constants
  <1>5. TypeOK'
    <2>1. /\ sinceSwitch' \in 0 .. NWaitSwitch /\ sinceSynth' \in 0 .. NWaitSynth
      BY <1>3, ElapsedTypes
    <2>2. currDP' \in SUBSET Conditions /\ measurementPhase' \in Phases
      BY DEF Phases
    <2>3. dpCounterSynth' \in 0 .. MaxRepeats
      BY Constants
    <2>4. {clippedLeft', clippedTerm', clippedSum'} \subseteq BOOLEAN
      BY DEF TermClipped, SumClipped, TypeOK
    <2> QED
      BY <1>3, <1>4, <2>1, <2>2, <2>3, <2>4 DEF TypeOK
  <1>6. RestartFollows' /\ ModeKnown' /\ RepeatsKnown'
    BY DEF RestartFollows, ModeKnown, RepeatsKnown
  <1>7. Waited'
    BY <1>3, ElapsedWaited
  <1>8. Summing'
    BY <1>3, Constants DEF Summing, Sampling, SwitchSettled
  <1>9. GainInRange' /\ ClipsKnown'
    <2>1. ClipsKnown'
      BY DEF ClipsKnown, TermClipped, SumClipped, TypeOK
    <2> QED
      BY <1>3, <2>1 DEF GainInRange, GainMaxAt
  <1>10. rfsw' = PhaseSwitches'
    BY <1>2, <1>3 DEF PhaseSwitches, DefaultGain
  <1>11. BoardSet' /\ PhasesKept'
    BY <1>3, <1>4, <1>10 DEF BoardSet, PhasesKept
  <1> QED
    BY <1>5, <1>6, <1>7, <1>8, <1>9, <1>11

\* A point is emitted and the first phase of the next begins.
LEMMA PhaseAndEmitKeeps ==
    ASSUME IInv, Measuring, NEW ph \in {"REFERENCE", "REFL"}, NEW interval \in Nat,
           NEW clipped \in BOOLEAN,
           ph = "REFL" => measurement_mode = "REFL_THRU",
           ph = "REFL" => measurement_mode' = "REFL_THRU",
           PhaseAndEmit(ph, interval, clipped), UNCHANGED <<sweepArgs, main>>,
           ecalIntervalPoints' \in Nat \ {0},
           measurement_mode' \in {measurement_mode, configured},
           ecalCounter' \in Nat,
           {currFwd', currRefl', currThru'} \subseteq SUBSET Conditions,
           during' \in 0 .. MaxDuring
    PROVE  IInv'
  <1> USE DEF IInv, PhaseAndEmit, SetMeasurementPhase, ClearSums, sweepArgs, main
  <1> DEFINE sw == SwitchesFor(ph)
  <1>1. ph \in Phases /\ sw \in Switches
    BY SwitchesForType DEF Phases
  <1>2. /\ ph = "REFERENCE" => sw = [refl |-> "ON", recv |-> "REFL", ecal |-> "OPEN",
                                     bbgain |-> DefaultGain(currFreqHz)]
        /\ ph = "REFL" => sw = [refl |-> "ON", recv |-> "REFL", ecal |-> "NORMAL",
                                bbgain |-> DefaultGain(currFreqHz)]
    BY SwitchesForValue DEF TypeOK
  <1> HIDE DEF sw
  <1>3. nMeasureCount' \in Nat \ {0}
    BY Constants
  <1>4. /\ sweepCurrPoint' \in Nat /\ currFreq' \in Nat
        /\ rfsw' \in Switches /\ currFreqHz' \in Nat /\ Elapsed(rfsw', currFreqHz')
        /\ gainMax' \in 0 .. MaxGain /\ currThruGain' \in 0 .. MaxGain
        /\ currThruGain' <= gainMax'
        /\ periodCounterSwitch' = 0 /\ gainChangeOccurred' = FALSE
        /\ periodCounterSynth' \in Nat
        /\ \/ periodCounterSynth' >= NWaitSynth
           \/ currFreqHz' = currFreqHz /\ periodCounterSynth' = periodCounterSynth
        /\ ecalCounterOffset' \in Nat /\ dpCounterSynth' \in 0 .. MaxRepeats
        /\ ~Changing => /\ gainMax' = GainMaxAt(currFreq')
                        /\ currFreqHz' = currFreq' /\ rfsw' = PhaseSwitches'
    <2>1. CASE PointDone
      <3>1. SweepAdvance(sweepCurrPoint, sw, ecalCounterOffset, interval)
        BY <2>1 DEF sw
      <3>2. dpCounterSynth' \in 0 .. MaxRepeats
        BY <2>1, Constants
      <3>3. sweepCurrPoint \in Nat \cup {-1} /\ ecalCounterOffset \in Nat
        BY DEF TypeOK
      <3>4. /\ sweepCurrPoint' \in Nat /\ currFreq' \in Nat /\ currFreqHz' = currFreq'
            /\ rfsw' = [sw EXCEPT !.bbgain = DefaultGain(currFreq')]
            /\ rfsw' \in Switches /\ Elapsed(rfsw', currFreqHz')
            /\ gainMax' = GainMaxAt(currFreq') /\ gainMax' \in 0 .. MaxGain
            /\ currThruGain' \in 0 .. MaxGain /\ currThruGain' <= gainMax'
            /\ periodCounterSwitch' = 0 /\ gainChangeOccurred' = FALSE
            /\ periodCounterSynth' \in Nat /\ periodCounterSynth' >= NWaitSynth
            /\ ecalCounterOffset' \in Nat
        BY <1>1, <3>1, <3>3, SweepAdvanceSets
      <3>5. rfsw' = PhaseSwitches'
        BY <1>2, <3>4 DEF PhaseSwitches, DefaultGain
      <3> QED
        BY <3>2, <3>4, <3>5
    <2>2. CASE ~PointDone
      <3>1. /\ Elapsed(sw, currFreqHz)
            /\ dpCounterSynth' = MinOf(dpCounterSynth + 1, MaxRepeats)
            /\ periodCounterSwitch' = 0 /\ gainChangeOccurred' = FALSE
            /\ UNCHANGED <<sweepCurrPoint, currFreq, gainMax, currThruGain,
                           periodCounterSynth, ecalCounterOffset>>
        BY <2>2 DEF sw
      <3>2. /\ rfsw' = sw /\ currFreqHz' = currFreqHz
            /\ Elapsed(rfsw', currFreqHz')
        BY <3>1 DEF Elapsed
      <3>3. dpCounterSynth' \in 0 .. MaxRepeats
        BY <3>1, Constants DEF MinOf, TypeOK
      <3>4. ASSUME ~Changing
            PROVE  /\ gainMax' = GainMaxAt(currFreq')
                   /\ currFreqHz' = currFreq' /\ rfsw' = PhaseSwitches'
        <4>1. gainMax' = GainMaxAt(currFreq') /\ currFreqHz' = currFreq'
          BY <3>1, <3>2, <3>4 DEF BoardSet, GainInRange, GainMaxAt
        <4>2. rfsw' = PhaseSwitches'
          BY <1>2, <3>2, <4>1 DEF PhaseSwitches, DefaultGain
        <4> QED
          BY <4>1, <4>2
      <3>5. /\ sweepCurrPoint' \in Nat /\ currThruGain' <= gainMax'
            /\ ecalCounterOffset' \in Nat /\ periodCounterSynth' \in Nat
            /\ gainMax' \in 0 .. MaxGain /\ currThruGain' \in 0 .. MaxGain
            /\ currFreq' \in Nat /\ currFreqHz' \in Nat
        BY <3>1, <3>2 DEF TypeOK, GainInRange, Measuring
      <3> QED
        BY <1>1, <3>1, <3>2, <3>3, <3>4, <3>5
    <2> QED
      BY <2>1, <2>2
  <1>5. TypeOK'
    <2>1. /\ sinceSwitch' \in 0 .. NWaitSwitch /\ sinceSynth' \in 0 .. NWaitSynth
      BY <1>4, ElapsedTypes
    <2>2. currDP' \in SUBSET Conditions /\ measurementPhase' \in Phases
      BY DEF Phases
    <2>3. measurement_mode' \in Modes \cup {"FULL"}
      BY DEF TypeOK
    <2>4. /\ clipFlag' \in BOOLEAN
          /\ {reported', pointClipped', clippedSum', clippedTerm', clippedLeft'}
                \subseteq BOOLEAN
      BY ReportClipKeeps
    <2> QED
      BY <1>3, <1>4, <2>1, <2>2, <2>3, <2>4 DEF TypeOK
  <1>6. RestartFollows' /\ ModeKnown' /\ RepeatsKnown'
    BY DEF RestartFollows, ModeKnown, RepeatsKnown
  <1>7. Waited'
    <2>1. periodCounterSynth \in Nat
      BY DEF TypeOK
    <2> QED
      BY <1>4, <2>1, ElapsedWaited
  <1>8. Summing'
    BY <1>4, Constants DEF Summing, Sampling, SwitchSettled
  <1>9. Changing' = Changing
    BY <1>4, ChangingKept DEF Measuring
  <1>10. GainInRange' /\ ClipsKnown'
    BY <1>4, <1>9, ReportClipKeeps DEF GainInRange, GainMaxAt
  <1>11. BoardSet'
    BY <1>3, <1>4, <1>9 DEF BoardSet
  <1>12. PhasesKept'
    BY DEF PhasesKept
  <1> QED
    BY <1>5, <1>6, <1>7, <1>8, <1>10, <1>11, <1>12

LEMMA EmitWithoutEcalKeeps ==
    ASSUME IInv, NEW clipped \in BOOLEAN, EmitWithoutEcal(clipped),
           during' \in 0 .. MaxDuring
    PROVE  IInv'
  <1> DEFINE ph == IF measurement_mode = "REFL_THRU" THEN "REFL" ELSE "REFERENCE"
  <1>1. /\ PhaseAndEmit(ph, ecalIntervalPoints, clipped) /\ ph \in {"REFERENCE", "REFL"}
        /\ ph = "REFL" => measurement_mode = "REFL_THRU"
    BY DEF EmitWithoutEcal
  <1>2. UNCHANGED <<sweepArgs, main>> /\ UNCHANGED modeArgs
    BY DEF EmitWithoutEcal
  <1>3. /\ measurement_mode' = measurement_mode
        /\ ecalIntervalPoints' = ecalIntervalPoints
    BY <1>2 DEF modeArgs
  <1>4. ecalIntervalPoints \in Nat \ {0}
    BY DEF IInv, TypeOK
  <1>5. ecalCounter' \in Nat
    BY DEF EmitWithoutEcal, EcalCounterAfterEmit, CountEcal, IInv, TypeOK
  <1>6. {currFwd', currRefl', currThru'} \subseteq SUBSET Conditions
    BY SummedTypes DEF EmitWithoutEcal, IInv, TypeOK
  <1>7. Measuring
    BY DEF EmitWithoutEcal, ThruComplete
  <1> HIDE DEF ph
  <1> QED
    BY <1>1, <1>2, <1>3, <1>4, <1>5, <1>6, <1>7, PhaseAndEmitKeeps

LEMMA EmitWithEcalKeeps ==
    ASSUME IInv, NEW clipped \in BOOLEAN, EmitWithEcal(clipped),
           during' \in 0 .. MaxDuring
    PROVE  IInv'
  <1>1. Measuring /\ UNCHANGED <<sweepArgs, main>>
    BY DEF EmitWithEcal
  <1>2. /\ ecalIntervalPoints' \in Nat \ {0}
        /\ measurement_mode' \in {measurement_mode, configured}
    BY Constants DEF EmitWithEcal, EcalDone, modeArgs, IInv, TypeOK
  <1>3. PhaseAndEmit("REFERENCE", ecalIntervalPoints', clipped)
    BY DEF EmitWithEcal
  <1>4. ecalCounter' \in Nat
    BY DEF EmitWithEcal, EcalCounterAfterEmit, IInv, TypeOK
  <1>5. {currFwd', currRefl', currThru'} \subseteq SUBSET Conditions
    BY DEF EmitWithEcal, IInv, TypeOK
  <1> QED
    BY <1>1, <1>2, <1>3, <1>4, <1>5, PhaseAndEmitKeeps

LEMMA InterruptKeeps ==
    ASSUME IInv, Interrupt PROVE IInv'
  <1>1. during' \in 0 .. MaxDuring
    BY Constants DEF Interrupt, IInv, TypeOK
  <1> QED
    BY <1>1, RestartKeeps, WaitSynthKeeps, ReduceGainKeeps, EmitWithEcalKeeps,
       KeepMeasuringKeeps, FinishReferenceKeeps, FinishReflKeeps, RaiseGainKeeps,
       StartEcalKeeps, EmitWithoutEcalKeeps
    DEF Interrupt, Handler

-------------------------------------------------------------------------------
(* The main thread keeps the invariant.                                    *)

\* UIStores, spelled out.
LEMMA UIStoresValue ==
    /\ UIStores \in Seq(StoreNames) /\ DOMAIN UIStores = 1 .. 9
    /\ UIStores[1] = "mode" /\ UIStores[9] = "restart"
  <1> DEFINE first == <<"mode", "interval">>
  <1>1. first \in Seq(StoreNames) /\ Len(first) = 2 /\ first[1] = "mode"
    BY DEF StoreNames
  <1>2. /\ SetSweepStores \in Seq(StoreNames) /\ Len(SetSweepStores) = 7
        /\ SetSweepStores[7] = "restart"
    BY DEF StoreNames, SetSweepStores
  <1>3. UIStores = first \o SetSweepStores
    BY DEF UIStores
  <1> HIDE DEF first
  <1>4. /\ UIStores \in Seq(StoreNames) /\ Len(UIStores) = 9
        /\ \A i \in 1 .. 9 : UIStores[i] = IF i <= 2 THEN first[i]
                                                 ELSE SetSweepStores[i - 2]
    <2>1. /\ first \o SetSweepStores \in Seq(StoreNames)
          /\ Len(first \o SetSweepStores) = Len(first) + Len(SetSweepStores)
          /\ \A i \in 1 .. Len(first) + Len(SetSweepStores) :
                (first \o SetSweepStores)[i] =
                    IF i <= Len(first) THEN first[i] ELSE SetSweepStores[i - Len(first)]
      BY <1>1, <1>2, ConcatProperties, Zenon
    <2>2. Len(first) + Len(SetSweepStores) = 9
      BY <1>1, <1>2
    <2> QED
      BY <1>1, <1>3, <2>1, <2>2
  <1> QED
    BY <1>1, <1>2, <1>4

\* The stores of every change end in the restart, and one that changes the
\* configured mode begins with the mode.
LEMMA StoresEndInRestart ==
    ASSUME NEW stores \in {UIStores, USBStores, CollectStores, AveragingStores}
    PROVE  /\ stores \in Seq(StoreNames) /\ stores # <<>>
           /\ \E j \in DOMAIN stores : stores[j] = "restart"
           /\ \A i \in DOMAIN stores :
                 stores[i] = "interval" \/
                    \E j \in DOMAIN stores : i <= j /\ stores[j] = "restart"
  <1>1. PICK n \in 1 .. 9 :
            /\ stores \in Seq(StoreNames) /\ n \in DOMAIN stores
            /\ stores[n] = "restart"
            /\ \A i \in DOMAIN stores : i <= n \/ stores[i] = "interval"
    <2>1. CASE stores = UIStores
      <3>1. \A i \in DOMAIN stores : i <= 9
        BY <2>1, UIStoresValue
      <3> QED
        BY <2>1, <3>1, UIStoresValue
    <2>2. CASE stores = USBStores
      <3>1. /\ DOMAIN stores = 1 .. 8 /\ stores[7] = "restart"
            /\ stores[8] = "interval" /\ stores \in Seq(StoreNames)
        BY <2>2 DEF USBStores, StoreNames
      <3>2. \A i \in DOMAIN stores : i <= 7 \/ i = 8
        BY <3>1
      <3> QED
        BY <3>1, <3>2
    <2>3. CASE stores = CollectStores
      <3>1. /\ DOMAIN stores = 1 .. 3 /\ stores[3] = "restart"
            /\ stores \in Seq(StoreNames)
        BY <2>3 DEF CollectStores, StoreNames
      <3> QED
        BY <3>1
    <2>4. CASE stores = AveragingStores
      <3>1. /\ DOMAIN stores = 1 .. 2 /\ stores[2] = "restart"
            /\ stores \in Seq(StoreNames)
        BY <2>4 DEF AveragingStores, StoreNames
      <3> QED
        BY <3>1
    <2> QED
      BY <2>1, <2>2, <2>3, <2>4
  <1>2. stores # <<>>
    BY <1>1
  <1> QED
    BY <1>1, <1>2

\* A change begins: nothing is stored yet.
LEMMA BeginChangeKeeps ==
    ASSUME IInv, NEW stores \in {UIStores, USBStores, CollectStores, AveragingStores},
           BeginChange(stores), target' \in SweepArgs, target'.repeats <= MaxRepeats,
           configured' \in Modes,
           configured' = configured \/ stores = UIStores
    PROVE  IInv'
  <1> USE DEF IInv, BeginChange, sweepArgs, modeArgs, engine, counters, ecalVars,
              gainVars, sums, results, board, history, clips, emitted
  <1>1. /\ todo' = stores /\ stores \in Seq(StoreNames)
        /\ \E j \in DOMAIN stores : stores[j] = "restart"
    BY StoresEndInRestart
  <1>2. Changing'
    BY <1>1 DEF Changing
  <1>3. changes' \in 0 .. MaxChanges
    BY Constants DEF TypeOK
  <1>4. TypeOK'
    BY <1>1, <1>3 DEF TypeOK
  <1>5. RestartFollows'
    BY <1>1, StoresEndInRestart DEF RestartFollows
  <1>6. ModeKnown'
    <2>1. CASE stores = UIStores
      BY <2>1, <1>1, UIStoresValue, StoresEndInRestart DEF ModeKnown
    <2>2. CASE configured' = configured
      BY <2>2 DEF ModeKnown
    <2> QED
      BY <2>1, <2>2
  <1>7. RepeatsKnown'
    BY DEF RepeatsKnown
  <1>8. Waited' /\ Summing'
    BY DEF Waited, Summing, Sampling, SwitchSettled, Condition
  <1>9. GainInRange' /\ ClipsKnown'
    BY <1>2 DEF GainInRange, ClipsKnown
  <1>10. BoardSet' /\ PhasesKept'
    BY <1>2 DEF BoardSet, PhasesKept
  <1> QED
    BY <1>4, <1>5, <1>6, <1>7, <1>8, <1>9, <1>10

\* A store that asks for no restart changes the mode to the configured one, or
\* leaves it.
LEMMA ChangeInPlaceKeeps ==
    ASSUME IInv, ChangeInPlace,
           measurement_mode' \in {measurement_mode, configured},
           ecalIntervalPoints' \in Nat \ {0}
    PROVE  IInv'
  <1> USE DEF IInv, ChangeInPlace, sweepArgs, engine, counters, ecalVars,
              gainVars, sums, results, board, history, clips, emitted
  <1>1. changes' \in 0 .. MaxChanges
    BY Constants DEF TypeOK
  <1>2. TypeOK'
    <2>1. measurement_mode' \in Modes \cup {"FULL"}
      BY DEF TypeOK
    <2> QED
      BY <1>1, <2>1 DEF TypeOK
  <1>3. RestartFollows' /\ RepeatsKnown'
    BY DEF RestartFollows, RepeatsKnown
  <1>4. ModeKnown'
    BY DEF ModeKnown
  <1>5. Waited' /\ Summing'
    BY DEF Waited, Summing, Sampling, SwitchSettled, Condition
  <1>6. Changing' = Changing
    BY DEF Changing
  <1>7. GainInRange' /\ ClipsKnown'
    BY <1>6 DEF GainInRange, ClipsKnown, GainMaxAt
  <1>8. BoardSet'
    BY <1>6 DEF BoardSet, PhaseSwitches, DefaultGain
  <1>9. ASSUME measurement_mode' # "REFL_THRU" PROVE measurement_mode # "REFL_THRU"
    BY <1>9 DEF ModeKnown
  <1>10. PhasesKept'
    BY <1>6, <1>9 DEF PhasesKept, Taken, DefaultGain
  <1> QED
    BY <1>2, <1>3, <1>4, <1>5, <1>7, <1>8, <1>10

\* The only store after which nothing is being changed is the ecal interval's.
LEMMA LastStore ==
    ASSUME IInv, Store, ~Changing'
    PROVE  ~Changing /\ todo[1] = "interval"
  <1>1. /\ todo # <<>> /\ todo' = Tail(todo) /\ Head(todo) = todo[1]
        /\ DOMAIN todo = 1 .. Len(todo) /\ Len(todo) \in Nat /\ 1 \in DOMAIN todo
        /\ DOMAIN todo' = 1 .. Len(todo) - 1
        /\ \A i \in 1 .. Len(todo) - 1 : todo'[i] = todo[i + 1]
    BY DEF Store, IInv, TypeOK
  <1>2. todo[1] # "restart" /\ sweepCurrPoint # -1
    BY <1>1 DEF Changing, Store
  <1>3. ASSUME NEW j \in DOMAIN todo, todo[j] = "restart" PROVE FALSE
    <2>1. j # 1
      BY <1>2, <1>3
    <2>2. j - 1 \in DOMAIN todo' /\ todo'[j - 1] = "restart"
      BY <1>1, <1>3, <2>1
    <2> QED
      BY <2>2 DEF Changing
  <1>4. todo[1] = "interval"
    BY <1>1, <1>3 DEF IInv, RestartFollows
  <1> QED
    BY <1>2, <1>3, <1>4 DEF Changing

\* One store of a change.
LEMMA StoreKeeps ==
    ASSUME IInv, Store PROVE IInv'
  <1> DEFINE store == todo[1]
  <1> USE DEF IInv, engine, counters, ecalVars, gainVars, sums, results, board,
              history, clips, emitted
  <1>1. /\ todo # <<>> /\ todo' = Tail(todo) /\ Head(todo) = store
        /\ store \in StoreNames /\ todo' \in Seq(StoreNames)
        /\ DOMAIN todo = 1 .. Len(todo) /\ Len(todo) \in Nat /\ 1 \in DOMAIN todo
        /\ DOMAIN todo' = 1 .. Len(todo) - 1
        /\ \A i \in 1 .. Len(todo) - 1 : todo'[i] = todo[i + 1]
    BY DEF Store, TypeOK
  <1>2. /\ sweepStartHz' \in TornFreqs \cup {sweepStartHz, target.start}
        /\ sweepStepHz' \in {s.step : s \in Sweeps} \cup {sweepStepHz, target.step}
        /\ sweepPoints' \in {sweepPoints, target.points}
        /\ sweepDataPointsPerFreq' \in {sweepDataPointsPerFreq, target.repeats}
        /\ sweepCurrPoint' = IF store = "restart" THEN -1 ELSE sweepCurrPoint
        /\ measurement_mode' = IF store = "mode" THEN "FULL" ELSE measurement_mode
        /\ ecalIntervalPoints' \in {ecalIntervalPoints, 1}
    BY <1>1 DEF Store
  <1>3. UNCHANGED <<engine, target, configured, changes>>
    BY DEF Store
  <1> HIDE DEF store
  <1>4. TypeOK'
    <2>1. /\ sweepStartHz' \in Nat /\ sweepStepHz' \in Nat /\ sweepPoints' \in Nat
          /\ sweepDataPointsPerFreq' \in Nat
      BY <1>2, MeasurementAssumption DEF TypeOK, SweepArgs
    <2>2. during' \in 0 .. MaxDuring
      BY Constants DEF Store, TypeOK
    <2>3. sweepCurrPoint' \in Nat \cup {-1} /\ measurement_mode' \in Modes \cup {"FULL"}
      BY <1>2 DEF TypeOK
    <2>4. ecalIntervalPoints' \in Nat \ {0}
      BY <1>2 DEF TypeOK
    <2> QED
      BY <1>1, <1>3, <2>1, <2>2, <2>3, <2>4 DEF TypeOK
  <1>5. RestartFollows'
    <2>1. ASSUME NEW i \in DOMAIN todo', todo'[i] # "interval"
          PROVE  \E j \in DOMAIN todo' : i <= j /\ todo'[j] = "restart"
      <3>1. i + 1 \in DOMAIN todo /\ todo[i + 1] # "interval"
        BY <1>1, <2>1
      <3>2. PICK j \in DOMAIN todo : i + 1 <= j /\ todo[j] = "restart"
        BY <3>1 DEF RestartFollows
      <3>3. j - 1 \in DOMAIN todo' /\ i <= j - 1 /\ todo'[j - 1] = "restart"
        BY <1>1, <2>1, <3>2
      <3> QED
        BY <3>3
    <2> QED
      BY <2>1 DEF RestartFollows
  <1>6. ModeKnown'
    BY <1>1, <1>2, <1>3 DEF ModeKnown, store
  <1>7. RepeatsKnown'
    BY <1>2, <1>3 DEF RepeatsKnown
  <1>8. Waited' /\ Summing' /\ ClipsKnown'
    BY <1>3 DEF Waited, Summing, Sampling, SwitchSettled, Condition, ClipsKnown
  <1>9. ASSUME ~Changing' PROVE ~Changing /\ store = "interval"
    BY <1>9, LastStore DEF store
  <1>10. GainInRange'
    BY <1>3, <1>9 DEF GainInRange, GainMaxAt
  <1>11. BoardSet'
    BY <1>3, <1>9 DEF BoardSet, PhaseSwitches, DefaultGain
  <1>12. ASSUME ~Changing' PROVE measurement_mode' = measurement_mode
    BY <1>2, <1>9, <1>12
  <1>13. PhasesKept'
    BY <1>3, <1>9, <1>12 DEF PhasesKept, Taken, DefaultGain
  <1> QED
    BY <1>4, <1>5, <1>6, <1>7, <1>8, <1>10, <1>11, <1>13

LEMMA MainThreadKeeps ==
    ASSUME IInv, MainThread PROVE IInv'
  <1>1. target \in SweepArgs /\ target.repeats <= MaxRepeats /\ configured \in Modes
    BY DEF IInv, TypeOK, RepeatsKnown
  <1>2. ASSUME SetVNASweepToUI PROVE IInv'
    <2>1. target' \in SweepArgs /\ target'.repeats <= MaxRepeats
      BY <1>2, MeasurementAssumption DEF SetVNASweepToUI, Sweeps
    <2> QED
      BY <1>2, <2>1, BeginChangeKeeps DEF SetVNASweepToUI
  <1>3. ASSUME SetVNASweepToUSB PROVE IInv'
    <2>1. target' \in SweepArgs /\ target'.repeats <= MaxRepeats
      BY <1>3, MeasurementAssumption DEF SetVNASweepToUSB, Sweeps
    <2> QED
      BY <1>1, <1>3, <2>1, BeginChangeKeeps DEF SetVNASweepToUSB
  <1>4. ASSUME CalCollect PROVE IInv'
    BY <1>1, <1>4, BeginChangeKeeps DEF CalCollect
  <1>5. ASSUME UpdateAveraging PROVE IInv'
    <2>1. PICK s \in UISweeps : target' = [target EXCEPT !.repeats = s.repeats]
      BY <1>5 DEF UpdateAveraging
    <2>2. s \in SweepArgs /\ s.repeats <= MaxRepeats
      BY MeasurementAssumption DEF Sweeps
    <2>3. target' \in SweepArgs /\ target'.repeats <= MaxRepeats
      BY <1>1, <2>1, <2>2 DEF SweepArgs
    <2> QED
      BY <1>1, <1>5, <2>3, BeginChangeKeeps DEF UpdateAveraging
  <1>6. ASSUME CalCollected PROVE IInv'
    BY <1>6, Constants, ChangeInPlaceKeeps DEF CalCollected
  <1>7. ASSUME CalDone PROVE IInv'
    BY <1>7, ChangeInPlaceKeeps DEF CalDone, IInv, TypeOK
  <1> QED
    BY <1>2, <1>3, <1>4, <1>5, <1>6, <1>7, StoreKeeps DEF MainThread

-------------------------------------------------------------------------------
(* The theorems.                                                           *)

LEMMA InitIInv == Init => IInv
  <1> SUFFICES ASSUME Init PROVE IInv
    OBVIOUS
  <1> USE DEF Init
  <1>1. UIStores \in {UIStores, USBStores, CollectStores, AveragingStores}
    OBVIOUS
  <1>2. /\ todo = UIStores /\ todo \in Seq(StoreNames) /\ todo # <<>>
        /\ \E j \in DOMAIN todo : todo[j] = "restart"
        /\ RestartFollows
    BY <1>1, StoresEndInRestart DEF RestartFollows
  <1>3. Changing
    BY <1>2 DEF Changing
  <1>4. target \in SweepArgs /\ target.repeats <= MaxRepeats /\ BootFreq \in Nat
    BY MeasurementAssumption DEF Sweeps
  <1>5. TypeOK
    <2>1. rfsw \in Switches
      BY <1>4, DefaultGainInRange DEF Switches
    <2>2. /\ currThruGain \in 0 .. MaxGain /\ gainMax \in 0 .. MaxGain
          /\ changes \in 0 .. MaxChanges /\ during \in 0 .. MaxDuring
          /\ sinceSwitch \in 0 .. NWaitSwitch /\ sinceSynth \in 0 .. NWaitSynth
          /\ dpCounterSynth \in 0 .. MaxRepeats
      BY Constants
    <2>3. /\ sweepStartHz \in Nat /\ sweepStepHz \in Nat
          /\ sweepPoints \in Nat /\ sweepDataPointsPerFreq \in Nat
          /\ sweepCurrPoint \in Nat \cup {-1}
          /\ measurement_mode \in Modes \cup {"FULL"}
          /\ ecalIntervalPoints \in Nat \ {0}
          /\ measurementPhase \in Phases /\ nMeasureCount \in Nat
          /\ periodCounterSynth \in Nat /\ periodCounterSwitch \in Nat
          /\ ecalCounter \in Nat /\ ecalCounterOffset \in Nat
          /\ currFreq \in Nat /\ summed \in Nat
      BY DEF Phases
    <2>4. {currDP, currFwd, currRefl, currThru} \subseteq SUBSET Conditions
      OBVIOUS
    <2> QED
      BY <1>2, <1>4, <2>1, <2>2, <2>3, <2>4 DEF TypeOK
  <1>6. ModeKnown /\ RepeatsKnown
    BY <1>4, Constants DEF ModeKnown, RepeatsKnown
  <1>7. Waited /\ Summing
    BY Constants DEF Waited, Summing, MinOf, Sampling, SwitchSettled
  <1>8. GainInRange /\ BoardSet /\ PhasesKept
    BY <1>3, Constants DEF GainInRange, BoardSet, PhasesKept
  <1>9. ClipsKnown
    BY Zenon DEF ClipsKnown
  <1> QED
    BY <1>2, <1>5, <1>6, <1>7, <1>8, <1>9 DEF IInv

\* A step that changes nothing keeps what is said of the state.
LEMMA StutterKeeps ==
    ASSUME IInv, UNCHANGED vars PROVE IInv'
  <1> USE DEF vars, sweepArgs, modeArgs, engine, counters, ecalVars, gainVars,
              sums, results, board, main, history, clips, emitted, IInv
  <1>1. TypeOK'
    BY DEF TypeOK
  <1>2. RestartFollows' /\ ModeKnown' /\ RepeatsKnown' /\ Waited' /\ Summing'
    BY DEF RestartFollows, ModeKnown, RepeatsKnown, Waited, Summing, Sampling,
           SwitchSettled, Condition
  <1>3. Changing' = Changing
    BY DEF Changing
  <1>4. GainInRange' /\ ClipsKnown' /\ BoardSet' /\ PhasesKept'
    BY <1>3 DEF GainInRange, ClipsKnown, BoardSet, PhasesKept, PhaseSwitches,
                GainMaxAt, DefaultGain, Taken
  <1> QED
    BY <1>1, <1>2, <1>4

\* The inductive invariant holds in every reachable state, for every set of
\* sweeps, wait, number of periods and bound.
THEOREM Invariance == Spec => []IInv
  <1>1. IInv /\ [Next]_vars => IInv'
    BY InterruptKeeps, MainThreadKeeps, StutterKeeps DEF Next
  <1> QED
    BY InitIInv, <1>1, PTL DEF Spec

\* Every variable of the engine keeps its type (vna_measurement.hpp).
THEOREM Typing == Spec => []TypeOK
  <1>1. IInv => TypeOK
    BY DEF IInv
  <1> QED
    BY Invariance, <1>1, PTL

\* No period is summed before the switches and the synthesizer have settled,
\* for every number of periods to wait (vna_measurement.cpp:89-96).
THEOREM AlwaysSettled == Spec => []Settled
  <1>1. IInv => Settled
    <2> SUFFICES ASSUME IInv, Measuring, Sampling
                 PROVE  sinceSwitch = NWaitSwitch /\ sinceSynth = NWaitSynth
      BY DEF Settled
    <2>1. /\ sinceSwitch \in 0 .. NWaitSwitch /\ sinceSynth \in 0 .. NWaitSynth
          /\ periodCounterSwitch \in Nat /\ periodCounterSynth = 0
          /\ periodCounterSwitch >= NWaitSwitch
      BY DEF IInv, TypeOK, Measuring, Sampling, SwitchSettled
    <2>2. sinceSwitch >= NWaitSwitch
      BY <2>1, Constants DEF IInv, Waited, MinOf
    <2>3. sinceSynth >= NWaitSynth
      BY <2>1, Constants DEF IInv, Waited
    <2> QED
      BY <2>1, <2>2, <2>3, Constants
  <1> QED
    BY Invariance, <1>1, PTL

\* A mean is taken over as many periods as were summed, through every reset
\* (vna_measurement.cpp:129-131).
THEOREM AlwaysMeanIsOverSummed == Spec => []MeanIsOverSummed
  <1>1. IInv => MeanIsOverSummed
    BY DEF IInv, MeanIsOverSummed, Summing
  <1> QED
    BY Invariance, <1>1, PTL

\* The receiver gain is in the range of the frequency, for every sweep and every
\* band limit (main2.cpp:333-357).
THEOREM AlwaysGainInRange == Spec => []GainInRange
  <1>1. IInv => GainInRange
    BY DEF IInv
  <1> QED
    BY Invariance, <1>1, PTL

-------------------------------------------------------------------------------
(* What is emitted.                                                        *)

\* A point leaves the engine only when THRU or the ecal measurement completes.
LEMMA OnlyTwoEmit ==
    ASSUME Next, Emits
    PROVE  \E clipped \in BOOLEAN : EmitWithoutEcal(clipped) \/ EmitWithEcal(clipped)
  <1>1. ASSUME MainThread PROVE FALSE
    <2>1. measurementPhase' = measurementPhase
      BY <1>1 DEF MainThread, SetVNASweepToUI, SetVNASweepToUSB, CalCollect,
                  UpdateAveraging, BeginChange, CalCollected, CalDone,
                  ChangeInPlace, Store, engine
    <2> QED
      BY <2>1 DEF Emits
  <1>2. ASSUME Restart PROVE FALSE
    BY <1>2 DEF Restart, Emits
  <1>3. ASSUME WaitSynth PROVE FALSE
    BY <1>3 DEF WaitSynth, Emits
  <1>4. ASSUME ReduceGain PROVE FALSE
    BY <1>4 DEF ReduceGain, ChangeGain, Emits
  <1>5. ASSUME NEW clipped \in BOOLEAN,
               \/ KeepMeasuring(clipped) \/ RaiseGain(clipped)
               \/ FinishReference(clipped) \/ FinishRefl(clipped)
               \/ StartEcal(clipped)
        PROVE  FALSE
    BY <1>5 DEF KeepMeasuring, RaiseGain, ChangeGain, FinishReference, FinishRefl,
                StartEcal, NextPhase, SetMeasurementPhase, Emits
  <1> QED
    BY <1>1, <1>2, <1>3, <1>4, <1>5 DEF Next, Interrupt, Handler

\* What an emission finds when it is no restart.
LEMMA EmittedCoherent ==
    ASSUME IInv, Next, Emits, ~Changing
    PROVE  /\ currRefl = Taken("ON", "REFL", "NORMAL", DefaultGain(currFreq))
           /\ currThru' = Taken("OFF", "PORT2", "NORMAL", currThruGain)
           /\ measurement_mode # "REFL_THRU" =>
                 currFwd = Taken("ON", "REFL", "OPEN", DefaultGain(currFreq))
           /\ measurementPhase = "ECALLOAD" =>
                 SummedDP = Taken("ON", "REFL", "LOAD", DefaultGain(currFreq))
  <1>1. /\ currRefl = Taken("ON", "REFL", "NORMAL", DefaultGain(currFreq))
        /\ measurement_mode # "REFL_THRU" =>
              currFwd = Taken("ON", "REFL", "OPEN", DefaultGain(currFreq))
    BY DEF IInv, PhasesKept, Emits
  <1>2. CASE \E clipped \in BOOLEAN : EmitWithoutEcal(clipped)
    <2>1. PICK clipped \in BOOLEAN : EmitWithoutEcal(clipped)
      BY <1>2
    <2>2. /\ Measuring /\ Complete /\ measurementPhase = "THRU"
          /\ currThru' = SummedDP
      BY <2>1 DEF EmitWithoutEcal, ThruComplete
    <2>3. PhaseSwitches = [refl |-> "OFF", recv |-> "PORT2", ecal |-> "NORMAL",
                           bbgain |-> currThruGain]
      BY <2>2, PhaseSwitchesValue
    <2>4. currThru' = Taken("OFF", "PORT2", "NORMAL", currThruGain)
      BY <2>2, <2>3, CompletePhase DEF Taken
    <2> QED
      BY <1>1, <2>2, <2>4
  <1>3. CASE \E clipped \in BOOLEAN : EmitWithEcal(clipped)
    <2>1. /\ Measuring /\ Complete /\ measurementPhase = "ECALLOAD"
          /\ currThru' = currThru
      BY <1>3 DEF EmitWithEcal
    <2>2. PhaseSwitches = [refl |-> "ON", recv |-> "REFL", ecal |-> "LOAD",
                           bbgain |-> DefaultGain(currFreq)]
      BY <2>1, PhaseSwitchesValue
    <2>3. SummedDP = Taken("ON", "REFL", "LOAD", DefaultGain(currFreq))
      BY <2>1, <2>2, CompletePhase DEF Taken
    <2>4. currThru = Taken("OFF", "PORT2", "NORMAL", currThruGain)
      BY <2>1 DEF IInv, PhasesKept
    <2> QED
      BY <1>1, <2>1, <2>3, <2>4
  <1> QED
    BY <1>2, <1>3, OnlyTwoEmit

\* Every measurement of an emitted point was taken at the point's frequency and
\* with the switches and the gain of its phase, for every sweep, wait, number of
\* periods and whatever the ADC delivers and the main thread changes.
THEOREM PointsCoherent == Spec => PointCoherent
  <1>1. IInv /\ [Next]_vars =>
          [Emits /\ ~Changing =>
             /\ currRefl = Taken("ON", "REFL", "NORMAL", DefaultGain(currFreq))
             /\ currThru' = Taken("OFF", "PORT2", "NORMAL", currThruGain)
             /\ measurement_mode # "REFL_THRU" =>
                   currFwd = Taken("ON", "REFL", "OPEN", DefaultGain(currFreq))
             /\ measurementPhase = "ECALLOAD" =>
                   SummedDP = Taken("ON", "REFL", "LOAD", DefaultGain(currFreq))]_vars
    BY EmittedCoherent
  <1> QED
    BY Invariance, <1>1, PTL DEF Spec, PointCoherent

\* What the flag says when a point is emitted, given what it said before.
LEMMA EmittedClips ==
    ASSUME IInv, Next, Emits
    PROVE  reported' = (pointClipped' \/ clippedLeft)
  <1>1. PICK clipped \in BOOLEAN : EmitWithoutEcal(clipped) \/ EmitWithEcal(clipped)
    BY OnlyTwoEmit
  <1>2. ReportClip(clipped)
    BY <1>1 DEF EmitWithoutEcal, EmitWithEcal, PhaseAndEmit
  <1> QED
    BY <1>2 DEF ReportClip, ClipFlagAfter, CountsClip, TermClipped, SumClipped,
                IInv, ClipsKnown, TypeOK

\* The clip flag of an emitted point is set exactly if the ADC clipped in a period
\* that is in one of its S11 terms, or in one of a point that a restart has thrown
\* away since the last one was emitted; for every number of periods, every gain
\* search and every restart between them (vna_measurement.cpp:116-117, 216-222).
THEOREM AlwaysClipsReported == Spec => ClipsReported
  <1>1. IInv /\ [Next]_vars =>
          [Emits => reported' = (pointClipped' \/ clippedLeft)]_vars
    BY EmittedClips
  <1> QED
    BY Invariance, <1>1, PTL DEF Spec, ClipsReported

-------------------------------------------------------------------------------
(* The engine implements PointStream.                                      *)

\* The abstract state PointStream sees.
SweepInForce == [start |-> sweepStartHz, step |-> sweepStepHz,
                 points |-> sweepPoints, repeats |-> sweepDataPointsPerFreq]
Repeat == IF sweepPoints > 1 THEN dpCounterSynth ELSE 0

\* A step that leaves what the receiver is promised alone.
StreamKept ==
    /\ SweepInForce' = SweepInForce /\ sweepCurrPoint' = sweepCurrPoint
    /\ Repeat' = Repeat /\ currFreq' = currFreq

\* An emission moves the stream on by one point or one repetition.
LEMMA EmissionImplements ==
    ASSUME IInv, ~Changing, Measuring, NEW ph, NEW interval, NEW clipped,
           PhaseAndEmit(ph, interval, clipped), UNCHANGED <<sweepArgs, main>>,
           Changing' = Changing
    PROVE  Stream!Emit
  <1> USE DEF sweepArgs
  <1>1. SweepInForce' = SweepInForce
    BY DEF SweepInForce
  <1>2. /\ sweepPoints \in Nat /\ sweepDataPointsPerFreq \in Nat
        /\ dpCounterSynth \in 0 .. MaxRepeats /\ sweepDataPointsPerFreq <= MaxRepeats
        /\ sweepCurrPoint \in Nat /\ sweepPoints' = sweepPoints
    BY DEF IInv, TypeOK, RepeatsKnown, Measuring
  <1>3. PointDone <=> Stream!Last
    BY <1>2 DEF PointDone, Stream!Last
  <1>4. CASE PointDone
    <2>1. /\ dpCounterSynth' = 0
          /\ sweepCurrPoint' = PointAfter(sweepCurrPoint)
          /\ currFreq' = sweepStartHz + sweepStepHz * PointAfter(sweepCurrPoint)
      BY <1>4 DEF PhaseAndEmit, SweepAdvance
    <2>2. sweepCurrPoint' = IF sweepCurrPoint + 1 < sweepPoints
                            THEN sweepCurrPoint + 1 ELSE 0
      BY <1>2, <2>1 DEF PointAfter
    <2>3. currFreq' = Stream!FrequencyOf(sweepCurrPoint')
      BY <2>1 DEF Stream!FrequencyOf
    <2>4. Repeat' = 0
      BY <2>1 DEF Repeat
    <2> QED
      BY <1>1, <1>3, <1>4, <2>2, <2>3, <2>4 DEF Stream!Emit, SweepInForce, Repeat
  <1>5. CASE ~PointDone
    <2>1. /\ dpCounterSynth' = MinOf(dpCounterSynth + 1, MaxRepeats)
          /\ sweepCurrPoint' = sweepCurrPoint /\ currFreq' = currFreq
      BY <1>5 DEF PhaseAndEmit
    <2>2. Repeat' = IF sweepPoints > 1 THEN Repeat + 1 ELSE Repeat
      BY <1>2, <1>5, <2>1, Constants DEF Repeat, PointDone, MinOf
    <2> QED
      BY <1>1, <1>3, <1>5, <2>1, <2>2 DEF Stream!Emit, SweepInForce, Repeat
  <1> QED
    BY <1>4, <1>5

\* A branch of the handler that emits nothing is none of the stream's steps.
LEMMA SilentBranches ==
    ASSUME \/ WaitSynth \/ ReduceGain
           \/ \E clipped \in BOOLEAN :
                 \/ KeepMeasuring(clipped) \/ RaiseGain(clipped)
                 \/ FinishReference(clipped) \/ FinishRefl(clipped)
                 \/ StartEcal(clipped)
    PROVE  StreamKept /\ sweepCurrPoint # -1 /\ todo' = todo
  <1> USE DEF StreamKept, SweepInForce, Repeat, sweepArgs, main
  <1>1. CASE WaitSynth
    BY <1>1 DEF WaitSynth
  <1>2. CASE ReduceGain
    BY <1>2 DEF ReduceGain, ChangeGain, Measuring
  <1>3. ASSUME NEW clipped \in BOOLEAN,
               \/ KeepMeasuring(clipped) \/ RaiseGain(clipped)
               \/ FinishReference(clipped) \/ FinishRefl(clipped)
               \/ StartEcal(clipped)
        PROVE  StreamKept /\ sweepCurrPoint # -1 /\ todo' = todo
    BY <1>3 DEF KeepMeasuring, RaiseGain, ThruComplete, ChangeGain, FinishReference,
                FinishRefl, StartEcal, NextPhase, Measuring
  <1> QED
    BY <1>1, <1>2, <1>3

LEMMA EmittingBranches ==
    ASSUME \E clipped \in BOOLEAN : EmitWithoutEcal(clipped) \/ EmitWithEcal(clipped)
    PROVE  /\ Measuring /\ todo' = todo /\ UNCHANGED <<sweepArgs, main>>
           /\ \E ph, interval, clipped : PhaseAndEmit(ph, interval, clipped)
  BY DEF EmitWithoutEcal, EmitWithEcal, ThruComplete, main

\* The main thread begins a change or leaves the stream alone.
LEMMA MainThreadImplements ==
    ASSUME IInv, MainThread, ~Changing' PROVE ~Changing /\ StreamKept
  <1> USE DEF StreamKept, SweepInForce, Repeat, sweepArgs, engine, counters
  <1>1. ASSUME NEW stores \in {UIStores, USBStores, CollectStores, AveragingStores},
               BeginChange(stores)
        PROVE  FALSE
    BY <1>1, StoresEndInRestart DEF BeginChange, Changing
  <1>2. CASE SetVNASweepToUI \/ SetVNASweepToUSB \/ CalCollect \/ UpdateAveraging
    BY <1>1, <1>2 DEF SetVNASweepToUI, SetVNASweepToUSB, CalCollect, UpdateAveraging
  <1>3. CASE CalCollected \/ CalDone
    BY <1>3 DEF CalCollected, CalDone, ChangeInPlace, Changing
  <1>4. CASE Store
    <2>1. ~Changing /\ todo[1] = "interval"
      BY <1>4, LastStore
    <2>2. Head(todo) = "interval"
      BY <1>4, <2>1 DEF Store, IInv, TypeOK
    <2> QED
      BY <1>4, <2>1, <2>2 DEF Store
  <1> QED
    BY <1>2, <1>3, <1>4 DEF MainThread

\* A sweep that starts, and is not to be restarted, is one the stream may have.
LEMMA RestartImplements ==
    ASSUME IInv, IInv', Restart, Changing, ~Changing'
    PROVE  Stream!Restart
  <1>1. SweepInForce' \in SweepArgs
    BY DEF SweepInForce, IInv, TypeOK, SweepArgs
  <1>2. /\ sweepPoints \in Nat /\ sweepStartHz \in Nat /\ sweepStepHz \in Nat
        /\ sweepStartHz' = sweepStartHz /\ dpCounterSynth' = 0
    BY DEF IInv, TypeOK, Restart, sweepArgs
  <1>3. PointAfter(-1) = 0
    BY <1>2 DEF PointAfter
  <1>4. sweepCurrPoint' = 0 /\ currFreq' = sweepStartHz + sweepStepHz * 0
    BY <1>3 DEF Restart, SweepAdvance
  <1>5. currFreq' = sweepStartHz' /\ Repeat' = 0
    BY <1>2, <1>4 DEF Repeat
  <1>6. SweepInForce'.start = sweepStartHz'
    BY DEF SweepInForce
  <1> QED
    BY <1>1, <1>4, <1>5, <1>6 DEF Stream!Restart, SweepInForce, Repeat

\* Every step of the engine is one of the stream's, or none.
LEMMA StepImplements ==
    ASSUME IInv, IInv', [Next]_vars
    PROVE  [Stream!Next]_(Stream!vars)
  <1>1. CASE UNCHANGED vars
    BY <1>1 DEF vars, sweepArgs, engine, counters, main, Stream!vars, Changing
  <1>2. CASE Changing /\ Changing'
    BY <1>2 DEF Stream!Next, Stream!Disturb
  <1>3. CASE ~Changing /\ Changing'
    BY <1>3 DEF Stream!Next, Stream!BeginChange
  <1>4. ASSUME Next, ~Changing', StreamKept, ~Changing
        PROVE  UNCHANGED Stream!vars
    <2>1. Changing' = Changing
      BY <1>4 DEF Changing
    <2> QED
      BY <1>4, <2>1 DEF StreamKept, SweepInForce, Repeat, Stream!vars
  <1>5. CASE Next /\ ~Changing'
    <2>1. CASE MainThread
      BY <1>4, <1>5, <2>1, MainThreadImplements
    <2>2. CASE Restart
      <3>1. Changing
        BY <2>2 DEF Restart, Changing
      <3> QED
        BY <1>5, <2>2, <3>1, RestartImplements DEF Stream!Next
    <2>3. CASE \/ WaitSynth \/ ReduceGain
               \/ \E clipped \in BOOLEAN :
                     \/ KeepMeasuring(clipped) \/ RaiseGain(clipped)
                     \/ FinishReference(clipped) \/ FinishRefl(clipped)
                     \/ StartEcal(clipped)
      <3>1. StreamKept /\ sweepCurrPoint # -1 /\ todo' = todo
        BY <2>3, SilentBranches
      <3>2. ~Changing
        BY <1>5, <3>1 DEF Changing
      <3> QED
        BY <1>4, <1>5, <3>1, <3>2
    <2>4. CASE \E clipped \in BOOLEAN : EmitWithoutEcal(clipped) \/ EmitWithEcal(clipped)
      <3>1. /\ Measuring /\ todo' = todo /\ UNCHANGED <<sweepArgs, main>>
            /\ \E ph, interval, clipped : PhaseAndEmit(ph, interval, clipped)
        BY <2>4, EmittingBranches
      <3>2. ~Changing /\ Changing' = Changing
        BY <1>5, <3>1 DEF Changing, Measuring
      <3> QED
        BY <3>1, <3>2, EmissionImplements DEF Stream!Next
    <2> QED
      BY <1>5, <2>1, <2>2, <2>3, <2>4 DEF Next, Interrupt, Handler
  <1> QED
    BY <1>1, <1>2, <1>3, <1>5

\* What the receiver of emitDataPoint is given is a stream of points: in order,
\* each as often as was asked, at its frequency, from the first one after every
\* restart, for every sweep and every interleaving of the main thread's stores
\* with the interrupt (vna_measurement.cpp:187-248).
THEOREM Implements == Spec => ImplementsPointStream
  <1>1. Init => Stream!Init
    <2> SUFFICES ASSUME Init PROVE Changing
      BY DEF Stream!Init
    <2> QED
      BY StoresEndInRestart DEF Init, Changing
  <1>2. IInv /\ IInv' /\ [Next]_vars => [Stream!Next]_(Stream!vars)
    BY StepImplements
  <1> QED
    BY Invariance, <1>1, <1>2, PTL DEF Spec, ImplementsPointStream, Stream!Spec
===============================================================================
