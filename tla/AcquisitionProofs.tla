--------------------------- MODULE AcquisitionProofs ---------------------------
(***************************************************************************)
(* Proofs about Acquisition for any sweeps of the user and of a host, any  *)
(* averages, sizes and number of changes.                                  *)
(***************************************************************************)
EXTENDS Acquisition, SequenceTheorems, FiniteSetTheorems, TLAPS

-------------------------------------------------------------------------------
(* The inductive invariant.                                                *)

\* What is still to come of each change.
UITails == {UIStores, <<"points", "restart", "measuring">>,
            <<"restart", "measuring">>, <<"measuring">>}
RegisterTails == {RegisterStores, <<"restart", "measuring", "everyPoint">>,
                  <<"measuring", "everyPoint">>}
RestartTails == {AveragingStores, <<"restart">>}
CollectTails == {CollectStores, <<"everyPoint", "restart", "collect">>,
                 <<"restart", "collect">>, <<"collect">>}
SaveTails == {SaveStores, <<"ignoreSome">>}
Tails == {<<>>, <<"everyPoint">>} \cup UITails \cup RegisterTails \cup RestartTails
             \cup CollectTails \cup SaveTails

\* The state machine will be set back.
MeasuringToCome == todo \in UITails \cup RegisterTails

\* A sweep as the registers may hold it.
HostValues == {NoSweep} \cup {Repeating(s, h.repeats) :
                                  s \in HostSweeps \cup {NoSweep}, h \in HostSweeps}

Types ==
    /\ TypeOK
    /\ uiSweep \in UISweeps /\ hostSweep \in HostValues /\ avg \in AnyAverage
    /\ todo \in Tails

SameSweep(s, t) == s.start = t.start /\ s.step = t.step /\ s.points = t.points

\* A sweep that is set is one of the two that are kept, and is in force but for
\* stores and a restart to come.
Setting ==
    /\ SameSweep(target, uiSweep) \/ SameSweep(target, UsbConfig(hostSweep))
    /\ restarting => changing
    /\ ~changing => /\ index = 0 \/ index < sweep.points
                    /\ frequency = FreqAt(index)
    /\ during => todo # <<>>
    /\ measurement_mode \in {"FULL", configured} \/ todo = UIStores

\* Of a change that sets ecalState back, as far as it has come.
SettingBack ==
    /\ MeasuringToCome => ~undisturbed
    /\ todo \in UITails \ {UIStores} =>
          /\ measurement_mode = "FULL" /\ everyPoint
          /\ ecalState = "MEASURING" \/ (during /\ ecalState = "2NDSWEEP")
    /\ MeasuringToCome /\ Head(todo) \in {"restart", "measuring"} =>
          sweepPoints = target.points
    /\ MeasuringToCome /\ Head(todo) = "measuring" =>
          \/ restarting
          \/ during /\ ~changing /\ sweep = target /\ index = 0

\* Of a collection.
Collecting ==
    /\ collecting \/ collected \/ todo \in CollectTails => ui_disabled
    /\ collecting => ~collected
    /\ todo \in CollectTails => ~collecting /\ ~collected
    /\ ~collecting => collectMeasurementState = 0
    /\ collecting /\ undisturbed =>
          /\ todo = <<>>
          /\ collectMeasurementState = 1 => ~restarting

\* The sweep that is set is the user's, and ecalState has been set back for it.
Current ==
    /\ SameSweep(target, uiSweep) /\ ~lastUSBDataMode
    /\ ~LateCallback /\ ~MeasuringToCome

\* The error box data of an index is of the sweep that is set, or need not be.
Good(i) == i \in ignored \/ measuredEcal[i] = {target.start + target.step * i}
Covered(n) == \A i \in 0 .. n - 1 : Good(i)

Place ==
    /\ sweepPoints = target.points
    /\ ~restarting =>
          /\ SameSweep(sweep, target)
          /\ index < target.points
          /\ frequency = target.start + target.step * index

\* The error box is being measured at every point, up to the index so far; a
\* collection will begin a new pass, or has begun one.
Pass ==
    /\ measurement_mode = "FULL"
    /\ \/ ecalState = "MEASURING"
       \/ /\ ecalState = "2NDSWEEP"
          /\ collecting \/ (todo \in CollectTails \ {CollectStores} /\ during)
    /\ \/ everyPoint
       \/ todo = <<"everyPoint", "restart", "collect">>
       \/ todo = <<"everyPoint">> /\ (restarting \/ (index = 0 /\ during))
    /\ \/ restarting \/ Covered(index)
       \/ todo \in {<<"everyPoint", "restart", "collect">>, <<"restart", "collect">>}
    /\ collecting /\ undisturbed /\ collectMeasurementState = 1 =>
          \/ collectMeasurementOffset = target.points - 1
          \/ collectMeasurementOffset < index

\* Nothing of the error box is measured until the next collection.
Paused == ecalState = "MEASURING" /\ measurement_mode # "FULL"

EcalInv ==
    Current =>
        /\ Place
        /\ Covered(target.points) \/ (~collected /\ (Paused \/ Pass))

IInv == Types /\ Setting /\ SettingBack /\ Collecting /\ EcalInv

\* Tails with the sweep parameters still to come, or the restart after them.
PointsTails == {UIStores, <<"points", "restart", "measuring">>, RegisterStores,
                AveragingStores}
RestartToCome == PointsTails \cup {<<"restart", "measuring">>, <<"restart">>,
                                   <<"restart", "measuring", "everyPoint">>}

\* The sweep that is set is in force, or a restart will bring it.
InForce ==
    /\ todo \notin PointsTails =>
          sweepPoints = target.points /\ (changing \/ sweep = target)
    /\ changing /\ ~restarting => todo \in RestartToCome

\* The count of the points summed is that of the repetitions.
Aligned == CountDP = IF repeat < MaxAverage THEN repeat ELSE MaxAverage

\* How many points make a value, and whether an index has too few for one.
Need == IF Averaging THEN dataPointsPerFreq ELSE 1
Starved == Averaging /\ sweep.repeats < dataPointsPerFreq

\* Since the restart of a collection the sum is of the index being measured, and
\* its count right but perhaps for the first index.
Summing ==
    /\ lastFreqIndex = index /\ Averaging =>
          currDP \subseteq {frequency} \/ (carried /\ index = 0)
    /\ sweep.points > 1 =>
          /\ repeat = 0 \/ (repeat < sweep.repeats /\ lastFreqIndex = index)
          /\ Aligned \/ index = 0

\* The standard has been collected at an index.
Got(i) == calData[i] = {FreqAt(i)} \/ (carried /\ i = 0)

\* The index after o, in a sweep of p points, and those met from f on before n.
After(o, p) == IF o = p - 1 THEN 0 ELSE o + 1
Met(f, n, i) == IF f <= n THEN f <= i /\ i < n ELSE f <= i \/ i < n

\* What a collection under way has: it ends at the index before the one it began
\* at, and has what it has met since.
Gathered ==
    /\ measurement_mode = "FULL" /\ ecalIgnoreValues = 0
    /\ sweep.points > 1 =>
          /\ collectMeasurementOffset \in 0 .. sweep.points - 1
          /\ ~Aligned => index = 0 /\ collectMeasurementOffset = sweep.points - 1 /\ Got(0)
          /\ everyPoint /\ ~Starved =>
                /\ \A i \in Swept :
                      Met(After(collectMeasurementOffset, sweep.points), index, i) => Got(i)
                /\ CountDP >= Need => Got(index) /\ index # collectMeasurementOffset

\* Of a collection that nothing has disturbed.
CollectInv ==
    undisturbed =>
        /\ collecting \/ todo \in CollectTails => ~usbDataMode
        /\ ~restarting /\ (collecting \/ todo = <<"collect">>) => Summing
        /\ ~restarting /\ collecting /\ collectMeasurementState = 1 => Gathered

-------------------------------------------------------------------------------
(* Sweeps, points and values.                                              *)

\* What a sweep that is set looks like.
LEMMA ConfigTypes ==
    /\ Configurations \subseteq [start : Nat, step : Nat, points : 0 .. UsbPointsMax,
                                 repeats : Nat]
    /\ HostValues \subseteq [start : Nat, step : Nat, points : Nat, repeats : Nat]
    /\ NoSweep \in HostValues
    /\ HostSweeps \subseteq HostValues
    /\ \A s \in UISweeps, n \in AnyAverage :
          UIConfig(s, n) \in Configurations /\ SameSweep(UIConfig(s, n), s)
    /\ \A s \in HostValues : UsbConfig(s) \in Configurations
    /\ \A s \in HostValues, h \in HostSweeps :
          /\ Repeating(s, h.repeats) \in HostValues
          /\ SameSweep(UsbConfig(Repeating(s, h.repeats)), UsbConfig(s))
    /\ \A c \in Configurations, n \in AnyAverage :
          /\ Repeating(c, n) \in Configurations
          /\ SameSweep(Repeating(c, n), c)
  <1> DEFINE Sweep == [start : Nat, step : Nat, points : Nat, repeats : Nat]
  <1> USE AcquisitionAssumption
  <1>1. NoSweep \in Sweep /\ HostSweeps \subseteq Sweep
    BY DEF NoSweep
  <1>2. HostValues \subseteq Sweep
    BY <1>1 DEF Repeating, HostValues
  <1>a. ASSUME NEW t \in HostSweeps \cup {NoSweep}, NEW h \in HostSweeps
        PROVE  Repeating(t, h.repeats) \in HostValues
    BY DEF HostValues
  <1>b. ASSUME NEW t \in HostSweeps \cup {NoSweep},
               NEW n \in {h.repeats : h \in HostSweeps} \cup AnyAverage
        PROVE  UsbConfig(Repeating(t, n)) \in Configurations
    BY DEF Configurations
  <1>3. HostSweeps \subseteq HostValues
    <2> SUFFICES ASSUME NEW s \in HostSweeps
                 PROVE  s \in HostValues
      OBVIOUS
    <2>1. s = Repeating(s, s.repeats)
      BY <1>1 DEF Repeating
    <2>2. Repeating(s, s.repeats) \in HostValues
      BY <1>a
    <2> QED  BY <2>1, <2>2
  <1>4. ASSUME NEW s \in Sweep
        PROVE  /\ UsbConfig(s) \in Sweep
               /\ UsbConfig(s).points \in 0 .. UsbPointsMax
               /\ UsbConfig(s).start = s.start /\ UsbConfig(s).step = s.step
               /\ UsbConfig(s).repeats = s.repeats
    BY DEF UsbConfig
  <1>5. ASSUME NEW s \in Sweep, NEW n
        PROVE  Repeating(UsbConfig(s), n) = UsbConfig(Repeating(s, n))
    BY DEF Repeating, UsbConfig
  <1>6. AnyAverage \subseteq Nat
    OBVIOUS
  <1>7. ASSUME NEW s \in UISweeps, NEW n \in AnyAverage
        PROVE  /\ UIConfig(s, n) \in Configurations
               /\ UIConfig(s, n) \in Sweep
               /\ UIConfig(s, n).points \in 0 .. UsbPointsMax
               /\ SameSweep(UIConfig(s, n), s)
    <2>1. UIConfig(s, n) \in Configurations
      BY DEF Configurations
    <2>2. /\ s.start \in Nat /\ s.step \in Nat /\ s.points \in 2 .. SweepPointsMax
          /\ n \in Nat
      BY <1>6
    <2>3. s.points \in 0 .. UsbPointsMax
      BY <2>2
    <2>4. UIConfig(s, n) \in Sweep /\ UIConfig(s, n).points = s.points
      BY <2>2 DEF UIConfig
    <2>5. SameSweep(UIConfig(s, n), s)
      BY DEF UIConfig, SameSweep
    <2> QED  BY <2>1, <2>3, <2>4, <2>5
  <1>8. UsbConfig(NoSweep) = NoSweep
    BY DEF UsbConfig, NoSweep
  <1>9. ASSUME NEW s \in HostValues
        PROVE  UsbConfig(s) \in Configurations
    BY <1>8 DEF HostValues, Configurations
  <1>10. ASSUME NEW s \in HostValues, NEW h \in HostSweeps
         PROVE  /\ Repeating(s, h.repeats) \in HostValues
                /\ SameSweep(UsbConfig(Repeating(s, h.repeats)), UsbConfig(s))
    <2>1. Repeating(s, h.repeats) \in HostValues
      <3>1. CASE s = NoSweep
        BY <3>1, <1>a
      <3>2. CASE \E t \in HostSweeps \cup {NoSweep}, g \in HostSweeps :
                    s = Repeating(t, g.repeats)
        <4> PICK t \in HostSweeps \cup {NoSweep}, g \in HostSweeps :
                    s = Repeating(t, g.repeats)
          BY <3>2
        <4>1. Repeating(s, h.repeats) = Repeating(t, h.repeats)
          BY <1>1 DEF Repeating
        <4> QED  BY <4>1, <1>a
      <3> QED  BY <3>1, <3>2 DEF HostValues
    <2>2. SameSweep(UsbConfig(Repeating(s, h.repeats)), UsbConfig(s))
      BY <1>1, <1>2 DEF Repeating, UsbConfig, SameSweep
    <2> QED  BY <2>1, <2>2
  <1>11. Configurations \subseteq [start : Nat, step : Nat, points : 0 .. UsbPointsMax,
                                   repeats : Nat]
    <2> SUFFICES ASSUME NEW c \in Configurations
                 PROVE  c \in [start : Nat, step : Nat, points : 0 .. UsbPointsMax,
                               repeats : Nat]
      OBVIOUS
    <2>1. CASE \E s \in UISweeps, n \in AnyAverage : c = UIConfig(s, n)
      BY <2>1, <1>7
    <2>2. CASE \E s \in HostSweeps \cup {NoSweep},
                  n \in {h.repeats : h \in HostSweeps} \cup AnyAverage :
                  c = UsbConfig(Repeating(s, n))
      <3> PICK s \in HostSweeps \cup {NoSweep},
               n \in {h.repeats : h \in HostSweeps} \cup AnyAverage :
                  c = UsbConfig(Repeating(s, n))
        BY <2>2
      <3>1. n \in Nat /\ Repeating(s, n) \in Sweep
        BY <1>1, <1>6 DEF Repeating
      <3> QED  BY <3>1, <1>4
    <2>3. CASE c = NoSweep
      BY <2>3 DEF NoSweep
    <2> QED  BY <2>1, <2>2, <2>3 DEF Configurations
  <1>12. ASSUME NEW c \in Configurations, NEW n \in AnyAverage
         PROVE  /\ Repeating(c, n) \in Configurations
                /\ SameSweep(Repeating(c, n), c)
    <2>1. SameSweep(Repeating(c, n), c)
      BY <1>11 DEF Repeating, SameSweep
    <2>2. CASE \E s \in UISweeps, m \in AnyAverage : c = UIConfig(s, m)
      <3> PICK s \in UISweeps, m \in AnyAverage : c = UIConfig(s, m)
        BY <2>2
      <3>1. Repeating(c, n) = UIConfig(s, n)
        BY DEF Repeating, UIConfig
      <3> QED  BY <3>1, <1>7, <2>1
    <2>3. CASE \E s \in HostSweeps \cup {NoSweep},
                  m \in {h.repeats : h \in HostSweeps} \cup AnyAverage :
                  c = UsbConfig(Repeating(s, m))
      <3> PICK s \in HostSweeps \cup {NoSweep},
               m \in {h.repeats : h \in HostSweeps} \cup AnyAverage :
                  c = UsbConfig(Repeating(s, m))
        BY <2>3
      <3>1. m \in Nat /\ Repeating(s, m) \in Sweep
        BY <1>1, <1>6 DEF Repeating
      <3>2. Repeating(c, n) = UsbConfig(Repeating(Repeating(s, m), n))
        BY <3>1, <1>5
      <3>3. Repeating(Repeating(s, m), n) = Repeating(s, n)
        BY <1>1 DEF Repeating
      <3> QED  BY <3>2, <3>3, <2>1, <1>b
    <2>4. CASE c = NoSweep
      <3>1. Repeating(c, n) = UsbConfig(Repeating(NoSweep, n))
        BY <2>4, <1>5, <1>8, <1>1
      <3> QED  BY <3>1, <2>1, <1>b
    <2> QED  BY <2>2, <2>3, <2>4 DEF Configurations
  <1> QED  BY <1>1, <1>2, <1>3, <1>7, <1>9, <1>10, <1>11, <1>12 DEF HostValues


-------------------------------------------------------------------------------
(* measurementEmitDataPoint()                                              *)

Values == SUBSET Freqs

LEMMA QueueGrows ==
    ASSUME NEW S, NEW q \in Seq(S), NEW v \in S, NEW n \in Nat \ {0, 1},
           Len(q) < n, NEW r, r = IF Len(q) = n - 1 THEN q ELSE Append(q, v)
    PROVE  r \in Seq(S) /\ Len(r) < n
  <1>1. Len(q) \in Nat
    OBVIOUS
  <1>2. CASE Len(q) = n - 1
    BY <1>2
  <1>3. CASE Len(q) # n - 1
    <2>1. r = Append(q, v)
      BY <1>3
    <2>2. r \in Seq(S) /\ Len(r) = Len(q) + 1
      BY <2>1
    <2> QED  BY <2>2, <1>1, <1>3
  <1> QED  BY <1>2, <1>3

\* A point leaves everything of its type.
LEMMA EmitTypes ==
    ASSUME Types, MeasurementEmitDataPoint
    PROVE  /\ currDPCnt' \in 0 .. MaxAverage /\ lastFreqIndex' \in Indices
           /\ currDP' \in Values /\ ignored' \subseteq Indices
           /\ ecalState' \in {"MEASURING", "2NDSWEEP", "DONE"}
           /\ ecalIgnoreValues' \in 0 .. IgnoreAfterSave + 1
           /\ measuredEcal' \in [Indices -> Values] /\ calData' \in [Indices -> Values]
           /\ collecting' \in BOOLEAN /\ collected' \in BOOLEAN
           /\ everyPoint' \in BOOLEAN /\ measurement_mode' \in Modes
           /\ collectMeasurementState' \in {0, 1}
           /\ collectMeasurementOffset' \in Indices \cup {NoIndex}
           /\ usbTxQueue' \in Seq([freqIndex : Indices, value : Values])
           /\ Len(usbTxQueue') < QueueSize
  <1> USE AcquisitionAssumption
  <1> DEFINE Point == [freqIndex |-> index, value |-> Value]
  <1>1. /\ index \in Indices /\ frequency \in Freqs /\ currDP \in Values
        /\ currDPCnt \in 0 .. MaxAverage
        /\ ecalIgnoreValues \in 0 .. IgnoreAfterSave + 1
        /\ sweepPoints \in 0 .. UsbPointsMax
    BY DEF Types, TypeOK, Values
  <1>2. CountDP \in 0 .. MaxAverage
    BY <1>1 DEF CountDP
  <1>3. SumDP \in Values /\ Value \in Values
    BY <1>1 DEF SumDP, Value, Values
  <1>4. OffsetFor(index) \in Indices \cup {NoIndex}
    BY <1>1 DEF OffsetFor, Indices, NoIndex
  <1>5. currDPCnt' \in 0 .. MaxAverage /\ lastFreqIndex' \in Indices /\ currDP' \in Values
    BY <1>1, <1>2, <1>3 DEF MeasurementEmitDataPoint
  <1>6. CASE Averaging /\ ~SetComplete(CountDP)
    <2>1. /\ ignored' = PassedOver
          /\ UNCHANGED <<ecalState, ecalIgnoreValues, measuredEcal, collect, usbTxQueue,
                         measurement_mode, everyPoint>>
      BY <1>6 DEF MeasurementEmitDataPoint
    <2>2. ignored' \subseteq Indices
      BY <2>1, <1>1 DEF PassedOver, Types, TypeOK
    <2> QED  BY <2>1, <2>2, <1>5 DEF Types, TypeOK, Values, collect
  <1>7. CASE ~(Averaging /\ ~SetComplete(CountDP))
    <2> PICK e \in BOOLEAN :
            LET kept == e /\ ecalIgnoreValues = 0 IN
            /\ ecalIgnoreValues' = IF ecalIgnoreValues = 0 THEN 0 ELSE ecalIgnoreValues - 1
            /\ ignored' = IgnoredAfter(e, kept)
            /\ UpdateEcal(kept)
            /\ UpdateCollection(kept)
            /\ Enqueue
      BY <1>7 DEF MeasurementEmitDataPoint
    <2> DEFINE kept == e /\ ecalIgnoreValues = 0
    <2>1. ecalIgnoreValues' \in 0 .. IgnoreAfterSave + 1
      BY <1>1
    <2>2. ignored' \subseteq Indices
      BY <1>1 DEF IgnoredAfter, Types, TypeOK
    <2>3. /\ measuredEcal' \in [Indices -> Values]
          /\ ecalState' \in {"MEASURING", "2NDSWEEP", "DONE"}
          /\ everyPoint' \in BOOLEAN /\ measurement_mode' \in Modes
      <3>1. UpdateEcal(kept)
        OBVIOUS
      <3>2. /\ measuredEcal \in [Indices -> Values]
            /\ ecalState \in {"MEASURING", "2NDSWEEP", "DONE"}
            /\ everyPoint \in BOOLEAN /\ measurement_mode \in Modes /\ configured \in Modes
        BY DEF Types, TypeOK, Values
      <3>3. measuredEcal' \in [Indices -> Values]
        BY <3>1, <3>2, <1>1 DEF UpdateEcal, Values
      <3> HIDE DEF kept
      <3>4. ecalState' \in {"MEASURING", "2NDSWEEP", "DONE"}
        BY <3>1, <3>2 DEF UpdateEcal
      <3>5. everyPoint' \in BOOLEAN /\ measurement_mode' \in Modes
        BY <3>1, <3>2 DEF UpdateEcal
      <3> QED  BY <3>3, <3>4, <3>5
    <2>4. /\ calData' \in [Indices -> Values]
          /\ collecting' \in BOOLEAN /\ collected' \in BOOLEAN
          /\ collectMeasurementState' \in {0, 1}
          /\ collectMeasurementOffset' \in Indices \cup {NoIndex}
      <3>1. UpdateCollection(kept)
        OBVIOUS
      <3>2. /\ calData \in [Indices -> Values]
            /\ collecting \in BOOLEAN /\ collected \in BOOLEAN
            /\ collectMeasurementState \in {0, 1}
            /\ collectMeasurementOffset \in Indices \cup {NoIndex}
        BY DEF Types, TypeOK, Values
      <3> HIDE DEF kept
      <3> QED  BY <3>1, <3>2, <1>1, <1>3, <1>4 DEF UpdateCollection, collect
    <2>5. usbTxQueue' \in Seq([freqIndex : Indices, value : Values])
             /\ Len(usbTxQueue') < QueueSize
      <3>1. Point \in [freqIndex : Indices, value : Values]
        BY <1>1, <1>3
      <3>2. /\ usbTxQueue \in Seq([freqIndex : Indices, value : Values])
            /\ Len(usbTxQueue) < QueueSize
        BY DEF Types, TypeOK, Values
      <3>3. usbTxQueue' = IF Len(usbTxQueue) = QueueSize - 1 THEN usbTxQueue
                          ELSE Append(usbTxQueue, Point)
        BY DEF Enqueue, QueueFull
      <3> HIDE DEF Point
      <3> QED  BY <3>1, <3>2, <3>3, QueueGrows
    <2> QED  BY <1>5, <2>1, <2>2, <2>3, <2>4, <2>5
  <1> QED  BY <1>6, <1>7

\* The data of other indices is left alone; what an index has it keeps, and where
\* every point is measured a point that is the last of its index leaves it with data.
LEMMA EmitGood ==
    ASSUME Types, MeasurementEmitDataPoint
    PROVE  /\ \A i \in Indices \ {index} :
                 /\ measuredEcal'[i] = measuredEcal[i]
                 /\ i \in ignored' <=> i \in ignored
           /\ index \in ignored \/ measuredEcal[index] = {frequency} =>
                 index \in ignored' \/ measuredEcal'[index] = {frequency}
           /\ /\ everyPoint /\ measurement_mode = "FULL"
              /\ Stream!Last /\ ecalState # "DONE"
              => index \in ignored' \/ measuredEcal'[index] = {frequency}
  <1>1. index \in Indices /\ measuredEcal \in [Indices -> SUBSET Freqs]
    BY DEF Types, TypeOK
  <1>2. CASE Averaging /\ ~SetComplete(CountDP)
    <2>1. ignored' = PassedOver /\ measuredEcal' = measuredEcal
      BY <1>2 DEF MeasurementEmitDataPoint
    <2> QED  BY <2>1, <1>1 DEF PassedOver, EcalDue
  <1>3. CASE ~(Averaging /\ ~SetComplete(CountDP))
    <2> PICK e \in BOOLEAN :
            /\ MayHaveEcal(e)
            /\ ignored' = IgnoredAfter(e, e /\ ecalIgnoreValues = 0)
            /\ UpdateEcal(e /\ ecalIgnoreValues = 0)
      BY <1>3 DEF MeasurementEmitDataPoint
    <2> DEFINE kept == e /\ ecalIgnoreValues = 0
    <2>1. ignored' = IgnoredAfter(e, kept) /\ UpdateEcal(kept)
      OBVIOUS
    <2>2. kept => e
      OBVIOUS
    <2> HIDE DEF kept
    <2>3. CASE kept
      <3>1. measuredEcal' = [measuredEcal EXCEPT ![index] =
                  IF ~collecting /\ ecalState = "DONE" THEN @ \cup {frequency}
                  ELSE {frequency}]
        BY <2>1, <2>3 DEF UpdateEcal
      <3>2. ignored' = IF collecting \/ ecalState # "DONE" THEN ignored \ {index}
                       ELSE ignored
        BY <2>1, <2>2, <2>3 DEF IgnoredAfter
      <3> QED  BY <3>1, <3>2, <1>1
    <2>4. CASE ~kept
      <3>1. measuredEcal' = measuredEcal
        BY <2>1, <2>4 DEF UpdateEcal
      <3>2. ignored' = IF e /\ EcalDue THEN ignored \cup {index} ELSE ignored
        BY <2>1, <2>4 DEF IgnoredAfter
      <3>3. everyPoint /\ measurement_mode = "FULL" => e
        BY DEF MayHaveEcal
      <3> QED  BY <3>1, <3>2, <3>3, <1>1 DEF EcalDue
    <2> QED  BY <2>3, <2>4
  <1> QED  BY <1>2, <1>3


\* How the state machine and a collection go on with a point.
LEMMA EmitStates ==
    ASSUME Types, MeasurementEmitDataPoint
    PROVE  /\ \/ UNCHANGED <<ecalState, measurement_mode, everyPoint>>
              \/ /\ ecalState = "MEASURING" /\ ecalState' = "2NDSWEEP"
                 /\ ~collecting /\ index = sweepPoints - 1
                 /\ measuredEcal'[index] = {frequency}
                 /\ measurement_mode = "FULL"
                 /\ UNCHANGED <<measurement_mode, everyPoint>>
              \/ /\ ecalState = "2NDSWEEP" /\ ecalState' = "DONE"
                 /\ ~collecting
                 /\ measurement_mode = "FULL" /\ measurement_mode' = configured
                 /\ everyPoint' = FALSE
           /\ \/ UNCHANGED <<collecting, collected, collectMeasurementState,
                             collectMeasurementOffset>>
              \/ /\ collecting /\ collectMeasurementState = 0
                 /\ collectMeasurementState' = 1
                 /\ collectMeasurementOffset' = OffsetFor(index)
                 /\ UNCHANGED <<collecting, collected>>
              \/ /\ collecting /\ collectMeasurementState # 0
                 /\ collectMeasurementOffset = index
                 /\ collectMeasurementState' = 0
                 /\ collecting' = FALSE /\ collected' = TRUE
                 /\ measurement_mode = "FULL"
                 /\ measuredEcal'[index] = {frequency}
  <1>1. index \in Indices /\ measuredEcal \in [Indices -> SUBSET Freqs]
        /\ collecting \in BOOLEAN
    BY DEF Types, TypeOK
  <1>2. CASE Averaging /\ ~SetComplete(CountDP)
    BY <1>2 DEF MeasurementEmitDataPoint, collect
  <1>3. CASE ~(Averaging /\ ~SetComplete(CountDP))
    <2> PICK e \in BOOLEAN :
            /\ MayHaveEcal(e)
            /\ UpdateEcal(e /\ ecalIgnoreValues = 0)
            /\ UpdateCollection(e /\ ecalIgnoreValues = 0)
      BY <1>3 DEF MeasurementEmitDataPoint
    <2> DEFINE kept == e /\ ecalIgnoreValues = 0
    <2>1. UpdateEcal(kept) /\ UpdateCollection(kept)
      OBVIOUS
    <2>2. kept => measurement_mode = "FULL"
      BY DEF MayHaveEcal
    <2> HIDE DEF kept
    <2>3. CASE ~kept
      BY <2>1, <2>3 DEF UpdateEcal, UpdateCollection, MayCollect, collect
    <2>4. CASE kept
      <3>1. collecting \/ ecalState # "DONE" => measuredEcal'[index] = {frequency}
        BY <2>1, <2>4, <1>1 DEF UpdateEcal
      <3>2. \/ UNCHANGED <<ecalState, measurement_mode, everyPoint>>
            \/ /\ ecalState = "MEASURING" /\ ecalState' = "2NDSWEEP"
               /\ ~collecting /\ index = sweepPoints - 1
               /\ UNCHANGED <<measurement_mode, everyPoint>>
            \/ /\ ecalState = "2NDSWEEP" /\ ecalState' = "DONE"
               /\ ~collecting /\ measurement_mode' = configured
               /\ everyPoint' = FALSE
        BY <2>1, <2>4 DEF UpdateEcal, LastOfSweep
      <3>3. \/ UNCHANGED <<collecting, collected, collectMeasurementState,
                           collectMeasurementOffset>>
            \/ /\ collecting /\ collectMeasurementState = 0
               /\ collectMeasurementState' = 1
               /\ collectMeasurementOffset' = OffsetFor(index)
               /\ UNCHANGED <<collecting, collected>>
            \/ /\ collecting /\ collectMeasurementState # 0
               /\ collectMeasurementOffset = index
               /\ collectMeasurementState' = 0
               /\ collecting' = FALSE /\ collected' = TRUE
        BY <2>1, <2>4 DEF UpdateCollection, MayCollect, collect
      <3> QED  BY <3>1, <3>2, <3>3, <2>2, <2>4
    <2> QED  BY <2>3, <2>4
  <1> QED  BY <1>2, <1>3

-------------------------------------------------------------------------------
(* The initial states.                                                     *)

LEMMA InitInv == Init => IInv
  <1> SUFFICES ASSUME Init
               PROVE  IInv
    OBVIOUS
  <1> USE AcquisitionAssumption
  <1>1. /\ UsbPointsMax \in Nat \ {0} /\ uiSweep \in UISweeps /\ avg \in AnyAverage
    BY DEF Init, AnyAverage
  <1>2. /\ target \in Configurations /\ SameSweep(target, uiSweep)
        /\ target = UIConfig(uiSweep, avg)
    BY <1>1, ConfigTypes DEF Init
  <1>3. sweep \in Configurations /\ hostSweep \in HostValues
    BY ConfigTypes DEF Init, Configurations
  <1>4. 0 \in Indices /\ 0 \in Freqs
    <2>1. 0 \in Indices
      BY <1>1 DEF Indices
    <2>2. NoSweep \in Configurations /\ 0 = NoSweep.start + NoSweep.step * 0
      BY DEF Configurations, NoSweep
    <2> QED  BY <2>1, <2>2 DEF Freqs
  <1>5. Types
    <2>1. avg \in 1 .. MaxAverage
      BY <1>1
    <2>2. usbTxQueue \in Seq([freqIndex : Indices, value : SUBSET Freqs])
             /\ Len(usbTxQueue) = 0
      BY DEF Init
    <2>3. todo \in Tails
      BY DEF Init, Tails, UITails
    <2>4. \A a \in {measuredEcal, calData, plotted} : a \in [Indices -> SUBSET Freqs]
      BY DEF Init
    <2>5. /\ ecalIgnoreValues \in 0 .. IgnoreAfterSave + 1 /\ changes \in 0 .. MaxChanges
          /\ sweepPoints \in 0 .. UsbPointsMax
      BY <1>1 DEF Init
    <2>6. /\ {changing, restarting, everyPoint, collecting, usbDataMode,
              lastUSBDataMode, ui_disabled, collected, during, undisturbed,
              lateCallback, carried} \subseteq BOOLEAN
          /\ measurement_mode \in Modes /\ configured \in Modes
          /\ ecalState \in {"MEASURING", "2NDSWEEP", "DONE"}
          /\ currDP \subseteq Freqs /\ ignored \subseteq Indices
      BY DEF Init
    <2>7. /\ dataPointsPerFreq \in 0 .. MaxAverage /\ currDPCnt \in 0 .. MaxAverage
          /\ lastFreqIndex \in Indices \cup {NoIndex}
          /\ collectMeasurementState \in {0, 1}
          /\ collectMeasurementOffset \in Indices \cup {NoIndex}
          /\ index \in Indices /\ repeat \in Nat /\ frequency \in Freqs
          /\ Len(usbTxQueue) < QueueSize
      BY <1>4, <2>2 DEF Init
    <2>8. TypeOK
      BY <1>2, <1>3, <2>1, <2>2, <2>4, <2>5, <2>6, <2>7 DEF TypeOK
    <2> QED  BY <1>1, <1>3, <2>3, <2>8 DEF Types
  <1>6. MeasuringToCome /\ todo = UIStores /\ Head(todo) = "full" /\ todo # <<>>
        /\ todo \notin CollectTails
    BY DEF Init, MeasuringToCome, UITails, UIStores, CollectTails, CollectStores
  <1>7. Setting /\ SettingBack /\ Collecting
    BY <1>2, <1>6 DEF Init, Setting, SettingBack, Collecting
  <1>8. EcalInv
    BY <1>6 DEF EcalInv, Current
  <1> QED  BY <1>5, <1>7, <1>8 DEF IInv


-------------------------------------------------------------------------------
(* The interrupt.                                                          *)

\* What a point does to the engine, and when one can come.
LEMMA PointSteps ==
    ASSUME IInv, EmitPoint \/ EmitOldPoint, WithinChange
    PROVE  /\ MeasurementEmitDataPoint
           /\ ~restarting /\ ~restarting'
           /\ UNCHANGED <<sweep, changing, sweepPoints, restarting>>
           /\ repeat' \in Nat /\ carried' \in BOOLEAN
           /\ during' \in BOOLEAN
           /\ todo = <<>> => during' = during
           /\ todo # <<>> => ~during /\ during'
           /\ \/ UNCHANGED <<index, frequency>>
              \/ /\ ~changing /\ Stream!Last
                 /\ index' = IF index + 1 < sweep.points THEN index + 1 ELSE 0
                 /\ frequency' = sweep.start + sweep.step * index'
  <1>1. /\ restarting \in BOOLEAN /\ repeat \in Nat /\ during \in BOOLEAN
        /\ carried \in BOOLEAN
    BY DEF IInv, Types, TypeOK
  <1>2. during' \in BOOLEAN /\ (todo = <<>> => during' = during)
        /\ (todo # <<>> => ~during /\ during')
    BY <1>1 DEF WithinChange
  <1>3. CASE EmitPoint
    BY <1>1, <1>2, <1>3
       DEF EmitPoint, Stream!Emit, Stream!FrequencyOf, IInv, Setting
  <1>4. CASE EmitOldPoint
    BY <1>1, <1>2, <1>4 DEF EmitOldPoint, engine
  <1> QED  BY <1>3, <1>4

LEMMA PointTypes ==
    ASSUME IInv, EmitPoint \/ EmitOldPoint, WithinChange,
           UNCHANGED <<dataPointsPerFreq, props, display, main, undisturbed, lateCallback>>
    PROVE  Types'
  <1> USE AcquisitionAssumption
  <1>1. sweep \in Configurations /\ index \in Indices /\ frequency \in Freqs
    BY DEF IInv, Types, TypeOK
  <1>2. index' \in Indices /\ frequency' \in Freqs
    <2>1. CASE UNCHANGED <<index, frequency>>
      BY <1>1, <2>1
    <2>2. CASE /\ index' = IF index + 1 < sweep.points THEN index + 1 ELSE 0
               /\ frequency' = sweep.start + sweep.step * index'
      <3>1. sweep.points \in 0 .. UsbPointsMax
        BY <1>1, ConfigTypes
      <3>2. index' \in Indices
        BY <2>2, <3>1, <1>1 DEF Indices
      <3>3. frequency' \in Freqs
        BY <2>2, <3>2, <1>1 DEF Freqs
      <3> QED  BY <3>2, <3>3
    <2> QED  BY <2>1, <2>2, PointSteps
  <1>3. MeasurementEmitDataPoint /\ Types
    BY PointSteps DEF IInv
  <1>4. TypeOK'
    <2>1. /\ UNCHANGED <<sweep, target, changing, restarting, usbDataMode,
                         lastUSBDataMode, ui_disabled, undisturbed, lateCallback,
                         sweepPoints, configured, dataPointsPerFreq, avg, plotted,
                         changes>>
          /\ repeat' \in Nat /\ carried' \in BOOLEAN /\ during' \in BOOLEAN
      <3>1. /\ UNCHANGED <<sweep, changing, sweepPoints, restarting>>
            /\ repeat' \in Nat /\ carried' \in BOOLEAN /\ during' \in BOOLEAN
        BY PointSteps
      <3> QED  BY <3>1 DEF props, display, main
    <2> QED  BY <1>2, <1>3, <2>1, EmitTypes DEF Types, TypeOK, Values
  <1> QED  BY <1>3, <1>4 DEF Types, props, main

\* A point measured where the engine is belongs to the sweep that is set, so the
\* data of no index is lost.
LEMMA PointGood ==
    ASSUME IInv, EmitPoint \/ EmitOldPoint, WithinChange, UNCHANGED target,
           Current, NEW i \in Nat
    PROVE  /\ Good(i) /\ i < target.points => Good(i)'
           /\ target.points \in Nat /\ target.points > 1
           /\ index \in 0 .. target.points - 1
           /\ frequency = target.start + target.step * index
  <1> USE AcquisitionAssumption
  <1>1. MeasurementEmitDataPoint /\ ~restarting /\ Types
    BY PointSteps DEF IInv
  <1>2. index \in Indices /\ ignored \subseteq Indices /\ target \in Configurations
    BY <1>1 DEF Types, TypeOK
  <1>3. /\ frequency = target.start + target.step * index
        /\ index < target.points
    BY <1>1 DEF IInv, EcalInv, Place
  <1>4. target.points \in 0 .. UsbPointsMax /\ target.points > 1
    <2>1. target.points = uiSweep.points /\ uiSweep \in UISweeps
      BY DEF Current, SameSweep, IInv, Types
    <2>2. uiSweep.points \in 2 .. SweepPointsMax
      BY <2>1
    <2> QED  BY <2>1, <2>2, <1>2, ConfigTypes
  <1>5. Good(i) /\ i < target.points => Good(i)'
    <2>1. CASE i = index
      BY <2>1, <1>1, <1>3, EmitGood DEF Good
    <2>2. CASE i \in Indices /\ i # index
      BY <2>2, <1>1, EmitGood DEF Good
    <2>3. i < target.points => i \in Indices
      BY <1>4 DEF Indices
    <2> QED  BY <2>1, <2>2, <2>3
  <1> QED  BY <1>2, <1>3, <1>4, <1>5 DEF Indices


LEMMA PointSetting ==
    ASSUME IInv, EmitPoint \/ EmitOldPoint, WithinChange,
           UNCHANGED <<dataPointsPerFreq, props, display, main, undisturbed, lateCallback>>
    PROVE  Setting' /\ SettingBack' /\ Collecting'
  <1>1. /\ UNCHANGED <<target, uiSweep, hostSweep, configured, todo, undisturbed,
                       ui_disabled, sweep, changing, sweepPoints, restarting>>
        /\ ~restarting /\ MeasurementEmitDataPoint /\ Types
        /\ todo = <<>> => during' = during
        /\ todo # <<>> => ~during /\ during'
    BY PointSteps DEF props, main, display, IInv
  <1>2. /\ \/ UNCHANGED <<index, frequency>>
           \/ /\ ~changing
              /\ index' = IF index + 1 < sweep.points THEN index + 1 ELSE 0
              /\ frequency' = sweep.start + sweep.step * index'
        /\ index \in Nat /\ sweep.points \in Nat
    <2>1. sweep \in Configurations /\ index \in Indices
      BY DEF IInv, Types, TypeOK
    <2> QED  BY <2>1, ConfigTypes, PointSteps DEF Indices
  <1>3. Setting'
    <2>1. ~changing' => /\ index' = 0 \/ index' < sweep'.points
                        /\ frequency' = FreqAt(index)'
      BY <1>1, <1>2 DEF IInv, Setting, FreqAt
    <2>2. measurement_mode' \in {"FULL", configured'} \/ todo' = UIStores
      BY <1>1, EmitStates DEF IInv, Setting
    <2>3. UsbConfig(hostSweep)' = UsbConfig(hostSweep)
      BY <1>1 DEF UsbConfig
    <2> QED  BY <1>1, <2>1, <2>2, <2>3 DEF IInv, Setting, SameSweep
  <1>4. SettingBack'
    <2>1. MeasuringToCome' <=> MeasuringToCome
      BY <1>1 DEF MeasuringToCome
    <2>2. todo \in UITails \cup RegisterTails => todo # <<>>
      BY DEF UITails, RegisterTails, UIStores, RegisterStores, USBStores
    <2>3. todo \in UITails \ {UIStores} =>
             /\ measurement_mode' = "FULL" /\ everyPoint'
             /\ ecalState' = "MEASURING" \/ (during' /\ ecalState' = "2NDSWEEP")
      BY <1>1, <2>2, EmitStates DEF IInv, SettingBack
    <2>4. ~(MeasuringToCome /\ Head(todo) = "measuring")
      BY <1>1, <2>2 DEF IInv, SettingBack, MeasuringToCome
    <2>5. (todo \in UITails \ {UIStores})' => todo \in UITails \ {UIStores}
      BY <1>1 DEF UITails, UIStores
    <2>6. Head(todo') = Head(todo)
      BY <1>1
    <2>7. (MeasuringToCome => ~undisturbed)' 
      BY <1>1, <2>1 DEF IInv, SettingBack
    <2>8. MeasuringToCome' /\ Head(todo') \in {"restart", "measuring"} =>
             sweepPoints' = target'.points
      BY <1>1, <2>1, <2>6 DEF IInv, SettingBack
    <2> QED  BY <2>1, <2>3, <2>4, <2>5, <2>6, <2>7, <2>8 DEF SettingBack
  <1>5. Collecting'
    <2>1. (todo \in CollectTails)' <=> todo \in CollectTails
      BY <1>1 DEF CollectTails, CollectStores
    <2>2. \/ UNCHANGED <<collecting, collected, collectMeasurementState>>
          \/ /\ collecting /\ collecting' = collecting /\ collected' = collected
          \/ /\ collecting /\ ~collecting' /\ collected' = TRUE
             /\ collectMeasurementState' = 0
      BY <1>1, EmitStates
    <2>3. Collecting
      BY DEF IInv
    <2> QED  BY <1>1, <2>1, <2>2, <2>3 DEF Collecting
  <1> QED  BY <1>3, <1>4, <1>5

LEMMA PointEcal ==
    ASSUME IInv, EmitPoint \/ EmitOldPoint, WithinChange,
           UNCHANGED <<dataPointsPerFreq, props, display, main, undisturbed, lateCallback>>
    PROVE  EcalInv'
  <1> SUFFICES ASSUME Current'
               PROVE  /\ Place'
                      /\ \/ Covered(target.points)'
                         \/ ~collected' /\ (Paused' \/ Pass')
    BY DEF EcalInv
  <1> DEFINE Next1 == index' = index + 1 /\ index + 1 < target.points
             Wrap  == index' = 0 /\ index = target.points - 1
  <1>1. /\ UNCHANGED <<target, uiSweep, hostSweep, configured, todo, undisturbed,
                       ui_disabled, sweep, changing, sweepPoints, restarting,
                       lastUSBDataMode, lateCallback>>
        /\ ~restarting /\ MeasurementEmitDataPoint /\ Types
        /\ todo # <<>> => ~during /\ during'
    BY PointSteps DEF props, main, display, IInv
  <1>2. collected => collected'
    BY <1>1, EmitStates
  <1>3. Current
    BY <1>1, <1>2 DEF Current, SameSweep, LateCallback, MeasuringToCome
  <1>4. /\ Place
        /\ Covered(target.points) \/ (~collected /\ (Paused \/ Pass))
    BY <1>3 DEF IInv, EcalInv
  <1>5. /\ target.points \in Nat /\ target.points > 1
        /\ index \in 0 .. target.points - 1
        /\ frequency = target.start + target.step * index
    BY <1>1, <1>3, PointGood, 0 \in Nat
  <1>6. ASSUME NEW i \in Nat, i < target.points, Good(i)
        PROVE  Good(i)'
    BY <1>1, <1>3, <1>6, PointGood
  <1>7. Covered(target.points) => Covered(target.points)'
    BY <1>1, <1>5, <1>6 DEF Covered
  <1>8. \/ UNCHANGED <<index, frequency>>
        \/ /\ Stream!Last /\ (Next1 \/ Wrap)
           /\ frequency' = target.start + target.step * index'
    <2>1. /\ sweep.points = target.points /\ sweep.start = target.start
          /\ sweep.step = target.step
      BY <1>1, <1>4 DEF Place, SameSweep
    <2> QED  BY <2>1, <1>5, PointSteps
  <1>9. Place'
    BY <1>1, <1>4, <1>5, <1>8 DEF Place, SameSweep
  <1>10. CASE Covered(target.points)
    BY <1>7, <1>9, <1>10
  <1>11. CASE Paused /\ ~collected
    <2>1. Types /\ MeasurementEmitDataPoint
      BY <1>1
    <2>2. collected' = collected
      BY <2>1, <1>11, EmitStates DEF Paused
    <2>3. ecalState' = "MEASURING" /\ measurement_mode' # "FULL"
      BY <2>1, <1>11, EmitStates DEF Paused
    <2> QED  BY <1>9, <1>11, <2>2, <2>3 DEF Paused
  <1>12. CASE Pass /\ ~collected /\ ~Covered(target.points)
    <2> DEFINE Again == {<<"everyPoint", "restart", "collect">>, <<"restart", "collect">>}
    <2>1. Types /\ MeasurementEmitDataPoint
      BY <1>1
    <2>2. /\ measurement_mode = "FULL"
          /\ ecalState \in {"MEASURING", "2NDSWEEP"}
          /\ ecalState = "2NDSWEEP" => collecting
      <3>1. todo \in CollectTails => todo # <<>>
        BY DEF CollectTails, CollectStores
      <3> QED  BY <1>1, <1>12, <3>1 DEF Pass
    <2>3. \/ UNCHANGED <<ecalState, measurement_mode, everyPoint>>
          \/ /\ ecalState' = "2NDSWEEP" /\ ~collecting /\ index = sweepPoints - 1
             /\ measuredEcal'[index] = {frequency}
             /\ UNCHANGED <<measurement_mode, everyPoint>>
      BY <2>1, <2>2, EmitStates
    <2>4. /\ Again \subseteq CollectTails \ {CollectStores}
          /\ \A t \in Again : t # <<>>
      BY DEF CollectTails, CollectStores
    <2>5. CASE todo \in Again
      <3>1. ~collecting /\ during'
        BY <1>1, <2>4, <2>5 DEF IInv, Collecting
      <3>2. ~collecting' /\ ~collected'
        <4>1. collecting' = collecting /\ collected' = collected
          BY <2>1, <3>1, EmitStates
        <4> QED  BY <4>1, <3>1, <1>12
      <3>3. measurement_mode' = "FULL"
        BY <2>2, <2>3
      <3>4. ecalState' \in {"MEASURING", "2NDSWEEP"}
        BY <2>2, <2>3
      <3>5. everyPoint' \/ todo' = <<"everyPoint", "restart", "collect">>
        <4>1. everyPoint \/ todo = <<"everyPoint", "restart", "collect">>
          BY <2>5, <1>12 DEF Pass
        <4> QED  BY <4>1, <2>3, <1>1
      <3>6. todo' \in Again /\ todo' \in CollectTails' \ {CollectStores'}
        BY <1>1, <2>4, <2>5 DEF CollectTails, CollectStores
      <3>7. Pass'
        BY <3>1, <3>2, <3>3, <3>4, <3>5, <3>6 DEF Pass
      <3> QED  BY <1>9, <3>2, <3>7
    <2>6. CASE todo \notin Again
      <3>1. Covered(index)
        BY <1>1, <1>12, <2>6 DEF Pass
      <3>2. everyPoint
        <4>1. todo = <<"everyPoint">> => todo # <<>>
          OBVIOUS
        <4> QED  BY <1>1, <1>12, <2>6, <4>1 DEF Pass
      <3>3. ASSUME NEW i \in Nat, i < index
            PROVE  Good(i)'
        BY <3>1, <3>3, <1>5, <1>6 DEF Covered
      <3>4. ASSUME NEW i, i = index,
                   measuredEcal'[index] = {frequency} \/ index \in ignored'
            PROVE  Good(i)'
        BY <1>1, <1>5, <3>4 DEF Good
      <3>5. ASSUME index = target.points - 1,
                   measuredEcal'[index] = {frequency} \/ index \in ignored'
            PROVE  Covered(target.points)'
        <4>1. \A i \in 0 .. target.points - 1 : i \in Nat /\ (i < index \/ i = index)
          BY <3>5, <1>5
        <4> QED  BY <4>1, <3>3, <3>4, <3>5, <1>1 DEF Covered
      <3>6. Stream!Last => measuredEcal'[index] = {frequency} \/ index \in ignored'
        BY <2>1, <2>2, <3>2, EmitGood
      <3>7. CASE Wrap /\ Stream!Last
        BY <3>5, <3>6, <3>7, <1>9
      <3>8. CASE index = sweepPoints - 1 /\ measuredEcal'[index] = {frequency}
        BY <3>5, <3>8, <1>4, <1>9 DEF Place
      <3>9. CASE /\ UNCHANGED index \/ (Next1 /\ Stream!Last)
                 /\ UNCHANGED <<ecalState, measurement_mode, everyPoint>>
        <4>1. CASE collected'
          <5>1. undisturbed'
            BY <4>1 DEF Current, LateCallback
          <5>2. /\ collecting /\ collectMeasurementState = 1
                /\ collectMeasurementOffset = index
                /\ measuredEcal'[index] = {frequency}
            BY <2>1, <1>12, <4>1, EmitStates DEF Types, TypeOK
          <5>3. index = target.points - 1
            BY <5>1, <5>2, <1>1, <1>5, <1>12 DEF Pass
          <5> QED  BY <3>5, <5>2, <5>3, <1>9
        <4>2. CASE ~collected'
          <5>1. collecting' = collecting
            BY <2>1, <4>2, EmitStates
          <5>2. Covered(index)'
            <6>1. \A i \in 0 .. index' - 1 : i \in Nat /\ (i < index \/ i = index)
              BY <3>9, <1>5
            <6>2. CASE UNCHANGED index
              <7>1. \A i \in 0 .. index' - 1 : i \in Nat /\ i < index
                BY <6>2, <1>5
              <7> QED  BY <7>1, <3>3 DEF Covered
            <6>3. CASE Next1 /\ Stream!Last
              BY <6>1, <6>3, <3>3, <3>4, <3>6 DEF Covered
            <6> QED  BY <6>2, <6>3, <3>9
          <5>3. ASSUME collecting', undisturbed', collectMeasurementState' = 1
                PROVE  \/ collectMeasurementOffset' = target.points - 1
                       \/ collectMeasurementOffset' < index'
            <6>1. index' \in Nat /\ index' >= index
              BY <3>9, <1>5
            <6>2. CASE UNCHANGED <<collectMeasurementState, collectMeasurementOffset>>
              <7>1. \/ collectMeasurementOffset = target.points - 1
                    \/ collectMeasurementOffset < index
                BY <5>1, <5>3, <6>2, <1>1, <1>12 DEF Pass
              <7>2. collectMeasurementOffset \in Int
                BY <2>1 DEF Types, TypeOK, Indices, NoIndex
              <7> QED  BY <7>1, <7>2, <6>1, <6>2, <1>5
            <6>3. CASE collectMeasurementOffset' = OffsetFor(index)
              <7>1. sweepPoints = target.points
                BY <1>4 DEF Place
              <7> QED  BY <7>1, <6>1, <6>3, <1>5 DEF OffsetFor
            <6> QED  BY <2>1, <4>2, <5>3, <6>2, <6>3, EmitStates
          <5>4. Pass'
            BY <5>1, <5>2, <5>3, <2>2, <3>2, <3>9, <1>1 DEF Pass
          <5> QED  BY <1>9, <4>2, <5>4
        <4> QED  BY <4>1, <4>2
      <3> QED  BY <3>7, <3>8, <3>9, <2>3, <1>8
    <2> QED  BY <2>5, <2>6
  <1> QED  BY <1>4, <1>10, <1>11, <1>12


LEMMA PointInv ==
    ASSUME IInv, EmitPoint \/ EmitOldPoint, WithinChange,
           UNCHANGED <<dataPointsPerFreq, props, display, main, undisturbed, lateCallback>>
    PROVE  IInv'
  BY PointTypes, PointSetting, PointEcal DEF IInv

\* The user's sweeps have two points or more.
LEMMA CurrentPoints ==
    ASSUME Types, Current
    PROVE  target.points \in Nat /\ target.points > 1
  <1>1. target.points = uiSweep.points /\ uiSweep \in UISweeps
    BY DEF Current, SameSweep, Types
  <1>2. uiSweep.points \in 2 .. SweepPointsMax /\ SweepPointsMax \in Nat
    BY <1>1, AcquisitionAssumption
  <1> QED  BY <1>1, <1>2

LEMMA RestartInv ==
    ASSUME IInv, Restart, WithinChange,
           UNCHANGED <<dataPointsPerFreq, props, display, main, undisturbed, lateCallback>>
    PROVE  IInv'
  <1>1. /\ UNCHANGED <<target, uiSweep, hostSweep, configured, todo, undisturbed, avg,
                       ui_disabled, sweepPoints, lastUSBDataMode, usbDataMode, plotted,
                       lateCallback, changes, measurement_mode, everyPoint,
                       currDPCnt, lastFreqIndex, currDP, ecalState, ecalIgnoreValues,
                       measuredEcal, ignored, collecting, collectMeasurementState,
                       collectMeasurementOffset, calData, collected, usbTxQueue,
                       dataPointsPerFreq>>
        /\ restarting /\ ~restarting' /\ ~changing' /\ restarting' \in BOOLEAN
        /\ changing' \in BOOLEAN
        /\ sweep' = target /\ index' = 0 /\ repeat' = 0 /\ frequency' = target.start
    BY DEF Restart, Stream!Restart, props, display, main, average, ecal, collect
  <1>2. /\ todo # <<>> => during'
        /\ during' => todo # <<>>
        /\ during' \in BOOLEAN /\ carried' \in BOOLEAN
    BY DEF WithinChange, IInv, Setting, Types, TypeOK, Restart
  <1>3. /\ target \in Configurations /\ target.start \in Nat /\ target.step \in Nat
        /\ index \in Indices
    BY ConfigTypes DEF IInv, Types, TypeOK
  <1>4. 0 \in Indices /\ target.start \in Freqs
    <2>1. 0 \in Indices
      BY <1>3, AcquisitionAssumption DEF Indices
    <2>2. target.start = target.start + target.step * 0
      BY <1>3
    <2> QED  BY <1>3, <2>1, <2>2 DEF Freqs
  <1>5. Types'
    <2>1. TypeOK'
      BY <1>1, <1>2, <1>3, <1>4 DEF IInv, Types, TypeOK
    <2> QED  BY <1>1, <2>1 DEF IInv, Types
  <1>6. Setting'
    <2>1. UsbConfig(hostSweep)' = UsbConfig(hostSweep)
      BY <1>1 DEF UsbConfig
    <2>2. frequency' = FreqAt(index)'
      BY <1>1, <1>3 DEF FreqAt
    <2> QED  BY <1>1, <1>2, <2>1, <2>2 DEF IInv, Setting, SameSweep
  <1>7. SettingBack'
    <2>1. MeasuringToCome' <=> MeasuringToCome
      BY <1>1 DEF MeasuringToCome
    <2>2. (todo \in UITails \ {UIStores})' <=> todo \in UITails \ {UIStores}
      BY <1>1 DEF UITails, UIStores
    <2>3. MeasuringToCome => todo # <<>>
      BY DEF MeasuringToCome, UITails, RegisterTails, UIStores, RegisterStores, USBStores
    <2>4. Head(todo)' = Head(todo)
      BY <1>1
    <2>5. todo \in UITails \ {UIStores} => MeasuringToCome
      BY DEF MeasuringToCome
    <2>6. SettingBack
      BY DEF IInv
    <2>7. MeasuringToCome => ~undisturbed'
      BY <1>1, <2>6 DEF SettingBack
    <2>8. todo \in UITails \ {UIStores} =>
             /\ measurement_mode' = "FULL" /\ everyPoint'
             /\ ecalState' = "MEASURING" \/ (during' /\ ecalState' = "2NDSWEEP")
      BY <1>1, <1>2, <2>3, <2>5, <2>6 DEF SettingBack
    <2>9. MeasuringToCome /\ Head(todo) \in {"restart", "measuring"} =>
             sweepPoints' = target'.points
      BY <1>1, <2>6 DEF SettingBack
    <2>10. MeasuringToCome => during' /\ ~changing' /\ sweep' = target' /\ index' = 0
      BY <1>1, <1>2, <2>3
    <2> QED  BY <2>1, <2>2, <2>4, <2>7, <2>8, <2>9, <2>10 DEF SettingBack
  <1>8. Collecting'
    <2>1. (todo \in CollectTails)' <=> todo \in CollectTails
      BY <1>1 DEF CollectTails, CollectStores
    <2> QED  BY <1>1, <2>1 DEF IInv, Collecting
  <1>9. EcalInv'
    <2> SUFFICES ASSUME Current'
                 PROVE  /\ Place'
                        /\ \/ Covered(target.points)'
                           \/ ~collected' /\ (Paused' \/ Pass')
      BY DEF EcalInv
    <2>1. Current
      BY <1>1 DEF Current, SameSweep, LateCallback, MeasuringToCome
    <2>2. /\ Place
          /\ Covered(target.points) \/ (~collected /\ (Paused \/ Pass))
      BY <2>1 DEF IInv, EcalInv
    <2>3. target.points \in Nat /\ target.points > 1
      BY <2>1, CurrentPoints DEF IInv
    <2>4. Place'
      BY <1>1, <1>3, <2>2, <2>3 DEF Place, SameSweep
    <2>5. Covered(target.points) => Covered(target.points)'
      BY <1>1 DEF Covered, Good
    <2>6. Paused => Paused'
      BY <1>1 DEF Paused
    <2>7. Pass => Pass'
      <3> SUFFICES ASSUME Pass
                   PROVE  Pass'
        OBVIOUS
      <3>1. Covered(index)'
        BY <1>1 DEF Covered
      <3>2. (todo \in CollectTails \ {CollectStores})' <=>
               todo \in CollectTails \ {CollectStores}
        BY <1>1 DEF CollectTails, CollectStores
      <3>3. todo \in CollectTails => todo # <<>>
        BY DEF CollectTails, CollectStores
      <3>4. ~(collecting /\ undisturbed /\ collectMeasurementState = 1)
        BY <1>1 DEF IInv, Collecting
      <3>5. \/ ecalState = "MEASURING"
            \/ /\ ecalState = "2NDSWEEP"
               /\ collecting \/ (todo \in CollectTails \ {CollectStores} /\ during')
        BY <1>2, <3>3 DEF Pass
      <3>6. \/ everyPoint
            \/ todo = <<"everyPoint", "restart", "collect">>
            \/ todo = <<"everyPoint">> /\ during'
        BY <1>2 DEF Pass
      <3>7. measurement_mode = "FULL"
        BY DEF Pass
      <3> QED  BY <1>1, <3>1, <3>2, <3>4, <3>5, <3>6, <3>7 DEF Pass
    <2> QED  BY <1>1, <2>2, <2>4, <2>5, <2>6, <2>7
  <1> QED  BY <1>5, <1>6, <1>7, <1>8, <1>9 DEF IInv


-------------------------------------------------------------------------------
(* The stores of a change.                                                 *)

\* Each tail belongs to one change.
LEMMA TailFacts ==
    /\ \A t \in {<<>>, <<"everyPoint">>} \cup RestartTails \cup SaveTails :
          /\ t \notin UITails \cup RegisterTails /\ t \notin CollectTails
    /\ \A t \in UITails \cup RegisterTails :
          /\ t \notin CollectTails /\ t # <<>> /\ t # <<"everyPoint">>
    /\ \A t \in CollectTails :
          /\ t \notin UITails \cup RegisterTails /\ t # <<>> /\ t # <<"everyPoint">>
    /\ \A t \in RegisterTails : t \notin UITails
    /\ UIStores \in UITails
  <1> USE DEF UIStores, RegisterStores, AveragingStores, CollectStores,
              SaveStores
  <1>1. \A t \in {<<>>, <<"everyPoint">>} \cup RestartTails \cup SaveTails :
          t \notin UITails \cup RegisterTails /\ t \notin CollectTails
    <2>1. \A t \in {<<>>, <<"everyPoint">>} \cup RestartTails \cup SaveTails :
            t \in {<<>>, <<"everyPoint">>, <<"points", "restart">>, <<"restart">>,
                   <<"ignoreAll", "ignoreSome">>, <<"ignoreSome">>}
      BY DEF RestartTails, SaveTails
    <2>2. \A t \in UITails :
            /\ t \notin {<<>>, <<"everyPoint">>, <<"points", "restart">>, <<"restart">>}
            /\ t \notin {<<"ignoreAll", "ignoreSome">>, <<"ignoreSome">>}
      BY DEF UITails
    <2>3. \A t \in RegisterTails :
            /\ t \notin {<<>>, <<"everyPoint">>, <<"points", "restart">>, <<"restart">>}
            /\ t \notin {<<"ignoreAll", "ignoreSome">>, <<"ignoreSome">>}
      BY DEF RegisterTails
    <2>4. \A t \in CollectTails :
            /\ t \notin {<<>>, <<"everyPoint">>, <<"points", "restart">>, <<"restart">>}
            /\ t \notin {<<"ignoreAll", "ignoreSome">>, <<"ignoreSome">>}
      BY DEF CollectTails
    <2> HIDE DEF UIStores, RegisterStores, AveragingStores, CollectStores, SaveStores
    <2> QED  BY <2>1, <2>2, <2>3, <2>4, Zenon
  <1>2. \A t \in UITails \cup RegisterTails :
          /\ t \notin CollectTails /\ t # <<>> /\ t # <<"everyPoint">>
    BY DEF UITails, RegisterTails, CollectTails
  <1>3. \A t \in CollectTails : t # <<>> /\ t # <<"everyPoint">>
    BY DEF CollectTails
  <1>4. \A t \in RegisterTails : t \notin UITails
    BY DEF UITails, RegisterTails
  <1> QED  BY <1>1, <1>2, <1>3, <1>4 DEF UITails

\* The next store and what is left.
LEMMA TailSteps ==
    ASSUME NEW t \in Tails, t # <<>>
    PROVE  \/ /\ Head(t) = "full"
              /\ t = UIStores /\ Tail(t) = <<"points", "restart", "measuring">>
           \/ /\ Head(t) = "points"
              /\ \/ /\ t = <<"points", "restart", "measuring">>
                    /\ Tail(t) = <<"restart", "measuring">>
                 \/ t = RegisterStores /\ Tail(t) = <<"restart", "measuring", "everyPoint">>
                 \/ t = AveragingStores /\ Tail(t) = <<"restart">>
           \/ /\ Head(t) = "restart"
              /\ \/ t = <<"restart", "measuring">> /\ Tail(t) = <<"measuring">>
                 \/ /\ t = <<"restart", "measuring", "everyPoint">>
                    /\ Tail(t) = <<"measuring", "everyPoint">>
                 \/ t = <<"restart">> /\ Tail(t) = <<>>
                 \/ t = <<"restart", "collect">> /\ Tail(t) = <<"collect">>
           \/ /\ Head(t) = "measuring"
              /\ \/ t = <<"measuring">> /\ Tail(t) = <<>>
                 \/ t = <<"measuring", "everyPoint">> /\ Tail(t) = <<"everyPoint">>
           \/ /\ Head(t) = "everyPoint"
              /\ \/ t = <<"everyPoint">> /\ Tail(t) = <<>>
                 \/ /\ t = <<"everyPoint", "restart", "collect">>
                    /\ Tail(t) = <<"restart", "collect">>
           \/ /\ Head(t) = "mode"
              /\ t = CollectStores /\ Tail(t) = <<"everyPoint", "restart", "collect">>
           \/ Head(t) = "collect" /\ t = <<"collect">> /\ Tail(t) = <<>>
           \/ Head(t) = "ignoreAll" /\ t = SaveStores /\ Tail(t) = <<"ignoreSome">>
           \/ Head(t) = "ignoreSome" /\ t = <<"ignoreSome">> /\ Tail(t) = <<>>
  <1> USE DEF UIStores, RegisterStores, AveragingStores, CollectStores, SaveStores
  <1>1. \A a : Head(<<a>>) = a /\ Tail(<<a>>) = <<>>
    OBVIOUS
  <1>2. \A a, b : Head(<<a, b>>) = a /\ Tail(<<a, b>>) = <<b>>
    OBVIOUS
  <1>3. \A a, b, c : Head(<<a, b, c>>) = a /\ Tail(<<a, b, c>>) = <<b, c>>
    OBVIOUS
  <1>4. \A a, b, c, d : Head(<<a, b, c, d>>) = a /\ Tail(<<a, b, c, d>>) = <<b, c, d>>
    OBVIOUS
  <1>5. CASE t \in UITails
    <2>1. CASE t = UIStores
      BY <2>1, <1>4
    <2>2. CASE t = <<"points", "restart", "measuring">>
      BY <2>2, <1>3
    <2>3. CASE t = <<"restart", "measuring">>
      BY <2>3, <1>2
    <2>4. CASE t = <<"measuring">>
      BY <2>4, <1>1
    <2> QED  BY <1>5, <2>1, <2>2, <2>3, <2>4 DEF UITails
  <1>6. CASE t \in RegisterTails \cup {<<"everyPoint">>}
    <2>1. CASE t = RegisterStores
      BY <2>1, <1>4
    <2>2. CASE t = <<"restart", "measuring", "everyPoint">>
      BY <2>2, <1>3
    <2>3. CASE t = <<"measuring", "everyPoint">>
      BY <2>3, <1>2
    <2>4. CASE t = <<"everyPoint">>
      BY <2>4, <1>1
    <2> QED  BY <1>6, <2>1, <2>2, <2>3, <2>4 DEF RegisterTails
  <1>7. CASE t \in CollectTails
    <2>1. CASE t = CollectStores
      BY <2>1, <1>4
    <2>2. CASE t = <<"everyPoint", "restart", "collect">>
      BY <2>2, <1>3
    <2>3. CASE t = <<"restart", "collect">>
      BY <2>3, <1>2
    <2>4. CASE t = <<"collect">>
      BY <2>4, <1>1
    <2> QED  BY <1>7, <2>1, <2>2, <2>3, <2>4 DEF CollectTails
  <1>8. CASE t \in RestartTails \cup SaveTails
    <2>1. CASE t = AveragingStores
      BY <2>1, <1>2
    <2>2. CASE t = <<"restart">>
      BY <2>2, <1>1
    <2>3. CASE t = SaveStores
      BY <2>3, <1>2
    <2>4. CASE t = <<"ignoreSome">>
      BY <2>4, <1>1
    <2> QED  BY <1>8, <2>1, <2>2, <2>3, <2>4 DEF RestartTails, SaveTails
  <1> QED  BY <1>5, <1>6, <1>7, <1>8 DEF Tails


\* What a store does to the rest of the state.
LEMMA StoreSteps ==
    ASSUME IInv, Store
    PROVE  /\ todo \in Tails /\ todo # <<>> /\ todo' = Tail(todo) /\ todo' \in Tails
           /\ during' = (during /\ todo' # <<>>)
           /\ UNCHANGED <<target, uiSweep, hostSweep, configured, lastUSBDataMode,
                          usbDataMode, ui_disabled, undisturbed, lateCallback, carried,
                          collected, collectMeasurementState, collectMeasurementOffset,
                          measuredEcal, ignored, sweep, index, repeat, frequency,
                          dataPointsPerFreq, avg, currDPCnt, lastFreqIndex, currDP,
                          calData, plotted, usbTxQueue, changes>>
           /\ sweepPoints' = IF Head(todo) = "points" THEN target.points ELSE sweepPoints
           /\ changing' = (changing \/ Head(todo) \in {"points", "restart"})
           /\ restarting' = (restarting \/ Head(todo) = "restart")
           /\ measurement_mode' = IF Head(todo) \in {"full", "mode"} THEN "FULL"
                                  ELSE measurement_mode
           /\ everyPoint' = (everyPoint \/ Head(todo) \in {"full", "everyPoint"})
           /\ ecalState' = IF Head(todo) \in {"full", "measuring"} THEN "MEASURING"
                           ELSE ecalState
           /\ collecting' = (collecting \/ Head(todo) = "collect")
  <1>1. todo \in Tails /\ todo # <<>> /\ changing \in BOOLEAN
    BY DEF IInv, Types, TypeOK, Store
  <1>2. Tail(todo) \in Tails
    <2>1. Tail(todo) \in {<<>>, <<"everyPoint">>, <<"restart">>, <<"ignoreSome">>}
             \cup (UITails \ {UIStores}) \cup (RegisterTails \ {RegisterStores})
             \cup (CollectTails \ {CollectStores})
      <3>1. /\ <<"points", "restart", "measuring">> # UIStores
            /\ <<"restart", "measuring">> # UIStores /\ <<"measuring">> # UIStores
        BY DEF UIStores
      <3>2. /\ <<"everyPoint", "restart", "collect">> # CollectStores
            /\ <<"restart", "collect">> # CollectStores /\ <<"collect">> # CollectStores
        BY DEF CollectStores
      <3>3. /\ <<"restart", "measuring", "everyPoint">> # RegisterStores
            /\ <<"measuring", "everyPoint">> # RegisterStores
        BY DEF RegisterStores
      <3> QED  BY <1>1, <3>1, <3>2, <3>3, TailSteps DEF UITails, RegisterTails, CollectTails
    <2> QED  BY <2>1 DEF Tails, RestartTails, SaveTails
  <1>3. changing' = (changing \/ Head(todo) \in {"points", "restart"})
        /\ UNCHANGED <<sweep, index, repeat, frequency>>
    BY <1>1 DEF Store, engine
  <1> QED  BY <1>1, <1>2, <1>3
           DEF Store, average, props, display, history

LEMMA StoreTypes ==
    ASSUME IInv, Store
    PROVE  Types'
  <1> USE AcquisitionAssumption
  <1>1. /\ Types /\ target \in Configurations /\ target.points \in 0 .. UsbPointsMax
        /\ todo \in Tails /\ todo' \in Tails
    BY ConfigTypes, StoreSteps DEF IInv, Types, TypeOK
  <1>2. /\ sweepPoints' \in 0 .. UsbPointsMax
        /\ changing' \in BOOLEAN /\ restarting' \in BOOLEAN /\ everyPoint' \in BOOLEAN
        /\ collecting' \in BOOLEAN /\ during' \in BOOLEAN
        /\ measurement_mode' \in Modes
        /\ ecalState' \in {"MEASURING", "2NDSWEEP", "DONE"}
    <2>1. /\ sweepPoints \in 0 .. UsbPointsMax /\ measurement_mode \in Modes
          /\ ecalState \in {"MEASURING", "2NDSWEEP", "DONE"}
          /\ {changing, restarting, everyPoint, collecting, during} \subseteq BOOLEAN
      BY <1>1 DEF Types, TypeOK
    <2> QED  BY <1>1, <2>1, StoreSteps
  <1>3. ecalIgnoreValues' \in 0 .. IgnoreAfterSave + 1
    <2>1. ecalIgnoreValues' = CASE Head(todo) = "ignoreAll" -> IgnoreAfterSave + 1
                                [] Head(todo) = "ignoreSome" -> IgnoreAfterSave
                                [] OTHER -> ecalIgnoreValues
      BY DEF Store
    <2>2. ecalIgnoreValues \in 0 .. IgnoreAfterSave + 1 /\ IgnoreAfterSave \in Nat
      BY <1>1 DEF Types, TypeOK
    <2>3. \A x \in {IgnoreAfterSave + 1, IgnoreAfterSave} : x \in 0 .. IgnoreAfterSave + 1
      BY <2>2
    <2>4. ecalIgnoreValues' \in {IgnoreAfterSave + 1, IgnoreAfterSave, ecalIgnoreValues}
      BY <2>1
    <2> QED  BY <2>2, <2>3, <2>4
  <1>4. UNCHANGED <<target, uiSweep, hostSweep, configured, lastUSBDataMode,
                    usbDataMode, ui_disabled, undisturbed, lateCallback, carried,
                    collected, collectMeasurementState, collectMeasurementOffset,
                    measuredEcal, ignored, sweep, index, repeat, frequency,
                    dataPointsPerFreq, avg, currDPCnt, lastFreqIndex, currDP,
                    calData, plotted, usbTxQueue, changes>>
    BY StoreSteps
  <1>5. TypeOK'
    BY <1>1, <1>2, <1>3, <1>4 DEF Types, TypeOK
  <1> QED  BY <1>1, <1>4, <1>5 DEF Types

\* A store of a change to the sweep leaves what is still to come true.
LEMMA StoreTails ==
    ASSUME NEW t \in Tails, t # <<>>
    PROVE  /\ Tail(t) \in UITails \cup RegisterTails =>
                 /\ t \in UITails \cup RegisterTails
                 /\ Head(t) \notin {"measuring", "collect"}
                 /\ Head(Tail(t)) \in {"restart", "measuring"} =>
                       Head(t) = "points" \/ Head(t) = "restart"
                 /\ Head(Tail(t)) = "measuring" => Head(t) = "restart"
           /\ t \in UITails \cup RegisterTails /\ Tail(t) \notin UITails \cup RegisterTails
                 => /\ Head(t) = "measuring"
                    /\ \/ t \in UITails \ {UIStores} /\ Tail(t) = <<>>
                       \/ t \in RegisterTails /\ Tail(t) = <<"everyPoint">>
           /\ Tail(t) \in UITails \ {UIStores} =>
                 /\ t \in UITails
                 /\ t = UIStores <=> Head(t) = "full"
                 /\ Head(t) \in {"full", "points", "restart"}
           /\ Tail(t) \in CollectTails =>
                 /\ t \in CollectTails /\ Head(t) \in {"mode", "everyPoint", "restart"}
                 /\ Tail(t) # CollectStores
           /\ Head(t) = "collect" => t \in CollectTails \ {CollectStores} /\ Tail(t) = <<>>
           /\ t \in CollectTails => Head(t) = "collect" \/ Tail(t) \in CollectTails
           /\ Head(t) = "full" <=> t = UIStores
           /\ Head(t) = "mode" => t = CollectStores

  <1>a. \A a : Head(<<a>>) = a /\ Tail(<<a>>) = <<>>
    OBVIOUS
  <1>b. \A a, b : Head(<<a, b>>) = a /\ Tail(<<a, b>>) = <<b>>
    OBVIOUS
  <1>c. \A a, b, c : Head(<<a, b, c>>) = a /\ Tail(<<a, b, c>>) = <<b, c>>
    OBVIOUS
  <1>d. \A a, b, c, d : Head(<<a, b, c, d>>) = a /\ Tail(<<a, b, c, d>>) = <<b, c, d>>
    OBVIOUS
  <1>e. /\ <<"points", "restart", "measuring">> # UIStores
        /\ <<"restart", "measuring">> # UIStores /\ <<"measuring">> # UIStores
    BY DEF UIStores
  <1>f. /\ <<"everyPoint", "restart", "collect">> # CollectStores
        /\ <<"restart", "collect">> # CollectStores /\ <<"collect">> # CollectStores
    BY DEF CollectStores
  <1> DEFINE Others == {<<>>, <<"everyPoint">>} \cup RestartTails \cup SaveTails
  <1>1. CASE t \in UITails
    <2>1. \/ t = UIStores /\ Head(t) = "full" /\ Tail(t) = <<"points", "restart", "measuring">>
          \/ /\ t = <<"points", "restart", "measuring">> /\ t # UIStores
             /\ Head(t) = "points" /\ Tail(t) = <<"restart", "measuring">>
          \/ /\ t = <<"restart", "measuring">> /\ t # UIStores
             /\ Head(t) = "restart" /\ Tail(t) = <<"measuring">>
          \/ /\ t = <<"measuring">> /\ t # UIStores
             /\ Head(t) = "measuring" /\ Tail(t) = <<>>
      <3>1. CASE t = UIStores
        BY <3>1, <1>d DEF UIStores
      <3>2. CASE t = <<"points", "restart", "measuring">>
        BY <3>2, <1>c, <1>e
      <3>3. CASE t = <<"restart", "measuring">>
        BY <3>3, <1>b, <1>e
      <3>4. CASE t = <<"measuring">>
        BY <3>4, <1>a, <1>e
      <3> QED  BY <1>1, <3>1, <3>2, <3>3, <3>4 DEF UITails
    <2>2. Head(<<"points", "restart", "measuring">>) = "points"
          /\ Head(<<"restart", "measuring">>) = "restart"
          /\ Head(<<"measuring">>) = "measuring"
      OBVIOUS
    <2>3. /\ <<"points", "restart", "measuring">> \in UITails
          /\ <<"restart", "measuring">> \in UITails /\ <<"measuring">> \in UITails
      BY DEF UITails
    <2>4. t # CollectStores /\ t \notin CollectTails /\ t \notin RegisterTails
          /\ Tail(t) \notin CollectTails
      BY <1>1, <2>1, <2>3, TailFacts DEF CollectTails
    <2>5. <<>> \notin UITails \cup RegisterTails
      BY TailFacts
    <2> QED  BY <1>1, <2>1, <2>2, <2>3, <2>4, <2>5
  <1>2. CASE t \in RegisterTails
    <2>1. \/ /\ t = RegisterStores /\ Head(t) = "points"
             /\ Tail(t) = <<"restart", "measuring", "everyPoint">>
          \/ /\ t = <<"restart", "measuring", "everyPoint">>
             /\ Head(t) = "restart" /\ Tail(t) = <<"measuring", "everyPoint">>
          \/ /\ t = <<"measuring", "everyPoint">>
             /\ Head(t) = "measuring" /\ Tail(t) = <<"everyPoint">>
      <3>1. CASE t = RegisterStores
        BY <3>1, <1>d DEF RegisterStores
      <3>2. CASE t = <<"restart", "measuring", "everyPoint">>
        BY <3>2, <1>c
      <3>3. CASE t = <<"measuring", "everyPoint">>
        BY <3>3, <1>b
      <3> QED  BY <1>2, <3>1, <3>2, <3>3 DEF RegisterTails
    <2>2. Head(<<"restart", "measuring", "everyPoint">>) = "restart"
          /\ Head(<<"measuring", "everyPoint">>) = "measuring"
      OBVIOUS
    <2>3. /\ <<"restart", "measuring", "everyPoint">> \in RegisterTails
          /\ <<"measuring", "everyPoint">> \in RegisterTails
      BY DEF RegisterTails
    <2>4. /\ t # UIStores /\ t # CollectStores /\ t \notin CollectTails
          /\ Tail(t) \notin CollectTails /\ Tail(t) \notin UITails
      BY <1>2, <2>1, <2>3, TailFacts DEF CollectTails
    <2>5. <<"everyPoint">> \notin UITails \cup RegisterTails
      BY TailFacts
    <2> QED  BY <1>2, <2>1, <2>2, <2>3, <2>4, <2>5
  <1>3. CASE t \in CollectTails
    <2>1. \/ /\ t = CollectStores /\ Head(t) = "mode"
             /\ Tail(t) = <<"everyPoint", "restart", "collect">>
          \/ /\ t = <<"everyPoint", "restart", "collect">> /\ t # CollectStores
             /\ Head(t) = "everyPoint" /\ Tail(t) = <<"restart", "collect">>
          \/ /\ t = <<"restart", "collect">> /\ t # CollectStores
             /\ Head(t) = "restart" /\ Tail(t) = <<"collect">>
          \/ /\ t = <<"collect">> /\ t # CollectStores
             /\ Head(t) = "collect" /\ Tail(t) = <<>>
      <3>1. CASE t = CollectStores
        BY <3>1, <1>d DEF CollectStores
      <3>2. CASE t = <<"everyPoint", "restart", "collect">>
        BY <3>2, <1>c, <1>f
      <3>3. CASE t = <<"restart", "collect">>
        BY <3>3, <1>b, <1>f
      <3>4. CASE t = <<"collect">>
        BY <3>4, <1>a, <1>f
      <3> QED  BY <1>3, <3>1, <3>2, <3>3, <3>4 DEF CollectTails
    <2>2. /\ <<"everyPoint", "restart", "collect">> \in CollectTails \ {CollectStores}
          /\ <<"restart", "collect">> \in CollectTails \ {CollectStores}
          /\ <<"collect">> \in CollectTails \ {CollectStores}
      BY DEF CollectTails, CollectStores
    <2>3. /\ t # UIStores /\ t \notin UITails \cup RegisterTails
          /\ Tail(t) \notin UITails \cup RegisterTails /\ <<>> \notin CollectTails
      BY <1>3, <2>1, <2>2, TailFacts
    <2> QED  BY <1>3, <2>1, <2>2, <2>3
  <1>4. CASE t \in Others
    <2>1. \/ t = <<"everyPoint">> /\ Head(t) = "everyPoint" /\ Tail(t) = <<>>
          \/ t = AveragingStores /\ Head(t) = "points" /\ Tail(t) = <<"restart">>
          \/ t = <<"restart">> /\ Head(t) = "restart" /\ Tail(t) = <<>>
          \/ t = SaveStores /\ Head(t) = "ignoreAll" /\ Tail(t) = <<"ignoreSome">>
          \/ t = <<"ignoreSome">> /\ Head(t) = "ignoreSome" /\ Tail(t) = <<>>
      BY <1>4, <1>a, <1>b, t # <<>> DEF RestartTails, SaveTails, AveragingStores, SaveStores
    <2>2. Tail(t) \in Others
      BY <2>1 DEF RestartTails, SaveTails
    <2>3. /\ t \notin UITails \cup RegisterTails /\ t \notin CollectTails
          /\ Tail(t) \notin UITails \cup RegisterTails /\ Tail(t) \notin CollectTails
          /\ t # UIStores
      BY <1>4, <2>2, TailFacts
    <2>4. Head(t) \notin {"full", "mode", "collect"}
      BY <2>1
    <2> QED  BY <2>3, <2>4
  <1> QED  BY <1>1, <1>2, <1>3, <1>4 DEF Tails


LEMMA StoreSetting ==
    ASSUME IInv, Store
    PROVE  Setting' /\ SettingBack' /\ Collecting'
  <1> DEFINE t == todo
  <1>1. t \in Tails /\ t # <<>> /\ todo' = Tail(t)
    BY StoreSteps
  <1>2. Setting'
    <2>1. UsbConfig(hostSweep)' = UsbConfig(hostSweep)
      BY StoreSteps DEF UsbConfig
    <2>2. ~changing' => UNCHANGED <<changing, sweep, index, frequency>>
      BY StoreSteps DEF IInv, Types, TypeOK
    <2>3. restarting' => changing'
      BY StoreSteps DEF IInv, Setting
    <2>4. ~changing' => /\ index' = 0 \/ index' < sweep'.points
                        /\ frequency' = FreqAt(index)'
      BY <2>2 DEF IInv, Setting, FreqAt
    <2>5. measurement_mode' \in {"FULL", configured'}
      <3>1. Head(t) \notin {"full", "mode"} => t # UIStores
        BY <1>1, StoreTails
      <3> QED  BY <3>1, StoreSteps DEF IInv, Setting
    <2>6. /\ SameSweep(target, uiSweep)' \/ SameSweep(target, UsbConfig(hostSweep))'
          /\ during' => todo' # <<>>
      BY <2>1, StoreSteps DEF IInv, Setting, SameSweep
    <2> QED  BY <2>3, <2>4, <2>5, <2>6 DEF Setting
  <1>3. SettingBack'
    <2>1. SettingBack
      BY DEF IInv
    <2>2. (todo \in UITails \cup RegisterTails)' <=> Tail(t) \in UITails \cup RegisterTails
      BY <1>1
    <2>3. (todo \in UITails \ {UIStores})' <=> Tail(t) \in UITails \ {UIStores}
      BY <1>1 DEF UITails, UIStores
    <2>4. MeasuringToCome' => t \in UITails \cup RegisterTails /\ ~undisturbed'
      BY <1>1, <2>1, <2>2, StoreTails, StoreSteps DEF MeasuringToCome, SettingBack
    <2>5. ASSUME Tail(t) \in UITails \ {UIStores}
          PROVE  /\ measurement_mode' = "FULL" /\ everyPoint'
                 /\ ecalState' = "MEASURING" \/ (during' /\ ecalState' = "2NDSWEEP")
      <3>1. /\ t \in UITails
            /\ t = UIStores <=> Head(t) = "full"
            /\ Head(t) \in {"full", "points", "restart"}
        BY <1>1, <2>5, StoreTails
      <3>2. Tail(t) # <<>>
        BY <2>5, TailFacts
      <3>3. CASE Head(t) = "full"
        BY <3>3, StoreSteps
      <3>4. CASE Head(t) # "full"
        <4>1. /\ measurement_mode = "FULL" /\ everyPoint
              /\ ecalState = "MEASURING" \/ (during /\ ecalState = "2NDSWEEP")
          BY <3>1, <3>4, <2>1 DEF SettingBack
        <4>2. Head(t) \in {"points", "restart"} /\ todo' # <<>>
          BY <3>1, <3>2, <3>4, <1>1
        <4>3. UNCHANGED <<measurement_mode, ecalState>>
          BY <4>2, StoreSteps
        <4>4. during' = during /\ everyPoint'
          BY <4>1, <4>2, StoreSteps DEF IInv, Types, TypeOK
        <4> QED  BY <4>1, <4>3, <4>4
      <3> QED  BY <3>3, <3>4
    <2>6. ASSUME Tail(t) \in UITails \cup RegisterTails,
                 Head(Tail(t)) \in {"restart", "measuring"}
          PROVE  sweepPoints' = target'.points
      <3>1. t \in UITails \cup RegisterTails /\ (Head(t) = "points" \/ Head(t) = "restart")
        BY <1>1, <2>6, StoreTails
      <3>2. Head(t) = "restart" => sweepPoints = target.points
        BY <3>1, <2>1 DEF SettingBack, MeasuringToCome
      <3> QED  BY <3>1, <3>2, StoreSteps
    <2>7. ASSUME Tail(t) \in UITails \cup RegisterTails, Head(Tail(t)) = "measuring"
          PROVE  restarting'
      BY <1>1, <2>7, StoreTails, StoreSteps
    <2>8. Head(todo)' = Head(Tail(t))
      BY <1>1
    <2>9. MeasuringToCome' <=> Tail(t) \in UITails \cup RegisterTails
      BY <2>2 DEF MeasuringToCome
    <2> HIDE DEF t
    <2> QED  BY <2>3, <2>4, <2>5, <2>6, <2>7, <2>8, <2>9 DEF SettingBack
  <1>4. Collecting'
    <2>1. Collecting
      BY DEF IInv
    <2>0. t \in Tails /\ t # <<>> /\ todo' = Tail(t) /\ t = todo
      BY <1>1
    <2>2. (todo \in CollectTails)' <=> Tail(t) \in CollectTails
      BY <1>1 DEF CollectTails, CollectStores
    <2>3. (todo \in CollectTails)' => t \in CollectTails /\ Head(t) # "collect"
      BY <1>1, <2>2, StoreTails
    <2>4. Head(t) = "collect" => t \in CollectTails /\ todo' = <<>>
      BY <1>1, StoreTails
    <2>5. /\ UNCHANGED <<collected, collectMeasurementState, undisturbed, ui_disabled>>
          /\ collecting' = (collecting \/ Head(t) = "collect")
          /\ Head(t) = "collect" => restarting' = restarting
      BY StoreSteps DEF IInv, Types, TypeOK
    <2>6. ~(collecting /\ undisturbed)
      BY <1>1, <2>1 DEF Collecting
    <2>7. Head(t) = "collect" => collectMeasurementState = 0
      BY <2>1, <2>4 DEF Collecting
    <2> HIDE DEF t
    <2>8. (collecting \/ collected \/ todo \in CollectTails => ui_disabled)'
      BY <2>0, <2>1, <2>3, <2>4, <2>5 DEF Collecting
    <2>9. collecting' => ~collected'
      BY <2>0, <2>1, <2>4, <2>5 DEF Collecting
    <2>10. (todo \in CollectTails)' => ~collecting' /\ ~collected'
      BY <2>0, <2>1, <2>3, <2>5 DEF Collecting
    <2>11. ~collecting' => collectMeasurementState' = 0
      BY <2>1, <2>5 DEF Collecting
    <2>12. collecting' /\ undisturbed' =>
              todo' = <<>> /\ (collectMeasurementState' = 1 => ~restarting')
      <3>1. collecting' /\ undisturbed' => Head(t) = "collect"
        BY <2>5, <2>6
      <3>2. Head(t) = "collect" => todo' = <<>> /\ collectMeasurementState' # 1
        BY <2>4, <2>5, <2>7
      <3> QED  BY <3>1, <3>2
    <2> QED  BY <2>8, <2>9, <2>10, <2>11, <2>12 DEF Collecting
  <1> QED  BY <1>2, <1>3, <1>4


\* What a store does for the error box data.
LEMMA StoreEcal ==
    ASSUME IInv, Store
    PROVE  EcalInv'
  <1> SUFFICES ASSUME Current'
               PROVE  /\ Place'
                      /\ \/ Covered(target.points)'
                         \/ ~collected' /\ (Paused' \/ Pass')
    BY DEF EcalInv
  <1>1. /\ todo \in Tails /\ todo # <<>> /\ todo' = Tail(todo)
        /\ during' = (during /\ todo' # <<>>)
        /\ UNCHANGED <<target, uiSweep, lastUSBDataMode, undisturbed, lateCallback,
                       collected, collectMeasurementState, collectMeasurementOffset,
                       measuredEcal, ignored, sweep, index, frequency, configured>>
        /\ Types
    BY StoreSteps DEF IInv
  <1>2. SameSweep(target, uiSweep) /\ ~lastUSBDataMode /\ ~LateCallback
        /\ Tail(todo) \notin UITails \cup RegisterTails
    <2>1. (todo \in UITails \cup RegisterTails)' <=>
             Tail(todo) \in UITails \cup RegisterTails
      BY <1>1 DEF UITails, RegisterTails, UIStores, RegisterStores
    <2> QED  BY <1>1, <2>1 DEF Current, SameSweep, LateCallback, MeasuringToCome
  <1>3. target.points \in Nat /\ target.points > 1
    <2>1. target.points = uiSweep.points /\ uiSweep \in UISweeps
      BY <1>1, <1>2 DEF SameSweep, Types
    <2>2. uiSweep.points \in 2 .. SweepPointsMax /\ SweepPointsMax \in Nat
      BY <2>1, AcquisitionAssumption
    <2> QED  BY <2>1, <2>2
  <1>4. /\ todo \in CollectTails => ~collecting /\ ~collected
        /\ collecting /\ undisturbed => todo = <<>>
        /\ ~collecting => collectMeasurementState = 0
    BY DEF IInv, Collecting
  <1>5. ~(collecting' /\ undisturbed' /\ collectMeasurementState' = 1)
    <2>1. Head(todo) = "collect" => ~collecting
      BY <1>1, <1>4, StoreTails
    <2>2. collecting' => collecting \/ Head(todo) = "collect"
      BY StoreSteps
    <2>3. ~collecting => collectMeasurementState' # 1
      BY <1>1, <1>4
    <2> QED  BY <1>1, <1>4, <2>1, <2>2, <2>3
  <1>6. (todo \in CollectTails \ {CollectStores})' <=>
           Tail(todo) \in CollectTails \ {CollectStores}
    BY <1>1 DEF CollectTails, CollectStores
  <1>7. CASE MeasuringToCome
    <2>1. /\ Head(todo) = "measuring"
          /\ \/ todo \in UITails \ {UIStores} /\ Tail(todo) = <<>>
             \/ todo \in RegisterTails /\ Tail(todo) = <<"everyPoint">>
          /\ todo # UIStores
      BY <1>1, <1>2, <1>7, StoreTails, TailFacts DEF MeasuringToCome
    <2>2. /\ UNCHANGED <<sweepPoints, changing, restarting, measurement_mode,
                         everyPoint, collecting>>
          /\ ecalState' = "MEASURING"
      BY <2>1, StoreSteps DEF IInv, Types, TypeOK
    <2>3. /\ ~undisturbed /\ sweepPoints = target.points
          /\ restarting \/ (during /\ ~changing /\ sweep = target /\ index = 0)
          /\ todo \in UITails \ {UIStores} => measurement_mode = "FULL" /\ everyPoint
          /\ measurement_mode \in {"FULL", configured}
      BY <1>7, <2>1 DEF IInv, SettingBack, Setting
    <2>4. ~collected'
      BY <1>1, <1>2, <2>3 DEF LateCallback
    <2>5. Place'
      <3>1. ASSUME ~restarting
            PROVE  /\ SameSweep(sweep, target) /\ index < target.points
                   /\ frequency = target.start + target.step * index
        BY <1>3, <2>3, <3>1 DEF IInv, Setting, FreqAt, SameSweep
      <3> QED  BY <1>1, <2>2, <2>3, <3>1 DEF Place, SameSweep
    <2>6. restarting' \/ Covered(index)'
      <3>1. index = 0 => Covered(index)'
        BY <1>1 DEF Covered
      <3> QED  BY <2>2, <2>3, <3>1
    <2>7. CASE todo \in UITails \ {UIStores}
      <3>1. measurement_mode' = "FULL" /\ everyPoint'
        BY <2>2, <2>3, <2>7
      <3> QED  BY <1>5, <2>2, <2>4, <2>5, <2>6, <3>1 DEF Pass
    <2>8. CASE Tail(todo) = <<"everyPoint">>
      <3>1. CASE measurement_mode = "FULL"
        <4>1. todo' = <<"everyPoint">> /\ todo' # <<>>
          BY <1>1, <2>8
        <4>2. restarting' \/ (index' = 0 /\ during')
          BY <1>1, <2>2, <2>3, <4>1
        <4> QED  BY <1>5, <2>2, <2>4, <2>5, <2>6, <3>1, <4>1, <4>2 DEF Pass
      <3>2. CASE measurement_mode # "FULL"
        BY <2>2, <2>4, <2>5, <3>2 DEF Paused
      <3> QED  BY <3>1, <3>2
    <2> QED  BY <2>1, <2>7, <2>8
  <1>8. CASE ~MeasuringToCome
    <2>1. /\ Place
          /\ Covered(target.points) \/ (~collected /\ (Paused \/ Pass))
      BY <1>2, <1>8 DEF IInv, EcalInv, Current
    <2>2. Head(todo) \notin {"full", "measuring"}
      <3>1. Head(todo) = "measuring" => todo \in UITails \cup RegisterTails
        BY <1>1, TailSteps DEF UITails, RegisterTails
      <3> QED  BY <1>1, <1>8, <3>1, StoreTails, TailFacts DEF MeasuringToCome
    <2>3. Place'
      <3>1. sweepPoints' = target'.points
        BY <1>1, <2>1, StoreSteps DEF Place
      <3>2. ~restarting' => ~restarting
        BY StoreSteps
      <3> QED  BY <1>1, <2>1, <3>1, <3>2 DEF Place, SameSweep
    <2>4. Covered(target.points) => Covered(target.points)'
      BY <1>1 DEF Covered, Good
    <2>5. ecalState' = ecalState
      BY <2>2, StoreSteps
    <2>6. CASE Paused /\ ~collected
      <3>1. CASE Head(todo) = "mode"
        <4>1. todo = CollectStores /\ todo \in CollectTails
          BY <1>1, <3>1, StoreTails DEF CollectTails
        <4>2. todo' = <<"everyPoint", "restart", "collect">>
          BY <1>1, <3>1, TailSteps
        <4>3. measurement_mode' = "FULL"
          BY <3>1, StoreSteps
        <4> QED  BY <1>1, <1>5, <2>3, <2>5, <2>6, <4>2, <4>3 DEF Pass, Paused
      <3>2. CASE Head(todo) # "mode"
        <4>1. measurement_mode' = measurement_mode
          BY <2>2, <3>2, StoreSteps
        <4> QED  BY <1>1, <2>3, <2>5, <2>6, <4>1 DEF Paused
      <3> QED  BY <3>1, <3>2
    <2>7. CASE Pass /\ ~collected
      <3>1. measurement_mode' = "FULL"
        BY <2>7, StoreSteps DEF Pass
      <3>2. \/ ecalState' = "MEASURING"
            \/ /\ ecalState' = "2NDSWEEP"
               /\ collecting' \/ (todo \in CollectTails \ {CollectStores} /\ during)'
        <4>1. CASE ecalState = "MEASURING"
          BY <2>5, <4>1
        <4>2. CASE ecalState = "2NDSWEEP" /\ collecting
          BY <2>5, <4>2, StoreSteps
        <4>3. CASE /\ ecalState = "2NDSWEEP" /\ todo \in CollectTails /\ during
          <5>1. CASE Head(todo) = "collect"
            BY <2>5, <4>3, <5>1, StoreSteps
          <5>2. CASE Head(todo) # "collect"
            <6>1. Tail(todo) \in CollectTails \ {CollectStores}
              BY <1>1, <4>3, <5>2, StoreTails
            <6>2. Tail(todo) # <<>>
              BY <6>1, TailFacts
            <6>3. (todo \in CollectTails \ {CollectStores})' /\ during'
              BY <1>1, <1>6, <4>3, <6>1, <6>2
            <6> QED  BY <2>5, <4>3, <6>3
          <5> QED  BY <5>1, <5>2
        <4> QED  BY <2>7, <4>1, <4>2, <4>3 DEF Pass
      <3>3. everyPoint'
        <4>1. Head(<<"everyPoint", "restart", "collect">>) = "everyPoint"
              /\ Head(<<"everyPoint">>) = "everyPoint"
          OBVIOUS
        <4>2. everyPoint \/ Head(todo) = "everyPoint"
          BY <2>7, <4>1 DEF Pass
        <4> QED  BY <4>2, StoreSteps
      <3>4. \/ restarting' \/ Covered(index)'
            \/ todo' \in {<<"everyPoint", "restart", "collect">>, <<"restart", "collect">>}
        <4>1. CASE restarting
          BY <4>1, StoreSteps
        <4>2. CASE Covered(index)
          BY <1>1, <4>2 DEF Covered, Good
        <4>3. CASE todo = <<"everyPoint", "restart", "collect">>
          <5>1. Tail(todo) = <<"restart", "collect">>
            BY <4>3
          <5> QED  BY <1>1, <5>1
        <4>4. CASE todo = <<"restart", "collect">>
          <5>1. Head(todo) = "restart"
            BY <4>4
          <5> QED  BY <5>1, StoreSteps
        <4> QED  BY <2>7, <4>1, <4>2, <4>3, <4>4 DEF Pass
      <3>5. Pass'
        BY <1>5, <3>1, <3>2, <3>3, <3>4 DEF Pass
      <3> QED  BY <1>1, <2>3, <2>7, <3>5
    <2> QED  BY <2>1, <2>3, <2>4, <2>6, <2>7
  <1> QED  BY <1>7, <1>8

LEMMA StoreInv ==
    ASSUME IInv, Store
    PROVE  IInv'
  BY StoreTypes, StoreSetting, StoreEcal DEF IInv



-------------------------------------------------------------------------------
(* The main thread, between two changes.                                   *)

\* A change that begins, or a step that touches neither the engine nor what the
\* interrupt keeps.
LEMMA ChangeInv ==
    ASSUME IInv, todo = <<>>,
           todo' \in {<<>>, UIStores, RegisterStores, AveragingStores, CollectStores,
                      SaveStores},
           UNCHANGED <<engine, settings, average, ecal, collect, during, carried>>,
           target' \in Configurations, uiSweep' \in UISweeps, hostSweep' \in HostValues,
           configured' \in Modes, dataPointsPerFreq' \in 0 .. MaxAverage,
           avg' \in AnyAverage, changes' \in 0 .. MaxChanges,
           {usbDataMode', lastUSBDataMode', ui_disabled', undisturbed', lateCallback'}
               \subseteq BOOLEAN,
           plotted' \in [Indices -> SUBSET Freqs],
           usbTxQueue' \in Seq([freqIndex : Indices, value : SUBSET Freqs]),
           Len(usbTxQueue') < QueueSize,
           SameSweep(target', uiSweep') \/ SameSweep(target', UsbConfig(hostSweep')),
           configured' = configured \/ todo' = UIStores,
           ui_disabled => ui_disabled',
           todo' = CollectStores => ~ui_disabled /\ ui_disabled',
           todo' \in {UIStores, RegisterStores} => ~undisturbed',
           undisturbed' => ~ui_disabled \/ (undisturbed /\ todo' = <<>>),
           \/ todo' \in {UIStores, RegisterStores}
           \/ lastUSBDataMode' \/ lateCallback' \/ ~SameSweep(target', uiSweep')
           \/ /\ SameSweep(target, uiSweep) /\ SameSweep(target', target)
              /\ ~lastUSBDataMode /\ ~lateCallback
    PROVE  IInv'
  <1>1. /\ UNCHANGED <<sweep, changing, index, repeat, frequency, sweepPoints, restarting,
                       measurement_mode, everyPoint, currDPCnt, lastFreqIndex, currDP,
                       ecalState, ecalIgnoreValues, measuredEcal, ignored, collecting,
                       collectMeasurementState, collectMeasurementOffset, calData,
                       collected, during, carried>>
        /\ ~during /\ ~during'
    BY DEF engine, settings, average, ecal, collect, IInv, Setting
  <1>2. Types'
    <2>1. /\ UIStores \in Tails /\ RegisterStores \in Tails /\ AveragingStores \in Tails
          /\ CollectStores \in Tails /\ SaveStores \in Tails /\ <<>> \in Tails
      BY DEF Tails, UITails, RegisterTails, RestartTails, CollectTails, SaveTails
    <2>2. todo' \in Tails
      BY <2>1
    <2>3. avg' \in 1 .. MaxAverage
      BY AcquisitionAssumption
    <2>4. TypeOK'
      BY <1>1, <2>3 DEF IInv, Types, TypeOK
    <2> QED  BY <2>2, <2>4 DEF Types
  <1>3. /\ (todo \in UITails \cup RegisterTails)' <=> todo' \in {UIStores, RegisterStores}
        /\ (todo \in CollectTails)' <=> todo' = CollectStores
        /\ ~(todo \in UITails \ {UIStores})'
        /\ todo' \in {UIStores, RegisterStores} => Head(todo') \notin {"restart", "measuring"}
    <2>1. /\ <<>> \notin UITails \cup RegisterTails /\ <<>> \notin CollectTails
          /\ AveragingStores \notin UITails \cup RegisterTails
          /\ AveragingStores \notin CollectTails
          /\ SaveStores \notin UITails \cup RegisterTails /\ SaveStores \notin CollectTails
      BY TailFacts DEF RestartTails, SaveTails
    <2>2. /\ UIStores \in UITails /\ RegisterStores \in RegisterTails
          /\ CollectStores \in CollectTails
      BY DEF UITails, RegisterTails, CollectTails
    <2>3. /\ CollectStores \notin UITails \cup RegisterTails
          /\ UIStores \notin CollectTails /\ RegisterStores \notin CollectTails
          /\ RegisterStores \notin UITails
      BY <2>2, TailFacts
    <2>4. Head(UIStores) = "full" /\ Head(RegisterStores) = "points"
      BY DEF UIStores, RegisterStores
    <2>5. /\ (todo \in UITails \cup RegisterTails)' <=> todo' \in UITails \cup RegisterTails
          /\ (todo \in CollectTails)' <=> todo' \in CollectTails
          /\ (todo \in UITails \ {UIStores})' <=> todo' \in UITails \ {UIStores}
      BY DEF UITails, RegisterTails, CollectTails, UIStores, RegisterStores, CollectStores
    <2> QED  BY <2>1, <2>2, <2>3, <2>4, <2>5
  <1>4. Setting'
    <2>1. <<>> # UIStores
      BY DEF UIStores
    <2>2. UsbConfig(hostSweep)' = UsbConfig(hostSweep')
      BY DEF UsbConfig
    <2>3. (SameSweep(target, uiSweep) \/ SameSweep(target, UsbConfig(hostSweep)))'
      BY <2>2 DEF SameSweep
    <2>4. measurement_mode' \in {"FULL", configured'} \/ todo' = UIStores
      BY <1>1, <2>1 DEF IInv, Setting
    <2>5. /\ restarting' => changing'
          /\ ~changing' => /\ index' = 0 \/ index' < sweep'.points
                           /\ frequency' = FreqAt(index)'
      BY <1>1 DEF IInv, Setting, FreqAt
    <2>6. (UIStores)' = UIStores
      BY DEF UIStores
    <2> QED  BY <1>1, <2>3, <2>4, <2>5, <2>6 DEF Setting
  <1>5. SettingBack'
    <2>1. MeasuringToCome' <=> todo' \in {UIStores, RegisterStores}
      BY <1>3 DEF MeasuringToCome
    <2>2. Head(todo)' = Head(todo')
      OBVIOUS
    <2> QED  BY <1>3, <2>1, <2>2 DEF SettingBack
  <1>6. Collecting'
    <2>1. Collecting
      BY DEF IInv
    <2>2. collecting' = collecting /\ collected' = collected
          /\ UNCHANGED <<collectMeasurementState, restarting>>
      BY <1>1
    <2>3. collecting /\ undisturbed' => undisturbed /\ todo' = <<>>
      BY <2>1 DEF Collecting
    <2>4. todo' = CollectStores => ui_disabled' /\ ~collecting /\ ~collected
      BY <2>1 DEF Collecting
    <2> QED  BY <1>3, <2>1, <2>2, <2>3, <2>4 DEF Collecting
  <1>7. EcalInv'
    <2> SUFFICES ASSUME Current'
                 PROVE  /\ Place'
                        /\ \/ Covered(target.points)'
                           \/ ~collected' /\ (Paused' \/ Pass')
      BY DEF EcalInv
    <2>1. /\ SameSweep(target', uiSweep') /\ ~lastUSBDataMode' /\ ~lateCallback'
          /\ ~(collected /\ ~undisturbed')
          /\ todo' \notin {UIStores, RegisterStores}
      BY <1>1, <1>3 DEF Current, SameSweep, LateCallback, MeasuringToCome
    <2>2. /\ SameSweep(target, uiSweep) /\ ~lastUSBDataMode /\ ~lateCallback
          /\ SameSweep(target', target)
      BY <2>1
    <2>3. ~LateCallback
      <3>1. collected => ui_disabled
        BY DEF IInv, Collecting
      <3> QED  BY <2>1, <2>2, <3>1 DEF LateCallback
    <2>4. ~MeasuringToCome /\ todo \notin CollectTails
      BY TailFacts DEF MeasuringToCome
    <2>5. /\ Place
          /\ Covered(target.points) \/ (~collected /\ (Paused \/ Pass))
      BY <2>2, <2>3, <2>4 DEF IInv, EcalInv, Current
    <2>6. Place'
      BY <1>1, <2>2, <2>5 DEF Place, SameSweep
    <2>7. Covered(target.points) => Covered(target.points)'
      BY <1>1, <2>2 DEF Covered, Good, SameSweep
    <2>8. Paused => Paused'
      BY <1>1 DEF Paused
    <2>9. Pass => Pass'
      <3> SUFFICES ASSUME Pass
                   PROVE  Pass'
        OBVIOUS
      <3>1. ecalState = "MEASURING" \/ (ecalState = "2NDSWEEP" /\ collecting)
        BY <2>4 DEF Pass
      <3>2. measurement_mode = "FULL" /\ everyPoint
        BY DEF Pass
      <3>3. restarting \/ Covered(index)'
        BY <1>1, <2>2 DEF Pass, Covered, Good, SameSweep
      <3>4. collecting /\ undisturbed' => undisturbed
        BY DEF IInv, Collecting
      <3>5. collecting' /\ undisturbed' /\ collectMeasurementState' = 1 =>
               \/ collectMeasurementOffset' = target'.points - 1
               \/ collectMeasurementOffset' < index'
        BY <1>1, <2>2, <3>4 DEF Pass, SameSweep
      <3> QED  BY <1>1, <3>1, <3>2, <3>3, <3>5 DEF Pass
    <2> QED  BY <1>1, <2>5, <2>6, <2>7, <2>8, <2>9
  <1> QED  BY <1>2, <1>4, <1>5, <1>6, <1>7 DEF IInv


\* The facts of IInv those steps need.
LEMMA MainFacts ==
    ASSUME IInv
    PROVE  /\ target \in Configurations /\ uiSweep \in UISweeps /\ hostSweep \in HostValues
           /\ configured \in Modes /\ dataPointsPerFreq \in 0 .. MaxAverage
           /\ avg \in AnyAverage /\ changes \in 0 .. MaxChanges
           /\ {usbDataMode, lastUSBDataMode, ui_disabled, undisturbed, lateCallback}
                 \subseteq BOOLEAN
           /\ plotted \in [Indices -> SUBSET Freqs]
           /\ usbTxQueue \in Seq([freqIndex : Indices, value : SUBSET Freqs])
           /\ Len(usbTxQueue) < QueueSize
           /\ SameSweep(target, uiSweep) \/ SameSweep(target, UsbConfig(hostSweep))
           /\ SameSweep(target, target)
           /\ MaxChanges \in Nat
  BY AcquisitionAssumption DEF IInv, Types, TypeOK, Setting, SameSweep

LEMMA ChangesGrow ==
    ASSUME IInv, changes < MaxChanges, changes' = changes + 1
    PROVE  changes' \in 0 .. MaxChanges
  BY MainFacts

LEMMA SetSweepInv ==
    ASSUME IInv, SetSweep
    PROVE  IInv'
  <1>1. /\ todo = <<>> /\ changes < MaxChanges /\ changes' = changes + 1
        /\ todo' = UIStores
        /\ UNCHANGED <<engine, settings, average, ecal, collect, usbTxQueue, plotted,
                       during, carried, dataPointsPerFreq, hostSweep, usbDataMode,
                       lastUSBDataMode, ui_disabled>>
        /\ uiSweep' \in UISweeps /\ configured' \in Modes
        /\ avg' \in {avg} \cup RecalledAverages
        /\ target' = UIConfig(uiSweep', avg')
        /\ undisturbed' = FALSE /\ lateCallback' = FALSE
    BY DEF SetSweep, Begin
  <1>2. avg' \in AnyAverage
    BY <1>1, MainFacts DEF AnyAverage
  <1>3. target' \in Configurations /\ SameSweep(target', uiSweep')
    BY <1>1, <1>2, ConfigTypes
  <1>4. changes' \in 0 .. MaxChanges
    BY <1>1, ChangesGrow
  <1>5. /\ hostSweep' \in HostValues /\ dataPointsPerFreq' \in 0 .. MaxAverage
        /\ {usbDataMode', lastUSBDataMode', ui_disabled', undisturbed', lateCallback'}
              \subseteq BOOLEAN
        /\ plotted' \in [Indices -> SUBSET Freqs]
        /\ usbTxQueue' \in Seq([freqIndex : Indices, value : SUBSET Freqs])
        /\ Len(usbTxQueue') < QueueSize
    BY <1>1, MainFacts
  <1>6. UIStores # CollectStores
    BY DEF UIStores, CollectStores
  <1> QED  BY <1>1, <1>2, <1>3, <1>4, <1>5, <1>6, ChangeInv


\* The literals of the changes differ.
LEMMA StoresDiffer ==
    /\ UIStores # <<>> /\ RegisterStores # <<>> /\ CollectStores # <<>>
    /\ UIStores # CollectStores /\ RegisterStores # CollectStores
    /\ \A t \in {<<>>, AveragingStores, SaveStores} :
          t \notin {UIStores, RegisterStores, CollectStores}
    /\ CollectStores \notin {UIStores, RegisterStores}
    /\ USBStores = AveragingStores
  <1>1. /\ UIStores \in UITails /\ RegisterStores \in RegisterTails
        /\ CollectStores \in CollectTails
        /\ AveragingStores \in RestartTails /\ SaveStores \in SaveTails
    BY DEF UITails, RegisterTails, CollectTails, RestartTails, SaveTails
  <1>2. USBStores = AveragingStores
    BY DEF USBStores, AveragingStores
  <1> QED  BY <1>1, <1>2, TailFacts

LEMMA SetAveragingInv ==
    ASSUME IInv, SetAveraging
    PROVE  IInv'
  <1>1. /\ todo = <<>> /\ changes < MaxChanges /\ changes' = changes + 1
        /\ \/ todo' = <<>> /\ UNCHANGED <<dataPointsPerFreq, target>>
           \/ /\ todo' = AveragingStores /\ dataPointsPerFreq' = avg'
              /\ target' = Repeating(target, avg')
        /\ UNCHANGED <<engine, settings, average, ecal, collect, usbTxQueue, plotted,
                       during, carried, hostSweep, uiSweep, configured, usbDataMode,
                       lastUSBDataMode, ui_disabled, lateCallback>>
        /\ avg' \in Averages \cup HostAverages
        /\ undisturbed' = FALSE
    BY DEF SetAveraging, Begin
  <1>2. avg' \in AnyAverage
    BY <1>1, MainFacts DEF AnyAverage
  <1>3. target' \in Configurations /\ SameSweep(target', target)
    <2>1. SameSweep(target, target) /\ target \in Configurations
      BY MainFacts
    <2>2. SameSweep(Repeating(target, avg'), target)
             /\ Repeating(target, avg') \in Configurations
      BY <1>2, <2>1, ConfigTypes
    <2> QED  BY <1>1, <2>1, <2>2
  <1>4. changes' \in 0 .. MaxChanges
    BY <1>1, ChangesGrow
  <1>5. /\ hostSweep' \in HostValues /\ uiSweep' \in UISweeps /\ configured' \in Modes
        /\ {usbDataMode', lastUSBDataMode', ui_disabled', undisturbed', lateCallback'}
              \subseteq BOOLEAN
        /\ plotted' \in [Indices -> SUBSET Freqs]
        /\ usbTxQueue' \in Seq([freqIndex : Indices, value : SUBSET Freqs])
        /\ Len(usbTxQueue') < QueueSize
    BY <1>1, MainFacts
  <1>6. dataPointsPerFreq' \in 0 .. MaxAverage
    <2>1. avg' \in 0 .. MaxAverage
      BY <1>2, AcquisitionAssumption
    <2> QED  BY <1>1, <2>1, MainFacts
  <1>7. /\ SameSweep(target', uiSweep') \/ SameSweep(target', UsbConfig(hostSweep'))
        /\ SameSweep(target', uiSweep') => SameSweep(target, uiSweep)
    <2>1. UNCHANGED <<uiSweep, hostSweep>>
      BY <1>1
    <2>2. SameSweep(target, uiSweep) \/ SameSweep(target, UsbConfig(hostSweep))
      BY MainFacts
    <2>3. UsbConfig(hostSweep') = UsbConfig(hostSweep)
      BY <2>1
    <2> QED  BY <1>3, <2>1, <2>2, <2>3 DEF SameSweep
  <1>8. todo' \notin {UIStores, RegisterStores, CollectStores}
    BY <1>1, StoresDiffer
  <1> QED  BY <1>1, <1>2, <1>3, <1>4, <1>5, <1>6, <1>7, <1>8, ChangeInv

LEMMA CalCollectInv ==
    ASSUME IInv, CalCollect
    PROVE  IInv'
  <1>1. /\ todo = <<>> /\ changes < MaxChanges /\ changes' = changes + 1
        /\ todo' = CollectStores
        /\ UNCHANGED <<engine, settings, average, ecal, collect, usbTxQueue, plotted,
                       during, carried, hostSweep, uiSweep, configured, avg, target,
                       dataPointsPerFreq, usbDataMode, lastUSBDataMode, lateCallback>>
        /\ ~ui_disabled /\ ui_disabled' = TRUE /\ undisturbed' = TRUE
    BY DEF CalCollect, Begin, UIActive, props
  <1>2. changes' \in 0 .. MaxChanges
    BY <1>1, ChangesGrow
  <1>3. /\ hostSweep' \in HostValues /\ uiSweep' \in UISweeps /\ configured' \in Modes
        /\ target' \in Configurations /\ avg' \in AnyAverage
        /\ dataPointsPerFreq' \in 0 .. MaxAverage
        /\ {usbDataMode', lastUSBDataMode', ui_disabled', undisturbed', lateCallback'}
              \subseteq BOOLEAN
        /\ plotted' \in [Indices -> SUBSET Freqs]
        /\ usbTxQueue' \in Seq([freqIndex : Indices, value : SUBSET Freqs])
        /\ Len(usbTxQueue') < QueueSize
    BY <1>1, MainFacts
  <1>4. /\ SameSweep(target', uiSweep') \/ SameSweep(target', UsbConfig(hostSweep'))
        /\ SameSweep(target', target)
        /\ SameSweep(target', uiSweep') => SameSweep(target, uiSweep)
    BY <1>1, MainFacts DEF SameSweep
  <1>5. todo' \notin {UIStores, RegisterStores}
    BY <1>1, StoresDiffer
  <1> QED  BY <1>1, <1>2, <1>3, <1>4, <1>5, ChangeInv

LEMMA CaldataSaveInv ==
    ASSUME IInv, CaldataSave
    PROVE  IInv'
  <1>1. /\ todo = <<>> /\ changes < MaxChanges /\ changes' = changes + 1
        /\ todo' = SaveStores
        /\ UNCHANGED <<engine, settings, average, ecal, collect, usbTxQueue, plotted,
                       during, carried, hostSweep, uiSweep, configured, avg, target,
                       dataPointsPerFreq, usbDataMode, lastUSBDataMode, ui_disabled,
                       lateCallback, undisturbed>>
        /\ ~ui_disabled
    BY DEF CaldataSave, Begin, UIActive, props, history
  <1>2. changes' \in 0 .. MaxChanges
    BY <1>1, ChangesGrow
  <1>3. /\ hostSweep' \in HostValues /\ uiSweep' \in UISweeps /\ configured' \in Modes
        /\ target' \in Configurations /\ avg' \in AnyAverage
        /\ dataPointsPerFreq' \in 0 .. MaxAverage
        /\ {usbDataMode', lastUSBDataMode', ui_disabled', undisturbed', lateCallback'}
              \subseteq BOOLEAN
        /\ plotted' \in [Indices -> SUBSET Freqs]
        /\ usbTxQueue' \in Seq([freqIndex : Indices, value : SUBSET Freqs])
        /\ Len(usbTxQueue') < QueueSize
    BY <1>1, MainFacts
  <1>4. /\ SameSweep(target', uiSweep') \/ SameSweep(target', UsbConfig(hostSweep'))
        /\ SameSweep(target', target)
        /\ SameSweep(target', uiSweep') => SameSweep(target, uiSweep)
    BY <1>1, MainFacts DEF SameSweep
  <1>5. todo' \notin {UIStores, RegisterStores, CollectStores}
    BY <1>1, StoresDiffer
  <1> QED  BY <1>1, <1>2, <1>3, <1>4, <1>5, ChangeInv

LEMMA HostSetSweepInv ==
    ASSUME IInv, HostSetSweep
    PROVE  IInv'
  <1>1. /\ todo = <<>> /\ changes < MaxChanges /\ changes' = changes + 1
        /\ todo' = RegisterStores
        /\ UNCHANGED <<engine, settings, average, ecal, collect, usbTxQueue, plotted,
                       during, carried, uiSweep, configured, avg, dataPointsPerFreq,
                       lastUSBDataMode, ui_disabled, lateCallback>>
        /\ usbDataMode' = TRUE /\ undisturbed' = FALSE
        /\ hostSweep' \in HostSweeps /\ target' = UsbConfig(hostSweep')
    BY DEF HostSetSweep, Begin
  <1>2. changes' \in 0 .. MaxChanges
    BY <1>1, ChangesGrow
  <1>3. hostSweep' \in HostValues /\ target' \in Configurations
    BY <1>1, ConfigTypes
  <1>4. /\ uiSweep' \in UISweeps /\ configured' \in Modes /\ avg' \in AnyAverage
        /\ dataPointsPerFreq' \in 0 .. MaxAverage
        /\ {usbDataMode', lastUSBDataMode', ui_disabled', undisturbed', lateCallback'}
              \subseteq BOOLEAN
        /\ plotted' \in [Indices -> SUBSET Freqs]
        /\ usbTxQueue' \in Seq([freqIndex : Indices, value : SUBSET Freqs])
        /\ Len(usbTxQueue') < QueueSize
    BY <1>1, MainFacts
  <1>5. SameSweep(target', UsbConfig(hostSweep'))
    BY <1>1 DEF SameSweep
  <1>6. todo' # CollectStores
    BY <1>1, StoresDiffer
  <1> QED  BY <1>1, <1>2, <1>3, <1>4, <1>5, <1>6, ChangeInv

LEMMA HostSetValuesInv ==
    ASSUME IInv, HostSetValues
    PROVE  IInv'
  <1>1. /\ todo = <<>> /\ changes < MaxChanges /\ changes' = changes + 1
        /\ todo' = USBStores
        /\ UNCHANGED <<engine, settings, average, ecal, collect, usbTxQueue, plotted,
                       during, carried, uiSweep, configured, avg, dataPointsPerFreq,
                       lastUSBDataMode, ui_disabled, lateCallback>>
        /\ usbDataMode' = TRUE /\ undisturbed' = FALSE
        /\ \E h \in HostSweeps : hostSweep' = Repeating(hostSweep, h.repeats)
        /\ target' = UsbConfig(hostSweep')
    BY DEF HostSetValues, Begin
  <1>2. changes' \in 0 .. MaxChanges
    BY <1>1, ChangesGrow
  <1>3. /\ hostSweep' \in HostValues /\ target' \in Configurations
        /\ SameSweep(target', UsbConfig(hostSweep))
    BY <1>1, ConfigTypes, MainFacts
  <1>4. /\ uiSweep' \in UISweeps /\ configured' \in Modes /\ avg' \in AnyAverage
        /\ dataPointsPerFreq' \in 0 .. MaxAverage
        /\ {usbDataMode', lastUSBDataMode', ui_disabled', undisturbed', lateCallback'}
              \subseteq BOOLEAN
        /\ plotted' \in [Indices -> SUBSET Freqs]
        /\ usbTxQueue' \in Seq([freqIndex : Indices, value : SUBSET Freqs])
        /\ Len(usbTxQueue') < QueueSize
    BY <1>1, MainFacts
  <1>5. SameSweep(target', UsbConfig(hostSweep'))
    BY <1>1 DEF SameSweep
  <1>6. SameSweep(target', uiSweep') =>
           SameSweep(target, uiSweep) /\ SameSweep(target', target)
    BY <1>1, <1>3, MainFacts DEF SameSweep
  <1>7. todo' = AveragingStores /\ todo' \notin {UIStores, RegisterStores, CollectStores}
    BY <1>1, StoresDiffer
  <1> QED  BY <1>1, <1>2, <1>3, <1>4, <1>5, <1>6, <1>7, ChangeInv

\* The main loop begins to set the sweep of the new mode.
LEMMA NoticeInv ==
    ASSUME IInv, NoticeUSBDataMode \/ NoticeUIMode
    PROVE  IInv'
  <1>1. /\ todo = <<>> /\ changes' = changes
        /\ \/ /\ todo' = USBStores /\ target' = UsbConfig(hostSweep)
              /\ lastUSBDataMode'
           \/ todo' = UIStores /\ target' = UIConfig(uiSweep, avg)
        /\ UNCHANGED <<engine, settings, average, ecal, collect, usbTxQueue, plotted,
                       during, carried, hostSweep, uiSweep, configured, avg,
                       dataPointsPerFreq, usbDataMode, ui_disabled>>
        /\ lastUSBDataMode' = usbDataMode
        /\ undisturbed' = FALSE /\ lateCallback' = FALSE
    BY DEF NoticeUSBDataMode, NoticeUIMode, StartChange, props
  <1>2. target' \in Configurations
    BY <1>1, ConfigTypes, MainFacts
  <1>3. /\ hostSweep' \in HostValues /\ uiSweep' \in UISweeps /\ configured' \in Modes
        /\ avg' \in AnyAverage /\ changes' \in 0 .. MaxChanges
        /\ dataPointsPerFreq' \in 0 .. MaxAverage
        /\ {usbDataMode', lastUSBDataMode', ui_disabled', undisturbed', lateCallback'}
              \subseteq BOOLEAN
        /\ plotted' \in [Indices -> SUBSET Freqs]
        /\ usbTxQueue' \in Seq([freqIndex : Indices, value : SUBSET Freqs])
        /\ Len(usbTxQueue') < QueueSize
    BY <1>1, MainFacts
  <1>4. SameSweep(target', uiSweep') \/ SameSweep(target', UsbConfig(hostSweep'))
    <2>1. hostSweep' = hostSweep /\ uiSweep' = uiSweep
      BY <1>1
    <2>2. SameSweep(UIConfig(uiSweep, avg), uiSweep)
      BY ConfigTypes, MainFacts
    <2>3. SameSweep(UsbConfig(hostSweep), UsbConfig(hostSweep))
      BY DEF SameSweep
    <2> QED  BY <1>1, <2>1, <2>2, <2>3
  <1>5. /\ todo' \in {UIStores, AveragingStores} /\ todo' # CollectStores
        /\ lastUSBDataMode' \/ todo' \in {UIStores, RegisterStores}
    BY <1>1, StoresDiffer
  <1> QED  BY <1>1, <1>2, <1>3, <1>4, <1>5, ChangeInv


\* A step of the main thread or of a host that sets nothing.
LEMMA QuietInv ==
    ASSUME IInv, todo = <<>>, todo' = <<>>,
           UNCHANGED <<engine, settings, average, ecal, collect, during, carried,
                       target, uiSweep, hostSweep, configured, dataPointsPerFreq, avg,
                       lastUSBDataMode, ui_disabled, lateCallback>>,
           usbDataMode' \in BOOLEAN, changes' \in 0 .. MaxChanges,
           undisturbed' \in {FALSE, undisturbed},
           plotted' \in [Indices -> SUBSET Freqs],
           usbTxQueue' \in Seq([freqIndex : Indices, value : SUBSET Freqs]),
           Len(usbTxQueue') < QueueSize
    PROVE  IInv'
  <1>1. /\ hostSweep' \in HostValues /\ uiSweep' \in UISweeps /\ configured' \in Modes
        /\ target' \in Configurations /\ avg' \in AnyAverage
        /\ dataPointsPerFreq' \in 0 .. MaxAverage
        /\ {usbDataMode', lastUSBDataMode', ui_disabled', undisturbed', lateCallback'}
              \subseteq BOOLEAN
    BY MainFacts
  <1>2. /\ SameSweep(target', uiSweep') \/ SameSweep(target', UsbConfig(hostSweep'))
        /\ SameSweep(target', target)
        /\ SameSweep(target', uiSweep') => SameSweep(target, uiSweep)
    BY MainFacts
  <1>3. todo' \notin {UIStores, RegisterStores, CollectStores}
    BY StoresDiffer
  <1>4. undisturbed' => undisturbed
    OBVIOUS
  <1> QED  BY <1>1, <1>2, <1>3, <1>4, ChangeInv

LEMMA HostQuietInv ==
    ASSUME IInv, ExitUSBDataMode \/ CmdReadFIFO \/ HostClearFIFO
    PROVE  IInv'
  <1> DEFINE Queues == Seq([freqIndex : Indices, value : SUBSET Freqs])
  <1>1. /\ todo = <<>> /\ todo' = <<>>
        /\ UNCHANGED <<engine, settings, average, ecal, collect, during, carried,
                       target, uiSweep, hostSweep, configured, dataPointsPerFreq, avg,
                       lastUSBDataMode, ui_disabled, lateCallback, plotted>>
        /\ undisturbed' \in {FALSE, undisturbed}
        /\ usbDataMode' \in {TRUE, FALSE, usbDataMode}
        /\ changes' = changes \/ (changes < MaxChanges /\ changes' = changes + 1)
    BY DEF ExitUSBDataMode, CmdReadFIFO, HostClearFIFO, props, main, display, history
  <1>2. usbTxQueue \in Queues /\ Len(usbTxQueue) < QueueSize /\ QueueSize \in Nat
        /\ usbDataMode \in BOOLEAN /\ plotted \in [Indices -> SUBSET Freqs]
        /\ 0 < QueueSize
    BY MainFacts, AcquisitionAssumption
  <1>3. changes' \in 0 .. MaxChanges
    BY <1>1, ChangesGrow, MainFacts
  <1>4. usbTxQueue' \in Queues /\ Len(usbTxQueue') < QueueSize
    <2>1. CASE usbTxQueue' = usbTxQueue
      BY <1>2, <2>1
    <2>2. CASE usbTxQueue' = <<>>
      <3>1. <<>> \in Queues /\ Len(<<>>) = 0
        OBVIOUS
      <3> QED  BY <1>2, <2>2, <3>1
    <2>3. CASE usbTxQueue # <<>> /\ usbTxQueue' = Tail(usbTxQueue)
      <3>1. Tail(usbTxQueue) \in Queues /\ Len(Tail(usbTxQueue)) = Len(usbTxQueue) - 1
        <4> HIDE DEF Queues
        <4> QED  BY <1>2, <2>3, HeadTailProperties DEF Queues
      <3>2. Len(usbTxQueue) \in Nat
        BY <1>2
      <3> QED  BY <1>2, <2>3, <3>1, <3>2
    <2> QED  BY <2>1, <2>2, <2>3 DEF ExitUSBDataMode, CmdReadFIFO, HostClearFIFO
  <1> HIDE DEF Queues
  <1> QED  BY <1>1, <1>2, <1>3, <1>4, QuietInv DEF Queues

LEMMA ProcessInv ==
    ASSUME IInv, ProcessDataPoint
    PROVE  IInv'
  <1> DEFINE Point  == [freqIndex : Indices, value : SUBSET Freqs]
             Before == {n \in DOMAIN usbTxQueue :
                          \A m \in 1 .. n - 1 : ~LastOfSweep(usbTxQueue[m].freqIndex)}
  <1>1. /\ todo = <<>> /\ todo' = <<>>
        /\ UNCHANGED <<engine, settings, average, ecal, collect, during, carried,
                       target, uiSweep, hostSweep, configured, dataPointsPerFreq, avg,
                       lastUSBDataMode, ui_disabled, lateCallback, undisturbed,
                       usbDataMode, changes>>
        /\ plotted' = [i \in Indices |-> PlottedAfter(i)]
        /\ usbTxQueue' = SubSeq(usbTxQueue, Taken + 1, Len(usbTxQueue))
    BY DEF ProcessDataPoint, props, main, display, history
  <1>2. /\ usbTxQueue \in Seq(Point) /\ Len(usbTxQueue) < QueueSize
        /\ QueueSize \in Nat /\ plotted \in [Indices -> SUBSET Freqs]
        /\ usbDataMode \in BOOLEAN /\ changes \in 0 .. MaxChanges
        /\ Len(usbTxQueue) \in Nat /\ DOMAIN usbTxQueue = 1 .. Len(usbTxQueue)
    BY MainFacts, AcquisitionAssumption
  <1>3. Taken \in 0 .. Len(usbTxQueue)
    <2>1. IsFiniteSet(1 .. Len(usbTxQueue))
          /\ Cardinality(1 .. Len(usbTxQueue)) = Len(usbTxQueue)
      <3>1. 1 \in Int /\ Len(usbTxQueue) \in Int
        BY <1>2
      <3>2. IsFiniteSet(1 .. Len(usbTxQueue))
            /\ Cardinality(1 .. Len(usbTxQueue))
                  = IF 1 > Len(usbTxQueue) THEN 0 ELSE Len(usbTxQueue) - 1 + 1
        BY <3>1, FS_Interval, Zenon
      <3> QED  BY <1>2, <3>2
    <2>2. Before \subseteq 1 .. Len(usbTxQueue)
      BY <1>2
    <2>3. /\ IsFiniteSet(Before) /\ Cardinality(Before) \in Nat
          /\ Cardinality(Before) <= Cardinality(1 .. Len(usbTxQueue))
      <3> HIDE DEF Before
      <3> QED  BY <2>1, <2>2, FS_Subset, FS_CardinalityType
    <2>4. Taken = Cardinality(Before)
      BY DEF Taken
    <2> HIDE DEF Before
    <2> QED  BY <1>2, <2>1, <2>3, <2>4
  <1>4. \A i \in Indices : PlottedAfter(i) \in SUBSET Freqs
    <2> TAKE i \in Indices
    <2>1. \A n \in 1 .. Taken : usbTxQueue[n].value \in SUBSET Freqs
      <3>1. \A n \in 1 .. Taken : n \in 1 .. Len(usbTxQueue)
        BY <1>2, <1>3
      <3>2. \A n \in 1 .. Len(usbTxQueue) : usbTxQueue[n] \in Point
        <4> HIDE DEF Point
        <4> QED  BY <1>2
      <3>3. \A x \in Point : x.value \in SUBSET Freqs
        OBVIOUS
      <3> HIDE DEF Point
      <3> QED  BY <3>1, <3>2, <3>3
    <2>2. plotted[i] \in SUBSET Freqs
      BY <1>2
    <2> DEFINE of   == {n \in 1 .. Taken : usbTxQueue[n].freqIndex = i}
               last == {n \in of : \A m \in of : m <= n}
               Latest == UNION {usbTxQueue[n].value : n \in last}
    <2>3. last \subseteq 1 .. Taken
      OBVIOUS
    <2>4. Latest \in SUBSET Freqs
      <3> HIDE DEF last
      <3> QED  BY <2>1, <2>3
    <2>5. PlottedAfter(i) = IF of = {} THEN plotted[i] ELSE Latest
      BY DEF PlottedAfter
    <2> HIDE DEF of, Latest
    <2> QED  BY <2>2, <2>4, <2>5
  <1>5. usbTxQueue' \in Seq(Point) /\ Len(usbTxQueue') < QueueSize
    <2>1. /\ usbTxQueue' \in Seq(Point)
          /\ Len(usbTxQueue') = Len(usbTxQueue) - Taken
      <3> HIDE DEF Point
      <3>1. \A k \in Taken + 1 .. Len(usbTxQueue) : usbTxQueue[k] \in Point
        BY <1>2, <1>3
      <3>2. Taken + 1 \in Int /\ Len(usbTxQueue) \in Int
        BY <1>2, <1>3
      <3> DEFINE rest == SubSeq(usbTxQueue, Taken + 1, Len(usbTxQueue))
      <3>3. /\ rest \in Seq(Point)
            /\ Len(rest) = IF Taken + 1 <= Len(usbTxQueue)
                           THEN Len(usbTxQueue) - (Taken + 1) + 1 ELSE 0
        <4> DEFINE m == Taken + 1  n == Len(usbTxQueue)
        <4>1. m \in Int /\ n \in Int /\ \A k \in m .. n : usbTxQueue[k] \in Point
          BY <3>1, <3>2
        <4> HIDE DEF m, n
        <4>2. /\ SubSeq(usbTxQueue, m, n) \in Seq(Point)
              /\ Len(SubSeq(usbTxQueue, m, n)) = IF m <= n THEN n - m + 1 ELSE 0
          BY <4>1, SubSeqProperties
        <4> QED  BY <4>2 DEF m, n
      <3> HIDE DEF rest
      <3>4. usbTxQueue' = rest
        BY <1>1 DEF rest
      <3>5. \A l \in Nat : \A k \in 0 .. l :
               (IF k + 1 <= l THEN l - (k + 1) + 1 ELSE 0) = l - k
        OBVIOUS
      <3>6. Len(rest) = Len(usbTxQueue) - Taken
        BY <1>2, <1>3, <3>3, <3>5
      <3> QED  BY <3>3, <3>4, <3>6
    <2> QED  BY <1>2, <1>3, <2>1
  <1>6. plotted' \in [Indices -> SUBSET Freqs]
    BY <1>1, <1>4
  <1> QED  BY <1>1, <1>2, <1>5, <1>6, QuietInv


LEMMA CalDoneInv ==
    ASSUME IInv, CalDone
    PROVE  IInv'
  <1>1. /\ todo = <<>> /\ ~ui_disabled /\ measurement_mode' = configured
        /\ changes' = changes + 1 /\ changes < MaxChanges
        /\ UNCHANGED <<sweep, changing, index, repeat, frequency, sweepPoints, restarting,
                       everyPoint, dataPointsPerFreq, currDPCnt, lastFreqIndex, currDP,
                       ecalState, ecalIgnoreValues, measuredEcal, ignored, collecting,
                       collectMeasurementState, collectMeasurementOffset, calData,
                       collected, usbTxQueue, avg, configured, uiSweep, hostSweep,
                       usbDataMode, lastUSBDataMode, ui_disabled, plotted, todo, target,
                       during, undisturbed, lateCallback, carried>>
    BY DEF CalDone, UIActive, engine, average, ecal, collect, props, display, history
  <1>2. ~collecting /\ ~collected /\ ~MeasuringToCome /\ todo \notin CollectTails
    BY <1>1, TailFacts DEF IInv, Collecting, MeasuringToCome
  <1>3. Types'
    <2>1. measurement_mode' \in Modes /\ changes' \in 0 .. MaxChanges
      BY <1>1, MainFacts, ChangesGrow
    <2>2. TypeOK'
      BY <1>1, <2>1 DEF IInv, Types, TypeOK
    <2> QED  BY <1>1, <2>2 DEF IInv, Types
  <1>4. Setting'
    <2>1. UsbConfig(hostSweep)' = UsbConfig(hostSweep)
      BY <1>1 DEF UsbConfig
    <2> QED  BY <1>1, <2>1 DEF IInv, Setting, SameSweep, FreqAt
  <1>5. ~MeasuringToCome' /\ ~(todo \in UITails \ {UIStores})' /\ ~(todo \in CollectTails)'
    BY <1>1, <1>2 DEF MeasuringToCome, UITails, RegisterTails, CollectTails, UIStores,
                      RegisterStores, CollectStores
  <1>6. SettingBack'
    BY <1>5 DEF SettingBack
  <1>7. Collecting'
    BY <1>1, <1>2, <1>5 DEF IInv, Collecting
  <1>8. EcalInv'
    <2> SUFFICES ASSUME Current'
                 PROVE  /\ Place'
                        /\ \/ Covered(target.points)'
                           \/ ~collected' /\ (Paused' \/ Pass')
      BY DEF EcalInv
    <2>1. Current
      BY <1>1, <1>2 DEF Current, SameSweep, LateCallback
    <2>2. /\ Place
          /\ Covered(target.points) \/ (~collected /\ (Paused \/ Pass))
      BY <2>1 DEF IInv, EcalInv
    <2>3. Place'
      BY <1>1, <2>2 DEF Place, SameSweep
    <2>4. Covered(target.points) => Covered(target.points)'
      BY <1>1 DEF Covered, Good
    <2>5. Paused => Paused'
      <3>1. measurement_mode \in {"FULL", configured}
        BY <1>1, StoresDiffer DEF IInv, Setting
      <3> QED  BY <1>1, <3>1 DEF Paused
    <2>6. Pass => Paused' \/ Pass'
      <3>1. CASE measurement_mode' = "FULL"
        <4>1. Pass => measurement_mode' = measurement_mode
          BY <3>1 DEF Pass
        <4>2. Covered(index) => Covered(index)'
          BY <1>1 DEF Covered, Good
        <4>3. Pass => /\ ecalState = "MEASURING" /\ everyPoint
                      /\ restarting \/ Covered(index)
          BY <1>1, <1>2 DEF Pass
        <4> QED  BY <1>1, <1>2, <4>1, <4>2, <4>3 DEF Pass
      <3>2. CASE measurement_mode' # "FULL"
        BY <1>1, <1>2, <3>2 DEF Pass, Paused
      <3> QED  BY <3>1, <3>2
    <2> QED  BY <1>1, <2>2, <2>3, <2>4, <2>5, <2>6
  <1> QED  BY <1>3, <1>4, <1>6, <1>7, <1>8 DEF IInv

LEMMA CalCollectedInv ==
    ASSUME IInv, CalCollected
    PROVE  IInv'
  <1>1. /\ todo = <<>> /\ collected /\ collected' = FALSE /\ everyPoint' = FALSE
        /\ ui_disabled' = FALSE /\ lateCallback' = (lateCallback \/ ~undisturbed)
        /\ UNCHANGED <<sweep, changing, index, repeat, frequency, sweepPoints, restarting,
                       measurement_mode, dataPointsPerFreq, currDPCnt, lastFreqIndex,
                       currDP, ecalState, ecalIgnoreValues, measuredEcal, ignored,
                       collecting, collectMeasurementState, collectMeasurementOffset,
                       calData, usbTxQueue, avg, configured, uiSweep, hostSweep,
                       usbDataMode, lastUSBDataMode, plotted, todo, target, changes,
                       during, undisturbed, carried>>
    BY DEF CalCollected, engine, average, ecal, props, main
  <1>2. ~collecting /\ ~MeasuringToCome /\ todo \notin CollectTails
    BY <1>1, TailFacts DEF IInv, Collecting, MeasuringToCome
  <1>3. Types'
    <2>1. lateCallback' \in BOOLEAN
      BY <1>1
    <2>2. TypeOK'
      BY <1>1, <2>1 DEF IInv, Types, TypeOK
    <2> QED  BY <1>1, <2>2 DEF IInv, Types
  <1>4. Setting'
    <2>1. UsbConfig(hostSweep)' = UsbConfig(hostSweep)
      BY <1>1 DEF UsbConfig
    <2> QED  BY <1>1, <2>1 DEF IInv, Setting, SameSweep, FreqAt, UIStores
  <1>5. ~MeasuringToCome' /\ ~(todo \in UITails \ {UIStores})' /\ ~(todo \in CollectTails)'
    BY <1>1, <1>2 DEF MeasuringToCome, UITails, RegisterTails, CollectTails, UIStores,
                      RegisterStores, CollectStores
  <1>6. SettingBack'
    BY <1>5 DEF SettingBack
  <1>7. Collecting'
    BY <1>1, <1>2, <1>5 DEF IInv, Collecting
  <1>8. EcalInv'
    <2> SUFFICES ASSUME Current'
                 PROVE  Place' /\ Covered(target.points)'
      BY DEF EcalInv
    <2>1. Current
      BY <1>1, <1>2 DEF Current, SameSweep, LateCallback
    <2>2. Place /\ Covered(target.points)
      BY <1>1, <2>1 DEF IInv, EcalInv
    <2>3. Place'
      BY <1>1, <2>2 DEF Place, SameSweep
    <2>4. Covered(target.points)'
      BY <1>1, <2>2 DEF Covered, Good
    <2> QED  BY <2>3, <2>4
  <1> QED  BY <1>3, <1>4, <1>6, <1>7, <1>8 DEF IInv


-------------------------------------------------------------------------------
(* The theorems.                                                           *)

LEMMA StepInv ==
    ASSUME IInv, [Next]_vars
    PROVE  IInv'
  <1>1. CASE Interrupt
    BY <1>1, PointInv, RestartInv DEF Interrupt
  <1>2. CASE Store
    BY <1>2, StoreInv
  <1>3. CASE MainLoop
    BY <1>3, NoticeInv, ProcessInv, CalCollectedInv DEF MainLoop
  <1>4. CASE User
    BY <1>4, SetSweepInv, SetAveragingInv, CalCollectInv, CaldataSaveInv, CalDoneInv
       DEF User
  <1>5. CASE Host
    BY <1>5, HostSetSweepInv, HostSetValuesInv, HostQuietInv DEF Host
  <1>6. CASE UNCHANGED vars
    <2>1. UNCHANGED <<engine, settings, average, ecal, collect, during, carried,
                      target, uiSweep, hostSweep, configured, dataPointsPerFreq, avg,
                      lastUSBDataMode, ui_disabled, lateCallback, usbDataMode, changes,
                      undisturbed, plotted, usbTxQueue, todo>>
      BY <1>6 DEF vars, props, display, main, history
    <2>2. CASE todo = <<>>
      BY <2>1, <2>2, QuietInv, MainFacts
    <2>3. CASE todo # <<>>
      <3>1. UNCHANGED <<sweep, changing, index, repeat, frequency, sweepPoints,
                        restarting, measurement_mode, everyPoint, currDPCnt,
                        lastFreqIndex, currDP, ecalState, ecalIgnoreValues, measuredEcal,
                        ignored, collecting, collectMeasurementState,
                        collectMeasurementOffset, calData, collected>>
        BY <2>1 DEF engine, settings, average, ecal, collect
      <3> QED  BY <2>1, <3>1
               DEF IInv, Types, TypeOK, Setting, SameSweep, FreqAt, SettingBack,
                   MeasuringToCome, Collecting, EcalInv, Current, LateCallback, Place,
                   Covered, Good, Paused, Pass, UITails, RegisterTails, CollectTails,
                   UIStores, RegisterStores, CollectStores, UsbConfig
    <2> QED  BY <2>2, <2>3
  <1> QED  BY <1>1, <1>2, <1>3, <1>4, <1>5, <1>6 DEF Next

-------------------------------------------------------------------------------
(* Collections.                                                            *)

\* The changes of the main thread but for their stores.
MainThread == MainLoop \/ User \/ Host \/ UNCHANGED vars

\* What they leave alone.
LEMMA MainSteps ==
    ASSUME MainThread
    PROVE  /\ UNCHANGED <<sweep, changing, index, repeat, frequency, sweepPoints,
                          restarting, currDPCnt, lastFreqIndex, currDP, ecalIgnoreValues,
                          collecting, collectMeasurementState, collectMeasurementOffset,
                          calData, carried>>
           /\ \/ UNCHANGED <<todo, target>>
              \/ todo = <<>> /\ todo' \in {UIStores, RegisterStores, AveragingStores}
              \/ todo = <<>> /\ target' = target
                 /\ todo' \in {CollectStores, SaveStores, <<>>}
           /\ \/ ~undisturbed'
              \/ /\ undisturbed' = undisturbed
                 /\ UNCHANGED <<usbDataMode, dataPointsPerFreq, measurement_mode,
                                everyPoint, todo>>
              \/ undisturbed' = undisturbed /\ todo' = todo /\ usbDataMode
              \/ ~ui_disabled /\ todo' \in {CollectStores, SaveStores, <<>>} /\ ~usbDataMode'
              \/ collected /\ todo = <<>> /\ todo' = todo
  <1>1. CASE UNCHANGED vars
    BY <1>1 DEF vars, engine, settings, average, ecal, collect, display, main, history
  <1>2. CASE SetSweep
    BY <1>2 DEF SetSweep, Begin, engine, settings, average, ecal, collect
  <1>3. CASE SetAveraging
    BY <1>3 DEF SetAveraging, Begin, engine, settings, average, ecal, collect
  <1>4. CASE CalCollect
    BY <1>4 DEF CalCollect, UIActive, Begin, engine, settings, average, ecal, collect
  <1>5. CASE CaldataSave
    BY <1>5 DEF CaldataSave, UIActive, Begin, engine, settings, average, ecal, collect,
                history
  <1>6. CASE CalDone
    BY <1>6 DEF CalDone, UIActive, engine, average, ecal, collect, display, history
  <1>7. CASE HostSetSweep
    BY <1>7 DEF HostSetSweep, Begin, engine, settings, average, ecal, collect
  <1>8. CASE HostSetValues
    BY <1>8, StoresDiffer DEF HostSetValues, Begin, engine, settings, average, ecal, collect
  <1>9. CASE ExitUSBDataMode
    BY <1>9 DEF ExitUSBDataMode, engine, settings, average, ecal, collect, main, history
  <1>10. CASE CmdReadFIFO
    BY <1>10 DEF CmdReadFIFO, engine, settings, average, ecal, collect
  <1>11. CASE HostClearFIFO
    BY <1>11 DEF HostClearFIFO, engine, settings, average, ecal, collect, main, history,
                 display
  <1>12. CASE NoticeUSBDataMode \/ NoticeUIMode
    BY <1>12, StoresDiffer DEF NoticeUSBDataMode, NoticeUIMode, StartChange, engine,
                 settings, average, ecal, collect
  <1>13. CASE ProcessDataPoint
    BY <1>13 DEF ProcessDataPoint, engine, settings, average, ecal, collect, main, history
  <1>14. CASE CalCollected
    BY <1>14 DEF CalCollected, engine, average, ecal, main
  <1> QED  BY <1>1, <1>2, <1>3, <1>4, <1>5, <1>6, <1>7, <1>8, <1>9, <1>10, <1>11, <1>12,
              <1>13, <1>14 DEF MainThread, MainLoop, User, Host

\* The tails of each kind that have the sweep still to come.
LEMMA PointsFacts ==
    /\ \A t \in {<<>>, <<"everyPoint">>} \cup SaveTails \cup CollectTails :
          t \notin RestartToCome
    /\ PointsTails \subseteq RestartToCome
    /\ \A t \in Tails : t # <<>> =>
          /\ Head(t) = "points" => t \in PointsTails /\ Tail(t) \in RestartToCome
          /\ t \in RestartToCome => Head(t) = "restart" \/ Tail(t) \in RestartToCome
          /\ t \in PointsTails => Head(t) = "points" \/ Tail(t) \in PointsTails
  <1>1. /\ RestartToCome \subseteq UITails \cup RegisterTails \cup RestartTails
        /\ PointsTails \subseteq RestartToCome
    BY DEF RestartToCome, PointsTails, UITails, RegisterTails, RestartTails
  <1>2. \A t \in {<<>>, <<"everyPoint">>} \cup SaveTails \cup CollectTails :
          t \notin UITails \cup RegisterTails
    BY TailFacts
  <1>3. \A t \in {<<>>, <<"everyPoint">>} \cup SaveTails \cup CollectTails :
          t \notin RestartTails
    <2>1. RestartTails = {<<"points", "restart">>, <<"restart">>}
      BY DEF RestartTails, AveragingStores
    <2>2. \A t \in {<<>>, <<"everyPoint">>} \cup SaveTails :
            t \notin {<<"points", "restart">>, <<"restart">>}
      BY DEF SaveTails, SaveStores
    <2>3. \A t \in CollectTails : t \notin {<<"points", "restart">>, <<"restart">>}
      BY DEF CollectTails, CollectStores
    <2> QED  BY <2>1, <2>2, <2>3
  <1>4. \A t \in {<<>>, <<"everyPoint">>} \cup SaveTails \cup CollectTails :
          t \notin RestartToCome
    BY <1>1, <1>2, <1>3
  <1>5. ASSUME NEW t \in Tails, t # <<>>
        PROVE  /\ Head(t) = "points" => t \in PointsTails /\ Tail(t) \in RestartToCome
               /\ t \in RestartToCome => Head(t) = "restart" \/ Tail(t) \in RestartToCome
               /\ t \in PointsTails => Head(t) = "points" \/ Tail(t) \in PointsTails
    <2>1. /\ <<"restart", "measuring">> \in RestartToCome /\ <<"restart">> \in RestartToCome
          /\ <<"restart", "measuring", "everyPoint">> \in RestartToCome
          /\ <<"points", "restart", "measuring">> \in PointsTails
          /\ RegisterStores \in PointsTails /\ AveragingStores \in PointsTails
      BY DEF RestartToCome, PointsTails
    <2>2. Head(t) = "points" => t \in PointsTails /\ Tail(t) \in RestartToCome
      BY <1>5, <2>1, TailSteps
    <2>3. t = UIStores => Tail(t) = <<"points", "restart", "measuring">>
      BY DEF UIStores
    <2>4. t \in PointsTails => Head(t) = "points" \/ t = UIStores
      BY DEF PointsTails, RegisterStores, AveragingStores
    <2>5. t \in RestartToCome => t \in PointsTails \/ Head(t) = "restart"
      BY DEF RestartToCome
    <2> QED  BY <1>1, <2>1, <2>2, <2>3, <2>4, <2>5
  <1> QED  BY <1>1, <1>4, <1>5

LEMMA InForceInv ==
    ASSUME IInv, InForce, [Next]_vars
    PROVE  InForce'
  <1>0. todo \in Tails /\ todo' \in Tails /\ (restarting => changing)
    BY StepInv DEF IInv, Types, Setting
  <1>a. /\ (todo \in PointsTails)' <=> todo' \in PointsTails
        /\ (todo \in RestartToCome)' <=> todo' \in RestartToCome
    BY DEF PointsTails, RestartToCome, UIStores, RegisterStores, AveragingStores
  <1>1. CASE Interrupt /\ (EmitPoint \/ EmitOldPoint)
    <2>1. UNCHANGED <<sweep, changing, sweepPoints, restarting, todo, target>>
      BY <1>1, PointSteps DEF Interrupt, main
    <2> QED  BY <1>a, <2>1 DEF InForce
  <1>2. CASE Interrupt /\ Restart
    <2>1. UNCHANGED <<sweepPoints, todo, target>> /\ sweep' = target /\ ~changing'
      BY <1>2 DEF Interrupt, Restart, Stream!Restart, main
    <2> QED  BY <1>a, <2>1 DEF InForce
  <1>3. CASE Store
    <2>1. /\ todo # <<>> /\ todo' = Tail(todo) /\ UNCHANGED <<target, sweep>>
          /\ sweepPoints' = IF Head(todo) = "points" THEN target.points ELSE sweepPoints
          /\ changing' = (changing \/ Head(todo) \in {"points", "restart"})
          /\ restarting' = (restarting \/ Head(todo) = "restart")
      BY <1>3, StoreSteps
    <2>2. /\ Head(todo) = "points" => todo \in PointsTails /\ Tail(todo) \in RestartToCome
          /\ todo \in RestartToCome => Head(todo) = "restart" \/ Tail(todo) \in RestartToCome
          /\ todo \in PointsTails => Head(todo) = "points" \/ Tail(todo) \in PointsTails
      BY <1>0, <2>1, PointsFacts
    <2>3. todo' \notin PointsTails =>
             sweepPoints' = target'.points /\ (changing' \/ sweep' = target')
      BY <2>1, <2>2 DEF InForce
    <2>4. changing' /\ ~restarting' => todo' \in RestartToCome
      BY <2>1, <2>2 DEF InForce
    <2> QED  BY <1>a, <2>3, <2>4 DEF InForce
  <1>4. CASE MainThread
    <2>1. /\ UNCHANGED <<sweep, changing, sweepPoints, restarting>>
          /\ \/ UNCHANGED <<todo, target>>
             \/ todo = <<>> /\ todo' \in {UIStores, RegisterStores, AveragingStores}
             \/ todo = <<>> /\ target' = target
      BY <1>4, MainSteps
    <2>2. /\ UIStores \in PointsTails /\ RegisterStores \in PointsTails
          /\ AveragingStores \in PointsTails
      BY DEF PointsTails
    <2>3. <<>> \notin RestartToCome /\ PointsTails \subseteq RestartToCome
      BY PointsFacts
    <2> QED  BY <1>a, <2>1, <2>2, <2>3 DEF InForce
  <1> QED  BY <1>1, <1>2, <1>3, <1>4 DEF Next, Interrupt, MainThread

\* Averages and counts.
LEMMA CountFacts ==
    ASSUME Types
    PROVE  /\ MaxAverage \in Nat \ {0}
           /\ CountDP \in 0 .. MaxAverage
           /\ CountDP # 0 <=> lastFreqIndex = index
           /\ lastFreqIndex = index =>
                 CountDP = IF currDPCnt < MaxAverage THEN currDPCnt + 1 ELSE MaxAverage
           /\ dataPointsPerFreq \in 0 .. MaxAverage
           /\ Need \in 1 .. MaxAverage
           /\ Averaging => dataPointsPerFreq > 1 /\ Need = dataPointsPerFreq
           /\ repeat \in Nat /\ sweep.points \in Nat /\ sweep.repeats \in Nat
           /\ index \in Nat
  <1> USE AcquisitionAssumption
  <1>1. /\ currDPCnt \in 0 .. MaxAverage /\ dataPointsPerFreq \in 0 .. MaxAverage
        /\ avg \in AnyAverage /\ AnyAverage \subseteq 1 .. MaxAverage
        /\ repeat \in Nat /\ sweep \in Configurations /\ index \in Indices
    BY DEF Types, TypeOK
  <1>2. MaxAverage \in Nat \ {0}
    BY <1>1
  <1>3. sweep.points \in Nat /\ sweep.repeats \in Nat /\ index \in Nat
    BY <1>1, ConfigTypes DEF Indices
  <1>4. /\ CountDP \in 0 .. MaxAverage
        /\ CountDP # 0 <=> lastFreqIndex = index
        /\ lastFreqIndex = index =>
              CountDP = IF currDPCnt < MaxAverage THEN currDPCnt + 1 ELSE MaxAverage
    BY <1>1, <1>2 DEF CountDP
  <1>5. /\ Need \in 1 .. MaxAverage
        /\ Averaging => dataPointsPerFreq > 1 /\ Need = dataPointsPerFreq
    BY <1>1, <1>2 DEF Need, Averaging
  <1> QED  BY <1>1, <1>2, <1>3, <1>4, <1>5

\* A point that is passed on, and not only summed.
Whole == Averaging => CountDP = dataPointsPerFreq - 1

\* The error box is measured with every point and what is measured is kept.
AllKept == everyPoint /\ measurement_mode = "FULL" /\ ecalIgnoreValues = 0

\* What a point does to a collection: every whole one is collected if all are kept.
LEMMA EmitCollects ==
    ASSUME Types, MeasurementEmitDataPoint
    PROVE  /\ currDPCnt' = CountDP /\ lastFreqIndex' = index
           /\ currDP' = IF Averaging THEN SumDP ELSE currDP
           /\ ecalIgnoreValues = 0 => ecalIgnoreValues' = 0
           /\ collecting => UNCHANGED <<measurement_mode, everyPoint>>
           /\ \/ /\ ~(collecting /\ Whole /\ AllKept)
                 /\ UNCHANGED <<collecting, collectMeasurementState,
                                collectMeasurementOffset, calData>>
              \/ /\ collecting /\ Whole
                 /\ measurement_mode = "FULL" /\ ecalIgnoreValues = 0
                 /\ calData' = [calData EXCEPT ![index] = Value]
                 /\ \/ /\ collectMeasurementState = 0 /\ collectMeasurementState' = 1
                       /\ collectMeasurementOffset' = OffsetFor(index)
                       /\ collecting' = collecting
                    \/ /\ collectMeasurementState # 0 /\ collectMeasurementOffset # index
                       /\ UNCHANGED <<collecting, collectMeasurementState,
                                      collectMeasurementOffset>>
                    \/ /\ collectMeasurementState # 0 /\ collectMeasurementOffset = index
                       /\ collectMeasurementState' = 0 /\ ~collecting'
  <1>1. /\ currDPCnt' = CountDP /\ lastFreqIndex' = index
        /\ currDP' = IF Averaging THEN SumDP ELSE currDP
    BY DEF MeasurementEmitDataPoint
  <1>2. collecting => UNCHANGED <<measurement_mode, everyPoint>>
    BY EmitStates
  <1>3. CASE ~Whole
    <2>1. Averaging /\ ~SetComplete(CountDP)
      BY <1>3 DEF Whole, SetComplete
    <2>2. UNCHANGED <<ecalIgnoreValues, collecting, collectMeasurementState,
                      collectMeasurementOffset, calData>>
      BY <2>1 DEF MeasurementEmitDataPoint, collect
    <2> QED  BY <1>1, <1>2, <1>3, <2>2
  <1>4. CASE Whole
    <2>1. ~(Averaging /\ ~SetComplete(CountDP))
      BY <1>4 DEF Whole, SetComplete
    <2>2. ecalIgnoreValues = 0 => ecalIgnoreValues' = 0
      BY <2>1 DEF MeasurementEmitDataPoint
    <2> PICK e \in BOOLEAN :
            MayHaveEcal(e) /\ UpdateCollection(e /\ ecalIgnoreValues = 0)
      BY <2>1 DEF MeasurementEmitDataPoint
    <2> DEFINE kept == e /\ ecalIgnoreValues = 0
    <2>3. /\ UpdateCollection(kept)
          /\ kept => measurement_mode = "FULL" /\ ecalIgnoreValues = 0
          /\ AllKept => kept
      BY DEF MayHaveEcal, AllKept
    <2> HIDE DEF kept
    <2>4. CASE collecting /\ kept
      BY <1>1, <1>2, <1>4, <2>2, <2>3, <2>4 DEF UpdateCollection, MayCollect
    <2>5. CASE ~(collecting /\ kept)
      BY <1>1, <1>2, <2>2, <2>3, <2>5 DEF UpdateCollection, MayCollect, collect
    <2> QED  BY <2>4, <2>5
  <1> QED  BY <1>3, <1>4

\* The order of the indices of a sweep of p points, from the one after o round to o.
NextOf(n, p) == IF n + 1 < p THEN n + 1 ELSE 0
BeforeOf(n, p) == IF n > 0 THEN n - 1 ELSE p - 1

LEMMA OrderFacts ==
    ASSUME NEW p \in Nat, p > 1, NEW n \in 0 .. p - 1
    PROVE  /\ \A o, i \in 0 .. p - 1 :
                 /\ Met(After(o, p), NextOf(n, p), i) => Met(After(o, p), n, i) \/ i = n
                 /\ o = n /\ i # n => Met(After(o, p), n, i)
           /\ \A i \in 0 .. p - 1 : ~Met(n, n, i) /\ (Met(n, NextOf(n, p), i) => i = n)
           /\ \A f \in 0 .. p - 1 : ~Met(f, n, n)
           /\ BeforeOf(n, p) \in 0 .. p - 1 /\ BeforeOf(n, p) # n
           /\ After(BeforeOf(n, p), p) = n
           /\ NextOf(n, p) # n
           /\ \A o \in 0 .. p - 1 : After(o, p) \in 0 .. p - 1
  BY DEF Met, After, NextOf, BeforeOf

\* A standard is being collected, or will be with the next store, and its restart
\* has been seen.
Underway ==
    undisturbed /\ ~restarting /\ (collecting \/ todo = <<"collect">>)

\* Where the engine is while a standard is collected.
LEMMA CollectingFacts ==
    ASSUME IInv, InForce, Underway
    PROVE  /\ ~changing /\ sweepPoints = sweep.points
           /\ index = 0 \/ index < sweep.points
           /\ frequency = FreqAt(index)
  <1>1. todo \in {<<>>} \cup CollectTails
    BY DEF Underway, IInv, Collecting, CollectTails
  <1>2. todo \notin RestartToCome /\ todo \notin PointsTails
    BY <1>1, PointsFacts
  <1>3. ~changing /\ sweepPoints = target.points /\ sweep = target
    BY <1>2 DEF Underway, InForce
  <1> QED  BY <1>3 DEF IInv, Setting

\* The value passed on is of the index, but perhaps at the first one.
LEMMA ValueFacts ==
    ASSUME Types, Summing, frequency = FreqAt(index)
    PROVE  \/ Value = {FreqAt(index)}
           \/ Value = currDP \cup {frequency} /\ carried /\ index = 0 /\ CountDP # 0
  <1>1. CASE ~Averaging \/ CountDP = 0
    BY <1>1 DEF Value, SumDP
  <1>2. CASE Averaging /\ CountDP # 0
    <2>1. lastFreqIndex = index
      BY <1>2, CountFacts
    <2>2. currDP \subseteq {frequency} \/ (carried /\ index = 0)
      BY <1>2, <2>1 DEF Summing
    <2>3. Value = currDP \cup {frequency}
      BY <1>2 DEF Value, SumDP
    <2> QED  BY <1>2, <2>2, <2>3
  <1> QED  BY <1>1, <1>2

\* How the sum goes on with a point.
LEMMA CountGoesOn ==
    ASSUME IInv, InForce, Underway, EmitPoint,
           UNCHANGED <<dataPointsPerFreq, usbDataMode>>
    PROVE  /\ MeasurementEmitDataPoint /\ lastFreqIndex' = index
           /\ UNCHANGED <<sweep, restarting>>
           /\ Averaging' = Averaging /\ Need' = Need /\ Starved' = Starved
           /\ carried' = (carried /\ ~(index = 0 /\ CountDP = 0))
           /\ sweep.points > 1 =>
                 /\ Stream!Last =>
                       /\ index' = IF index + 1 < sweep.points THEN index + 1 ELSE 0
                       /\ repeat' = 0 /\ index' # index
                 /\ ~Stream!Last =>
                       /\ index' = index /\ repeat' = repeat + 1
                       /\ repeat' < sweep.repeats
                 /\ Aligned \/ Stream!Last => Aligned'
                 /\ Stream!Last => CountDP' = 0
                 /\ CountDP' \in Nat /\ CountDP' <= CountDP + 1
           /\ ~(sweep.points > 1) => index' = index
           /\ frequency' = FreqAt(index)'
  <1>1. /\ MeasurementEmitDataPoint /\ Stream!Emit
        /\ UNCHANGED <<sweep, changing, sweepPoints, restarting>>
        /\ carried' = (carried /\ ~(index = 0 /\ CountDP = 0))
    BY DEF EmitPoint, Stream!Emit
  <1>2. Types /\ lastFreqIndex' = index /\ currDPCnt' = CountDP
    BY <1>1 DEF IInv, MeasurementEmitDataPoint
  <1>3. /\ Averaging' = Averaging /\ Need' = Need /\ Starved' = Starved
    BY <1>1 DEF Averaging, Need, Starved
  <1>4. /\ ~changing /\ (index = 0 \/ index < sweep.points)
        /\ frequency = FreqAt(index)
    BY CollectingFacts
  <1>5. /\ repeat \in Nat /\ sweep.points \in Nat /\ sweep.repeats \in Nat
        /\ index \in Nat /\ CountDP \in 0 .. MaxAverage /\ MaxAverage \in Nat \ {0}
    BY <1>2, CountFacts
  <1>6. CASE ~(sweep.points > 1)
    <2>1. index' = index /\ frequency' = frequency
      BY <1>1, <1>6 DEF Stream!Emit, Stream!Last
    <2>2. frequency' = FreqAt(index)'
      BY <1>1, <1>4, <2>1 DEF FreqAt
    <2> QED  BY <1>1, <1>2, <1>3, <1>6, <2>1, <2>2
  <1>7. CASE sweep.points > 1 /\ Stream!Last
    <2>1. /\ index' = IF index + 1 < sweep.points THEN index + 1 ELSE 0
          /\ repeat' = 0 /\ frequency' = sweep.start + sweep.step * index'
      BY <1>1, <1>7 DEF Stream!Emit, Stream!FrequencyOf
    <2>2. index' # index
      BY <1>4, <1>5, <1>7, <2>1
    <2>3. CountDP' = 0
      BY <1>2, <2>2 DEF CountDP
    <2>4. Aligned'
      BY <1>5, <2>1, <2>3 DEF Aligned
    <2>5. frequency' = FreqAt(index)'
      BY <1>1, <2>1 DEF FreqAt
    <2> QED  BY <1>1, <1>2, <1>3, <1>5, <1>7, <2>1, <2>2, <2>3, <2>4, <2>5
  <1>8. CASE sweep.points > 1 /\ ~Stream!Last
    <2>1. index' = index /\ repeat' = repeat + 1 /\ frequency' = frequency
      BY <1>1, <1>8 DEF Stream!Emit
    <2>2. repeat' < sweep.repeats
      BY <1>5, <1>8, <2>1 DEF Stream!Last
    <2>3. CountDP' = IF CountDP < MaxAverage THEN CountDP + 1 ELSE CountDP
      BY <1>2, <2>1 DEF CountDP
    <2>4. Aligned => Aligned'
      BY <1>5, <2>1, <2>3 DEF Aligned
    <2>5. frequency' = FreqAt(index)'
      BY <1>1, <1>4, <2>1 DEF FreqAt
    <2> QED  BY <1>1, <1>2, <1>3, <1>5, <1>8, <2>1, <2>2, <2>3, <2>4, <2>5
  <1> QED  BY <1>6, <1>7, <1>8

LEMMA PointSumming ==
    ASSUME IInv, InForce, Underway, Summing, EmitPoint,
           UNCHANGED <<dataPointsPerFreq, usbDataMode>>
    PROVE  Summing'
  <1>1. /\ MeasurementEmitDataPoint /\ Types /\ lastFreqIndex' = index
        /\ UNCHANGED sweep /\ Averaging' = Averaging
        /\ carried' = (carried /\ ~(index = 0 /\ CountDP = 0))
        /\ frequency' = FreqAt(index)' /\ frequency = FreqAt(index)
    BY CountGoesOn, CollectingFacts DEF IInv
  <1>2. lastFreqIndex' = index' /\ Averaging' =>
           currDP' \subseteq {frequency'} \/ (carried' /\ index' = 0)
    <2> SUFFICES ASSUME index' = index, Averaging
                 PROVE  currDP' \subseteq {frequency'} \/ (carried' /\ index' = 0)
      BY <1>1
    <2>1. currDP' = Value
      BY <1>1, EmitCollects DEF Value
    <2>2. frequency' = FreqAt(index)
      BY <1>1 DEF FreqAt
    <2>3. currDP' \subseteq {FreqAt(index)} \/ (carried /\ index = 0 /\ CountDP # 0)
      BY <1>1, <2>1, ValueFacts
    <2> QED  BY <1>1, <2>2, <2>3
  <1>3. ASSUME sweep.points > 1
        PROVE  repeat' = 0 \/ (repeat' < sweep.repeats /\ lastFreqIndex' = index')
    BY <1>1, <1>3, CountGoesOn
  <1>4. ASSUME sweep.points > 1
        PROVE  Aligned' \/ index' = 0
    <2>1. Aligned \/ index = 0
      BY <1>4 DEF Summing
    <2> QED  BY <1>4, <2>1, CountGoesOn
  <1> QED  BY <1>1, <1>2, <1>3, <1>4 DEF Summing

\* What is collected of the index is at its frequency, and nothing is lost.
LEMMA PointGot ==
    ASSUME IInv, InForce, Underway, Summing, EmitPoint,
           UNCHANGED <<dataPointsPerFreq, usbDataMode>>, NEW i \in Indices
    PROVE  /\ i # index /\ Got(i) => Got(i)'
           /\ i = index /\ Got(i) /\ CountDP # 0 => Got(i)'
           /\ i = index /\ calData' = [calData EXCEPT ![index] = Value] =>
                 Got(i)' /\ (calData'[i] = {FreqAt(i)} \/ (carried /\ i = 0))
           /\ i # index => calData'[i] = calData[i]
  <1>1. /\ MeasurementEmitDataPoint /\ Types /\ UNCHANGED sweep
        /\ carried' = (carried /\ ~(index = 0 /\ CountDP = 0))
        /\ frequency = FreqAt(index)
    BY CountGoesOn, CollectingFacts DEF IInv
  <1>2. /\ calData \in [Indices -> SUBSET Freqs]
        /\ FreqAt(i)' = FreqAt(i)
    BY <1>1 DEF Types, TypeOK, FreqAt
  <1>3. i = index /\ calData' = [calData EXCEPT ![index] = Value] =>
           calData'[i] = {FreqAt(i)} \/ (carried /\ i = 0 /\ CountDP # 0)
    BY <1>1, <1>2, ValueFacts
  <1>4. calData' = calData \/ calData' = [calData EXCEPT ![index] = Value]
    BY <1>1, EmitCollects
  <1>5. i # index => calData'[i] = calData[i]
    BY <1>2, <1>4
  <1>6. i # index /\ Got(i) => Got(i)'
    BY <1>1, <1>2, <1>5 DEF Got
  <1>7. i = index /\ calData' = [calData EXCEPT ![index] = Value] =>
           Got(i)' /\ (calData'[i] = {FreqAt(i)} \/ (carried /\ i = 0))
    BY <1>1, <1>2, <1>3 DEF Got
  <1>8. i = index /\ Got(i) /\ CountDP # 0 => Got(i)'
    BY <1>1, <1>2, <1>4, <1>7 DEF Got
  <1> QED  BY <1>5, <1>6, <1>7, <1>8

\* An index that is left has had enough points for a value.
LEMMA LastIsWhole ==
    ASSUME Types
    PROVE  /\ Aligned /\ Stream!Last /\ ~Starved => CountDP >= Need - 1
           /\ CountDP = Need - 1 => Whole
           /\ sweep.points > 1 /\ Summing /\ ~Aligned => index = 0 /\ CountDP # 0
           /\ sweep.points > 1 /\ Summing /\ Aligned /\ Whole => ~Starved
  <1>1. /\ repeat \in Nat /\ sweep.repeats \in Nat /\ MaxAverage \in Nat \ {0}
        /\ CountDP \in 0 .. MaxAverage /\ dataPointsPerFreq \in 0 .. MaxAverage
        /\ Need \in 1 .. MaxAverage
        /\ CountDP # 0 <=> lastFreqIndex = index
    BY CountFacts
  <1>2. Averaging => dataPointsPerFreq > 1 /\ Need = dataPointsPerFreq
    BY CountFacts
  <1>3. ~Averaging => Need = 1
    BY DEF Need
  <1>4. ASSUME Aligned, Stream!Last, ~Starved
        PROVE  CountDP >= Need - 1
    <2>1. repeat + 1 >= sweep.repeats
      BY <1>4 DEF Stream!Last
    <2>2. Averaging => sweep.repeats >= dataPointsPerFreq
      BY <1>1, <1>4 DEF Starved
    <2>3. CountDP = IF repeat < MaxAverage THEN repeat ELSE MaxAverage
      BY <1>4 DEF Aligned
    <2>4. CASE Averaging
      BY <1>1, <1>2, <2>1, <2>2, <2>3, <2>4
    <2>5. CASE ~Averaging
      BY <1>1, <1>3, <2>5
    <2> QED  BY <2>4, <2>5
  <1>5. CountDP = Need - 1 => Whole
    BY <1>1, <1>2 DEF Whole
  <1>6. ASSUME sweep.points > 1, Summing, ~Aligned
        PROVE  index = 0 /\ CountDP # 0
    <2>1. index = 0 /\ (repeat = 0 \/ lastFreqIndex = index)
      BY <1>6 DEF Summing
    <2>2. repeat = 0 => CountDP # 0
      BY <1>1, <1>6 DEF Aligned
    <2> QED  BY <1>1, <2>1, <2>2
  <1>7. ASSUME sweep.points > 1, Summing, Aligned, Whole, Starved
        PROVE  FALSE
    <2>1. /\ CountDP = dataPointsPerFreq - 1 /\ dataPointsPerFreq > 1
          /\ sweep.repeats < dataPointsPerFreq
      BY <1>2, <1>7 DEF Whole, Starved
    <2>2. repeat = 0 \/ repeat < sweep.repeats
      BY <1>7 DEF Summing
    <2>3. CountDP = IF repeat < MaxAverage THEN repeat ELSE MaxAverage
      BY <1>7 DEF Aligned
    <2> QED  BY <1>1, <2>1, <2>2, <2>3
  <1> QED  BY <1>4, <1>5, <1>6, <1>7

\* A collection that begins.
LEMMA PointBegins ==
    ASSUME IInv, InForce, Underway, Summing, EmitPoint,
           UNCHANGED <<dataPointsPerFreq, usbDataMode>>,
           collecting', collectMeasurementState = 0, collectMeasurementState' = 1
    PROVE  Gathered'
  <1>1. /\ MeasurementEmitDataPoint /\ Types /\ UNCHANGED sweep
        /\ sweepPoints = sweep.points
        /\ index = 0 \/ index < sweep.points
    BY CountGoesOn, CollectingFacts DEF IInv
  <1>2. /\ measurement_mode' = "FULL" /\ ecalIgnoreValues' = 0
        /\ calData' = [calData EXCEPT ![index] = Value]
        /\ collectMeasurementOffset' = OffsetFor(index)
    <2>1. /\ collecting /\ collectMeasurementOffset' = OffsetFor(index)
          /\ measurement_mode = "FULL" /\ ecalIgnoreValues = 0
          /\ calData' = [calData EXCEPT ![index] = Value]
      BY <1>1, EmitCollects
    <2> QED  BY <1>1, <2>1, EmitCollects
  <1>3. ASSUME sweep.points > 1
        PROVE  /\ collectMeasurementOffset' \in 0 .. sweep.points - 1
               /\ ~Aligned' => /\ index' = 0 /\ Got(0)'
                               /\ collectMeasurementOffset' = sweep.points - 1
               /\ \A i \in Swept : Met(After(collectMeasurementOffset, sweep.points), index, i)'
                                       => Got(i)'
               /\ CountDP' >= Need' => Got(index)' /\ index' # collectMeasurementOffset'
    <2>1. /\ sweep.points \in Nat /\ index \in 0 .. sweep.points - 1
          /\ Swept \subseteq Indices /\ Swept = 0 .. sweep.points - 1 /\ index \in Indices
      <3>1. sweep.points \in 0 .. UsbPointsMax /\ index \in Indices /\ index \in Nat
        BY <1>1, ConfigTypes DEF Types, TypeOK, Indices
      <3> QED  BY <1>1, <1>3, <3>1, AcquisitionAssumption DEF Swept, Indices
    <2> DEFINE o == collectMeasurementOffset'
               Next1 == NextOf(index, sweep.points)
    <2>2. /\ o \in 0 .. sweep.points - 1 /\ o # index
          /\ After(o, sweep.points) = index
          /\ \A i \in Swept : ~Met(index, index, i)
          /\ \A i \in Swept : Met(index, Next1, i) => i = index
      <3>1. o = BeforeOf(index, sweep.points)
        BY <1>1, <1>2 DEF OffsetFor, BeforeOf
      <3>2. o \in 0 .. sweep.points - 1 /\ o # index /\ After(o, sweep.points) = index
        BY <1>3, <2>1, <3>1, OrderFacts
      <3>3. \A i \in Swept : ~Met(index, index, i) /\ (Met(index, Next1, i) => i = index)
        BY <1>3, <2>1, OrderFacts
      <3> QED  BY <3>2, <3>3
    <2>4. \A i \in Swept : i = index => Got(i)'
      <3> SUFFICES ASSUME NEW i \in Swept, i = index
                   PROVE  Got(i)'
        OBVIOUS
      <3>1. i \in Indices
        BY <2>1
      <3> QED  BY <1>2, <3>1, PointGot
    <2>3. Got(index)' \/ index' # index
      <3>1. \A i \in Swept : i = index =>
               calData'[i] = {sweep'.start + sweep'.step * i} \/ (carried' /\ i = 0)
        BY <2>4 DEF Got, FreqAt
      <3> QED  BY <2>1, <3>1 DEF Got, FreqAt
    <2>5. /\ Stream!Last => index' = Next1 /\ CountDP' = 0
          /\ ~Stream!Last => index' = index
          /\ Stream!Last \/ Aligned => Aligned'
          /\ UNCHANGED sweep /\ Need' = Need
      BY <1>3, CountGoesOn DEF NextOf
    <2>6. ~Aligned' => index = 0 /\ index' = 0 /\ o = sweep.points - 1
      <3>1. Aligned \/ index = 0
        BY <1>3 DEF Summing
      <3>2. index = 0 => o = sweep.points - 1
        BY <1>1, <1>2 DEF OffsetFor
      <3> QED  BY <2>5, <3>1, <3>2
    <2>7. ~Aligned' => Got(0)'
      BY <2>1, <2>4, <2>6
    <2>8. Need \in 1 .. MaxAverage
      BY <1>1, CountFacts
    <2>9. CountDP' >= Need' => ~Stream!Last
      BY <2>5, <2>8
    <2>10. CountDP' >= Need' => Got(index)' /\ index' # o
      BY <2>2, <2>3, <2>5, <2>9
    <2>11. ASSUME NEW i \in Swept, Met(After(o, sweep.points), index', i)
           PROVE  Got(i)'
      BY <2>2, <2>4, <2>5, <2>11
    <2>12. \A i \in Swept : Met(After(collectMeasurementOffset, sweep.points), index, i)'
                                => Got(i)'
      BY <2>5, <2>11
    <2> QED  BY <2>2, <2>6, <2>7, <2>10, <2>12
  <1> QED  BY <1>1, <1>2, <1>3 DEF Gathered, Swept

\* A collection that goes on.
LEMMA PointGathered ==
    ASSUME IInv, InForce, Underway, Summing, Gathered, EmitPoint,
           UNCHANGED <<dataPointsPerFreq, usbDataMode>>,
           collecting, collecting', collectMeasurementState = 1, collectMeasurementState' = 1
    PROVE  Gathered'
  <1>1. /\ MeasurementEmitDataPoint /\ Types /\ UNCHANGED sweep
        /\ index = 0 \/ index < sweep.points
        /\ Averaging' = Averaging /\ Need' = Need /\ Starved' = Starved
    BY CountGoesOn, CollectingFacts DEF IInv
  <1>2. /\ measurement_mode = "FULL" /\ ecalIgnoreValues = 0
        /\ measurement_mode' = "FULL" /\ ecalIgnoreValues' = 0
        /\ everyPoint' = everyPoint
        /\ collectMeasurementOffset' = collectMeasurementOffset
        /\ \/ ~(Whole /\ everyPoint)
           \/ /\ calData' = [calData EXCEPT ![index] = Value]
              /\ collectMeasurementOffset # index
    <2>1. measurement_mode = "FULL" /\ ecalIgnoreValues = 0
      BY DEF Gathered
    <2> QED  BY <1>1, <2>1, EmitCollects DEF AllKept
  <1>3. ASSUME sweep.points > 1
        PROVE  /\ ~Aligned' => /\ index' = 0 /\ Got(0)'
                               /\ collectMeasurementOffset = sweep.points - 1
               /\ everyPoint /\ ~Starved =>
                     /\ \A i \in Swept :
                           Met(After(collectMeasurementOffset, sweep.points), index', i)
                               => Got(i)'
                     /\ CountDP' >= Need =>
                           Got(index)' /\ index' # collectMeasurementOffset
    <2> DEFINE o == collectMeasurementOffset
    <2>1. /\ sweep.points \in Nat /\ index \in 0 .. sweep.points - 1
          /\ Swept \subseteq Indices /\ Swept = 0 .. sweep.points - 1 /\ index \in Swept
      <3>1. sweep.points \in 0 .. UsbPointsMax /\ index \in Nat
        BY <1>1, ConfigTypes DEF Types, TypeOK, Indices
      <3> QED  BY <1>1, <1>3, <3>1, AcquisitionAssumption DEF Swept, Indices
    <2>2. /\ o \in 0 .. sweep.points - 1
          /\ ~Aligned => index = 0 /\ o = sweep.points - 1 /\ Got(0)
          /\ everyPoint /\ ~Starved =>
                /\ \A i \in Swept : Met(After(o, sweep.points), index, i) => Got(i)
                /\ CountDP >= Need => Got(index) /\ index # o
      BY <1>3 DEF Gathered
    <2>3. \A i \in Swept :
             /\ i # index /\ Got(i) => Got(i)'
             /\ i = index /\ Got(i) /\ CountDP # 0 => Got(i)'
             /\ i = index /\ calData' = [calData EXCEPT ![index] = Value] => Got(i)'
      <3> SUFFICES ASSUME NEW i \in Swept
                   PROVE  /\ i # index /\ Got(i) => Got(i)'
                          /\ i = index /\ Got(i) /\ CountDP # 0 => Got(i)'
                          /\ i = index /\ calData' = [calData EXCEPT ![index] = Value]
                                => Got(i)'
        OBVIOUS
      <3>1. i \in Indices
        BY <2>1
      <3> QED  BY <3>1, PointGot
    <2>4. /\ Stream!Last => /\ index' = NextOf(index, sweep.points) /\ CountDP' = 0
          /\ ~Stream!Last => index' = index
          /\ Stream!Last \/ Aligned => Aligned'
          /\ CountDP' \in Nat /\ CountDP' <= CountDP + 1
      BY <1>3, CountGoesOn DEF NextOf
    <2>5. /\ Need \in 1 .. MaxAverage /\ CountDP \in 0 .. MaxAverage
          /\ MaxAverage \in Nat
      BY <1>1, CountFacts
    <2>6. ~Aligned => index = 0 /\ CountDP # 0 /\ o # index
      BY <1>1, <1>3, <2>1, <2>2, LastIsWhole
    <2>7. ASSUME ~Aligned'
          PROVE  index' = 0 /\ Got(0)' /\ o = sweep.points - 1
      <3>1. ~Aligned /\ ~Stream!Last
        BY <2>4, <2>7
      <3>2. index = 0 /\ o = sweep.points - 1 /\ Got(0) /\ CountDP # 0 /\ index' = index
        BY <2>2, <2>4, <2>6, <3>1
      <3> QED  BY <2>1, <2>3, <3>2
    <2>8. ASSUME everyPoint, ~Starved
          PROVE  /\ \A i \in Swept : Met(After(o, sweep.points), index', i) => Got(i)'
                 /\ CountDP' >= Need => Got(index)' /\ index' # o
      <3>1. CountDP >= Need - 1 => (\A i \in Swept : i = index => Got(i)') /\ index # o
        <4>1. CountDP = Need - 1 =>
                 calData' = [calData EXCEPT ![index] = Value] /\ index # o
          BY <1>1, <1>2, <2>8, LastIsWhole
        <4>2. CountDP >= Need => Got(index) /\ CountDP # 0 /\ index # o
          BY <2>2, <2>5, <2>8
        <4>3. CountDP >= Need - 1 => CountDP = Need - 1 \/ CountDP >= Need
          BY <2>5
        <4> QED  BY <2>3, <4>1, <4>2, <4>3
      <3>2. Stream!Last => (\A i \in Swept : i = index => Got(i)')
        <4>1. Aligned /\ Stream!Last => CountDP >= Need - 1
          BY <1>1, <2>8, LastIsWhole
        <4>2. ~Aligned => \A i \in Swept : i = index => Got(i)'
          BY <2>2, <2>3, <2>6
        <4> QED  BY <3>1, <4>1, <4>2
      <3>3. ASSUME NEW i \in Swept, Met(After(o, sweep.points), index', i)
            PROVE  Got(i)'
        <4>1. After(o, sweep.points) \in 0 .. sweep.points - 1
          BY <1>3, <2>1, <2>2, OrderFacts
        <4>2. ~Met(After(o, sweep.points), index, index)
          BY <1>3, <2>1, <4>1, OrderFacts
        <4>3. Met(After(o, sweep.points), index, i) => Got(i)'
          BY <2>2, <2>3, <2>8, <4>2
        <4>4. CASE Stream!Last
          <5>1. Met(After(o, sweep.points), index, i) \/ i = index
            BY <1>3, <2>1, <2>2, <2>4, <3>3, <4>4, OrderFacts
          <5> QED  BY <3>2, <4>3, <4>4, <5>1
        <4>5. CASE ~Stream!Last
          BY <2>4, <3>3, <4>3, <4>5
        <4> QED  BY <4>4, <4>5
      <3>4. CountDP' >= Need => Got(index)' /\ index' # o
        <4> SUFFICES ASSUME CountDP' >= Need
                     PROVE  Got(index)' /\ index' # o
          OBVIOUS
        <4>1. ~Stream!Last /\ index' = index
          BY <2>4, <2>5
        <4>2. CountDP >= Need - 1
          BY <2>4, <2>5
        <4>3. calData'[index] = {sweep'.start + sweep'.step * index}
                 \/ (carried' /\ index = 0)
          BY <2>1, <3>1, <4>2 DEF Got, FreqAt
        <4> QED  BY <3>1, <4>1, <4>2, <4>3 DEF Got, FreqAt
      <3> QED  BY <3>3, <3>4
    <2> QED  BY <2>7, <2>8
  <1>4. sweep.points > 1 =>
           /\ collectMeasurementOffset \in 0 .. sweep.points - 1
           /\ ~Aligned' => /\ index' = 0 /\ Got(0)'
                           /\ collectMeasurementOffset = sweep.points - 1
           /\ everyPoint /\ ~Starved =>
                 /\ \A i \in Swept :
                       Met(After(collectMeasurementOffset, sweep.points), index', i)
                           => Got(i)'
                 /\ CountDP' >= Need => Got(index)' /\ index' # collectMeasurementOffset
    BY <1>3 DEF Gathered
  <1> QED  BY <1>1, <1>2, <1>4 DEF Gathered, Swept

\* A collection that nothing disturbs goes on as it should with every step of the
\* interrupt.
LEMMA InterruptCollects ==
    ASSUME IInv, InForce, CollectInv, Interrupt
    PROVE  CollectInv'
  <1>1. /\ UNCHANGED <<todo, usbDataMode, undisturbed, dataPointsPerFreq, target>>
        /\ EmitPoint \/ EmitOldPoint \/ Restart
    BY DEF Interrupt, main, display
  <1>2. (todo \in CollectTails)' <=> todo \in CollectTails
    BY <1>1 DEF CollectTails, CollectStores
  <1>3. collecting' => collecting
    <2>1. CASE EmitPoint \/ EmitOldPoint
      BY <2>1, EmitStates DEF EmitPoint, EmitOldPoint, IInv
    <2>2. CASE Restart
      BY <2>2 DEF Restart, collect
    <2> QED  BY <1>1, <2>1, <2>2
  <1> SUFFICES ASSUME undisturbed, ~restarting', collecting \/ todo = <<"collect">>
               PROVE  /\ Summing'
                      /\ collecting' /\ collectMeasurementState' = 1 => Gathered'
    BY <1>1, <1>2, <1>3 DEF CollectInv
  <1>4. CASE EmitPoint
    <2>1. /\ Underway /\ Summing
          /\ collecting /\ collectMeasurementState = 1 => Gathered
      BY <1>1, <1>4 DEF EmitPoint, Underway, CollectInv
    <2>2. Summing'
      BY <1>1, <1>4, <2>1, PointSumming
    <2>3. ASSUME collecting', collectMeasurementState' = 1
          PROVE  Gathered'
      <3>1. collectMeasurementState \in {0, 1} /\ collecting
        BY <1>3, <2>3 DEF IInv, Types, TypeOK
      <3>2. CASE collectMeasurementState = 0
        BY <1>1, <1>4, <2>1, <2>3, <3>2, PointBegins
      <3>3. CASE collectMeasurementState = 1
        BY <1>1, <1>4, <2>1, <2>3, <3>1, <3>3, PointGathered
      <3> QED  BY <3>1, <3>2, <3>3
    <2> QED  BY <2>2, <2>3
  <1>5. CASE EmitOldPoint
    <2>1. Underway /\ changing
      BY <1>5 DEF EmitOldPoint, Underway, Stream!Disturb
    <2> QED  BY <2>1, CollectingFacts
  <1>6. CASE Restart
    <2>1. /\ sweep' = target /\ index' = 0 /\ repeat' = 0 /\ frequency' = target.start
          /\ UNCHANGED <<lastFreqIndex, currDP, collecting, collectMeasurementState>>
          /\ carried' = (Averaging /\ lastFreqIndex = 0
                           /\ ~(currDP \subseteq {target.start}))
          /\ restarting
      BY <1>6 DEF Restart, Stream!Restart, average, collect
    <2>2. Averaging' = Averaging
      BY <1>1 DEF Averaging
    <2>3. Summing'
      BY <2>1, <2>2 DEF Summing
    <2>4. ~(collecting /\ collectMeasurementState = 1)
      BY <2>1 DEF IInv, Collecting
    <2> QED  BY <2>1, <2>3, <2>4
  <1> QED  BY <1>1, <1>4, <1>5, <1>6

\* The stores of cal_collect(), and those of a change while a standard is collected.
LEMMA StoreCollects ==
    ASSUME IInv, CollectInv, Store
    PROVE  CollectInv'
  <1>1. /\ todo \in Tails /\ todo # <<>> /\ todo' = Tail(todo)
        /\ UNCHANGED <<usbDataMode, undisturbed, carried, collectMeasurementState,
                       sweep, index, repeat, frequency, dataPointsPerFreq,
                       currDPCnt, lastFreqIndex, currDP>>
        /\ restarting' = (restarting \/ Head(todo) = "restart")
        /\ collecting' = (collecting \/ Head(todo) = "collect")
    BY StoreSteps
  <1> SUFFICES ASSUME undisturbed
               PROVE  /\ collecting' \/ (todo \in CollectTails)' => ~usbDataMode
                      /\ ~restarting' /\ (collecting' \/ todo' = <<"collect">>) => Summing'
                      /\ ~(collecting' /\ collectMeasurementState' = 1)
    BY <1>1 DEF CollectInv
  <1>2. ~collecting /\ collectMeasurementState = 0
    BY <1>1 DEF IInv, Collecting
  <1>3. Head(todo) = "collect" => todo = <<"collect">>
    BY <1>1, TailSteps
  <1>4. (todo \in CollectTails)' => todo \in CollectTails
    <2>1. (todo \in CollectTails)' <=> Tail(todo) \in CollectTails
      BY <1>1 DEF CollectTails, CollectStores
    <2>2. \/ todo \in CollectTails
          \/ Tail(todo) \in {<<>>, <<"everyPoint">>} \cup UITails \cup RegisterTails
                               \cup RestartTails \cup SaveTails
      BY <1>1, TailSteps DEF CollectTails, UITails, RegisterTails, RestartTails, SaveTails
    <2> QED  BY <2>1, <2>2, TailFacts
  <1>5. todo' = <<"collect">> => Head(todo) = "restart"
    <2>1. todo' = <<"collect">> => todo \in CollectTails
      BY <1>1, <1>4 DEF CollectTails, CollectStores
    <2>2. /\ todo = CollectStores => todo' = <<"everyPoint", "restart", "collect">>
          /\ todo = <<"everyPoint", "restart", "collect">> => todo' = <<"restart", "collect">>
          /\ todo = <<"restart", "collect">> => Head(todo) = "restart"
          /\ todo = <<"collect">> => todo' = <<>>
      <3>1. /\ \A a : Tail(<<a>>) = <<>>
            /\ \A a, b : Head(<<a, b>>) = a
            /\ \A a, b, c : Tail(<<a, b, c>>) = <<b, c>>
            /\ \A a, b, c, d : Tail(<<a, b, c, d>>) = <<b, c, d>>
        OBVIOUS
      <3>2. /\ Tail(CollectStores) = <<"everyPoint", "restart", "collect">>
            /\ Tail(<<"everyPoint", "restart", "collect">>) = <<"restart", "collect">>
            /\ Head(<<"restart", "collect">>) = "restart"
            /\ Tail(<<"collect">>) = <<>>
        BY <3>1 DEF CollectStores
      <3> QED  BY <1>1, <3>2, Zenon
    <2>3. <<"collect">> \notin {<<"everyPoint", "restart", "collect">>,
                                <<"restart", "collect">>, <<>>}
      OBVIOUS
    <2> QED  BY <2>1, <2>2, <2>3 DEF CollectTails
  <1>6. todo = <<"collect">> => todo \in CollectTails
    BY DEF CollectTails
  <1>7. Summing => Summing'
    BY <1>1 DEF Summing, Averaging, Aligned, CountDP
  <1>8. collecting' \/ (todo \in CollectTails)' => ~usbDataMode
    BY <1>1, <1>3, <1>4, <1>6 DEF CollectInv
  <1>9. ~restarting' /\ (collecting' \/ todo' = <<"collect">>) => Summing'
    <2>1. ~restarting' => ~restarting /\ todo' # <<"collect">>
      BY <1>1, <1>5
    <2>2. collecting' => todo = <<"collect">>
      BY <1>1, <1>2, <1>3
    <2> QED  BY <2>1, <2>2, <1>7 DEF CollectInv
  <1>10. collectMeasurementState' # 1
    BY <1>1, <1>2
  <1> QED  BY <1>8, <1>9, <1>10

LEMMA MainCollects ==
    ASSUME IInv, CollectInv, MainThread
    PROVE  CollectInv'
  <1>1. UNCHANGED <<sweep, index, repeat, frequency, restarting, currDPCnt,
                    lastFreqIndex, currDP, ecalIgnoreValues, collecting,
                    collectMeasurementState, collectMeasurementOffset, calData, carried>>
    BY MainSteps
  <1>2. (todo \in CollectTails)' <=> todo' \in CollectTails
    BY DEF CollectTails, CollectStores
  <1>3. todo = <<"collect">> => todo \in CollectTails
    BY DEF CollectTails
  <1>4. /\ <<>> \notin CollectTails /\ SaveStores \notin CollectTails
        /\ CollectStores # <<"collect">> /\ SaveStores # <<"collect">>
        /\ <<>> # <<"collect">>
    BY TailFacts DEF CollectStores, SaveStores, SaveTails
  <1>5. CASE /\ undisturbed' = undisturbed
             /\ UNCHANGED <<usbDataMode, dataPointsPerFreq, measurement_mode,
                            everyPoint, todo>>
    BY <1>1, <1>2, <1>5
       DEF CollectInv, Summing, Averaging, Aligned, CountDP, Gathered, Starved, Need,
           Got, FreqAt, Swept
  <1>6. CASE undisturbed' = undisturbed /\ todo' = todo /\ usbDataMode
    BY <1>1, <1>2, <1>3, <1>6 DEF CollectInv
  <1>7. CASE ~ui_disabled /\ todo' \in {CollectStores, SaveStores, <<>>} /\ ~usbDataMode'
    BY <1>1, <1>2, <1>4, <1>7 DEF CollectInv, IInv, Collecting
  <1>8. CASE collected /\ todo = <<>> /\ todo' = todo
    BY <1>1, <1>2, <1>4, <1>8 DEF CollectInv, IInv, Collecting
  <1>9. CASE ~undisturbed'
    BY <1>9 DEF CollectInv
  <1> QED  BY MainSteps, <1>5, <1>6, <1>7, <1>8, <1>9

LEMMA CollectStep ==
    ASSUME IInv, InForce /\ CollectInv, [Next]_vars
    PROVE  InForce' /\ CollectInv'
  <1>1. InForce'
    BY InForceInv
  <1>2. CollectInv'
    BY InterruptCollects, StoreCollects, MainCollects DEF Next, MainThread
  <1> QED  BY <1>1, <1>2

LEMMA InitCollect == Init => InForce /\ CollectInv
  <1> SUFFICES ASSUME Init
               PROVE  InForce /\ CollectInv
    OBVIOUS
  <1>1. InForce
    BY PointsFacts DEF Init, InForce, PointsTails
  <1>2. CollectInv
    BY DEF Init, CollectInv
  <1> QED  BY <1>1, <1>2

\* With the step that ends a collection every point of the sweep has been collected.
LEMMA CollectionEndsComplete ==
    ASSUME IInv, InForce, CollectInv, [Next]_vars,
           Steady, undisturbed, everyPoint, collecting, ~collecting',
           NEW i \in Swept
    PROVE  calData'[i] = {FreqAt(i)} \/ (carried /\ i = 0)
  <1>1. ~MainThread
    BY MainSteps
  <1>2. ~Store
    BY DEF Store, Steady
  <1>3. EmitPoint \/ EmitOldPoint \/ Restart
    BY <1>1, <1>2 DEF Next, MainThread, Interrupt
  <1>4. EmitPoint
    BY <1>3 DEF EmitOldPoint, Restart, collect, Steady, Stream!Disturb
  <1>5. UNCHANGED <<dataPointsPerFreq, usbDataMode>>
    BY <1>1, <1>2 DEF Next, MainThread, Interrupt, display
  <1>6. Types /\ MeasurementEmitDataPoint
    BY <1>4 DEF EmitPoint, IInv
  <1>7. /\ Whole /\ calData' = [calData EXCEPT ![index] = Value]
        /\ collectMeasurementState # 0 /\ collectMeasurementOffset = index
    BY <1>6, EmitCollects
  <1>8. collectMeasurementState = 1
    BY <1>6, <1>7 DEF Types, TypeOK
  <1>9. Underway /\ Summing /\ Gathered
    BY <1>8 DEF Underway, CollectInv, Steady, IInv, Setting, Collecting
  <1>10. index = 0 \/ index < sweep.points
    BY <1>9, CollectingFacts
  <1>11. /\ sweep.points \in Nat /\ index \in Nat /\ index \in Indices
         /\ Swept = 0 .. sweep.points - 1 /\ Swept \subseteq Indices
    <2>1. sweep.points \in 0 .. UsbPointsMax /\ index \in Nat /\ index \in Indices
      BY <1>6, ConfigTypes DEF Types, TypeOK, Indices
    <2> QED  BY <2>1, AcquisitionAssumption DEF Swept, Indices
  <1>12. CASE i = index
    BY <1>4, <1>5, <1>7, <1>9, <1>11, <1>12, PointGot
  <1>13. CASE i # index
    <2>1. sweep.points > 1 /\ index \in 0 .. sweep.points - 1
      BY <1>10, <1>11, <1>13
    <2>2. Aligned /\ ~Starved
      <3>1. ~Aligned => index = 0 /\ collectMeasurementOffset = sweep.points - 1
        BY <1>9, <2>1 DEF Gathered
      <3>2. Aligned
        BY <1>7, <1>11, <2>1, <3>1
      <3> QED  BY <1>6, <1>7, <1>9, <2>1, <3>2, LastIsWhole
    <2>3. Met(After(collectMeasurementOffset, sweep.points), index, i)
      BY <1>7, <1>11, <1>13, <2>1, OrderFacts
    <2>4. Got(i)
      BY <1>9, <2>1, <2>2, <2>3 DEF Gathered
    <2>5. calData'[i] = calData[i]
      BY <1>4, <1>5, <1>9, <1>11, <1>13, PointGot
    <2> QED  BY <2>4, <2>5 DEF Got
  <1> QED  BY <1>12, <1>13

\* The inductive invariant holds in every reachable state.
THEOREM Invariance == Spec => []IInv
  BY InitInv, StepInv, PTL DEF Spec

\* Every variable keeps its type; above all the queue of points is never filled to
\* the place that would make it look empty, whoever takes points from it, and the
\* engine never leaves the indices the arrays have.
THEOREM Typing == Spec => []TypeOK
  <1>1. IInv => TypeOK
    BY DEF IInv, Types
  <1> QED  BY <1>1, Invariance, PTL

\* When the state machine says so, the error box data of every point of the sweep
\* in force is of that sweep, but for the exceptions EcalComplete names.
THEOREM EcalIsComplete == Spec => []EcalComplete
  <1>1. IInv => EcalComplete
    <2> SUFFICES ASSUME IInv, UIMode, Steady, ecalState = "DONE", ~LateCallback,
                        NEW i \in Swept \ ignored
                 PROVE  measuredEcal[i] = {FreqAt(i)}
      BY DEF EcalComplete
    <2>1. SameSweep(target, uiSweep) /\ ~lastUSBDataMode
      BY DEF UIMode, SameSweep
    <2>2. ~MeasuringToCome
      BY TailFacts DEF Steady, MeasuringToCome
    <2>3. Place /\ Covered(target.points)
      BY <2>1, <2>2 DEF IInv, EcalInv, Current, Paused, Pass
    <2>4. SameSweep(sweep, target)
      BY <2>3 DEF IInv, Setting, Steady, Place
    <2>5. Good(i)
      BY <2>3, <2>4 DEF Swept, Covered, SameSweep
    <2> QED  BY <2>4, <2>5 DEF Good, FreqAt, SameSweep
  <1> QED  BY <1>1, Invariance, PTL
\* However the points are averaged and wherever the collection began, a collection
\* that nothing disturbs ends with every point of the sweep collected at its
\* frequency, but perhaps the average of the first.
THEOREM CollectionIsComplete == Spec => CollectionComplete
  <1>1. Init => InForce /\ CollectInv
    BY InitCollect
  <1>2. IInv /\ (InForce /\ CollectInv) /\ [Next]_vars => (InForce /\ CollectInv)'
    BY CollectStep
  <1>3. IInv /\ (InForce /\ CollectInv) /\ [Next]_vars =>
           [Steady /\ undisturbed /\ everyPoint /\ collecting /\ ~collecting' =>
              \A i \in Swept : calData'[i] = {FreqAt(i)} \/ (carried /\ i = 0)]_vars
    BY CollectionEndsComplete
  <1> QED  BY <1>1, <1>2, <1>3, Invariance, PTL DEF Spec, CollectionComplete

-------------------------------------------------------------------------------
(* The stream of points.                                                   *)

\* A step of the interrupt or of the main thread is one of PointStream, or leaves
\* the stream as it is.
LEMMA StepFollows ==
    ASSUME [Next]_vars
    PROVE  [Stream!Next]_(Stream!vars)
  <1>1. CASE EmitPoint
    BY <1>1 DEF EmitPoint, Stream!Next
  <1>2. CASE EmitOldPoint \/ MainThread
    <2>1. UNCHANGED <<sweep, changing, index, repeat, frequency>>
      BY <1>2, MainSteps DEF EmitOldPoint, engine
    <2> QED  BY <2>1 DEF Stream!vars
  <1>3. CASE Restart
    BY <1>3 DEF Restart, Stream!Next
  <1>4. CASE Store
    <2>1. \/ UNCHANGED <<sweep, changing, index, repeat, frequency>>
          \/ changing' = TRUE
      BY <1>4 DEF Store, engine
    <2>2. CASE UNCHANGED <<sweep, changing, index, repeat, frequency>>
      BY <2>2 DEF Stream!vars
    <2>3. CASE changing' = TRUE
      BY <2>3 DEF Stream!Next, Stream!BeginChange, Stream!Disturb
    <2> QED  BY <2>1, <2>2, <2>3, Zenon
  <1> QED  BY <1>1, <1>2, <1>3, <1>4 DEF Next, Interrupt, MainThread

\* What Acquisition takes the engine for is what the engine has been shown to be:
\* whatever the main thread stores and whenever, the points that are handed over
\* are those PointStream promises, as vna_measurement.cpp:187-248 does.
THEOREM FollowsPointStream == Spec => Stream!Spec
  <1>1. Init => Stream!Init
    BY DEF Init, Stream!Init
  <1>2. [Next]_vars => [Stream!Next]_(Stream!vars)
    BY StepFollows
  <1> QED  BY <1>1, <1>2, PTL DEF Spec, Stream!Spec

\* The promise asks nothing more of the main thread than it does: a restart asked
\* for with resetSweep() is one that PointStream allows, to a sweep it may have, and
\* while the sweep is being replaced a restart has been asked for or is among the
\* stores to come, so that no change leaves the stream interrupted for good
\* (main2.cpp:821-833, 1149-1183).
THEOREM RestartsAreAllowed ==
    Spec => [](/\ restarting => changing /\ target \in Configurations
               /\ changing => restarting \/ \E k \in DOMAIN todo : todo[k] = "restart")
  <1> DEFINE Asked == \E k \in DOMAIN todo : todo[k] = "restart"
             P == /\ restarting => changing /\ target \in Configurations
                  /\ changing => restarting \/ Asked
  <1>1. Init => InForce
    BY InitCollect
  <1>2. IInv /\ InForce /\ [Next]_vars => InForce'
    BY InForceInv
  <1>3. todo \in RestartToCome => Asked
    <2>1. SUFFICES ASSUME todo \in RestartToCome PROVE Asked
      OBVIOUS
    <2>2. CASE todo = UIStores
      BY <2>2 DEF UIStores
    <2>3. CASE todo \in {<<"points", "restart", "measuring">>, RegisterStores,
                         AveragingStores}
      BY <2>3 DEF RegisterStores, AveragingStores
    <2>4. CASE todo \in {<<"restart", "measuring">>, <<"restart">>,
                         <<"restart", "measuring", "everyPoint">>}
      BY <2>4
    <2> QED  BY <2>1, <2>2, <2>3, <2>4 DEF RestartToCome, PointsTails
  <1>4. IInv /\ InForce => P
    BY <1>3 DEF IInv, Types, TypeOK, Setting, InForce
  <1> HIDE DEF P
  <1>5. Spec => []P
    BY <1>1, <1>2, <1>4, Invariance, PTL DEF Spec
  <1> QED  BY <1>5 DEF P
===============================================================================
