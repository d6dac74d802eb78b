------------------------------ MODULE Acquisition ------------------------------
(***************************************************************************)
(* What main2.cpp makes of the measured points.  The measurement engine,   *)
(* here the stream PointStream promises, hands every point to              *)
(* measurementEmitDataPoint() in the ADC interrupt: it averages, collects  *)
(* the error box data (ecalState), collects calibration standards and      *)
(* queues the point for the main thread, which plots it or sends it to the *)
(* host.  The main thread starts and changes all of this, one store at a   *)
(* time.                                                                   *)
(*                                                                         *)
(* A measured value is abstracted to the set of frequencies it was         *)
(* measured at.                                                            *)
(***************************************************************************)
EXTENDS Integers, Sequences, FiniteSets

CONSTANTS
    UISweeps,           \* the sweeps the user sets: [start, step, points]
    HostSweeps,         \* the sweeps a host sets: [start, step, points, repeats]
    BootAverages,       \* _avg as recalled at boot
    BootSweeps,         \* the sweep as recalled at boot
    Averages,           \* the values the AVG menu gives to _avg
    RecalledAverages,   \* those that RECALL and RESET ALL may bring with a sweep
    HostAverages,       \* those a host writes to register 40
    Modes,              \* the values of _measurement_mode
    SweepPointsMax,     \* SWEEP_POINTS_MAX
    UsbPointsMax,       \* USB_POINTS_MAX
    QueueSize,          \* size of usbTxQueue
    IgnoreAfterSave,    \* ecalIgnoreValues after caldata_save()
    MaxAverage,         \* bound: currDPCnt is not counted beyond this
    MaxChanges          \* bound: changes by the main thread after boot

NoSweep == [start |-> 0, step |-> 0, points |-> 0, repeats |-> 0]
AnyAverage == BootAverages \cup Averages \cup RecalledAverages \cup HostAverages

\* What setVNASweepToUI() and setVNASweepToUSB() give to the engine.
UIConfig(s, n) == [start |-> s.start, step |-> s.step, points |-> s.points,
                   repeats |-> n]
Repeating(s, n) == [s EXCEPT !.repeats = n]
UsbConfig(s) == [s EXCEPT !.points = IF @ > UsbPointsMax THEN UsbPointsMax ELSE @]

Configurations ==
    {UIConfig(s, n) : s \in UISweeps, n \in AnyAverage}
        \cup {UsbConfig(Repeating(s, n)) :
                  s \in HostSweeps \cup {NoSweep},
                  n \in {h.repeats : h \in HostSweeps} \cup AnyAverage}
        \cup {NoSweep}

ASSUME AcquisitionAssumption ==
    /\ MaxAverage \in Nat /\ AnyAverage \subseteq 1 .. MaxAverage
    /\ UISweeps \subseteq [start : Nat, step : Nat, points : 2 .. SweepPointsMax]
    /\ HostSweeps \subseteq [start : Nat, step : Nat, points : Nat, repeats : Nat]
    /\ BootSweeps \subseteq UISweeps
    /\ SweepPointsMax \in Nat /\ UsbPointsMax \in Nat
    /\ SweepPointsMax <= UsbPointsMax
    /\ QueueSize \in Nat \ {0, 1}
    /\ {IgnoreAfterSave, MaxChanges} \subseteq Nat
    /\ "FULL" \in Modes

NoIndex == -1

VARIABLES
    \* the measurement engine, as PointStream has it
    sweep, changing, index, repeat, frequency,
    \* settings of the engine
    sweepPoints,        \* vnaMeasurement.sweepPoints
    restarting,         \* resetSweep() has been called and not yet seen
    measurement_mode, everyPoint,   \* everyPoint: ecalIntervalPoints is 1
    \* measurementEmitDataPoint()
    dataPointsPerFreq,  \* currSweepArgs.dataPointsPerFreq
    currDPCnt, lastFreqIndex,
    currDP,             \* frequencies of the points summed
    ecalState, ecalIgnoreValues,
    measuredEcal,       \* index -> frequencies of measuredEcal[0][index]
    collecting,         \* collectMeasurementType >= 0
    collectMeasurementState, collectMeasurementOffset,
    calData,            \* index -> frequencies of _cal_data[type][index]
    usbTxQueue,         \* the queued points, oldest first
    \* the main thread
    avg, configured,    \* current_props._avg and ._measurement_mode
    uiSweep, hostSweep, \* the sweep of current_props and of the registers
    usbDataMode, lastUSBDataMode,
    ui_disabled,
    collected,          \* collectMeasurementCB is in the event queue
    plotted,            \* index -> frequencies of measured[][index]
    todo, target,       \* stores still to come of a change; the sweep it sets
    changes,
    during,             \* the interrupt has acted during the current change
    \* history
    ignored,            \* points whose ecal data was ignored after a save, or
                        \* passed over by the averaging, when it was due
    undisturbed,        \* no change and no host since the collection began
    lateCallback,       \* the callback of a collection came after the sweep in
                        \* force was set
    carried             \* the sum of this first point went on across a restart,
                        \* with another frequency in it

engine   == <<sweep, changing, index, repeat, frequency>>
settings == <<sweepPoints, restarting, measurement_mode, everyPoint>>
average  == <<currDPCnt, lastFreqIndex, currDP>>
ecal     == <<ecalState, ecalIgnoreValues, measuredEcal, ignored>>
collect  == <<collecting, collectMeasurementState, collectMeasurementOffset,
              calData, collected>>
props    == <<avg, configured, uiSweep, hostSweep>>
display  == <<usbDataMode, lastUSBDataMode, ui_disabled, plotted>>
main     == <<todo, target, changes>>
history  == <<undisturbed, lateCallback, carried>>
vars     == <<engine, settings, dataPointsPerFreq, average, ecal, collect,
              usbTxQueue, props, display, main, during, history>>

Indices == 0 .. UsbPointsMax - 1

Stream == INSTANCE PointStream

-------------------------------------------------------------------------------
(* Plausible mistakes in the operators below; the project's mutants.       *)

\* setVNASweepToUI() sets ecalState only before the sweep.
UIStoresOnce == <<"full", "points", "restart">>
\* The collection ends one point early.
OffsetEarly(i) == IF i > 0 THEN i - 1 ELSE sweepPoints - 2
\* The collection waits for the index -1.
OffsetBefore(i) == i - 1
\* The state waits for an index that is never measured.
LastOfSweepBeyond(i) == i = sweepPoints
\* A set to be averaged is one point too long.
SetCompleteLate(n) == n = dataPointsPerFreq
\* The queue is filled to its last place, so that it looks empty.
QueueFullLate == Len(usbTxQueue) = QueueSize

-------------------------------------------------------------------------------
(* measurementEmitDataPoint(), called in the interrupt with a point.       *)

\* currDPCnt with the point.
CountDP == IF index # lastFreqIndex THEN 0
           ELSE IF currDPCnt < MaxAverage THEN currDPCnt + 1 ELSE currDPCnt

Averaging == dataPointsPerFreq > 1 /\ ~usbDataMode

SumDP == IF CountDP = 0 THEN {frequency} ELSE currDP \cup {frequency}

\* The last point of a set to be averaged.
SetComplete(n) == n = dataPointsPerFreq - 1

\* The value that is passed on.
Value == IF Averaging THEN SumDP ELSE {frequency}

\* The engine measured the error box with the point.
MayHaveEcal(e) ==
    /\ e => measurement_mode = "FULL"
    /\ measurement_mode = "FULL" /\ everyPoint => e

LastOfSweep(i) == i = sweepPoints - 1

\* collectAllowed
MayCollect(e) == collecting /\ e

OffsetFor(i) == IF i > 0 THEN i - 1 ELSE sweepPoints - 1

\* The ecal data of the point is still to be measured.
EcalDue == ecalState # "DONE" /\ measuredEcal[index] # {frequency}

\* An index whose ecal data was ignored while it was due, and has only been
\* blended since.
IgnoredAfter(e, kept) ==
    CASE e /\ ~kept /\ EcalDue                      -> ignored \cup {index}
      [] kept /\ (collecting \/ ecalState # "DONE")  -> ignored \ {index}
      [] OTHER                                        -> ignored

\* An index whose ecal data was due with a point that is only summed: currDPCnt
\* goes on where it was when a sweep restarts at the index just measured.
PassedOver == IF Stream!Last /\ EcalDue THEN ignored \cup {index} ELSE ignored

\* The part about ecalState; e: the ecal data has not been ignored.
UpdateEcal(e) ==
    IF ~e
    THEN UNCHANGED <<measuredEcal, ecalState, measurement_mode, everyPoint>>
    ELSE /\ measuredEcal' =
              [measuredEcal EXCEPT ![index] =
                  IF ~collecting /\ ecalState = "DONE" THEN @ \cup {frequency}
                  ELSE {frequency}]
         /\ IF collecting
            THEN UNCHANGED <<ecalState, measurement_mode, everyPoint>>
            ELSE IF ecalState = "MEASURING" /\ LastOfSweep(index)
            THEN /\ ecalState' = "2NDSWEEP"
                 /\ UNCHANGED <<measurement_mode, everyPoint>>
            ELSE IF ecalState = "2NDSWEEP"
            THEN /\ ecalState' = "DONE"
                 /\ everyPoint' = FALSE
                 /\ measurement_mode' = configured
            ELSE UNCHANGED <<ecalState, measurement_mode, everyPoint>>

\* The part about the calibration standard; at its end the callback is queued.
UpdateCollection(e) ==
    IF ~MayCollect(e)
    THEN UNCHANGED collect
    ELSE /\ calData' = [calData EXCEPT ![index] = Value]
         /\ IF collectMeasurementState = 0
            THEN /\ collectMeasurementState' = 1
                 /\ collectMeasurementOffset' = OffsetFor(index)
                 /\ UNCHANGED <<collecting, collected>>
            ELSE IF collectMeasurementOffset = index
            THEN /\ collectMeasurementState' = 0
                 /\ collecting' = FALSE
                 /\ collected' = TRUE
                 /\ UNCHANGED collectMeasurementOffset
            ELSE UNCHANGED <<collectMeasurementState, collectMeasurementOffset,
                             collecting, collected>>

QueueFull == Len(usbTxQueue) = QueueSize - 1

\* A full queue drops the point.
Enqueue ==
    usbTxQueue' = IF QueueFull THEN usbTxQueue
                  ELSE Append(usbTxQueue, [freqIndex |-> index, value |-> Value])

MeasurementEmitDataPoint ==
    /\ currDPCnt' = CountDP
    /\ lastFreqIndex' = index
    /\ currDP' = IF Averaging THEN SumDP ELSE currDP
    /\ IF Averaging /\ ~SetComplete(CountDP)
       THEN /\ ignored' = PassedOver
            /\ UNCHANGED <<ecalState, ecalIgnoreValues, measuredEcal, collect,
                           usbTxQueue, measurement_mode, everyPoint>>
       ELSE \E e \in BOOLEAN :
               LET kept == e /\ ecalIgnoreValues = 0 IN
               /\ MayHaveEcal(e)
               /\ ecalIgnoreValues' = IF ecalIgnoreValues = 0 THEN 0
                                      ELSE ecalIgnoreValues - 1
               /\ ignored' = IgnoredAfter(e, kept)
               /\ UpdateEcal(kept)
               /\ UpdateCollection(kept)
               /\ Enqueue

-------------------------------------------------------------------------------
(* The interrupt.                                                          *)

\* Bound: at most one point is completed, or one restart seen, during a change
\* by the main thread, which takes it microseconds.
WithinChange ==
    IF todo = <<>> THEN UNCHANGED during ELSE ~during /\ during' = TRUE

EmitPoint ==
    /\ Stream!Emit
    /\ MeasurementEmitDataPoint
    /\ carried' = (carried /\ ~(index = 0 /\ CountDP = 0))
    /\ UNCHANGED <<sweepPoints, restarting>>

\* A point of the old sweep, after the main thread has changed its settings.
EmitOldPoint ==
    /\ ~restarting
    /\ UNCHANGED <<engine, sweepPoints, restarting, carried>>
    /\ Stream!Disturb
    /\ MeasurementEmitDataPoint

Restart ==
    /\ restarting /\ restarting' = FALSE
    /\ sweep' = target
    /\ Stream!Restart
    /\ carried' = (Averaging /\ lastFreqIndex = 0
                     /\ ~(currDP \subseteq {target.start}))
    /\ UNCHANGED <<sweepPoints, measurement_mode, everyPoint, average, ecal,
                   collect, usbTxQueue>>

Interrupt ==
    /\ EmitPoint \/ EmitOldPoint \/ Restart
    /\ WithinChange
    /\ UNCHANGED <<dataPointsPerFreq, props, display, main, undisturbed,
                   lateCallback>>

-------------------------------------------------------------------------------
(* The main thread.  A change is a sequence of stores; "points" stands for *)
(* those of the sweep parameters.                                          *)

\* setVNASweepToUI()
UIStores == <<"full", "points", "restart", "measuring">>

\* setVNASweepToUSB(), and what a write of 00, 10 or 20 does after it.
USBStores == <<"points", "restart">>
RegisterStores == <<"points", "restart", "measuring", "everyPoint">>

\* updateAveraging(), after currSweepArgs
AveragingStores == <<"points", "restart">>

\* cal_collect()
CollectStores == <<"mode", "everyPoint", "restart", "collect">>

\* caldata_save()
SaveStores == <<"ignoreAll", "ignoreSome">>

Begin(stores) ==
    /\ todo = <<>> /\ changes < MaxChanges
    /\ changes' = changes + 1
    /\ todo' = stores
    /\ UNCHANGED <<engine, settings, average, ecal, collect, usbTxQueue, plotted,
                   during>>

\* The UI is shown and takes events.
UIActive == ~usbDataMode /\ ~lastUSBDataMode /\ ~ui_disabled

\* set_sweep_frequency(), set_sweep_points(), set_measurement_mode(),
\* caldata_recall() and cal_reset_all(): some bring an average with them.
SetSweep ==
    /\ UIActive /\ Begin(UIStores)
    /\ uiSweep' \in UISweeps /\ configured' \in Modes
    /\ avg' \in {avg} \cup RecalledAverages
    /\ target' = UIConfig(uiSweep', avg')
    /\ undisturbed' = FALSE /\ lateCallback' = FALSE /\ UNCHANGED carried
    /\ UNCHANGED <<dataPointsPerFreq, hostSweep, usbDataMode, lastUSBDataMode,
                   ui_disabled>>

\* set_averaging(), from the menu or from register 40
SetAveraging ==
    /\ avg' \in IF UIActive THEN Averages ELSE HostAverages
    /\ IF usbDataMode \/ avg' = dataPointsPerFreq
       THEN Begin(<<>>) /\ UNCHANGED <<dataPointsPerFreq, target>>
       ELSE /\ Begin(AveragingStores)
            /\ dataPointsPerFreq' = avg'
            /\ target' = Repeating(target, avg')
    /\ undisturbed' = FALSE /\ UNCHANGED <<lateCallback, carried>>
    /\ UNCHANGED <<configured, uiSweep, hostSweep, usbDataMode, lastUSBDataMode,
                   ui_disabled>>

CalCollect ==
    /\ UIActive /\ Begin(CollectStores)
    /\ ui_disabled' = TRUE
    /\ undisturbed' = TRUE /\ UNCHANGED <<lateCallback, carried>>
    /\ UNCHANGED <<dataPointsPerFreq, props, target, usbDataMode, lastUSBDataMode>>

CaldataSave ==
    /\ UIActive /\ Begin(SaveStores)
    /\ UNCHANGED <<dataPointsPerFreq, props, target, usbDataMode, lastUSBDataMode,
                   ui_disabled, history>>

CalDone ==
    /\ UIActive /\ todo = <<>> /\ changes < MaxChanges
    /\ changes' = changes + 1
    /\ measurement_mode' = configured
    /\ UNCHANGED <<engine, sweepPoints, restarting, everyPoint, dataPointsPerFreq,
                   average, ecal, collect, usbTxQueue, props, display, todo,
                   target, during, history>>

\* A register is written: 00, 10 or 20.
HostSetSweep ==
    /\ Begin(RegisterStores)
    /\ usbDataMode' = TRUE
    /\ hostSweep' \in HostSweeps
    /\ target' = UsbConfig(hostSweep')
    /\ undisturbed' = FALSE /\ UNCHANGED <<lateCallback, carried>>
    /\ UNCHANGED <<dataPointsPerFreq, avg, configured, uiSweep, lastUSBDataMode,
                   ui_disabled>>

\* Register 22 is written.
HostSetValues ==
    /\ Begin(USBStores)
    /\ usbDataMode' = TRUE
    /\ \E h \in HostSweeps : hostSweep' = Repeating(hostSweep, h.repeats)
    /\ target' = UsbConfig(hostSweep')
    /\ undisturbed' = FALSE /\ UNCHANGED <<lateCallback, carried>>
    /\ UNCHANGED <<dataPointsPerFreq, avg, configured, uiSweep, lastUSBDataMode,
                   ui_disabled>>

\* Register 26 is written with 2, or the lever is held (reconnectUSB()).
ExitUSBDataMode ==
    /\ usbDataMode /\ todo = <<>>
    /\ usbDataMode' = FALSE
    /\ UNCHANGED <<engine, settings, dataPointsPerFreq, average, ecal, collect,
                   usbTxQueue, props, lastUSBDataMode, ui_disabled, plotted, main,
                   during, history>>

\* cmdReadFIFO(), for one point: a host takes over.
CmdReadFIFO ==
    /\ todo = <<>> /\ usbTxQueue # <<>>
    /\ usbDataMode \/ changes < MaxChanges
    /\ changes' = IF usbDataMode THEN changes ELSE changes + 1
    /\ usbDataMode' = TRUE
    /\ usbTxQueue' = Tail(usbTxQueue)
    /\ undisturbed' = FALSE /\ UNCHANGED <<lateCallback, carried>>
    /\ UNCHANGED <<engine, settings, dataPointsPerFreq, average, ecal, collect,
                   props, lastUSBDataMode, ui_disabled, plotted, todo, target,
                   during>>

\* Register 30 is written: the queue is cleared.
HostClearFIFO ==
    /\ usbDataMode /\ todo = <<>>
    /\ usbTxQueue' = <<>>
    /\ UNCHANGED <<engine, settings, dataPointsPerFreq, average, ecal, collect,
                   props, display, main, during, history>>

\* The main loop notices that the mode has changed.
StartChange(stores, t) ==
    /\ todo = <<>>
    /\ todo' = stores /\ target' = t
    /\ lastUSBDataMode' = usbDataMode
    /\ undisturbed' = FALSE /\ lateCallback' = FALSE /\ UNCHANGED carried
    /\ UNCHANGED <<engine, settings, dataPointsPerFreq, average, ecal, collect,
                   usbTxQueue, props, usbDataMode, ui_disabled, plotted, changes,
                   during>>

NoticeUSBDataMode ==
    usbDataMode /\ ~lastUSBDataMode /\ StartChange(USBStores, UsbConfig(hostSweep))

NoticeUIMode ==
    ~usbDataMode /\ lastUSBDataMode /\ StartChange(UIStores, UIConfig(uiSweep, avg))

\* processDataPoint() empties the queue, but stops at the end of a sweep; what
\* the interrupt adds meanwhile is for the next time.
Taken ==
    Cardinality({n \in DOMAIN usbTxQueue :
                    \A m \in 1 .. n - 1 : ~LastOfSweep(usbTxQueue[m].freqIndex)})

\* The value plotted for an index is that of its last point.
PlottedAfter(i) ==
    LET of == {n \in 1 .. Taken : usbTxQueue[n].freqIndex = i}
        last == {n \in of : \A m \in of : m <= n}
    IN  IF of = {} THEN plotted[i] ELSE UNION {usbTxQueue[n].value : n \in last}

ProcessDataPoint ==
    /\ ~usbDataMode /\ ~lastUSBDataMode /\ todo = <<>>
    /\ usbTxQueue # <<>>
    /\ plotted' = [i \in Indices |-> PlottedAfter(i)]
    /\ usbTxQueue' = SubSeq(usbTxQueue, Taken + 1, Len(usbTxQueue))
    /\ UNCHANGED <<engine, settings, dataPointsPerFreq, average, ecal, collect,
                   props, usbDataMode, lastUSBDataMode, ui_disabled, main, during,
                   history>>

\* The callback cal_collect() has left for the end of the collection.
CalCollected ==
    /\ collected /\ todo = <<>>
    /\ collected' = FALSE
    /\ everyPoint' = FALSE
    /\ ui_disabled' = FALSE
    /\ lateCallback' = (lateCallback \/ ~undisturbed)
    /\ UNCHANGED <<undisturbed, carried>>
    /\ UNCHANGED <<engine, sweepPoints, restarting, measurement_mode,
                   dataPointsPerFreq, average, ecal, collecting,
                   collectMeasurementState, collectMeasurementOffset, calData,
                   usbTxQueue, props, usbDataMode, lastUSBDataMode, plotted, main,
                   during>>

MainLoop ==
    NoticeUSBDataMode \/ NoticeUIMode \/ ProcessDataPoint \/ CalCollected

\* The next store of a change.
Store ==
    /\ todo # <<>>
    /\ todo' = Tail(todo)
    /\ during' = (during /\ todo' # <<>>)
    /\ LET store == Head(todo) IN
       /\ sweepPoints' = IF store = "points" THEN target.points ELSE sweepPoints
       /\ IF store \in {"points", "restart"}
          THEN changing' = TRUE /\ UNCHANGED <<sweep, index, repeat, frequency>>
          ELSE UNCHANGED engine
       /\ restarting' = (restarting \/ store = "restart")
       /\ measurement_mode' =
              IF store \in {"full", "mode"} THEN "FULL" ELSE measurement_mode
       /\ everyPoint' = (everyPoint \/ store \in {"full", "everyPoint"})
       /\ ecalState' =
              IF store \in {"full", "measuring"} THEN "MEASURING" ELSE ecalState
       /\ collecting' = (collecting \/ store = "collect")
       /\ ecalIgnoreValues' = CASE store = "ignoreAll" -> IgnoreAfterSave + 1
                                [] store = "ignoreSome" -> IgnoreAfterSave
                                [] OTHER -> ecalIgnoreValues
    /\ UNCHANGED <<dataPointsPerFreq, average, measuredEcal, ignored,
                   collectMeasurementState, collectMeasurementOffset, calData,
                   collected, usbTxQueue, props, display, target, changes,
                   history>>

User == SetSweep \/ SetAveraging \/ CalCollect \/ CaldataSave \/ CalDone
Host == HostSetSweep \/ HostSetValues \/ ExitUSBDataMode \/ CmdReadFIFO
        \/ HostClearFIFO

Next == Interrupt \/ MainLoop \/ Store \/ User \/ Host

-------------------------------------------------------------------------------
\* setVNASweepToUI() has been called at boot (main2.cpp:1708) and nothing of it
\* done; currSweepArgs is zero.
Init ==
    /\ sweep = NoSweep /\ changing = TRUE
    /\ index = 0 /\ repeat = 0 /\ frequency = 0
    /\ sweepPoints = 1 /\ restarting = FALSE
    /\ measurement_mode = "FULL" /\ everyPoint = FALSE
    /\ dataPointsPerFreq = 0
    /\ currDPCnt = 0 /\ lastFreqIndex = NoIndex /\ currDP = {}
    /\ ecalState = "MEASURING" /\ ecalIgnoreValues = 0
    /\ measuredEcal = [i \in Indices |-> {}]
    /\ collecting = FALSE
    /\ collectMeasurementState = 0 /\ collectMeasurementOffset = NoIndex
    /\ calData = [i \in Indices |-> {}]
    /\ usbTxQueue = <<>>
    /\ avg \in BootAverages /\ configured \in Modes
    /\ uiSweep \in BootSweeps /\ hostSweep = NoSweep
    /\ usbDataMode = FALSE /\ lastUSBDataMode = FALSE
    /\ ui_disabled = FALSE /\ collected = FALSE
    /\ plotted = [i \in Indices |-> {}]
    /\ todo = UIStores /\ target = UIConfig(uiSweep, avg)
    /\ changes = 0 /\ during = FALSE
    /\ ignored = {} /\ undisturbed = FALSE /\ lateCallback = FALSE /\ carried = FALSE

Spec == Init /\ [][Next]_vars

\* The ADC never stops, the main thread finishes what it has begun and its loop
\* comes round again; the user and the host may do nothing.
Fairness ==
    /\ WF_vars(Interrupt) /\ WF_vars(Store)
    /\ WF_vars(NoticeUSBDataMode \/ NoticeUIMode)
    /\ WF_vars(ProcessDataPoint) /\ WF_vars(CalCollected)

\* The main loop keeps up with the ADC: a point takes milliseconds, the queue
\* holds 127, and the loop draws between emptying it.
KeepsUp == []<>(usbTxQueue = <<>> \/ usbDataMode)

FairSpec == Spec /\ Fairness /\ KeepsUp

-------------------------------------------------------------------------------
(* Properties.                                                             *)

Freqs == {c.start + c.step * i : c \in Configurations, i \in Indices}

TypeOK ==
    /\ {sweep, target} \subseteq Configurations
    /\ {changing, restarting, everyPoint, collecting, usbDataMode,
        lastUSBDataMode, ui_disabled, collected, during, undisturbed,
        lateCallback, carried}
           \subseteq BOOLEAN
    /\ index \in Indices /\ repeat \in Nat /\ frequency \in Freqs
    /\ sweepPoints \in 0 .. UsbPointsMax
    /\ measurement_mode \in Modes /\ configured \in Modes
    /\ dataPointsPerFreq \in 0 .. MaxAverage /\ avg \in 1 .. MaxAverage
    /\ currDPCnt \in 0 .. MaxAverage
    /\ lastFreqIndex \in Indices \cup {NoIndex}
    /\ ecalState \in {"MEASURING", "2NDSWEEP", "DONE"}
    /\ ecalIgnoreValues \in 0 .. IgnoreAfterSave + 1
    /\ currDP \subseteq Freqs /\ ignored \subseteq Indices
    /\ \A a \in {measuredEcal, calData, plotted} : a \in [Indices -> SUBSET Freqs]
    /\ collectMeasurementState \in {0, 1}
    /\ collectMeasurementOffset \in Indices \cup {NoIndex}
    /\ usbTxQueue \in Seq([freqIndex : Indices, value : SUBSET Freqs])
    /\ Len(usbTxQueue) < QueueSize
    /\ changes \in 0 .. MaxChanges

\* No change is under way.
Steady == todo = <<>> /\ ~changing

\* The UI is shown and its sweep has been set: a host that sets a sweep and ends
\* the USB mode before the main loop has noticed either leaves its sweep in force.
UIMode ==
    /\ ~usbDataMode /\ ~lastUSBDataMode
    /\ \A f \in {"start", "step", "points"} : target[f] = uiSweep[f]

\* The indices of the sweep in force and the frequency of one.
Swept == 0 .. sweep.points - 1
FreqAt(i) == sweep.start + sweep.step * i

\* The callback of a collection that was disturbed has come, or will.
LateCallback == lateCallback \/ (collected /\ ~undisturbed)

\* When the state machine says that the error box data is complete, the data of
\* every point was measured at the frequencies of this sweep, whatever moment
\* the last one was replaced at (main2.cpp:1031-1083, 1157-1164); but for the
\* points for which caldata_save() had it ignored or that the averaging passed
\* over, its count not being reset with the sweep (main2.cpp:1009), and unless the
\* callback of a collection a host has interrupted ends the measuring of every
\* point too early.
EcalComplete ==
    UIMode /\ Steady /\ ecalState = "DONE" /\ ~LateCallback =>
        \A i \in Swept \ ignored : measuredEcal[i] = {FreqAt(i)}

\* When a calibration standard has been collected, every point of the sweep has
\* been, at its frequency, wherever the collection began and however the points
\* were averaged (main2.cpp:1009-1029, 1089-1131), unless a host took over or the
\* interrupt had undone what cal_collect() set; only the first point's average
\* may hold what was measured of another sweep before the restart.
CollectionComplete ==
    [][Steady /\ undisturbed /\ everyPoint /\ collecting /\ ~collecting' =>
          \A i \in Swept : calData'[i] = {FreqAt(i)} \/ (carried /\ i = 0)]_vars

\* The main thread has no point at hand that current_props and measured have no
\* place for: "there is only one values FIFO that is used in both USB mode and
\* normal UI mode; therefore the execution should not reach here when we are in
\* USB mode" (main2.cpp:1756-1759).
PlottedInRange == \A i \in Indices : i >= SweepPointsMax => plotted[i] = {}

\* Once nothing is changed any more and the UI is shown, it shows the sweep that
\* is set, at all its points, and goes on to: "read data points from the values
\* FIFO and plot them" (main2.cpp:1756).
DisplayConverges ==
    <>[]UIMode => <>[](\A i \in Swept : plotted[i] = {FreqAt(i)})

\* The full mode, which a new sweep starts in, is left again for the configured
\* one: "after ecalState is done we goto the configured mode" (main2.cpp:1155).
EcalEnds ==
    UIMode /\ ecalState # "DONE" /\ everyPoint ~>
        ecalState = "DONE" \/ ~everyPoint \/ measurement_mode # "FULL" \/ ~UIMode

\* A collection ends and gives the UI back to the user (ui.cpp:417-428), if the
\* interrupt has not undone what cal_collect() set.
CollectionEnds ==
    ui_disabled /\ undisturbed /\ todo = <<>> /\ everyPoint /\ measurement_mode = "FULL"
        ~> ~ui_disabled \/ ~undisturbed

\* "Collect measure start from freqIndex, need collect all data"
\* (main2.cpp:1104): every collection that is begun ends.
CollectionAlwaysEnds == ui_disabled /\ undisturbed ~> ~ui_disabled \/ ~undisturbed
===============================================================================
