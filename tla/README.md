# TLA+ models of the NanoVNA V2 firmware

The firmware of a two-port vector network analyser: one Cortex-M core, a main
thread that plots and obeys the user and a USB host, and interrupts that
measure.  These modules model the parts where the order of things matters,
TLC checks them on small instances, and TLAPS proves their safety properties for
every value of their constants: the event queue, the stream of samples from the
converter, the measurement engine, what becomes of its points, the host link and
the bootloader, the lever and the touch contact, the menus and the keypad, what is
known to be out of date on the screen, the arithmetic of the sweep settings, and
the settings in flash.

* `*.tla`, `*.cfg` - the modules and the runs; `PROJECT.json` lists every run
  with its properties, the lines each definition models, a mutation of the
  code's logic each property catches, what was found, and the hazards.
* Check a run: `tlc -config MCEventQueue.cfg MCEventQueue`; check the proofs:
  `tlapm` on every `*Proofs.tla`.

## 1. The system

### Contexts

| context | priority | does |
|---|---|---|
| main thread | - | `main2.cpp` main loop: host commands, UI events, plotting, settings |
| UI timer (TIM2, 20 Hz) | 0x80 | `UIHW::checkButtons()`, puts UI events in `eventQueue` |
| ADC timer (TIM1) | 0x00 | `adc_process()`: samples to `VNAMeasurement`, its callbacks, `measurementEmitDataPoint()` |
| USB | 0xf0 | received bytes into `cmdInputFIFO` |

There are no locks.  Contexts share memory through two lock-free queues
(`eventQueue`, `usbTxQueue`), a byte ring (`cmdInputFIFO`) and plain fields of
`vnaMeasurement`, `ecalState`, `measuredEcal`, `current_props` and a few flags.

### Components

| component | state | operations | interacts with | correct when |
|---|---|---|---|---|
| event queue (`fifo.hpp`) | slots with a status, `_rpos`, `_wpos2` | enqueue, readable, read, dequeue | all interrupts write, main thread reads | nothing lost, repeated, overtaken, torn; refused only when full; never aborts |
| measurement engine (`vna_measurement.*`, callbacks in `main2.cpp`) | sweep, point, phase, sums, waits, gain, ecal counters | a demodulated value arrives; setSweep, resetSweep | main thread changes its fields under it; calls back for switches, frequency, points | only settled samples are summed; a point is of one frequency, phase set and gain; points in order; always goes on |
| acquisition (`main2.cpp`) | average, `ecalState`, `measuredEcal`, collection, `usbTxQueue`, modes, `measured` | a point arrives; new sweep, AVG, CALIBRATE, save; host registers; main loop | engine, UI, host | ecal data complete when it is said to be; calibration complete; display converges; UI comes back |
| host link (`stream_fifo.*`, `command_parser.*`) | byte ring, parser phase, registers | input, drain, handleInput | USB interrupt, acquisition, bootloader | framing kept; chunks do not matter; host can reset it |
| bootloader | flash page, word buffer, write address | flash write, reset | host script | image in flash is the image sent |
| ADC ring and sample processor (`main2.cpp`, `sample_processor.hpp`) | ring filled by DMA, `lastIndex`, sums, phase, clip flag | adc_read, adc_process, process, emitValue, raw mode | feeds the engine, whose callbacks change the table | every value is the sum of its own samples, in step with the table |
| settings store (`flash.cpp`) | areas with magic and checksum, `crc_cache`, `lastsaveid` | save, recall, reference, clear | sweep settings | a torn area is never recalled |
| sweep settings, interpolation (`main2.cpp`) | `frequency0/1`, points, mode, calibration | set_sweep_*, cal_interpolate | acquisition, store | range kept; calibration of the right frequencies |
| lever and touch (`uihw.cpp`) | debouncers, tick counters | checkButtons | event queue | every press is released and means one thing; a lever held is noticed |
| menus, keypad (`ui.cpp`) | menu stack, selection, modal flags, mode | process event | event queue, everything above | the way back is kept; never stuck in a handler that waits |
| screen (`plot.cpp`, `ui.cpp`) | two maps of cells, redraw requests, cancel flag | plot, mark, draw, swap, open and close menu and keypad | events are handled in the middle of a drawing | nothing out of date stays, nothing is drawn over the keypad |
| gain calibration, synthesizers, touch controller, USB driver, boards | | | | arithmetic and peripherals |

### What is hard

Stores of the main thread with an interrupt between any two of them; results of
an old sweep used in a new one; queues that are full; callbacks that come late;
an excursion to the USB mode in the middle of anything; counters that rotate;
drawings nested in drawings; power lost between two words of flash.
`PROJECT.json` lists 40 such hazards at their lines, with the properties that
would catch them or the reason why none does yet.

## 2. Modules

| module | models | abstract specification |
|---|---|---|
| `BoundedQueue` | what a bounded queue with reservation promises | - |
| `EventQueue` | `fifo.hpp` step by step, and who may interrupt whom | `BoundedQueue` |
| `AdcStream` | the ring of samples, `adc_read()`, `adc_process()`, `SampleProcessor`, the raw mode | what a value consists of, in `ValuesWhole` |
| `PointStream` | what the engine promises the receiver of its points | - |
| `VNAMeasurement` | `vna_measurement.cpp`, its callbacks, and every way the main thread changes it | `PointStream` |
| `Acquisition` | what becomes of the points; composed with the engine through `PointStream` | |
| `HostLink` | `stream_fifo.cpp` and `command_parser.cpp`, which application and bootloader share, and a host | `Meaning`, the grammar of commands |
| `Bootloader` | extends `HostLink` with the flash handlers and the host program `bootload_firmware.py` | |
| `Lever` | `uihw.cpp` and `debouncer.hpp`: one check of all contacts at a time | |
| `UserInterface` | the menus, keypad, modes and waiting handlers of `ui.cpp`, as the main loop drives them | |
| `Screen` | which cells are out of date, and which the firmware knows to be | |
| `SweepSettings` | the settings of a sweep and calibration interpolation, as operators | the neighbours of a frequency, `FromNeighbours` |
| `SettingsStore` | the settings in use, in flash and on the way there; uses `SweepSettings` | |
| `EventQueueProofs`, `AdcStreamProofs`, `VNAMeasurementProofs`, `AcquisitionProofs`, `BootloaderProofs`, `UserInterfaceProofs`, `ScreenProofs`, `SettingsStoreProofs` | theorems | |
| `MC*` | constants for TLC | |

**EventQueue.** A writer's `enqueue()` is cut at every shared access:
`SnapshotWPos`, `RefuseFull`/`FindRoom` (the read of `_rpos`), `ClaimSlot` or
`RetryClaim` (the compare-and-swap), `WriteElement`, `EndEnqueue` (the status).
The reader's turn is `SeeReadable`, `CopyHead`, `ClearStatus`, `AdvanceRPos`.
Positions are modulo `PosRange`, a small multiple of the size in place of
2^32, so that they wrap round during a run.  `MayRun` is the schedule: a
discipline (constant `Disciplines`) gives every context a priority.  With
distinct priorities a handler runs to its end before what it interrupted
continues, as on the device (`Nested`: the reader is below every writer); with
equal ones all contexts are threads, as the comment in `fifo.hpp` promises.

**VNAMeasurement.** `Handler` is `sampleProcessor_emitValue()`: one disjunct
per path through it.  A measured value is abstracted to where it was taken:
frequency, switches, gain and whether everything had settled.  The main thread
is a sequence of pending stores (`todo`), each one step, with interrupts
in between; `UIStores`, `USBStores`, `CollectStores` and `AveragingStores` are
the sequences of `setVNASweepToUI()`, `setVNASweepToUSB()`, `cal_collect()` and
`updateAveraging()`.  A 64-bit frequency is written in two halves on this
32-bit core: an interrupt in between may see a torn value (`TornFreqs`).
`reported` is the flag the callback reads as a point is handed over; whether it should have been set
is a history of its own: `clippedSum`, whether a clipped period is in the sum, `clippedTerm`, whether
one is in a term of the point other than THRU's, `clippedLeft`, whether one was in a point that a
restart has thrown away.

**Acquisition.** The engine is replaced by `PointStream`: between changes its
points come in order; while the main thread is changing it, a point of the old
sweep may still come.  `MeasurementEmitDataPoint` is the callback in full:
averaging, ecal state, collection, queue.  A measured value is the set of
frequencies that went into it, so a blended or averaged value shows what it was
made of.  `Store` executes the next store of a change; `NoticeUSBDataMode`,
`NoticeUIMode`, `ProcessDataPoint` and `CalCollected` are the main loop.

**HostLink, Bootloader.** A host is a stream of bytes with the places where it
waits for a reply; `Input(n)` is a USB packet, of any size, that the interrupt
puts in the ring at any moment.  `drain()` is `BeginDrain`, `NextChunk` (the
ring has wrapped) and `EndDrain`; between them each round of the parser's loop is
an action, one per way through it (`Opcode`, `Address`, `Parameter`,
`WriteMore`, `WriteLast`, `StartWriteFIFO`, `ResumeWriteFIFO`).  Bytes are
themselves, since a byte is an opcode, an address, a length or data only by its
place.  The history `calls` is compared with `Meaning`, which reads the same bytes
by the table of commands and knows nothing of rings and chunks.  `Bootloader`
joins the handlers to the actions that call them: `HandleWriteFIFO` cuts data into
words, erases pages and programs words; `HandleWrite` resets the device.
The history `handed` is what `handleFlashWrite()` has been called with.
`Upload` computes what the host program sends for an image.  What is claimed of a host
that paces itself, or uploads an image, rests on what its stream is: `KeepsPace` and `IsUpload`.
`PacedAssumption` and `UploadAssumption` say so of the streams, TLC evaluates them on those of
the runs, and `UploadsKeepPace` proves them of `Upload` for every image.

**AdcStream.** A sample is its number, so a sum shows which samples are in it.
`Convert` is the converter and its DMA channel, which wait for nobody: it may
happen between any two steps.  `AdcProcess`, `Read` (`adc_read()`), `Process` (one round of
`process()`), `EmitValue` (the callback, which takes any time and may set another
table) and `EndOfSlice` are the interrupt; `SetRaw`, `TransmitRaw` and
`SetCorrelationTable` are the main thread for a host that wants raw samples.
When the ring is filled before it is read (`Laps`), samples are lost and the
values concerned are marked `spoiled`: the code does not notice, and nothing is
claimed of them.

**Lever.** `CheckButtons` is one run of the 20 Hz interrupt: the levels of the
contacts are arbitrary, `EventsOf` is what is emitted for one contact.

**UserInterface.** The queue's contents are events whose effect depends on the
mode; a handler that waits (`menu_select_touch()`, `touch_cal_exec()`, ...) is the
record `modal`, and events meanwhile only wake it.  An enqueue into a full
queue is lost.  The host's commands switch `usbDataMode` at any moment at which
the main thread looks; the main loop follows it.

**Screen.** The state of the display is abstracted to the set `stale` of cells
whose contents have changed since they were drawn, and to the set `icons` of cells
that show the marker's icon.  Its place is a function of the trace and of the marker's position
(`IconOf`), so that a plot moves the icon of a marker that has not moved:
`plot_into_index()` marks the trace before and after and the icon's new place, not the old
one, which is left to the map of the last drawing.  Drawings are on a stack,
since `plot_tick()` handles events after each cell and their handlers may
draw themselves.  What follows each event (mark, request, draw, cancel) is
taken from its handler; so is what the handler does when the drawing it began
returns, such as drawing the menu even if the user has closed it meanwhile
(`DrawnOver`).  `raced` and `unkept` are histories: `unkept`, that the map of the last drawing may be
without the icon; `raced`, the cells of which the code keeps no account, until they are drawn:
those that change where two drawings in progress have passed (`PassedTwice`: the map that is
kept for the inner one is dropped by the outer one), and, with `unkept`, those that are not marked.

**SweepSettings, SettingsStore.** Every `set_sweep_frequency()` is an operator on
the record of settings; `Interpolated` is the loop of `cal_interpolate()` as a
function of the two sweeps, whose result for a point is the set of points of the old
sweep that it comes from.  `SettingsStore` adds flash as pages and words:
`ErasePage` and `ProgramWord` are the steps of `flash_program_data()`,
`FailSave` its early returns, `PowerCycle` may come before any of them.
`Recall` copies whatever passes `Trusted`, the test in the code.

## 3. Runs

| run | shows | bounds |
|---|---|---|
| `event_queue` | order, exclusive slots, no abort, refusals justified under nesting, refinement of `BoundedQueue`, everything claimed is delivered | 4 slots, positions modulo 8 so that they wrap, 2 writers with 7 calls and one, as many as there are positions; both disciplines |
| `vna` | settled samples, gain range, the clip flag of every point, coherent points, refinement of `PointStream`, points and ecal measurements keep coming, in all modes and under changes by user and host | sweeps of 3 points over the bands of the gain tables, of 2 and of one frequency, a host's just begun with none; gains 0..2, one change, at most `MaxDuring` interrupts during it |
| `acquisition` | ecal data complete when declared so; calibration complete | two sweeps of 2 points, a host's of 3, averages 1 and 2, three changes after boot (AVG, a sweep and a calibration is the least that lets a sum go on into another sweep); a view leaves out what the queued and plotted values were measured at, which steers nothing and which this run's properties do not read |
| `acquisition_live` | display converges, full mode ends, collection ends | same, one change, any number of returns from the USB mode; the type invariant too, with no view |
| `acq_frozen` | *violated*: average left behind, no point is passed on | no host |
| `host_link` | commands keep their meaning, paced hosts lose nothing, flash holds what was sent, uploads end | ring of 32 bytes, packets of up to 7, images of 9 and 12 bytes in blocks of 3 and 4, pages of two words; streams with every command; a flood of 35 bytes |
| `boot_last_word` | *violated*: last word of an image not in flash at the reset | images of 5 and 8 bytes |
| `lever` | presses are well formed; what is held for good is noticed | a jog, the center and the touch contact; one level of debouncing, delay and interval of 3 checks; no bound on time |
| `screen` | nothing out of date is forgotten; no cell is drawn over the keypad; the display catches up | 3 cells, two traces, two marker positions, icons on and off the trace, 4 events, one drawing inside another |
| `ui` | menu path and selection, redraw enabled as it should be, the user gets back | all menus of `ui.cpp`, a queue of one event, numbers of 2 characters; no bound on time |
| `settings` | range kept, calibration from the neighbours, recalled sets were saved whole | frequencies 1..5, numbers 0..6 entered, 2 to 4 points, 2 areas of 2 pages and 6 words, 2 saves, 2 changes; power lost and failures anywhere |
| `adc_stream` | values are whole, interrupts leave nothing behind | a ring of 4 words, tables of 2 and 3, 11 samples: the ring begins again twice and can be lapped |

The bounds are the smallest at which the interesting case happens: positions
that wrap round, a sweep whose first and last points differ, a gain that can
step both ways, a second change after a first, a stream longer than the ring, a
number below and above the range, a ring that begins again between two reads.
In `screen` three cells are one under the menu, one with the readings and one that only an icon
touches; two traces and a marker at two places move the icon to it and away; the fourth event is what it takes to close a menu whose
entry is drawing, and to let a nested drawing empty both maps before the menu comes back over
the plot; a third level of drawings adds nothing that the second does not, and is
covered by the proof.  A queue of one event makes every second event one that can be refused.  `MaxDuring` (engine) and
"at most one interrupt acts during a change" (acquisition) reflect that a change
takes the main thread microseconds and a value 150 microseconds or more.

### Fairness

The ADC interrupt is a timer: it always comes again.  Interrupt handlers end, and
the main thread finishes the stores it has begun and its loop comes round, so
each of these has weak fairness; the user, the host and the UI timer have
none.  `KeepsUp` in `Acquisition` is an assumption on speed, not on scheduling: the main
loop empties the points queue now and then (a point takes milliseconds, the queue
holds 127).  Without it a display that always looks just when the queue is full
of one frequency could miss another for ever.  In `HostLink` packets that were
sent arrive (USB retries them) and the main loop runs; the host program sends what
it has to send.  `Lever` has weak fairness of the timer's check.  In `Screen` a
drawing goes on and a touch is released in the end (weak), and the main loop, which
plots whenever no drawing is in progress, draws again and again (strong: now and then
`lcdInhibit` is clear when the drawing is due).  In `UserInterface` the main thread goes on
and the interrupt ends a collection (weak); the touch test, which looks every 50 ms,
sees one time that the touch has ended (strong).  `UserPersists` there is
an assumption on the user, part of the property: releases and touches get into
the queue now and then.

### What was found

Two runs end in a violation, of what the repository says of itself:

* `main2.cpp:1015` - RESET ALL or RECALL after AVG freezes the display
  (`acq_frozen`);
* `bootloader.cpp:366` - the last word of an image may never be programmed
  (`boot_last_word`).

Five properties are stated and do not hold; each takes one line in a `.cfg`:

| property | in | with | because |
|---|---|---|---|
| `EcalReachesEveryPoint` | `VNAMeasurement` | `MCVNAMeasurement.cfg` with `EcalInterval = 3` and `MaxChanges = 0` | `vna_measurement.cpp:173`: for some sweep lengths one residue class of points never has its ecal data refreshed |
| `PlottedInRange` | `Acquisition` | `MCAcqLive.cfg` with `SweepPointsMax = 2` | `main2.cpp:1746`: points queued in the USB mode are plotted in the UI |
| `CollectionAlwaysEnds` | `Acquisition` | `MCAcqLive.cfg` | `main2.cpp:1874`: a calibration begun at the wrong moment loses the full mode; `CollectionEnds` has this case as its exception |
| `KnownStateAfterZeros` | `Bootloader` | `MCBootloader.cfg` with `Streams <- Stopped` | `command_parser.cpp:5`: the host's reset sequence is too short for a FIFO write or a register write of 8 bytes |
| `TailFilled` | `SettingsStore` | `MCSettings.cfg` | `main2.cpp:1411`: "fill cal_data at tail of src" happens only if the loop meets the last step of the old sweep; a wider step jumps over it (saved 1 to 4 with two points, then 1 to 7 with two) |

Exceptions named in the properties are behaviour of the code as well:

* `EcalComplete`, `CollectionComplete`: `currDPCnt` and `lastFreqIndex` are not reset with
  the sweep (`main2.cpp:1009`).  A sweep that restarts at the index just measured goes on
  with the old count, so with AVG on the last measurement of its first point may be one that is only
  summed, and the error box data measured with it is passed over (`ignored`); a
  calibration standard's first point may be the average of what was measured before and after
  (`carried`).  Both need three changes, so no shorter run shows them.
* `RecallsWhatWasSaved`, `FreqInRange`: `flash_caldata_save()` marks the area as checked
  even if programming failed (`flash.cpp:114`-`116`), and until power is lost what is
  there is recalled unchecked.
* `UserGetsBack`: the callback that ends a collection is lost when the queue is
  full (`main2.cpp:1129`); the user stays shut out.
* `RedrawMatchesKeypad`: a host takes over while the keypad is open
  (`main2.cpp:1737` overwrites `ui_mode`); the display then stands still when the host
  lets go, until a keypad is opened and closed again.
* `ClipsReported`: a restart does not clear `clipFlag` (`vna_measurement.cpp:79`-`88`), so that
  a clip of the point it throws away marks the first point of the new sweep, and only that
  (`clippedLeft`).  THRU's clips are not meant to show (line 116); in the mode without a reference the
  older reference it goes on with is not measured for the point, and its clips do not count.
* `NoGhosts`, `CatchesUp`: some cells are forgotten, and what they show stays until something else
  happens to mark them (`raced`):
  * where two drawings in progress have passed: the inner one ends and swaps the maps, the outer one
    ends and empties the one with the mark (`plot.cpp:1527`).  This includes a menu drawn over the plot
    when a marker's entry returns and the user has closed it in the meantime (`ui.cpp:832`, `920`);
  * an old icon, if the map of the last drawing is without it: `draw_all()` was called without
    a plot (TRANSFORM toggled, `main2.cpp:1782`, or the sweep paused), which leaves only what was
    marked since, and the next plot (`main2.cpp:1766`) moves the icon with the trace and
    marks its new place alone (`plot.cpp:924`-`930`); the same after a drawing inside another, and when the
    marker moves then;
  * a tracked marker, which is moved after the plot has marked where it was.

  `redraw_request = 0` at the end of a drawing drops requests made during it.
* `PressesWellFormed`: a lever released just when the delay ends gives no click
  (`uihw.cpp:46`, against `uihw.hpp:23`).

Seen while modelling, without a property:

* Host link and engine: as free threads, `enqueue()` can refuse without cause (with the
  firmware's nested interrupts it cannot, which is proved); `wordBuffer` is
  not emptied by a new write address, so an upload begun again after one was stopped
  may be shifted by up to three bytes.
* Lever: ticks come every 50 ms although `tickIntervalMicros` is 100000; the debouncer's
  threshold is truncated to 0, so that nothing is debounced.
* User interface: a keypad opened by touch has selection -1, and a click of the
  lever reads `keypads[-1]` (`ui.cpp:1965`, `2089`); the USB mode can begin inside a
  handler that waits; a user who is shut out cannot end the USB mode either.
* Settings: a span of zero, or CW, sets a measurement mode that stays when the span is
  set again.
* Raw mode: register 0x26 = 0 ends it without restarting the sweep, so the phase in progress
  is measured with the switches that `usb_transmit_rawSamples()` set (`main2.cpp:884`, `1247`);
  a long press ends the USB mode but not the raw mode (`main2.cpp:2195`), and the
  display stands still.  The wait for a synthesizer is counted in values, of which
  the ring may still hold some from before it was set.
* Gain calibration: "Use 40 x avg" (`gain_cal.cpp:38`) has no effect, since the only
  user of `_avg`, the callback, has been replaced; the callbacks, three words each, are
  assigned while the interrupt may call them.

## 4. Proofs

### The event queue

`EventQueueProofs` proves, from `QueueAssumption` alone (more than one slot, a range of
positions that is a multiple of the size, any set of writers without the reader, any number of
calls, any set of disciplines):

* `TypeCorrect`, `InOrder`, `NoAbort`, `Exclusive` - type, order of delivery, no
  abort, exclusive slots;
* `RefusalsNested` - under interrupt nesting a refusal is justified;
* `Refinement` - every step is a step of `BoundedQueue` or a stutter.

None of these is inductive.  `IInv` (theorem `Invariance`) adds what they rest on:
the numbers of claims and of deliveries, of which `_wpos2` and `_rpos` are the
remainders, differ by at most the size; the status and contents of every slot
follow from which claim, if any, lies in it; every writer between claim and
commit owns one claim; and a writer's snapshot lags the claims by less than the
range of positions, which is what makes the compare-and-swap free of ABA.  That
last fact is the one thing assumed of the environment: the guard `WithinOneTurn`
of `ClaimSlot` says that nobody claims 2^32 positions during one call.  The
proof has a step per action and, under it, one per conjunct the action disturbs.

### The stream of samples

`AdcStreamProofs` proves, from `AdcAssumption` (a ring of at least one word, tables of at least
one entry, any number of samples):

* `WholeValues` - every value that was not overtaken by the converter is the sum of
  exactly the samples of one period that follow the value before, with its clip flag;
* `LeavesNothing` - what was converted when the interrupt came is not left for
  a later one.

`IInv` (theorem `Invariance`) relates positions that grow for ever to the words of the ring:
`RingInv` says which sample is in each word, `CursorInv` that `lastIndex` (or, in a slice,
`samples`) is the word of the sample that is due and that the words up to `end` have been
converted, `FreshInv` that this sample is still there unless the ring was lapped, `SumInv`
that the sum has the samples up to it, one for each phase, and `CaughtInv` that the
first of the two reads ends at the converter or at the end of the ring.
`ReadFinds` is the lemma about `adc_read()`: from a cursor and the converter's place,
both taken modulo the ring, it finds the right samples.  The proof has a lemma per action.

### The measurement engine

`VNAMeasurementProofs` proves, from `MeasurementAssumption` (any set of sweeps, any
waits, the first point's no shorter than the others', any numbers of values to sum, bands in
order and a gain table of at least three entries):

* `AlwaysSettled`, `AlwaysMeanIsOverSummed`, `AlwaysGainInRange`, `AlwaysClipsReported`, `Typing` - what
  is summed has settled, a mean is divided by what was summed, the gain is one the band
  has, and the flag handed over with a point is set exactly if a period that is in one of the terms measured
  for it, other than THRU's, was clipped, or one of a point that a restart threw away just before;
* `PointsCoherent` - a point that is emitted is of one frequency, every term with the switches of its
  phase and one gain;
* `Implements` - every step is a step of `PointStream` or a stutter.

None is inductive alone.  `IInv` (theorem `Invariance`) adds: `Summing`, how much has been summed at each
count of the waits, all of it under one `Condition`; `Waited`, that the counters
of the waits never run ahead of the time that has passed since switches and synthesizer were
set; `BoardSet`, that between changes the frequency, the switches and the gain are those of the
phase, and `PhasesKept`, that the phases of the point that are over have left terms that
were taken so; and, of the main thread, `RestartFollows`: whatever it still has to store of a
change, the restart comes after it, so that nothing is claimed of a sweep half replaced.
`ClipsKnown` relates `clipFlag` to the sums and terms it speaks of, in the middle of a phase too.
The run stated `Settled` for the time between changes only, until the proof showed
that it holds during them as well.  A lemma per path through the handler, and
one for each kind of store.

### Acquisition and display

`AcquisitionProofs` proves, from `AcquisitionAssumption` (any sweeps of the user, of
`SWEEP_POINTS_MIN` = 2 points or more, any a host may write, any averages of at least one, any sizes of the
arrays of which the host's is the larger, any number of changes):

* `EcalIsComplete` - when the state machine says that the error box data is complete, it is of the
  sweep in force at every point, but for the exceptions `EcalComplete` names;
* `CollectionIsComplete` - a collection that nothing disturbs ends with every point of the
  sweep collected at its frequency, an action property;
* `Typing` - above all that the queue is never filled to the place that would make it look empty;
* `RestartsAreAllowed` - a restart asked for is one that `PointStream` allows, and while a sweep is being
  replaced one has been asked for or is among the stores to come.  With `FollowsPointStream` (each step is a
  step of `PointStream` or a stutter, which is how `Acquisition` is built) it closes the composition: what
  `VNAMeasurementProofs` proves of the engine for any sweeps is assumed of it here, and neither the interrupt
  nor a change by the main thread is held up by the assumption.

`IInv` has, besides types, four parts.  `Setting`: the sweep being set is the user's or the host's, and in
force but for stores and a restart to come.  `SettingBack`: of a change that sets `ecalState`
back, what its stores have done so far; the interrupt may act once during a change, so that the
state machine may already be at its second sweep when the last store comes.  `Collecting`: what a
collection under way excludes.  `EcalInv`: as long as the sweep in force is the user's
(`Current`), each index below the one measured is `Good`, of this sweep or excused, until all
are; the engine is measuring at every point on the way there (`Pass`), or nothing is measured of
the error box until the next collection begins (`Paused`).  Without `Pass` the theorem fails at the
second sweep, and `Pass` without `Place` (whose sweep the positions are of) when a restart is
pending.  Stores still to come are named by the tail of their change, so that a proof
about a store is a case per tail (`TailSteps`).

`CollectionIsComplete` needs more: `InForce` (between changes `sweepPoints` and the sweep are what
was set) and `CollectInv`.  The collection ends at the index before the one it began at,
so that `Gathered` speaks of the indices met since, in the order that goes round the end of the sweep
(`Met`, `After`, lemma `OrderFacts`).  That none of them is left without a value rests on
the count of the points summed being that of the repetitions (`Aligned`, in `Summing`).  It need not
be at the first index, where a sum may have gone on across the restart; and an average of more points than the
engine repeats (`Starved`) never completes a value, so that nothing ends.  The proof of
`IInv` led to two corrections of the model: the callback that a host has made late
excuses incomplete data until the next sweep is set, whether or not it was queued in the meantime
(`LateCallback`), and the sweeps and averages recalled at boot are of the kinds the user may set.

### The host link and the bootloader

`BootloaderProofs` proves of `HostLink`, from `LinkAssumption` (a ring of more than one byte, packets of
any size, hosts that may send any bytes):

* `Meaningful` - the handlers have been called with exactly what the bytes parsed so far mean;
* `OnlyWhenFull` - bytes are dropped only when the ring is left full, an action property;
* `LinkTyping` - among others, the parser never reads more than was stored.

`LinkInv` (theorem `LinkInvariance`) has two parts.  `RingHolds` counts the bytes stored, for ever: those from
`Base` on have not been released and are in the words of the ring that their numbers modulo its
size name, those up to `Snap` are what `drain()` found and, in one chunk or two, hands over; the parser
stands between the two.  Hence the byte it reads next is the one after `consumed`
(`ParsedBytes`).  `ParserHolds` says where in which command that is: `Framed(d, p, pre)` means that
a command begins at byte `p` and the commands before it mean the calls `pre`, whatever comes
later; `AtCommand` adds what phase, opcode, addresses and the count of a FIFO write must be for each
place within it.  There is a lemma per way through the parser's loop.  `Meaning` is a recursive function of
places in a stream, which is used only by unfolding it: `CommandTable` is its definition by cases, `From` the
function itself.  That it is defined at all, and that two streams that agree up to a place have the same
commands up to there, takes an induction; since the library's take an operator as their
parameter, `SetInduction` proves one for sets, from the pigeonhole principle.

Of hosts that pace themselves, from `PacedAssumption`:

* `LosesNothing` - nothing of what they send is dropped.

`Paced` is the invariant: the chunks handed over end within what could have been sent on the replies to what is
released.  `PacedAssumption` says of a stream how far its host may be ahead; `BlocksFit` shows what is
enough for it: the host waits for a reply where each block ends, and any two blocks that follow
each other fit in the ring.  One is not enough, since the reply to a block leaves
before `drain()` has released it.  The host program's blocks are of 1200 bytes, in FIFO writes of
255, and the ring has 16384.

Of uploads, from `BootloaderAssumption` (flash that begins with a page, pages of whole words) and
`UploadAssumption` (the address is set first and only once, no other register is written but for the reset,
which comes last; addresses fit a `uint32_t`):

* `FlashIsHanded` - the flash and the word buffer hold what was handed over, in place and in order.
* `UploadsKeepPace` - whatever the image, what the host program sends for it is a stream as these theorems want
  it: `IsHost`, `KeepsPace` and `IsUpload` hold of `Upload(image)`, if two blocks and the six bytes of
  the address are fewer than the ring has (`2 * BlockBytes + 6 < BufferSize`) and addresses fit a `uint32_t`.
  With the program's 1200 and 255, `BlockBytes` is 1216 and the ring would do with 2439 bytes.

`FlashInv` adds what the next word needs: some `q` words have been programmed, everything
from there to the end of their page is blank or still to be erased (`Holds`), the word buffer
has the bytes after them, at most one word of them (`Buffers`), and once the address has been
set, register 0xe0 holds that of word `q` (`FlashAt`).  That no later register write moves
it is where the meaning of the stream comes in: by `Meaningful` and `LosesNothing` a register write other than
the first is the reset, after which nothing runs (`ResetWhenAsked`).

For `UploadsKeepPace`, `Lacks(x, kinds)` says that the bytes `x` mean no call of those kinds wherever a command
begins, be they complete or cut off; it is joined command by command into blocks, and `SetInduction` joins the blocks:
the stream has a reply where each of them ends and nowhere else (`RepliesWithin`), so `TwoFit` bounds how far
the host is ahead, and no register is written between the address and the reset (`BlocksAreUpload`).

### The lever and the touch contact

`UserInterfaceProofs` proves as well, from `ContactsAssumption` and `TimesAssumption` (any contacts of the three
kinds, a debouncer of any threshold, any delay and interval of at least one check):

* `PressesAreWellFormed` - whatever the pins do, events follow the rules `ui.cpp` takes for
  granted, an action property: among others, a release that gives no click either ends a press with
  ticks or a long press, or comes in the few checks between the delay and the first of them;
* `LeverTyping` - with the bounds of the lever's counter.

The property speaks of the press as the events tell it, the code has one counter.  `LeverIInv` (theorem
`LeverInvariance`) connects them (`LeverInv`): up to the delay the counter is the number of checks the press has lasted,
then a jog's tells how long ago its last tick was or, before the first one, again how long the press has
lasted, and a center's whether the long press was given.  A press already there at boot has no beginning,
and nothing is claimed of its length.  `EventCases` is the lemma about the order of the
tests in `checkButtons()`: a check emits one event of a contact, or an Up and its Click.  There is a lemma
for each thing a lever may do between two checks.

### Menus and keypad

`UserInterfaceProofs` proves, from `UserInterfaceAssumption` (a queue of at least one event, numbers of at
least one character):

* `AlwaysMenuPath` - the way back through the menus is kept and the selection names an entry of
  what is on the screen when it is used;
* `NeverOverfull` - no menu is opened on a full stack.  No run checks this one: it is what makes
  the four levels of `menu_stack` enough for the menus as they are;
* `AlwaysRedrawMatchesKeypad`, `Typing`.

`IInv` is `UiOK` (every menu on the stack is an entry of the one below and lies as deep as it is stacked; the
selection fits; a handler waits only in a mode it is called in), `QueueTypes` (the events in the queue) and
`ModeOfHost` (who is in charge decides the mode).  The menus are finite and given, so what a menu may be
opened from is a lemma with a case per menu; the rest is a lemma per handler.

### The screen

`ScreenProofs` proves, from `ScreenAssumption` (any number of cells, any cells under the menu, any
traces and icons, any number of events and of drawings in each other):

* `AlwaysNoGhosts` - what is out of date on the display is in one of the two maps, or the next plot
  marks it, but for the cells of which the code keeps no account (`raced`, above);
* `KeypadStays` - no cell is drawn over the keypad, an action property;
* `Typing`.

That everything out of date is remembered is not inductive: a drawing empties a map when it ends.
`IInv` adds what a drawing in progress owes: a cell it has passed is right or is in the
map that gathers changes, which it keeps (`Passed`), and no cell that is out of date has been passed by two of
the drawings in progress, so that one of them still comes to it (`PassedOnce`).  The icon leaves cells that
nobody marks: a cell that is up to date shows it only where trace and marker have put it
(`Shown`), and that place is in a map which the next end of a drawing keeps, so that it is wiped out wherever it
moves (`IconKept`, unless `unkept`); so are the cells over which a closed menu may still be drawn (`MenuKept`); and the
drawings under the innermost have drawn a cell, all of them while the keypad is open
(`Interrupted`), which is why they find themselves canceled: `draw_all_cells()` looks at
the cancel flag only after a cell.  The attempt to prove `MenuKept` showed that the model had missed
the menu being drawn after the user has closed it; the code does that, and the
model now does.

### Sweep settings and the settings store

`SettingsStoreProofs` proves first of the operators of `SweepSettings`, for all frequencies,
ranges and sweeps:
`FrequencyKeepsRange` (any number entered as start, stop, centre, span or CW),
`PointsAndModeKeepRange`, and `InterpolationIsRight`: the data of every point of the new
sweep comes from the two neighbours in the old one, from an end of it, or is left alone.

Then of the store, for any number of areas and any pages that cover
the words, the magic in the first:

* `RangeKept`, `CalibrationIsRight` - the settings in use keep within range, and the calibration
  in use comes from the neighbours, in every sequence of changes, saves, recalls, failures
  and losses of power;
* `RecallIsSound` - what is recalled is what was last saved whole, unless the
  last save failed since power came.

The invariant says what each area holds while it is saved (`SavingInv`: the pages already erased are
blank, the words already programmed are those of the set, the others not yet touched) and
after (`AreaInv`: a whole set, or something the test rejects), and
which areas count as checked.  That a checksum tells a whole set from a torn one is
part of the model: `Checksum` of a set is the set's other words.

### Only model-checked

Every invariant and action property of the runs is stated by a theorem.  Liveness is not, since fairness
and ENABLED are outside the prover: `QueueDrains`, `KeepsEmitting`, `EcalKeepsComing`, `DisplayConverges`,
`EcalEnds`, `CollectionEnds`, `UploadEnds`, `HeldIsNoticed`, `CatchesUp` and `UserGetsBack` are TLC's alone.

## 5. Plan

1. `HostLink` again: the application's handlers behind it, a second upload after a
   stopped one.
2. Gain calibration's hand-over of callbacks.

## 6. Not modelled

Of parts that are modelled:

* `HostLink`, `Bootloader`: the choice at boot between bootloader and application, time-outs of
  the host program, a second upload, screen capture, the synthesizer power registers.
* `Acquisition`: raw mode and pausing the sweep; `processDataPoint()` is one step, since what
  the interrupt adds meanwhile is not consumed by the same call.
* `SettingsStore`: the configuration area, which `flash_program_data()` writes in the same way, and
  `flash_clear_user()`, which nothing calls.
* `UserInterface`: what an entry sets, marker searches, touch calibration's arithmetic;
  `set_sweep_points()` leaves marker indices as they are, beyond a shorter sweep.
* `Screen`: more than one marker, drags within drags, pixels.

Of the rest: the gain calibration (read, see above; it runs once at boot before any other
actor but the interrupt), revision 4 boards (the engine runs behind system calls), values of samples,
synthesizer registers, error correction, transforms, the touch controller and the
SPI bus it shares with the display, peripherals and their vendored library (`libopencm3`, `mculib`),
fonts and tables, and code that is not compiled (`spi_slave.cpp`,
`vna_measurement_noswitch.hpp`).  The greater part of the repository's lines is of this kind:
register definitions, drivers of other chips of the family, glyphs.
