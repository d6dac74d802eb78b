------------------------------- MODULE AdcStream -------------------------------
(***************************************************************************)
(* From the converter to the values that VNAMeasurement is fed with: the   *)
(* ring that the DMA fills, adc_read(), which follows it, adc_process(),   *)
(* the timer interrupt that hands on what has come, and SampleProcessor,   *)
(* which sums the samples of a period (main2.cpp, sample_processor.hpp).   *)
(*                                                                         *)
(* The converter never waits.  A sample is its number, counted from the    *)
(* start, so that a sum shows which samples are in it: they must be the    *)
(* next ones without a gap, since the phase of the value is that of its    *)
(* first sample.  Samples are lost when the ring is filled before it is    *)
(* read, as it may be while a value's receiver sets a synthesizer, and     *)
(* when the host looks at raw samples.  "next", "entered", "since",        *)
(* "torn" and "spoiled" are not in the code.                               *)
(***************************************************************************)
EXTENDS Integers, Sequences

CONSTANTS
    bufWords,     \* the size of the ring, a power of 2
    Periods,      \* lengths of the correlation tables
    Clipped,      \* the samples beyond the range of the converter
    MaxSamples    \* bound: samples converted

ASSUME AdcAssumption ==
    /\ bufWords \in Nat \ {0}
    /\ Periods \subseteq Nat \ {0}
    /\ Clipped \subseteq Nat
    /\ MaxSamples \in Nat

VARIABLES
    written,           \* samples converted so far
    adcBuffer,         \* the sample in each word of the ring
    lastIndex,         \* where adc_read() goes on
    pc,                \* what the interrupt does, "idle" when it has returned
    round,             \* of adc_process()
    samples, end,      \* the words that process() has still to sum
    accumPhase, accumPeriod,
    accum,             \* the samples summed
    clipFlag,
    outputRawSamples,
    next,              \* the number of the sample that should be read next
    entered,           \* samples converted when the interrupt came
    since,             \* the sample that the sum should begin with
    torn,              \* the converter has got to what is being read, or to be
    spoiled            \* it did since the sum was begun, or samples went elsewhere

ring      == <<written, adcBuffer>>
processor == <<accumPhase, accumPeriod, accum, clipFlag>>
slice     == <<samples, end>>
ghosts    == <<next, since, torn, spoiled>>
vars      == <<ring, lastIndex, pc, round, slice, processor, outputRawSamples,
               entered, ghosts>>

Words    == 0..(bufWords - 1)
NoSample == -1

\* The word that the n-th sample goes to; of the samples converted, where the
\* converter is: dmaADC.position(), masked.
WordOf(n) == n % bufWords

-------------------------------------------------------------------------------
(* Plausible mistakes in the operators below; the project's mutants.       *)

OneRead   == 1
ReadsFull == IF WordOf(written) > lastIndex THEN WordOf(written) ELSE bufWords

-------------------------------------------------------------------------------
(* The converter and its DMA channel, in circular mode.                    *)

\* The ring looks empty again when it is full.
Laps == written + 1 - next >= bufWords

Convert ==
    /\ written < MaxSamples
    /\ written' = written + 1
    /\ adcBuffer' = [adcBuffer EXCEPT ![WordOf(written)] = written]
    /\ torn' = (torn \/ Laps)
    /\ spoiled' = (spoiled \/ Laps)
    /\ UNCHANGED <<lastIndex, pc, round, slice, processor, outputRawSamples,
                   entered, next, since>>

-------------------------------------------------------------------------------
(* adc_read(), with a modulus of 1: up to where the converter is, or to    *)
(* the end of the ring if it has begun again.                              *)

ReadEnd == IF WordOf(written) >= lastIndex THEN WordOf(written) ELSE bufWords

WrapIndex(i) == IF i >= bufWords THEN 0 ELSE i

\* What lastIndex stands for, if the converter has lapped it.
Behind == written - WordOf(written - lastIndex)

-------------------------------------------------------------------------------
(* adc_process(): two reads, for the two parts of the ring.                *)

Reads == 2

AdcProcess ==
    /\ pc = "idle" /\ ~outputRawSamples
    /\ pc' = "read" /\ round' = 1
    /\ entered' = written
    /\ UNCHANGED <<ring, lastIndex, slice, processor, outputRawSamples, ghosts>>

Read ==
    /\ pc = "read"
    /\ samples' = lastIndex /\ end' = ReadEnd
    /\ lastIndex' = WrapIndex(ReadEnd)
    /\ next' = Behind /\ torn' = FALSE
    /\ pc' = "process"
    /\ UNCHANGED <<ring, round, processor, outputRawSamples, entered, since, spoiled>>

\* SampleProcessor::process(), for one sample
Process ==
    /\ pc = "process" /\ samples < end
    /\ accum' = Append(accum, adcBuffer[samples])
    /\ clipFlag' = (clipFlag \/ adcBuffer[samples] \in Clipped)
    /\ accumPhase' = accumPhase + 1
    /\ samples' = samples + 1 /\ next' = next + 1
    /\ pc' = IF accumPhase' >= accumPeriod THEN "emitValue" ELSE "process"
    /\ UNCHANGED <<ring, lastIndex, round, end, accumPeriod, outputRawSamples,
                   entered, since, torn, spoiled>>

\* emitValue() returns, after any time; it may have set another frequency and with
\* it another table.
EmitValue ==
    /\ pc = "emitValue"
    /\ accumPeriod' \in Periods \cup {accumPeriod}
    /\ accumPhase' = 0 /\ accum' = << >> /\ clipFlag' = FALSE
    /\ since' = next /\ spoiled' = torn
    /\ pc' = "process"
    /\ UNCHANGED <<ring, lastIndex, round, slice, outputRawSamples, entered,
                   next, torn>>

EndOfSlice ==
    /\ pc = "process" /\ samples = end
    /\ IF round < Reads THEN round' = round + 1 /\ pc' = "read"
       ELSE pc' = "idle" /\ UNCHANGED round
    /\ UNCHANGED <<ring, lastIndex, slice, processor, outputRawSamples, entered,
                   ghosts>>

Interrupt == AdcProcess \/ Read \/ Process \/ EmitValue \/ EndOfSlice

-------------------------------------------------------------------------------
(* The main thread, for a host that wants raw samples.  It runs when the   *)
(* interrupt does not.                                                     *)

\* register 26
SetRaw ==
    /\ pc = "idle"
    /\ outputRawSamples' = ~outputRawSamples
    /\ UNCHANGED <<ring, lastIndex, pc, round, slice, processor, entered, ghosts>>

\* usb_transmit_rawSamples(), which reads from the same place
TransmitRaw ==
    /\ pc = "idle" /\ outputRawSamples
    /\ lastIndex' = WrapIndex(ReadEnd)
    /\ next' = Behind + (ReadEnd - lastIndex) /\ torn' = FALSE
    /\ spoiled' = TRUE
    /\ UNCHANGED <<ring, pc, round, slice, processor, outputRawSamples, entered, since>>

\* setVNASweepToUSB() then sets the frequency itself, and the table, in the middle
\* of a sum
SetCorrelationTable ==
    /\ pc = "idle" /\ outputRawSamples
    /\ accumPeriod' \in Periods
    /\ accumPhase' = 0
    /\ spoiled' = TRUE
    /\ UNCHANGED <<ring, lastIndex, pc, round, slice, accum, clipFlag,
                   outputRawSamples, entered, next, since, torn>>

MainThread == SetRaw \/ TransmitRaw \/ SetCorrelationTable

-------------------------------------------------------------------------------
Init ==
    /\ written = 0 /\ adcBuffer = [w \in Words |-> NoSample]
    /\ lastIndex = 0
    /\ pc = "idle" /\ round = 1 /\ samples = 0 /\ end = 0
    /\ accumPhase = 0 /\ accumPeriod \in Periods
    /\ accum = << >> /\ clipFlag = FALSE
    /\ outputRawSamples = FALSE
    /\ next = 0 /\ entered = 0 /\ since = 0
    /\ torn = FALSE /\ spoiled = FALSE

Next == Convert \/ Interrupt \/ MainThread

Spec == Init /\ [][Next]_vars

-------------------------------------------------------------------------------
TypeOK ==
    /\ written \in Nat /\ adcBuffer \in [Words -> Nat \cup {NoSample}]
    /\ lastIndex \in Words
    /\ pc \in {"idle", "read", "process", "emitValue"} /\ round \in 1..Reads
    /\ samples \in 0..bufWords /\ end \in 0..bufWords
    /\ accumPhase \in Nat /\ accumPeriod \in Nat \ {0}
    /\ accum \in Seq(Nat \cup {NoSample}) /\ clipFlag \in BOOLEAN
    /\ outputRawSamples \in BOOLEAN
    /\ next \in Nat /\ entered \in Nat /\ since \in Nat
    /\ torn \in BOOLEAN /\ spoiled \in BOOLEAN

(***************************************************************************)
(* A value is the sum of exactly the samples of one period that follow the *)
(* ones of the value before, each with its place in the table, and is      *)
(* marked as clipped if one of them was: wherever the ring ends, however   *)
(* the samples are spread over interrupts and whatever is converted        *)
(* meanwhile.  Excepted is a value during which the ring was lapped, or    *)
(* that was begun in what was then being read.                             *)
(***************************************************************************)
ValuesWhole ==
    pc = "emitValue" /\ ~spoiled =>
        /\ accum = [i \in 1..accumPeriod |-> since + i - 1]
        /\ clipFlag = \E i \in 1..accumPeriod : since + i - 1 \in Clipped

(***************************************************************************)
(* An interrupt leaves nothing behind that was there when it came, also    *)
(* when the ring has begun again in between or has been lapped.            *)
(***************************************************************************)
CaughtUp == [][pc # "idle" /\ pc' = "idle" => next >= entered]_vars
===============================================================================
