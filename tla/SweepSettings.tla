----------------------------- MODULE SweepSettings -----------------------------
(***************************************************************************)
(* The sweep as the user sets it (UIActions in main2.cpp, properties_t).   *)
(*                                                                         *)
(* Two numbers stand for start and stop while the second is positive, and  *)
(* for the centre and the span, negated, while it is not.  Each way to set *)
(* one of them first changes to the form it needs, and bends the rest into *)
(* the range of the synthesizers.  The user may type any number.           *)
(***************************************************************************)
EXTENDS Integers

CONSTANTS
    FREQUENCY_MIN, FREQUENCY_MAX,
    SWEEP_POINTS_MIN, SWEEP_POINTS_MAX,
    FULL, REFL_THRU,  \* modes of measurement, the latter for CW
    Modes,
    Entered,          \* the frequencies typed
    EnteredPoints,    \* the numbers of points typed
    Default           \* setFieldsToDefault()

ASSUME RangeAssumption ==
    /\ FREQUENCY_MIN \in Nat \ {0} /\ FREQUENCY_MAX \in Nat
    /\ FREQUENCY_MIN <= FREQUENCY_MAX
    /\ SWEEP_POINTS_MIN \in Nat /\ SWEEP_POINTS_MAX \in Nat
    /\ 2 <= SWEEP_POINTS_MIN /\ SWEEP_POINTS_MIN <= SWEEP_POINTS_MAX
    /\ {FULL, REFL_THRU} \subseteq Modes
    /\ Entered \subseteq Int /\ EnteredPoints \subseteq Int

VARIABLES
    current_props,
    torn   \* they come from a set that was not saved whole (see SettingsStore)

Parameters == {"START", "STOP", "CENTER", "SPAN", "CW"}

Properties == [frequency0 : Int, frequency1 : Int, sweep_points : Int,
               measurement_mode : Modes]

\* Division of C: towards zero.
Half(x) == IF x < 0 THEN -((-x) \div 2) ELSE x \div 2

Clamp(x, lo, hi) == IF x < lo THEN lo ELSE IF x > hi THEN hi ELSE x

ClampFrequency(f) == Clamp(f, FREQUENCY_MIN, FREQUENCY_MAX)

-------------------------------------------------------------------------------
(* What the settings mean: startFreqHz(), stopFreqHz(), stepFreqHz().      *)

Start(p) == IF p.frequency1 > 0 THEN p.frequency0 ELSE p.frequency0 + Half(p.frequency1)
Stop(p)  == IF p.frequency1 > 0 THEN p.frequency1 ELSE p.frequency0 - Half(p.frequency1)

Center(p) == IF p.frequency1 > 0 THEN Half(p.frequency0 + p.frequency1) ELSE p.frequency0
Span(p)   == IF p.frequency1 > 0 THEN p.frequency1 - p.frequency0 ELSE -p.frequency1

\* The step is rounded down.
Step(p) == IF p.sweep_points > 0 THEN (Stop(p) - Start(p)) \div (p.sweep_points - 1) ELSE 0

FrequencyAt(p, i) == Start(p) + i * Step(p)

-------------------------------------------------------------------------------
(* Plausible mistakes in the operators below; the project's mutants.       *)

KeptStart(p, start) == p.frequency0
LeavesAtLast(j, p)  == j = p.sweep_points - 2

-------------------------------------------------------------------------------
(* The two forms.                                                          *)

\* freq_mode_startstop(), freq_mode_centerspan()
AsStartStop(p)  == [p EXCEPT !.frequency0 = Start(p), !.frequency1 = Stop(p)]
AsCenterSpan(p) == [p EXCEPT !.frequency0 = Center(p), !.frequency1 = -Span(p)]

\* A new start above the stop takes it along, and the other way round.
WithStart(p, f) ==
    LET q == AsStartStop(p)
    IN [q EXCEPT !.frequency0 = f, !.frequency1 = IF @ < f THEN f ELSE @]

\* where the start stays
StartBelow(p, stop) == IF stop < p.frequency0 THEN stop ELSE p.frequency0

WithStop(p, f) ==
    LET q == AsStartStop(p)
    IN [q EXCEPT !.frequency0 = StartBelow(q, f), !.frequency1 = f]

\* A new centre narrows the span to what fits.
WithCenter(p, f) ==
    LET q == AsCenterSpan(p)
        atMin(s) == IF f - Half(s) < FREQUENCY_MIN THEN (f - FREQUENCY_MIN) * 2 ELSE s
        atMax(s) == IF f + Half(s) > FREQUENCY_MAX THEN (FREQUENCY_MAX - f) * 2 ELSE s
    IN [q EXCEPT !.frequency0 = f, !.frequency1 = -atMax(atMin(-@))]

\* A new span moves the centre to where it fits.
WithSpan(p, f) ==
    LET q     == AsCenterSpan(p)
        s     == Clamp(f, 0, FREQUENCY_MAX - FREQUENCY_MIN)
        up(c) == IF c - Half(s) < FREQUENCY_MIN THEN FREQUENCY_MIN + Half(s) ELSE c
        dn(c) == IF c + Half(s) > FREQUENCY_MAX THEN FREQUENCY_MAX - Half(s) ELSE c
    IN [q EXCEPT !.frequency0 = dn(up(@)), !.frequency1 = -s,
                 !.measurement_mode = IF s = 0 THEN REFL_THRU ELSE @]

WithCW(p, f) ==
    [p EXCEPT !.frequency0 = f, !.frequency1 = 0, !.measurement_mode = REFL_THRU]

\* set_sweep_frequency()
WithFrequency(p, type, f) ==
    CASE type = "START"  -> WithStart(p, ClampFrequency(f))
      [] type = "STOP"   -> WithStop(p, ClampFrequency(f))
      [] type = "CENTER" -> WithCenter(p, ClampFrequency(f))
      [] type = "SPAN"   -> WithSpan(p, f)
      [] type = "CW"     -> WithCW(p, ClampFrequency(f))

\* set_sweep_points(), set_measurement_mode()
WithPoints(p, n) ==
    [p EXCEPT !.sweep_points = Clamp(n, SWEEP_POINTS_MIN, SWEEP_POINTS_MAX)]
WithMode(p, m) == [p EXCEPT !.measurement_mode = m]

\* What the user may do to the settings with the keypad, menus and markers, in
\* one call or several.
SetFrequency == \E type \in Parameters, f \in Entered :
                    current_props' = WithFrequency(current_props, type, f)
SetPoints    == \E n \in EnteredPoints : current_props' = WithPoints(current_props, n)
SetMode      == \E m \in Modes : current_props' = WithMode(current_props, m)
ResetAll     == current_props' = Default

-------------------------------------------------------------------------------
(* cal_interpolate(): calibration data for the points of dst out of those  *)
(* of src.  A point gets the data of one point of src, a blend of two, or  *)
(* keeps what it had.                                                      *)

Kept == -1

Points(p) == 0..(p.sweep_points - 1)

\* the point of src at or below frequency f, less than a step away
Below(src, f) ==
    {j \in Points(src) : FrequencyAt(src, j) <= f /\ f < FrequencyAt(src, j) + Step(src)}

\* the loop ends at the last point of src
AtEnd(j, src) == j = src.sweep_points - 1

SameSweep(src, dst) ==
    Start(src) = Start(dst) /\ Step(src) = Step(dst) /\ src.sweep_points = dst.sweep_points

\* Frequency f is found in src at a point, or is not found although it is not below.
PointBelow(src, f) == CHOOSE j \in Below(src, f) : TRUE
Found(src, f)      == f >= Start(src) /\ Below(src, f) # {}
Missed(src, f)     == f >= Start(src) /\ Below(src, f) = {}

\* The search has missed a point up to i, or has ended at one.
MissedBy(src, dst, i) == \E h \in 0..i : Missed(src, FrequencyAt(dst, h))
EndedBy(src, dst, i) ==
    \E h \in 0..i : LET f == FrequencyAt(dst, h)
                    IN Found(src, f) /\ AtEnd(PointBelow(src, f), src)
                           /\ ~MissedBy(src, dst, h)

\* The point at frequency f, or the two around it.
Around(src, f) ==
    LET j == PointBelow(src, f) IN IF f = FrequencyAt(src, j) THEN {j} ELSE {j, j + 1}

\* The points of dst in a row: lower than the start of src, then the points that
\* are found in it, until one is at the last point of src: it and the rest get the
\* data of the last.  If one of dst is beyond src before that, it and the rest
\* keep what they had.
Sources(src, dst, i) ==
    IF SameSweep(src, dst) THEN {i}
    ELSE IF FrequencyAt(dst, i) < Start(src) THEN {0}
    ELSE IF EndedBy(src, dst, i) THEN {src.sweep_points - 1}
    ELSE IF MissedBy(src, dst, i) THEN {Kept}
    ELSE Around(src, FrequencyAt(dst, i))

Interpolated(src, dst) == [i \in Points(dst) |-> Sources(src, dst, i)]

\* What the data of a point at frequency f should come from: points of src with none
\* between them and f, on both sides of f where there are any.
Neighbours(src, f, js) ==
    LET at(j) == FrequencyAt(src, j)
    IN  /\ js \subseteq Points(src)
        /\ \A j \in js, k \in Points(src) :
              ~(at(j) < at(k) /\ at(k) <= f) /\ ~(f <= at(k) /\ at(k) < at(j))
        /\ (\E k \in Points(src) : at(k) <= f) => \E j \in js : at(j) <= f
        /\ (\E k \in Points(src) : at(k) >= f) => \E j \in js : at(j) >= f

FromNeighbours(src, dst) ==
    \A i \in Points(dst) :
        \/ /\ Interpolated(src, dst)[i] = {Kept}
           /\ FrequencyAt(dst, i) >= FrequencyAt(src, src.sweep_points - 1)
        \/ Neighbours(src, FrequencyAt(dst, i), Interpolated(src, dst)[i])

InRange(p) ==
    /\ FREQUENCY_MIN <= Start(p) /\ Start(p) <= Stop(p) /\ Stop(p) <= FREQUENCY_MAX
    /\ p.sweep_points \in SWEEP_POINTS_MIN..SWEEP_POINTS_MAX
    /\ 0 <= Step(p)
    /\ FrequencyAt(p, p.sweep_points - 1) <= Stop(p)

ASSUME DefaultAssumption == Default \in Properties /\ InRange(Default)

-------------------------------------------------------------------------------
(* At boot, before anything is recalled.                                   *)

SettingsInit == current_props = Default /\ torn = FALSE

(***************************************************************************)
(* Whatever sequence of starts, stops, centres, spans and CW frequencies   *)
(* is set, in whatever form, the sweep runs upwards within the range of    *)
(* the synthesizers, its last point included.                              *)
(***************************************************************************)
FreqInRange == torn \/ InRange(current_props)
===============================================================================
