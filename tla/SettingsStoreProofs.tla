-------------------------- MODULE SettingsStoreProofs --------------------------
(***************************************************************************)
(* Proofs about SettingsStore for any number of areas, pages, saves and    *)
(* changes, and any failures and losses of power; first about the          *)
(* operators of SweepSettings, for all ranges, numbers of points and       *)
(* numbers typed.                                                          *)
(***************************************************************************)
EXTENDS SettingsStore, TLAPS

-------------------------------------------------------------------------------
(* Half and Clamp.                                                         *)

\* Half of a number, twice, is that number or one less.
LEMMA HalfOfNat ==
    ASSUME NEW x \in Nat
    PROVE  /\ Half(x) \in Nat
           /\ 2 * Half(x) <= x /\ x <= 2 * Half(x) + 1
           /\ Half(-x) = -Half(x)
  BY DEF Half

\* Half of an even number.
LEMMA HalfOfDouble ==
    ASSUME NEW x \in Nat
    PROVE  Half(2 * x) = x
  BY DEF Half

\* A clamped number lies within the bounds.
LEMMA ClampWithin ==
    ASSUME NEW x \in Int, NEW lo \in Int, NEW hi \in Int, lo <= hi
    PROVE  Clamp(x, lo, hi) \in lo .. hi
  BY DEF Clamp

\* A quotient times its divisor does not exceed the dividend.
LEMMA QuotientBelow ==
    ASSUME NEW d \in Nat, NEW m \in Nat \ {0}
    PROVE  d \div m \in Nat /\ m * (d \div m) <= d
  OBVIOUS

-------------------------------------------------------------------------------
(* Settings in range, in either form.                                      *)

\* The frequencies of InRange; the points of the sweep follow from them.
Within(p) ==
    /\ FREQUENCY_MIN <= Start(p) /\ Start(p) <= Stop(p) /\ Stop(p) <= FREQUENCY_MAX
    /\ p.sweep_points \in SWEEP_POINTS_MIN .. SWEEP_POINTS_MAX

\* Start and stop are integers.
LEMMA EndsType ==
    ASSUME NEW p \in Properties
    PROVE  Start(p) \in Int /\ Stop(p) \in Int
  BY DEF Properties, Start, Stop, Half

\* A step rounded down never leads beyond the stop.
LEMMA WithinIsInRange ==
    ASSUME NEW p \in Properties
    PROVE  InRange(p) <=> Within(p)
  <1>1. ASSUME Within(p)
        PROVE  0 <= Step(p) /\ FrequencyAt(p, p.sweep_points - 1) <= Stop(p)
    <2> DEFINE d == Stop(p) - Start(p)
               m == p.sweep_points - 1
    <2>1. d \in Nat /\ m \in Nat \ {0} /\ p.sweep_points > 0
      BY <1>1, EndsType, RangeAssumption DEF Within
    <2>2. Step(p) = d \div m
      BY <2>1 DEF Step
    <2>3. d \div m \in Nat /\ m * (d \div m) <= d
      BY <2>1, QuotientBelow
    <2>4. FrequencyAt(p, m) = Start(p) + m * (d \div m)
      BY <2>2 DEF FrequencyAt
    <2>5. QED
      <3> HIDE DEF m
      <3>1. m * (d \div m) \in Int
        BY <2>1, <2>3
      <3>2. FrequencyAt(p, m) <= Stop(p)
        BY <2>1, <2>3, <2>4, <3>1, EndsType
      <3>3. QED
        BY <2>2, <2>3, <3>2 DEF m
  <1>2. QED
    BY <1>1 DEF InRange, Within

\* From start to stop.
LEMMA StartStopWithin ==
    ASSUME NEW p \in Properties, p.frequency1 > 0
    PROVE  Within(p) <=> /\ FREQUENCY_MIN <= p.frequency0
                         /\ p.frequency0 <= p.frequency1
                         /\ p.frequency1 <= FREQUENCY_MAX
                         /\ p.sweep_points \in SWEEP_POINTS_MIN .. SWEEP_POINTS_MAX
  BY DEF Within, Start, Stop

\* Half a span on either side of the centre.
LEMMA CenterSpanWithin ==
    ASSUME NEW p \in Properties, NEW s \in Nat, p.frequency1 = -s
    PROVE  Within(p) <=> /\ FREQUENCY_MIN <= p.frequency0 - Half(s)
                         /\ p.frequency0 + Half(s) <= FREQUENCY_MAX
                         /\ p.sweep_points \in SWEEP_POINTS_MIN .. SWEEP_POINTS_MAX
  <1>1. Half(s) \in Nat /\ Half(p.frequency1) = -Half(s)
    BY HalfOfNat
  <1>2. Start(p) = p.frequency0 - Half(s) /\ Stop(p) = p.frequency0 + Half(s)
    BY <1>1 DEF Start, Stop, Properties
  <1>3. QED
    BY <1>1, <1>2, RangeAssumption DEF Within, Properties

-------------------------------------------------------------------------------
(* What the user's changes keep.                                           *)

\* Settings whose mode is any of M: those of a torn set may not be in Modes.
Fields(M) == [frequency0 : Int, frequency1 : Int, sweep_points : Int,
              measurement_mode : M]

\* The four numbers of either form, and settings turned from one into the other.
LEMMA FormsType ==
    ASSUME NEW M, NEW p \in Fields(M)
    PROVE  /\ Start(p) \in Int /\ Stop(p) \in Int /\ Center(p) \in Int /\ Span(p) \in Int
           /\ AsStartStop(p) \in Fields(M) /\ AsCenterSpan(p) \in Fields(M)
  <1>1. Start(p) \in Int /\ Stop(p) \in Int /\ Center(p) \in Int /\ Span(p) \in Int
    BY DEF Start, Stop, Center, Span, Half, Fields
  <1>3. AsStartStop(p) \in Fields(M)
    BY <1>1 DEF AsStartStop, Fields
  <1>4. -Span(p) \in Int
    BY <1>1
  <1>5. AsCenterSpan(p) \in Fields(M)
    BY <1>1, <1>4 DEF AsCenterSpan, Fields
  <1>6. QED
    BY <1>1, <1>3, <1>5

\* What a CW frequency makes of settings.
LEMMA CWForm ==
    ASSUME NEW M, REFL_THRU \in M, NEW p \in Fields(M), NEW f \in Int
    PROVE  LET q == WithCW(p, f)
           IN  /\ q \in Fields(M) /\ q.frequency0 = f /\ q.frequency1 = 0
               /\ q.sweep_points = p.sweep_points
  <1> DEFINE q == WithCW(p, f)
             z == 0
             m == REFL_THRU
  <1>1. q = [p EXCEPT !.frequency0 = f, !.frequency1 = z, !.measurement_mode = m]
    BY DEF WithCW
  <1>2. z \in Int /\ m \in M
    OBVIOUS
  <1> HIDE DEF q, z, m
  <1>3. /\ q \in Fields(M) /\ q.frequency0 = f /\ q.frequency1 = z
        /\ q.sweep_points = p.sweep_points
    BY <1>1, <1>2 DEF Fields
  <1>4. QED
    BY <1>3 DEF q, z

\* Every change of a frequency gives settings again.
LEMMA FrequencyType ==
    ASSUME NEW M, REFL_THRU \in M, NEW p \in Fields(M),
           NEW type \in Parameters, NEW f \in Int
    PROVE  WithFrequency(p, type, f) \in Fields(M)
  <1> DEFINE g == ClampFrequency(f)
             s == Clamp(f, 0, FREQUENCY_MAX - FREQUENCY_MIN)
             q == AsStartStop(p)
             c == AsCenterSpan(p)
  <1>1. /\ FREQUENCY_MIN \in Int /\ FREQUENCY_MAX \in Int /\ g \in Int /\ s \in Int
    BY RangeAssumption DEF ClampFrequency, Clamp
  <1>2. \A x \in Int : Half(x) \in Int
    BY DEF Half
  <1>3. q \in Fields(M) /\ c \in Fields(M)
    BY FormsType
  <1>4. \A r \in Fields(M) : /\ r.frequency0 \in Int /\ r.frequency1 \in Int
                             /\ r.measurement_mode \in M
    BY DEF Fields
  <1> HIDE DEF g, s, q, c
  <1>5. CASE type = "START"
    <2> DEFINE y == IF q.frequency1 < g THEN g ELSE q.frequency1
    <2>1. y \in Int
      BY <1>1, <1>3, <1>4
    <2>2. WithStart(p, g) = [q EXCEPT !.frequency0 = g, !.frequency1 = y]
      BY <1>3 DEF WithStart, Fields, q
    <2> HIDE DEF y
    <2>3. QED
      BY <1>1, <1>3, <1>5, <2>1, <2>2 DEF WithFrequency, Fields, g
  <1>6. CASE type = "STOP"
    <2>1. StartBelow(q, g) \in Int
      BY <1>1, <1>3, <1>4 DEF StartBelow
    <2>2. WithStop(p, g) = [q EXCEPT !.frequency0 = StartBelow(q, g), !.frequency1 = g]
      BY DEF WithStop, q
    <2>3. QED
      BY <1>1, <1>3, <1>6, <2>1, <2>2 DEF WithFrequency, Fields, g
  <1>7. CASE type = "CENTER"
    <2> DEFINE t  == -c.frequency1
               lo == IF g - Half(t) < FREQUENCY_MIN THEN (g - FREQUENCY_MIN) * 2 ELSE t
               hi == IF g + Half(lo) > FREQUENCY_MAX THEN (FREQUENCY_MAX - g) * 2 ELSE lo
    <2>1. t \in Int /\ lo \in Int /\ hi \in Int /\ -hi \in Int
      BY <1>1, <1>2, <1>3, <1>4
    <2>2. WithCenter(p, g) = [c EXCEPT !.frequency0 = g, !.frequency1 = -hi]
      BY <1>3 DEF WithCenter, Fields, c
    <2> HIDE DEF hi
    <2>3. QED
      BY <1>1, <1>3, <1>7, <2>1, <2>2 DEF WithFrequency, Fields, g
  <1>8. CASE type = "SPAN"
    <2> DEFINE up == IF c.frequency0 - Half(s) < FREQUENCY_MIN
                     THEN FREQUENCY_MIN + Half(s) ELSE c.frequency0
               dn == IF up + Half(s) > FREQUENCY_MAX THEN FREQUENCY_MAX - Half(s) ELSE up
               m  == IF s = 0 THEN REFL_THRU ELSE c.measurement_mode
    <2>1. up \in Int /\ dn \in Int /\ -s \in Int /\ m \in M
      BY <1>1, <1>2, <1>3, <1>4
    <2>2. WithSpan(p, f) = [c EXCEPT !.frequency0 = dn, !.frequency1 = -s,
                                     !.measurement_mode = m]
      BY <1>3 DEF WithSpan, Fields, c, s
    <2> HIDE DEF dn, m
    <2>3. QED
      BY <1>3, <1>8, <2>1, <2>2 DEF WithFrequency, Fields
  <1>9. CASE type = "CW"
    <2>1. WithFrequency(p, type, f) = WithCW(p, g)
      BY <1>9 DEF WithFrequency, g
    <2>2. QED
      BY <1>1, <2>1, CWForm
  <1>10. QED
    BY <1>5, <1>6, <1>7, <1>8, <1>9 DEF Parameters

\* A frequency in range.
InBand(f) == f \in FREQUENCY_MIN .. FREQUENCY_MAX

\* A new start or stop takes the other along.
LEMMA StartKeepsWithin ==
    ASSUME NEW p \in Properties, Within(p), NEW f, InBand(f)
    PROVE  Within(WithStart(p, f)) /\ Within(WithStop(p, f))
  <1> DEFINE q == AsStartStop(p)
  <1>1. /\ q \in Properties /\ q.frequency0 = Start(p) /\ q.frequency1 = Stop(p)
        /\ q.sweep_points = p.sweep_points
    BY EndsType DEF AsStartStop, Properties
  <1>2. /\ FREQUENCY_MIN \in Nat \ {0} /\ FREQUENCY_MAX \in Nat /\ f \in Int
        /\ FREQUENCY_MIN <= f /\ f <= FREQUENCY_MAX
    BY RangeAssumption DEF InBand
  <1>3. Start(p) \in Int /\ Stop(p) \in Int
    BY EndsType
  <1> DEFINE r == WithStart(p, f)
             t == WithStop(p, f)
  <1>4. /\ r \in Properties /\ r.frequency0 = f /\ r.sweep_points = p.sweep_points
        /\ r.frequency1 = IF Stop(p) < f THEN f ELSE Stop(p)
    BY <1>1, <1>2, <1>3 DEF WithStart, Properties
  <1>5. /\ t \in Properties /\ t.frequency1 = f /\ t.sweep_points = p.sweep_points
        /\ t.frequency0 = IF f < Start(p) THEN f ELSE Start(p)
    BY <1>1, <1>2, <1>3 DEF WithStop, StartBelow, Properties
  <1> HIDE DEF q, r, t
  <1>6. Within(r)
    BY <1>2, <1>3, <1>4, StartStopWithin DEF Within
  <1>7. Within(t)
    BY <1>2, <1>3, <1>5, StartStopWithin DEF Within
  <1>8. QED
    BY <1>6, <1>7 DEF r, t

\* Settings in range turned into a centre and a span.
LEMMA AsCenterSpanForm ==
    ASSUME NEW p \in Properties, Within(p)
    PROVE  /\ AsCenterSpan(p) \in Properties
           /\ -AsCenterSpan(p).frequency1 \in Nat
           /\ AsCenterSpan(p).sweep_points = p.sweep_points
  <1>1. Span(p) \in Nat
    <2>1. CASE p.frequency1 > 0
      BY <2>1, StartStopWithin DEF Span, Properties
    <2>2. CASE ~(p.frequency1 > 0)
      BY <2>2 DEF Span, Properties
    <2>3. QED
      BY <2>1, <2>2
  <1>2. Center(p) \in Int /\ -Span(p) \in Int
    BY <1>1 DEF Center, Half, Properties
  <1>3. /\ AsCenterSpan(p) \in Properties
        /\ AsCenterSpan(p).frequency1 = -Span(p)
        /\ AsCenterSpan(p).sweep_points = p.sweep_points
    BY <1>2 DEF AsCenterSpan, Properties
  <1>4. QED
    BY <1>1, <1>3

\* A new centre narrows the span to what fits.
LEMMA CenterKeepsWithin ==
    ASSUME NEW p \in Properties, Within(p), NEW f, InBand(f)
    PROVE  Within(WithCenter(p, f))
  <1> DEFINE c  == AsCenterSpan(p)
             s  == -c.frequency1
             lo == IF f - Half(s) < FREQUENCY_MIN THEN (f - FREQUENCY_MIN) * 2 ELSE s
             hi == IF f + Half(lo) > FREQUENCY_MAX THEN (FREQUENCY_MAX - f) * 2 ELSE lo
             q  == WithCenter(p, f)
  <1>1. c \in Properties /\ s \in Nat /\ c.sweep_points = p.sweep_points
    BY AsCenterSpanForm
  <1>2. /\ FREQUENCY_MIN \in Nat /\ FREQUENCY_MAX \in Nat /\ f \in Int
        /\ f - FREQUENCY_MIN \in Nat /\ FREQUENCY_MAX - f \in Nat
    BY RangeAssumption DEF InBand
  <1> HIDE DEF c
  <1>3. lo \in Nat /\ hi \in Nat /\ -hi \in Int
    BY <1>1, <1>2
  <1>4. q = [c EXCEPT !.frequency0 = f, !.frequency1 = -hi]
    BY <1>1 DEF WithCenter, Properties, c
  <1>5. f - Half(lo) >= FREQUENCY_MIN
    <2>1. CASE f - Half(s) < FREQUENCY_MIN
      <3>1. lo = 2 * (f - FREQUENCY_MIN)
        BY <1>2, <2>1
      <3>2. Half(lo) = f - FREQUENCY_MIN
        BY <1>2, <3>1, HalfOfDouble
      <3>3. QED
        BY <1>2, <3>2
    <2>2. CASE ~(f - Half(s) < FREQUENCY_MIN)
      <3>1. Half(s) \in Nat
        BY <1>1, HalfOfNat
      <3>2. QED
        BY <1>2, <2>2, <3>1
    <2>3. QED
      BY <2>1, <2>2
  <1> HIDE DEF s, lo
  <1>6. Half(lo) \in Nat
    BY <1>3, HalfOfNat
  <1>7. f - Half(hi) >= FREQUENCY_MIN /\ f + Half(hi) <= FREQUENCY_MAX
    <2>1. CASE f + Half(lo) > FREQUENCY_MAX
      <3>1. hi = 2 * (FREQUENCY_MAX - f)
        BY <1>2, <2>1
      <3>2. Half(hi) = FREQUENCY_MAX - f
        BY <1>2, <3>1, HalfOfDouble
      <3>3. QED
        BY <1>2, <1>5, <1>6, <2>1, <3>2
    <2>2. CASE ~(f + Half(lo) > FREQUENCY_MAX)
      BY <1>2, <1>5, <1>6, <2>2
    <2>3. QED
      BY <2>1, <2>2
  <1> HIDE DEF hi, q
  <1>8. /\ q \in Properties /\ q.frequency0 = f /\ q.frequency1 = -hi
        /\ q.sweep_points = p.sweep_points
    BY <1>1, <1>2, <1>3, <1>4 DEF Properties
  <1>9. Within(q)
    BY <1>2, <1>3, <1>7, <1>8, CenterSpanWithin DEF Within
  <1>10. QED
    BY <1>9 DEF q

\* A new span moves the centre to where it fits.
LEMMA SpanKeepsWithin ==
    ASSUME NEW p \in Properties, Within(p), NEW f \in Int
    PROVE  Within(WithSpan(p, f))
  <1> DEFINE a  == AsCenterSpan(p)
             s  == Clamp(f, 0, FREQUENCY_MAX - FREQUENCY_MIN)
             c  == a.frequency0
             up == IF c - Half(s) < FREQUENCY_MIN THEN FREQUENCY_MIN + Half(s) ELSE c
             dn == IF up + Half(s) > FREQUENCY_MAX THEN FREQUENCY_MAX - Half(s) ELSE up
             m  == IF s = 0 THEN REFL_THRU ELSE a.measurement_mode
             q  == WithSpan(p, f)
  <1>1. a \in Properties /\ a.sweep_points = p.sweep_points
    BY AsCenterSpanForm
  <1> HIDE DEF a
  <1>2. /\ FREQUENCY_MIN \in Nat /\ FREQUENCY_MAX \in Nat
        /\ s \in Nat /\ -s \in Int /\ s <= FREQUENCY_MAX - FREQUENCY_MIN
        /\ c \in Int /\ m \in Modes
    BY <1>1, RangeAssumption DEF Clamp, Properties
  <1> HIDE DEF s
  <1>3. Half(s) \in Nat /\ 2 * Half(s) <= s
    BY <1>2, HalfOfNat
  <1>4. q = [a EXCEPT !.frequency0 = dn, !.frequency1 = -s, !.measurement_mode = m]
    BY <1>1 DEF WithSpan, Properties, a, s
  <1> HIDE DEF c, m
  <1>5. /\ up \in Int /\ dn \in Int
        /\ dn - Half(s) >= FREQUENCY_MIN /\ dn + Half(s) <= FREQUENCY_MAX
    BY <1>2, <1>3
  <1> HIDE DEF up, dn, q
  <1>6. /\ q \in Properties /\ q.frequency0 = dn /\ q.frequency1 = -s
        /\ q.sweep_points = p.sweep_points
    BY <1>1, <1>2, <1>4, <1>5 DEF Properties
  <1>7. Within(q)
    BY <1>2, <1>5, <1>6, CenterSpanWithin DEF Within
  <1>8. QED
    BY <1>7 DEF q

\* No span at all.
LEMMA CWWithin ==
    ASSUME NEW p \in Properties, Within(p), NEW f, InBand(f)
    PROVE  Within(WithCW(p, f))
  <1> DEFINE q == WithCW(p, f)
  <1>1. /\ q \in Properties /\ q.frequency0 = f /\ q.frequency1 = 0
        /\ q.sweep_points = p.sweep_points /\ f \in Int
    BY CWForm, RangeAssumption DEF Properties, Fields, InBand
  <1>2. Half(0) = 0
    BY DEF Half
  <1> HIDE DEF q
  <1>3. Within(q)
    BY <1>1, <1>2, RangeAssumption DEF Within, Start, Stop, InBand
  <1>4. QED
    BY <1>3 DEF q

\* Whatever frequency is set, of whatever kind, settings in range stay in range:
\* set_sweep_frequency().
THEOREM FrequencyKeepsRange ==
    ASSUME NEW p \in Properties, InRange(p), NEW type \in Parameters, NEW f \in Int
    PROVE  WithFrequency(p, type, f) \in Properties /\ InRange(WithFrequency(p, type, f))
  <1> DEFINE g == ClampFrequency(f)
             q == WithFrequency(p, type, f)
  <1>1. Within(p)
    BY WithinIsInRange
  <1>2. InBand(g)
    <2>1. g \in FREQUENCY_MIN .. FREQUENCY_MAX
      BY ClampWithin, RangeAssumption DEF ClampFrequency
    <2>2. QED
      BY <2>1 DEF InBand
  <1>3. q \in Properties
    BY FrequencyType, RangeAssumption DEF Fields, Properties
  <1>4. Within(q)
    <2> HIDE DEF g
    <2>1. CASE type = "START"
      BY <1>1, <1>2, <2>1, StartKeepsWithin DEF WithFrequency, g
    <2>2. CASE type = "STOP"
      BY <1>1, <1>2, <2>2, StartKeepsWithin DEF WithFrequency, g
    <2>3. CASE type = "CENTER"
      BY <1>1, <1>2, <2>3, CenterKeepsWithin DEF WithFrequency, g
    <2>4. CASE type = "SPAN"
      BY <1>1, <2>4, SpanKeepsWithin DEF WithFrequency
    <2>5. CASE type = "CW"
      BY <1>1, <1>2, <2>5, CWWithin DEF WithFrequency, g
    <2>6. QED
      BY <2>1, <2>2, <2>3, <2>4, <2>5 DEF Parameters
  <1>5. QED
    BY <1>3, <1>4, WithinIsInRange

\* Any number of points typed, and any mode, leave settings in range: set_sweep_points(),
\* set_measurement_mode().
THEOREM PointsAndModeKeepRange ==
    ASSUME NEW p \in Properties, InRange(p), NEW n \in Int, NEW m \in Modes
    PROVE  /\ WithPoints(p, n) \in Properties /\ InRange(WithPoints(p, n))
           /\ WithMode(p, m) \in Properties /\ InRange(WithMode(p, m))
  <1> DEFINE c == Clamp(n, SWEEP_POINTS_MIN, SWEEP_POINTS_MAX)
             q == WithPoints(p, n)
             r == WithMode(p, m)
  <1>1. c \in SWEEP_POINTS_MIN .. SWEEP_POINTS_MAX /\ c \in Int
    BY ClampWithin, RangeAssumption
  <1>2. q = [p EXCEPT !.sweep_points = c] /\ r = [p EXCEPT !.measurement_mode = m]
    BY DEF WithPoints, WithMode
  <1> HIDE DEF c, q, r
  <1>3. /\ q \in Properties /\ q.frequency0 = p.frequency0 /\ q.frequency1 = p.frequency1
        /\ q.sweep_points = c
    BY <1>1, <1>2 DEF Properties
  <1>4. /\ r \in Properties /\ r.frequency0 = p.frequency0 /\ r.frequency1 = p.frequency1
        /\ r.sweep_points = p.sweep_points
    BY <1>2 DEF Properties
  <1>5. Within(p)
    BY WithinIsInRange
  <1>6. Within(q) /\ Within(r)
    BY <1>1, <1>3, <1>4, <1>5 DEF Within, Start, Stop
  <1>7. QED
    BY <1>3, <1>4, <1>6, WithinIsInRange DEF q, r

-------------------------------------------------------------------------------
(* Interpolation.                                                          *)

\* Points in their order.
LEMMA MulMonotone ==
    ASSUME NEW a \in Int, NEW b \in Int, a <= b, NEW s \in Nat
    PROVE  a * s \in Int /\ b * s \in Int /\ a * s <= b * s
  <1>1. (b - a) * s >= 0
    OBVIOUS
  <1>2. QED
    BY <1>1

\* A sweep in range has two points or more; their frequencies do not fall.
LEMMA PointsInOrder ==
    ASSUME NEW p \in Properties, InRange(p)
    PROVE  /\ Start(p) \in Int /\ Step(p) \in Nat
           /\ p.sweep_points \in Int /\ p.sweep_points >= 2
           /\ 0 \in Points(p) /\ p.sweep_points - 1 \in Points(p)
           /\ Points(p) \subseteq Int
           /\ FrequencyAt(p, 0) = Start(p)
           /\ \A i \in Int : /\ FrequencyAt(p, i) \in Int
                             /\ FrequencyAt(p, i + 1) = FrequencyAt(p, i) + Step(p)
           /\ \A i, k \in Int : i <= k => FrequencyAt(p, i) <= FrequencyAt(p, k)
  <1>1. /\ Start(p) \in Int /\ Stop(p) \in Int
        /\ p.sweep_points \in Int /\ p.sweep_points >= 2
    BY EndsType, RangeAssumption DEF InRange, Properties
  <1>2. Step(p) \in Nat
    <2>1. Stop(p) - Start(p) \in Nat /\ p.sweep_points - 1 \in Nat \ {0}
      BY <1>1 DEF InRange
    <2>2. QED
      BY <1>1, <2>1, QuotientBelow DEF Step
  <1>3. /\ 0 \in Points(p) /\ p.sweep_points - 1 \in Points(p) /\ Points(p) \subseteq Int
    BY <1>1 DEF Points
  <1>4. FrequencyAt(p, 0) = Start(p)
    BY <1>1, <1>2 DEF FrequencyAt
  <1>5. ASSUME NEW i \in Int
        PROVE  /\ FrequencyAt(p, i) \in Int
               /\ FrequencyAt(p, i + 1) = FrequencyAt(p, i) + Step(p)
    BY <1>1, <1>2 DEF FrequencyAt
  <1>6. ASSUME NEW i \in Int, NEW k \in Int, i <= k
        PROVE  FrequencyAt(p, i) <= FrequencyAt(p, k)
    BY <1>1, <1>2, <1>6, MulMonotone DEF FrequencyAt
  <1>7. QED
    BY <1>1, <1>2, <1>3, <1>4, <1>5, <1>6

\* The point below a frequency, and that there is one up to a step beyond the last.
LEMMA BelowFound ==
    ASSUME NEW p \in Properties, InRange(p), NEW f \in Int, Start(p) <= f,
           f < FrequencyAt(p, p.sweep_points - 1)
    PROVE  Below(p, f) # {}
  <1> DEFINE d == f - Start(p)
             s == Step(p)
             n == p.sweep_points - 1
  <1>1. /\ Start(p) \in Int /\ s \in Nat /\ n \in Int /\ n >= 1
        /\ d \in Nat
    <2>1. Start(p) \in Int /\ Step(p) \in Nat /\ p.sweep_points \in Int /\ p.sweep_points >= 2
      BY PointsInOrder
    <2>2. QED
      BY <2>1
  <1>2. d < n * s
    BY <1>1 DEF FrequencyAt
  <1>3. s \in Nat \ {0}
    <2>1. CASE s = 0
      BY <1>1, <1>2, <2>1
    <2>2. QED
      BY <1>1, <2>1
  <1> DEFINE q == d \div s
  <1>4. q \in Nat /\ q * s <= d /\ d < q * s + s
    BY <1>1, <1>3
  <1>5. q < n
    <2>1. CASE n <= q
      <3>1. n * s <= q * s
        BY <1>1, <1>4, <2>1, MulMonotone
      <3>2. n * s \in Int /\ q * s \in Int
        BY <1>1, <1>4
      <3>3. QED
        BY <1>1, <1>2, <1>4, <3>1, <3>2
    <2>2. QED
      BY <1>1, <1>4, <2>1
  <1>6. q \in Points(p)
    BY <1>1, <1>4, <1>5 DEF Points
  <1>7. FrequencyAt(p, q) <= f /\ f < FrequencyAt(p, q) + s
    BY <1>1, <1>4 DEF FrequencyAt
  <1>8. QED
    BY <1>6, <1>7 DEF Below

\* The point found is in the sweep, at or below the frequency, less than a step away.
LEMMA PointBelowIs ==
    ASSUME NEW p, NEW f, Below(p, f) # {}
    PROVE  LET j == PointBelow(p, f)
           IN  j \in Points(p) /\ FrequencyAt(p, j) <= f /\ f < FrequencyAt(p, j) + Step(p)
  BY DEF PointBelow, Below

\* Below the first point the data of the first is right, and from the last on that of
\* the last.
LEMMA EndsAreNeighbours ==
    ASSUME NEW p \in Properties, InRange(p), NEW f \in Int
    PROVE  /\ f < Start(p) => Neighbours(p, f, {0})
           /\ f >= FrequencyAt(p, p.sweep_points - 1) => Neighbours(p, f, {p.sweep_points - 1})
  <1> DEFINE n == p.sweep_points - 1
  <1>1. /\ 0 \in Points(p) /\ n \in Points(p)
        /\ FrequencyAt(p, 0) = Start(p) /\ Start(p) \in Int
        /\ \A k \in Points(p) : /\ FrequencyAt(p, k) \in Int
                                /\ FrequencyAt(p, 0) <= FrequencyAt(p, k)
                                /\ FrequencyAt(p, k) <= FrequencyAt(p, n)
    <2>1. \A k \in Points(p) : k \in Int /\ 0 <= k /\ k <= n /\ n \in Int
      BY PointsInOrder DEF Points
    <2>2. QED
      BY <2>1, PointsInOrder
  <1>2. ASSUME f < Start(p) PROVE Neighbours(p, f, {0})
    BY <1>1, <1>2 DEF Neighbours
  <1>3. ASSUME f >= FrequencyAt(p, n) PROVE Neighbours(p, f, {n})
    BY <1>1, <1>3 DEF Neighbours
  <1>4. QED
    BY <1>2, <1>3

\* A point of the sweep at the frequency, or the two around it, are right.
LEMMA AroundAreNeighbours ==
    ASSUME NEW p \in Properties, InRange(p), NEW f \in Int, Below(p, f) # {},
           ~AtEnd(PointBelow(p, f), p)
    PROVE  Neighbours(p, f, Around(p, f))
  <1> DEFINE j == PointBelow(p, f)
  <1>1. /\ j \in Points(p) /\ FrequencyAt(p, j) <= f /\ f < FrequencyAt(p, j) + Step(p)
    BY PointBelowIs
  <1> HIDE DEF j
  <1>2. /\ j \in Int /\ j + 1 \in Int /\ j + 1 \in Points(p)
        /\ \A k \in Points(p) : k \in Int
    <2>1. p.sweep_points \in Int
      BY PointsInOrder
    <2>2. j \in Int /\ 0 <= j /\ j <= p.sweep_points - 1
      BY <1>1, <2>1 DEF Points
    <2>3. j # p.sweep_points - 1
      BY DEF AtEnd, j
    <2>4. QED
      BY <2>1, <2>2, <2>3 DEF Points
  <1>3. /\ \A k \in Int : FrequencyAt(p, k) \in Int
        /\ FrequencyAt(p, j + 1) = FrequencyAt(p, j) + Step(p)
        /\ \A k, l \in Int : k <= l => FrequencyAt(p, k) <= FrequencyAt(p, l)
    BY <1>2, PointsInOrder
  <1>4. \A k \in Points(p) : \/ FrequencyAt(p, k) <= FrequencyAt(p, j)
                             \/ FrequencyAt(p, j + 1) <= FrequencyAt(p, k)
    <2> TAKE k \in Points(p)
    <2>1. k \in Int /\ (k <= j \/ j + 1 <= k)
      BY <1>2
    <2>2. QED
      BY <1>2, <1>3, <2>1
  <1>5. CASE f = FrequencyAt(p, j)
    <2>1. Around(p, f) = {j}
      BY <1>5 DEF Around, j
    <2>2. Neighbours(p, f, {j})
      BY <1>1, <1>2, <1>3, <1>5 DEF Neighbours
    <2>3. QED
      BY <2>1, <2>2
  <1>6. CASE f # FrequencyAt(p, j)
    <2>1. Around(p, f) = {j, j + 1}
      BY <1>6 DEF Around, j
    <2>2. FrequencyAt(p, j) <= f /\ f <= FrequencyAt(p, j + 1)
      BY <1>1, <1>2, <1>3
    <2>3. \A k \in Points(p) : /\ FrequencyAt(p, k) \in Int
                               /\ FrequencyAt(p, k) <= FrequencyAt(p, j)
                                    \/ f < FrequencyAt(p, k)
                               /\ FrequencyAt(p, k) < f
                                    \/ FrequencyAt(p, j + 1) <= FrequencyAt(p, k)
      <3> TAKE k \in Points(p)
      <3>1. /\ FrequencyAt(p, j) < f /\ f < FrequencyAt(p, j + 1)
            /\ FrequencyAt(p, k) \in Int /\ FrequencyAt(p, j) \in Int
            /\ FrequencyAt(p, j + 1) \in Int
        <4>1. k \in Int /\ Step(p) \in Nat
          BY <1>2, PointsInOrder
        <4>2. FrequencyAt(p, k) \in Int /\ FrequencyAt(p, j) \in Int /\ FrequencyAt(p, j + 1) \in Int
          BY <1>2, <1>3, <4>1
        <4>3. QED
          BY <1>1, <1>3, <1>6, <4>1, <4>2
      <3>2. QED
        BY <1>4, <3>1
    <2>4. Neighbours(p, f, {j, j + 1})
      BY <1>1, <1>2, <1>3, <2>2, <2>3 DEF Neighbours
    <2>5. QED
      BY <2>1, <2>4
  <1>7. QED
    BY <1>5, <1>6

\* Interpolated calibration data comes from the right points, for any two sweeps in
\* range: cal_interpolate().
THEOREM InterpolationIsRight ==
    ASSUME NEW src \in Properties, InRange(src), NEW dst \in Properties, InRange(dst)
    PROVE  FromNeighbours(src, dst)
  <1> SUFFICES ASSUME NEW i \in Points(dst)
               PROVE  \/ /\ Sources(src, dst, i) = {Kept}
                         /\ FrequencyAt(dst, i) >= FrequencyAt(src, src.sweep_points - 1)
                      \/ Neighbours(src, FrequencyAt(dst, i), Sources(src, dst, i))
    BY DEF FromNeighbours, Interpolated
  <1> DEFINE f(h) == FrequencyAt(dst, h)
             n    == src.sweep_points - 1
  <1>1. i \in Int /\ \A h \in 0..i : h \in Int /\ h <= i
    BY PointsInOrder
  <1>2. f(i) \in Int /\ \A h \in 0..i : f(h) \in Int /\ f(h) <= f(i)
    BY <1>1, PointsInOrder
  <1>3. Start(src) \in Int /\ FrequencyAt(src, n) \in Int /\ n \in Points(src)
    <2>1. n \in Int
      BY PointsInOrder
    <2>2. QED
      BY <2>1, PointsInOrder
  <1>4. CASE SameSweep(src, dst)
    <2>1. Sources(src, dst, i) = {i}
      BY <1>4 DEF Sources
    <2>2. f(i) = FrequencyAt(src, i) /\ i \in Points(src)
      BY <1>4 DEF SameSweep, FrequencyAt, Points
    <2>3. \A k \in Points(src) : FrequencyAt(src, k) \in Int
      BY PointsInOrder
    <2>4. Neighbours(src, f(i), {i})
      BY <1>2, <2>2, <2>3 DEF Neighbours
    <2>5. QED
      BY <2>1, <2>4
  <1>5. CASE ~SameSweep(src, dst) /\ f(i) < Start(src)
    <2>1. Sources(src, dst, i) = {0}
      BY <1>5 DEF Sources
    <2>2. QED
      BY <1>2, <1>5, <2>1, EndsAreNeighbours
  <1>6. CASE ~SameSweep(src, dst) /\ ~(f(i) < Start(src)) /\ EndedBy(src, dst, i)
    <2>1. Sources(src, dst, i) = {n}
      BY <1>6 DEF Sources
    <2>2. PICK h \in 0..i : /\ Below(src, f(h)) # {}
                            /\ AtEnd(PointBelow(src, f(h)), src)
      BY <1>6 DEF EndedBy, Found
    <2>3. FrequencyAt(src, n) <= f(h)
      BY <2>2, PointBelowIs DEF AtEnd
    <2>4. f(i) >= FrequencyAt(src, n)
      BY <1>2, <1>3, <2>3
    <2>5. QED
      BY <1>2, <2>1, <2>4, EndsAreNeighbours
  <1>7. CASE /\ ~SameSweep(src, dst) /\ ~(f(i) < Start(src)) /\ ~EndedBy(src, dst, i)
             /\ MissedBy(src, dst, i)
    <2>1. Sources(src, dst, i) = {Kept}
      BY <1>7 DEF Sources
    <2>2. PICK h \in 0..i : f(h) >= Start(src) /\ Below(src, f(h)) = {}
      BY <1>7 DEF MissedBy, Missed
    <2>3. ~(f(h) < FrequencyAt(src, n))
      BY <1>2, <1>3, <2>2, BelowFound
    <2>4. f(i) >= FrequencyAt(src, n)
      BY <1>2, <1>3, <2>3
    <2>5. QED
      BY <2>1, <2>4
  <1>8. CASE /\ ~SameSweep(src, dst) /\ ~(f(i) < Start(src)) /\ ~EndedBy(src, dst, i)
             /\ ~MissedBy(src, dst, i)
    <2>1. Sources(src, dst, i) = Around(src, f(i))
      BY <1>8 DEF Sources
    <2>2. i \in 0..i
      BY <1>1 DEF Points
    <2>3. Found(src, f(i))
      BY <1>2, <1>3, <1>8, <2>2 DEF Found, MissedBy, Missed
    <2>4. ~AtEnd(PointBelow(src, f(i)), src)
      BY <1>8, <2>2, <2>3 DEF EndedBy
    <2>5. QED
      BY <1>2, <2>1, <2>3, <2>4, AroundAreNeighbours DEF Found
  <1>9. QED
    BY <1>4, <1>5, <1>6, <1>7, <1>8

-------------------------------------------------------------------------------
(* The inductive invariant.                                                *)

\* A torn set may have any mode its words can hold.
AnyMode  == Modes \cup {-1, 0}
AnyProps == Fields(AnyMode)

AnyChecksum == [1..(NWords - 1) -> Int \cup AnyMode] \cup {<<-1>>, <<0>>}
AnyWord     == Int \cup AnyMode \cup AnyChecksum

Sets == {None} \cup [props : AnyProps, torn : BOOLEAN]

TypeInv ==
    /\ current_props \in AnyProps /\ torn \in BOOLEAN
    /\ flash \in [Ids -> [1..NWords -> AnyWord]]
    /\ \A id \in Ids : /\ flash[id][2] \in Int /\ flash[id][3] \in Int
                       /\ flash[id][4] \in Int /\ flash[id][5] \in AnyMode
    /\ crc_cache \in SUBSET Ids /\ lastsaveid \in Ids
    /\ failed \in SUBSET Ids
    /\ whole \in [Ids -> Sets]
    /\ \/ saving = Idle
       \/ saving \in [id : Ids, step : {"erase"}, at : 1..Len(Pages)]
       \/ saving \in [id : Ids, step : {"program"}, at : 1..(NWords + 1)]

\* Settings that were never torn are in range.
GoodProps(props, isTorn) == isTorn \/ (props \in Properties /\ InRange(props))

\* A set that was saved whole is still there, word by word, and nothing else looks
\* like one.  An area that is taken as checked holds one, or its last save failed.
AreaInv(id) ==
    /\ whole[id] # None =>
          /\ \A w \in 1..NWords : flash[id][w] = WordsOf(whole[id].props)[w]
          /\ GoodProps(whole[id].props, whole[id].torn)
    /\ Intact(flash[id]) => whole[id] # None
    /\ id \in crc_cache /\ saving.id # id => whole[id] # None \/ id \in failed

\* How far a save has come.
SavingInv ==
    /\ saving.step = "erase" =>
          \A g \in 1..(saving.at - 1) : \A w \in Pages[g] : flash[saving.id][w] = Erased(w)
    /\ saving.step = "program" =>
          /\ \A w \in saving.at..NWords : flash[saving.id][w] = Erased(w)
          /\ \A w \in 1..(saving.at - 1) : flash[saving.id][w] = WordsOf(current_props)[w]
          /\ whole[saving.id] = IF saving.at <= NWords THEN None ELSE InUse

IInv ==
    /\ TypeInv
    /\ GoodProps(current_props, torn)
    /\ \A id \in Ids : AreaInv(id)
    /\ SavingInv

-------------------------------------------------------------------------------
(* Words.                                                                  *)

\* The words of settings.
LEMMA WordsOfProps ==
    ASSUME NEW p \in AnyProps
    PROVE  /\ WordsOf(p)[1] = Magic
           /\ WordsOf(p)[2] = p.frequency0 /\ WordsOf(p)[3] = p.frequency1
           /\ WordsOf(p)[4] = p.sweep_points /\ WordsOf(p)[5] = p.measurement_mode
           /\ WordsOf(p)[6] = Checksum(Body(p))
           /\ \A w \in 1..NWords : WordsOf(p)[w] \in AnyWord
  <1>1. /\ Body(p)[1] = Magic /\ Body(p)[2] = p.frequency0 /\ Body(p)[3] = p.frequency1
        /\ Body(p)[4] = p.sweep_points /\ Body(p)[5] = p.measurement_mode
    BY DEF Body
  <1>2. \A w \in 1..5 : Body(p)[w] \in Int \cup AnyMode
    BY <1>1 DEF AnyProps, Fields, Magic
  <1>3. Checksum(Body(p)) \in AnyChecksum
    BY <1>2 DEF Checksum, AnyChecksum, NWords
  <1>4. /\ \A w \in 1..5 : WordsOf(p)[w] = Body(p)[w]
        /\ WordsOf(p)[6] = Checksum(Body(p))
    BY DEF WordsOf, NWords
  <1>5. \A w \in 1..NWords : WordsOf(p)[w] \in AnyWord
    BY <1>2, <1>3, <1>4 DEF AnyWord, NWords
  <1>6. QED
    BY <1>1, <1>4, <1>5

\* Reading back what was written.
LEMMA RoundTrip ==
    ASSUME NEW p \in AnyProps, NEW words,
           \A w \in 1..NWords : words[w] = WordsOf(p)[w]
    PROVE  PropsOf(words) = p
  <1>1. /\ words[2] = p.frequency0 /\ words[3] = p.frequency1
        /\ words[4] = p.sweep_points /\ words[5] = p.measurement_mode
    BY WordsOfProps DEF NWords
  <1>2. QED
    BY <1>1 DEF PropsOf, AnyProps, Fields

\* The settings in an area, whatever is in it, have fields.
LEMMA PropsOfType ==
    ASSUME NEW words, words[2] \in Int, words[3] \in Int, words[4] \in Int,
           words[5] \in AnyMode
    PROVE  PropsOf(words) \in AnyProps
  BY DEF PropsOf, AnyProps, Fields

\* Without the magic number, or with the checksum erased or programmed wrongly, an
\* area is not taken for a set.
LEMMA NotIntact ==
    ASSUME NEW words,
           words[1] # Magic \/ words[NWords] \in {Erased(NWords), Bad(NWords)}
    PROVE  ~Intact(words)
  <1>1. CASE words[1] # Magic
    BY <1>1 DEF Intact
  <1>2. CASE words[1] = Magic /\ words[NWords] \in {Erased(NWords), Bad(NWords)}
    <2>1. Checksum(words)[1] = 1
      BY <1>2 DEF Checksum, NWords, Magic
    <2>2. Erased(NWords)[1] = -1 /\ Bad(NWords)[1] = 0
      BY DEF Erased, Bad
    <2>3. QED
      BY <1>2, <2>1, <2>2 DEF Intact
  <1>3. QED
    BY <1>1, <1>2

\* No set is None.
LEMMA SetIsNotNone ==
    ASSUME NEW props, NEW isTorn
    PROVE  [props |-> props, torn |-> isTorn] # None
  <1>1. "props" \in DOMAIN [props |-> props, torn |-> isTorn]
    OBVIOUS
  <1>2. "props" \notin DOMAIN None
    BY DEF None
  <1>3. QED
    BY <1>1, <1>2

-------------------------------------------------------------------------------
\* Initially nothing is saved.
LEMMA InitInv == Init => IInv
  <1> SUFFICES ASSUME Init PROVE IInv
    OBVIOUS
  <1> USE DEF Init, SettingsInit
  <1>1. Default \in AnyProps
    BY DefaultAssumption DEF Properties, AnyProps, Fields, AnyMode
  <1>2. 0 \in Ids
    BY StoreAssumption DEF Ids
  <1>3. Blank \in [1..NWords -> AnyWord]
    BY DEF Blank, Erased, AnyWord, AnyChecksum, NWords
  <1>4. Blank[1] = -1 /\ Blank[2] = -1 /\ Blank[3] = -1 /\ Blank[4] = -1 /\ Blank[5] = -1
    BY DEF Blank, Erased, NWords
  <1>5. TypeInv
    <2>1. flash \in [Ids -> [1..NWords -> AnyWord]]
      BY <1>3
    <2>2. \A id \in Ids : /\ flash[id][2] \in Int /\ flash[id][3] \in Int
                          /\ flash[id][4] \in Int /\ flash[id][5] \in AnyMode
      BY <1>4 DEF AnyMode
    <2>3. whole \in [Ids -> Sets]
      BY DEF Sets
    <2>4. QED
      BY <1>1, <1>2, <2>1, <2>2, <2>3 DEF TypeInv
  <1>6. GoodProps(current_props, torn)
    BY DefaultAssumption DEF GoodProps
  <1>7. ASSUME NEW id \in Ids PROVE AreaInv(id)
    <2>1. whole[id] = None /\ flash[id] = Blank /\ id \notin crc_cache
      OBVIOUS
    <2>2. ~Intact(flash[id])
      BY <1>4, <2>1, NotIntact DEF Magic
    <2>3. QED
      BY <2>1, <2>2 DEF AreaInv
  <1>8. SavingInv
    BY DEF SavingInv, Idle
  <1>9. QED
    BY <1>5, <1>6, <1>7, <1>8 DEF IInv

-------------------------------------------------------------------------------
(* Steps.  Each changes the settings, the areas, or how far a save is.      *)

\* Nothing is being saved.
LEMMA IdleFacts ==
    ASSUME TypeInv
    PROVE  /\ (saving = Idle) <=> (saving.step = "idle")
           /\ saving.step \in {"idle", "erase", "program"}
           /\ saving = Idle => saving.id \notin Ids
           /\ saving # Idle => saving.id \in Ids /\ saving.at \in Int /\ saving.at >= 1
           /\ saving.step = "erase" => saving.at <= Len(Pages)
           /\ saving.step = "program" => saving.at <= NWords + 1
           /\ saving = [id |-> saving.id, step |-> saving.step, at |-> saving.at]
  <1>1. CASE saving = Idle
    BY <1>1 DEF Idle, Ids
  <1>2. CASE saving \in [id : Ids, step : {"erase"}, at : 1..Len(Pages)]
    <2>1. Len(Pages) \in Nat
      BY StoreAssumption
    <2>2. QED
      BY <1>2, <2>1 DEF Idle
  <1>3. CASE saving \in [id : Ids, step : {"program"}, at : 1..(NWords + 1)]
    BY <1>3 DEF Idle, NWords
  <1>4. QED
    BY <1>1, <1>2, <1>3 DEF TypeInv

\* An area that is trusted while nothing is being saved holds a set saved whole, or
\* its last save failed.
LEMMA TrustedIsWhole ==
    ASSUME IInv, Free, NEW id \in Ids, Trusted(id)
    PROVE  whole[id] # None \/ id \in failed
  <1>1. saving.id # id
    BY IdleFacts DEF IInv, Free
  <1>2. AreaInv(id)
    BY DEF IInv
  <1>3. QED
    BY <1>1, <1>2 DEF AreaInv, Trusted

\* What is read from an area that holds a set saved whole is that set.
LEMMA WholeIsRead ==
    ASSUME IInv, NEW id \in Ids, whole[id] # None
    PROVE  /\ PropsOf(flash[id]) = whole[id].props
           /\ GoodProps(whole[id].props, whole[id].torn)
           /\ whole[id].torn \in BOOLEAN
  <1>1. whole[id] \in [props : AnyProps, torn : BOOLEAN]
    BY DEF IInv, TypeInv, Sets
  <1>2. AreaInv(id)
    BY DEF IInv
  <1>3. QED
    BY <1>1, <1>2, RoundTrip DEF AreaInv

\* The settings in an area have fields, and are in range unless torn.
LEMMA ReadProps ==
    ASSUME IInv, NEW id \in Ids
    PROVE  /\ PropsOf(flash[id]) \in AnyProps
           /\ TornIn(id) \in BOOLEAN
           /\ GoodProps(PropsOf(flash[id]), TornIn(id))
  <1>1. PropsOf(flash[id]) \in AnyProps
    BY PropsOfType DEF IInv, TypeInv
  <1>2. CASE whole[id] = None
    BY <1>1, <1>2 DEF TornIn, GoodProps
  <1>3. CASE whole[id] # None
    BY <1>1, <1>3, WholeIsRead DEF TornIn, GoodProps
  <1>4. QED
    BY <1>2, <1>3

\* The user's changes leave settings, in range if they were.
LEMMA ChangedProps ==
    ASSUME TypeInv, GoodProps(current_props, torn),
           SetFrequency \/ SetPoints \/ SetMode \/ ResetAll
    PROVE  /\ current_props' \in AnyProps
           /\ GoodProps(current_props', torn)
  <1>0. REFL_THRU \in AnyMode /\ current_props \in Fields(AnyMode) /\ Modes \subseteq AnyMode
    BY RangeAssumption DEF TypeInv, AnyMode, AnyProps
  <1>1. CASE SetFrequency
    <2>1. PICK type \in Parameters, f \in Entered :
              current_props' = WithFrequency(current_props, type, f)
      BY <1>1 DEF SetFrequency
    <2>2. f \in Int
      BY RangeAssumption
    <2>3. current_props' \in AnyProps
      BY <1>0, <2>1, <2>2, FrequencyType DEF AnyProps
    <2>4. QED
      BY <2>1, <2>2, <2>3, FrequencyKeepsRange DEF GoodProps
  <1>2. CASE SetPoints
    <2>1. PICK n \in EnteredPoints : current_props' = WithPoints(current_props, n)
      BY <1>2 DEF SetPoints
    <2> DEFINE c == Clamp(n, SWEEP_POINTS_MIN, SWEEP_POINTS_MAX)
    <2>2. n \in Int /\ c \in Int
      BY RangeAssumption, ClampWithin
    <2>3. current_props' = [current_props EXCEPT !.sweep_points = c]
      BY <2>1 DEF WithPoints
    <2>4. current_props' \in AnyProps
      <3> HIDE DEF c
      <3>1. QED
        BY <1>0, <2>2, <2>3 DEF AnyProps, Fields
    <2>5. \E m \in Modes : TRUE
      BY RangeAssumption
    <2>6. QED
      BY <2>1, <2>2, <2>4, <2>5, PointsAndModeKeepRange DEF GoodProps
  <1>3. CASE SetMode
    <2>1. PICK m \in Modes : current_props' = WithMode(current_props, m)
      BY <1>3 DEF SetMode
    <2>2. current_props' \in AnyProps
      BY <1>0, <2>1 DEF WithMode, AnyProps, Fields
    <2>3. 0 \in Int
      OBVIOUS
    <2>4. QED
      BY <2>1, <2>2, <2>3, PointsAndModeKeepRange DEF GoodProps
  <1>4. CASE ResetAll
    BY <1>4, DefaultAssumption DEF ResetAll, GoodProps, AnyProps, Fields, Properties, AnyMode
  <1>5. QED
    BY <1>1, <1>2, <1>3, <1>4

\* Taking more areas as checked, when what they hold is kept and nothing is being
\* saved, before or after.
LEMMA AreasKept ==
    ASSUME IInv, Free, UNCHANGED <<flash, whole, failed>>,
           \A id \in Ids : id \in crc_cache' => Trusted(id)
    PROVE  \A id \in Ids : AreaInv(id)'
  <1> SUFFICES ASSUME NEW id \in Ids PROVE AreaInv(id)'
    OBVIOUS
  <1>1. AreaInv(id)
    BY DEF IInv
  <1>2. id \in crc_cache' => whole[id] # None \/ id \in failed
    BY TrustedIsWhole
  <1>3. QED
    BY <1>1, <1>2 DEF AreaInv

\* The user's changes.
LEMMA ChangeInv ==
    ASSUME IInv, ChangeSweep \/ ChangeMode \/ ChangeAll
    PROVE  IInv'
  <1>1. Free /\ UNCHANGED <<flash, lastsaveid, saving, whole, failed>>
    BY DEF ChangeSweep, ChangeMode, ChangeAll, Change
  <1>2. TypeInv /\ GoodProps(current_props, torn) /\ lastsaveid \in Ids /\ crc_cache \in SUBSET Ids
    BY DEF IInv, TypeInv
  <1>3. /\ current_props' \in AnyProps
        /\ torn' \in BOOLEAN
        /\ GoodProps(current_props', torn')
    <2>1. CASE ChangeSweep \/ ChangeMode
      BY <1>2, <2>1, ChangedProps DEF ChangeSweep, ChangeMode, TypeInv
    <2>2. CASE ChangeAll
      <3>1. current_props' = Default /\ torn' = FALSE
        BY <2>2 DEF ChangeAll, ResetAll
      <3>2. current_props' \in AnyProps
        BY <1>2, <2>2, ChangedProps DEF ChangeAll
      <3>3. QED
        BY <3>1, <3>2, DefaultAssumption DEF GoodProps
    <2>3. QED
      BY <2>1, <2>2
  <1>4. crc_cache' \in SUBSET Ids /\ \A id \in Ids : id \in crc_cache' => Trusted(id)
    BY <1>2 DEF ChangeSweep, ChangeMode, ChangeAll, Checked, Trusted
  <1>5. TypeInv'
    BY <1>1, <1>2, <1>3, <1>4 DEF TypeInv
  <1>6. \A id \in Ids : AreaInv(id)'
    BY <1>1, <1>4, AreasKept
  <1>7. SavingInv'
    BY <1>1, IdleFacts, <1>2 DEF SavingInv, Free, Idle
  <1>8. QED
    BY <1>3, <1>5, <1>6, <1>7 DEF IInv, GoodProps

\* The user begins to save.
LEMMA BeginSaveInv ==
    ASSUME IInv, NEW id \in Ids, BeginSave(id)
    PROVE  IInv'
  <1>1. /\ Free /\ UNCHANGED <<current_props, torn, flash, crc_cache, lastsaveid, whole, failed>>
        /\ saving' = [id |-> id, step |-> "erase", at |-> 1]
    BY DEF BeginSave, Settings
  <1>2. TypeInv'
    <2>1. Len(Pages) \in Nat /\ Len(Pages) > 0
      BY StoreAssumption
    <2>2. saving' \in [id : Ids, step : {"erase"}, at : 1..Len(Pages)]
      BY <1>1, <2>1
    <2>3. QED
      BY <1>1, <2>2 DEF IInv, TypeInv
  <1>3. \A i \in Ids : AreaInv(i)'
    <2>1. \A i \in Ids : i \in crc_cache' => Trusted(i)
      BY <1>1 DEF Trusted
    <2>2. QED
      BY <1>1, <2>1, AreasKept
  <1>4. SavingInv'
    BY <1>1 DEF SavingInv
  <1>5. QED
    BY <1>1, <1>2, <1>3, <1>4 DEF IInv, GoodProps

\* The user recalls a set.
LEMMA RecallInv ==
    ASSUME IInv, NEW id \in Ids, Recall(id)
    PROVE  IInv'
  <1>1. /\ Free /\ Trusted(id) /\ UNCHANGED <<flash, saving, whole, failed>>
        /\ current_props' = PropsOf(flash[id]) /\ torn' = TornIn(id)
        /\ lastsaveid' = id /\ crc_cache' = crc_cache \cup {id}
    BY DEF Recall
  <1>2. /\ current_props' \in AnyProps /\ torn' \in BOOLEAN
        /\ GoodProps(current_props', torn')
    BY <1>1, ReadProps
  <1>3. TypeInv'
    BY <1>1, <1>2 DEF IInv, TypeInv
  <1>4. \A i \in Ids : AreaInv(i)'
    <2>1. \A i \in Ids : i \in crc_cache' => Trusted(i)
      BY <1>1 DEF Trusted
    <2>2. QED
      BY <1>1, <2>1, AreasKept
  <1>5. SavingInv'
    BY <1>1 DEF SavingInv, Free, Idle
  <1>6. QED
    BY <1>2, <1>3, <1>4, <1>5 DEF IInv, GoodProps

\* Power is lost and comes back.
LEMMA PowerCycleInv ==
    ASSUME IInv, PowerCycle
    PROVE  IInv'
  <1>1. /\ current_props' = IF Intact(flash[0]) THEN PropsOf(flash[0]) ELSE Default
        /\ torn' = (Intact(flash[0]) /\ TornIn(0))
        /\ crc_cache' = IF Intact(flash[0]) THEN {0} ELSE {}
        /\ lastsaveid' = 0 /\ saving' = Idle /\ failed' = {}
        /\ UNCHANGED <<flash, whole>>
    BY DEF PowerCycle
  <1>2. 0 \in Ids
    BY StoreAssumption DEF Ids
  <1>3. /\ current_props' \in AnyProps /\ torn' \in BOOLEAN
        /\ GoodProps(current_props', torn')
    <2>1. CASE Intact(flash[0])
      BY <1>1, <1>2, <2>1, ReadProps
    <2>2. CASE ~Intact(flash[0])
      <3>1. Default \in AnyProps
        BY DefaultAssumption DEF AnyProps, Fields, Properties, AnyMode
      <3>2. QED
        BY <1>1, <2>2, <3>1, DefaultAssumption DEF GoodProps
    <2>3. QED
      BY <2>1, <2>2
  <1>4. TypeInv'
    BY <1>1, <1>2, <1>3 DEF IInv, TypeInv
  <1>5. ASSUME NEW id \in Ids PROVE AreaInv(id)'
    <2>1. AreaInv(id)
      BY DEF IInv
    <2>2. id \in crc_cache' => whole[id] # None
      BY <1>1, <2>1 DEF AreaInv
    <2>3. QED
      BY <1>1, <2>1, <2>2 DEF AreaInv
  <1>6. SavingInv'
    BY <1>1 DEF SavingInv, Idle
  <1>7. QED
    BY <1>3, <1>4, <1>5, <1>6 DEF IInv, GoodProps

\* A word is erased, or programmed wrongly, as a word.
LEMMA ErasedType ==
    \A w \in 1..NWords : /\ Erased(w) \in AnyWord /\ Bad(w) \in AnyWord
                         /\ w < NWords => /\ Erased(w) = -1 /\ Bad(w) = 0
                                          /\ Erased(w) \in Int /\ Bad(w) \in Int
                                          /\ Erased(w) \in AnyMode /\ Bad(w) \in AnyMode
  BY DEF Erased, Bad, AnyWord, AnyMode, AnyChecksum, NWords

\* Where a save changes an area, the others keep what they have.
LEMMA OtherAreas ==
    ASSUME IInv, NEW id \in Ids, saving # Idle, id # saving.id, saving'.id \in {saving.id, -1},
           flash'[id] = flash[id], whole'[id] = whole[id],
           id \in crc_cache' => id \in crc_cache, id \in failed => id \in failed'
    PROVE  AreaInv(id)'
  <1>1. AreaInv(id)
    BY DEF IInv
  <1>2. QED
    BY <1>1 DEF AreaInv

\* A page is erased: from the first, which holds the magic number, the area no
\* longer looks like a set.
LEMMA ErasePageInv ==
    ASSUME IInv, ErasePage
    PROVE  IInv'
  <1> DEFINE sid  == saving.id
             page == Pages[saving.at]
             new  == [w \in 1..NWords |-> IF w \in page THEN Erased(w) ELSE flash[sid][w]]
  <1>1. /\ TypeInv /\ saving.step = "erase" /\ sid \in Ids
        /\ saving.at \in Int /\ 1 <= saving.at /\ saving.at <= Len(Pages)
        /\ saving # Idle /\ Len(Pages) \in Nat
    BY IdleFacts, StoreAssumption DEF IInv, ErasePage, Idle
  <1>2. /\ flash \in [Ids -> [1..NWords -> AnyWord]] /\ whole \in [Ids -> Sets]
        /\ \A id \in Ids : /\ flash[id][2] \in Int /\ flash[id][3] \in Int
                           /\ flash[id][4] \in Int /\ flash[id][5] \in AnyMode
    BY <1>1 DEF TypeInv
  <1>3. /\ flash' = [flash EXCEPT ![sid] = new]
        /\ whole' = [whole EXCEPT ![sid] = None]
        /\ saving' = IF saving.at = Len(Pages) THEN [saving EXCEPT !.step = "program", !.at = 1]
                     ELSE [saving EXCEPT !.at = @ + 1]
        /\ UNCHANGED <<current_props, torn, crc_cache, lastsaveid, failed>>
    BY DEF ErasePage, Settings
  <1>4. new \in [1..NWords -> AnyWord]
    BY <1>1, <1>2, ErasedType
  <1>5. \A w \in 2..5 : new[w] = -1 \/ new[w] = flash[sid][w]
    BY ErasedType DEF NWords
  <1> HIDE DEF new
  <1>6. /\ flash' \in [Ids -> [1..NWords -> AnyWord]] /\ flash'[sid] = new
        /\ \A id \in Ids \ {sid} : flash'[id] = flash[id]
    BY <1>1, <1>2, <1>3, <1>4
  <1>7. /\ whole' \in [Ids -> Sets] /\ whole'[sid] = None
        /\ \A id \in Ids \ {sid} : whole'[id] = whole[id]
    BY <1>1, <1>2, <1>3 DEF Sets
  <1>8. \/ /\ saving.at = Len(Pages)
           /\ saving' = [id |-> sid, step |-> "program", at |-> 1]
        \/ /\ saving.at < Len(Pages)
           /\ saving' = [id |-> sid, step |-> "erase", at |-> saving.at + 1]
    <2>1. saving = [id |-> sid, step |-> saving.step, at |-> saving.at]
      BY <1>1, IdleFacts
    <2>2. CASE saving.at = Len(Pages)
      <3>1. saving' = [saving EXCEPT !.step = "program", !.at = 1]
        BY <1>3, <2>2
      <3>2. QED
        BY <2>1, <2>2, <3>1
    <2>3. CASE saving.at < Len(Pages)
      <3>1. saving' = [saving EXCEPT !.at = saving.at + 1]
        BY <1>1, <1>3, <2>3
      <3>2. QED
        BY <1>1, <2>1, <2>3, <3>1
    <2>4. QED
      BY <1>1, <2>2, <2>3
  <1>9. TypeInv'
    <2>1. \A id \in Ids : /\ flash'[id][2] \in Int /\ flash'[id][3] \in Int
                          /\ flash'[id][4] \in Int /\ flash'[id][5] \in AnyMode
      <3>1. /\ new[2] \in Int /\ new[3] \in Int /\ new[4] \in Int /\ new[5] \in AnyMode
        BY <1>1, <1>2, <1>5 DEF AnyMode
      <3>2. QED
        BY <1>2, <1>6, <3>1
    <2>2. \/ saving' \in [id : Ids, step : {"erase"}, at : 1..Len(Pages)]
          \/ saving' \in [id : Ids, step : {"program"}, at : 1..(NWords + 1)]
      BY <1>1, <1>8 DEF NWords
    <2>3. QED
      BY <1>1, <1>3, <1>6, <1>7, <2>1, <2>2 DEF TypeInv
  <1>10. \A g \in 1..saving.at : \A w \in Pages[g] : new[w] = Erased(w)
    <2>1. \A g \in 1..(saving.at - 1) : \A w \in Pages[g] : flash[sid][w] = Erased(w)
      BY <1>1 DEF IInv, SavingInv
    <2>2. \A g \in 1..Len(Pages) : \A w \in Pages[g] : w \in 1..NWords
      BY StoreAssumption
    <2>3. \A w \in 1..NWords : new[w] = IF w \in page THEN Erased(w) ELSE flash[sid][w]
      BY DEF new
    <2>4. QED
      BY <1>1, <2>1, <2>2, <2>3
  <1>11. ASSUME NEW id \in Ids PROVE AreaInv(id)'
    <2>1. CASE id = sid
      <3>1. new[1] = Erased(1)
        BY <1>1, <1>10, StoreAssumption
      <3>2. ~Intact(new)
        BY <3>1, ErasedType, NotIntact DEF NWords, Magic
      <3>3. id = saving'.id
        BY <1>8, <2>1
      <3>4. QED
        BY <1>6, <1>7, <2>1, <3>2, <3>3 DEF AreaInv
    <2>2. CASE id # sid
      BY <1>1, <1>3, <1>6, <1>7, <1>8, <2>2, OtherAreas
    <2>3. QED
      BY <2>1, <2>2
  <1>12. SavingInv'
    <2>1. CASE saving.at = Len(Pages)
      <3>1. saving' = [id |-> sid, step |-> "program", at |-> 1]
        BY <1>8, <2>1
      <3>2. \A w \in 1..NWords : new[w] = Erased(w)
        BY <1>10, <2>1, StoreAssumption
      <3>3. QED
        BY <1>6, <1>7, <3>1, <3>2 DEF SavingInv, NWords
    <2>2. CASE saving.at < Len(Pages)
      <3>1. saving' = [id |-> sid, step |-> "erase", at |-> saving.at + 1]
        BY <1>8, <2>2
      <3>2. QED
        BY <1>1, <1>6, <1>10, <3>1 DEF SavingInv
    <2>3. QED
      BY <1>8, <2>1, <2>2
  <1>13. QED
    BY <1>3, <1>9, <1>11, <1>12 DEF IInv, GoodProps

\* While words are programmed, what is in the area.
LEMMA Programming ==
    ASSUME IInv, saving.step = "program"
    PROVE  /\ TypeInv /\ saving # Idle /\ saving.id \in Ids
           /\ saving.at \in 1..(NWords + 1)
           /\ flash \in [Ids -> [1..NWords -> AnyWord]] /\ whole \in [Ids -> Sets]
           /\ \A id \in Ids : /\ flash[id][2] \in Int /\ flash[id][3] \in Int
                              /\ flash[id][4] \in Int /\ flash[id][5] \in AnyMode
           /\ \A w \in saving.at..NWords : flash[saving.id][w] = Erased(w)
           /\ \A w \in 1..(saving.at - 1) : flash[saving.id][w] = WordsOf(current_props)[w]
           /\ whole[saving.id] = IF saving.at <= NWords THEN None ELSE InUse
           /\ current_props \in AnyProps
  BY IdleFacts DEF IInv, TypeInv, SavingInv, NWords, Idle

\* A word of the area that is being saved is changed.
LEMMA WordChanged ==
    ASSUME IInv, saving.step = "program", saving.at <= NWords, NEW x \in AnyWord,
           x \in {WordsOf(current_props)[saving.at], Erased(saving.at), Bad(saving.at)},
           flash' = [flash EXCEPT ![saving.id][saving.at] = x]
    PROVE  /\ flash' \in [Ids -> [1..NWords -> AnyWord]]
           /\ \A id \in Ids : /\ flash'[id][2] \in Int /\ flash'[id][3] \in Int
                              /\ flash'[id][4] \in Int /\ flash'[id][5] \in AnyMode
           /\ \A id \in Ids \ {saving.id} : flash'[id] = flash[id]
           /\ \A w \in 1..NWords :
                 flash'[saving.id][w] = IF w = saving.at THEN x ELSE flash[saving.id][w]
  <1> DEFINE sid == saving.id
             at  == saving.at
             new == [flash[sid] EXCEPT ![at] = x]
  <1>1. /\ sid \in Ids /\ at \in 1..NWords
        /\ flash \in [Ids -> [1..NWords -> AnyWord]]
        /\ \A id \in Ids : /\ flash[id][2] \in Int /\ flash[id][3] \in Int
                           /\ flash[id][4] \in Int /\ flash[id][5] \in AnyMode
        /\ current_props \in AnyProps
    BY Programming DEF NWords
  <1>2. flash' = [flash EXCEPT ![sid] = new]
    OBVIOUS
  <1>3. /\ new \in [1..NWords -> AnyWord]
        /\ \A w \in 1..NWords : new[w] = IF w = at THEN x ELSE flash[sid][w]
    BY <1>1
  <1>4. new[2] \in Int /\ new[3] \in Int /\ new[4] \in Int /\ new[5] \in AnyMode
    <2>1. /\ WordsOf(current_props)[2] \in Int /\ WordsOf(current_props)[3] \in Int
          /\ WordsOf(current_props)[4] \in Int /\ WordsOf(current_props)[5] \in AnyMode
      BY <1>1, WordsOfProps DEF AnyProps, Fields
    <2>2. /\ at \in {2, 3, 4} => x \in Int
          /\ at = 5 => x \in AnyMode
      BY <1>1, <2>1, ErasedType DEF NWords
    <2>3. QED
      BY <1>1, <1>3, <2>2 DEF NWords
  <1> HIDE DEF new
  <1>5. flash'[sid] = new /\ \A id \in Ids \ {sid} : flash'[id] = flash[id]
    BY <1>1, <1>2
  <1>6. flash' \in [Ids -> [1..NWords -> AnyWord]]
    BY <1>1, <1>2, <1>3
  <1>7. QED
    BY <1>1, <1>3, <1>4, <1>5, <1>6

\* A word is programmed: only the last one, the checksum, makes a set of the area.
LEMMA ProgramWordInv ==
    ASSUME IInv, ProgramWord
    PROVE  IInv'
  <1> DEFINE sid == saving.id
             at  == saving.at
             x   == WordsOf(current_props)[at]
  <1>1. /\ saving.step = "program" /\ at <= NWords /\ at \in 1..NWords /\ sid \in Ids
        /\ saving # Idle /\ TypeInv
        /\ flash \in [Ids -> [1..NWords -> AnyWord]] /\ whole \in [Ids -> Sets]
        /\ \A w \in at..NWords : flash[sid][w] = Erased(w)
        /\ \A w \in 1..(at - 1) : flash[sid][w] = WordsOf(current_props)[w]
        /\ whole[sid] = None
        /\ current_props \in AnyProps
    BY Programming DEF ProgramWord, NWords
  <1>2. /\ flash' = [flash EXCEPT ![sid][at] = x]
        /\ saving' = [saving EXCEPT !.at = at + 1]
        /\ whole' = IF at = NWords THEN [whole EXCEPT ![sid] = InUse] ELSE whole
        /\ UNCHANGED <<current_props, torn, crc_cache, lastsaveid, failed>>
    BY DEF ProgramWord, Settings
  <1>3. x \in AnyWord
    BY <1>1, WordsOfProps
  <1>4. /\ flash' \in [Ids -> [1..NWords -> AnyWord]]
        /\ \A id \in Ids : /\ flash'[id][2] \in Int /\ flash'[id][3] \in Int
                           /\ flash'[id][4] \in Int /\ flash'[id][5] \in AnyMode
        /\ \A id \in Ids \ {sid} : flash'[id] = flash[id]
        /\ \A w \in 1..NWords : flash'[sid][w] = IF w = at THEN x ELSE flash[sid][w]
    BY <1>1, <1>2, <1>3, WordChanged
  <1>5. saving' = [id |-> sid, step |-> "program", at |-> at + 1]
    <2>1. saving = [id |-> sid, step |-> saving.step, at |-> at]
      BY <1>1, IdleFacts
    <2>2. QED
      BY <1>1, <1>2, <2>1
  <1>6. InUse \in Sets /\ InUse # None /\ InUse' = InUse
    BY <1>1, <1>2, SetIsNotNone DEF InUse, Sets, TypeInv
  <1>7. /\ whole' \in [Ids -> Sets]
        /\ \A id \in Ids \ {sid} : whole'[id] = whole[id]
        /\ whole'[sid] = IF at = NWords THEN InUse ELSE None
    BY <1>1, <1>2, <1>6
  <1> HIDE DEF x
  <1>8. TypeInv'
    <2>1. saving' \in [id : Ids, step : {"program"}, at : 1..(NWords + 1)]
      BY <1>1, <1>5 DEF NWords
    <2>2. QED
      BY <1>1, <1>2, <1>4, <1>7, <2>1 DEF TypeInv
  <1>9. /\ \A w \in (at + 1)..NWords : flash'[sid][w] = Erased(w)
        /\ \A w \in 1..at : flash'[sid][w] = WordsOf(current_props)[w]
    <2>1. at \in Int /\ 1 <= at /\ at <= 6 /\ NWords = 6
      BY <1>1 DEF NWords
    <2>2. ASSUME NEW w \in (at + 1)..NWords PROVE flash'[sid][w] = Erased(w)
      <3>1. w \in at..NWords /\ w \in 1..NWords /\ w # at
        BY <2>1
      <3>2. QED
        BY <1>1, <1>4, <3>1
    <2>3. ASSUME NEW w \in 1..at PROVE flash'[sid][w] = WordsOf(current_props)[w]
      <3>1. w \in 1..NWords /\ (w = at \/ w \in 1..(at - 1))
        BY <2>1
      <3>2. QED
        BY <1>1, <1>4, <3>1 DEF x
    <2>4. QED
      BY <2>2, <2>3
  <1>10. ASSUME NEW id \in Ids, id = sid PROVE AreaInv(id)'
    <2>1. CASE at = NWords
      <3>1. \A w \in 1..NWords : flash'[sid][w] = WordsOf(InUse.props)[w]
        BY <1>9, <2>1 DEF InUse
      <3>2. GoodProps(InUse.props, InUse.torn)
        BY DEF IInv, InUse
      <3>3. whole'[sid] = InUse /\ sid = saving'.id
        BY <1>5, <1>7, <2>1
      <3>4. QED
        BY <1>6, <1>10, <3>1, <3>2, <3>3 DEF AreaInv, GoodProps
    <2>2. CASE at # NWords
      <3>1. flash'[sid][NWords] = Erased(NWords)
        BY <1>1, <1>9, <2>2 DEF NWords
      <3>2. ~Intact(flash'[sid])
        BY <3>1, NotIntact
      <3>3. whole'[sid] = None /\ sid = saving'.id
        BY <1>5, <1>7, <2>2
      <3>4. QED
        BY <1>10, <3>2, <3>3 DEF AreaInv
    <2>3. QED
      BY <2>1, <2>2
  <1>11. ASSUME NEW id \in Ids PROVE AreaInv(id)'
    <2>1. CASE id # sid
      BY <1>1, <1>2, <1>4, <1>5, <1>7, <2>1, OtherAreas
    <2>2. QED
      BY <1>10, <2>1
  <1>12. SavingInv'
    BY <1>1, <1>2, <1>5, <1>6, <1>7, <1>9 DEF SavingInv, NWords
  <1>13. QED
    BY <1>2, <1>8, <1>11, <1>12 DEF IInv, GoodProps

\* A save ends well.
LEMMA EndSaveInv ==
    ASSUME IInv, EndSave
    PROVE  IInv'
  <1> DEFINE sid == saving.id
  <1>1. /\ saving.step = "program" /\ saving.at = NWords + 1
        /\ UNCHANGED <<current_props, torn, flash, whole>>
        /\ lastsaveid' = sid /\ crc_cache' = crc_cache \cup {sid} /\ saving' = Idle
        /\ failed' = failed \ {sid}
    BY DEF EndSave, Saved, Settings
  <1>2. /\ TypeInv /\ sid \in Ids /\ saving # Idle /\ whole[sid] = InUse /\ InUse # None
    <2>1. InUse # None
      BY SetIsNotNone DEF InUse
    <2>2. QED
      BY <1>1, <2>1, Programming DEF NWords
  <1>3. TypeInv'
    BY <1>1, <1>2 DEF TypeInv
  <1>4. ASSUME NEW id \in Ids PROVE AreaInv(id)'
    <2>1. AreaInv(id)
      BY DEF IInv
    <2>2. CASE id = sid
      BY <1>1, <1>2, <2>1, <2>2 DEF AreaInv
    <2>3. CASE id # sid
      BY <1>1, <1>2, <2>1, <2>3 DEF AreaInv
    <2>4. QED
      BY <2>2, <2>3
  <1>5. SavingInv'
    BY <1>1 DEF SavingInv, Idle
  <1>6. QED
    BY <1>1, <1>3, <1>4, <1>5 DEF IInv, GoodProps

\* A save fails.
LEMMA FailSaveInv ==
    ASSUME IInv, FailSave
    PROVE  IInv'
  <1> DEFINE sid == saving.id
             at  == saving.at
  <1>1. /\ UNCHANGED <<current_props, torn, whole>>
        /\ lastsaveid' = sid /\ crc_cache' = crc_cache \cup {sid} /\ saving' = Idle
        /\ failed' = failed \cup {sid}
    BY DEF FailSave, Saved, Settings
  <1>2. TypeInv /\ sid \in Ids /\ saving # Idle
    BY IdleFacts DEF FailSave, IInv, Idle
  <1>3. /\ flash' \in [Ids -> [1..NWords -> AnyWord]]
        /\ \A id \in Ids : /\ flash'[id][2] \in Int /\ flash'[id][3] \in Int
                           /\ flash'[id][4] \in Int /\ flash'[id][5] \in AnyMode
        /\ \A id \in Ids \ {sid} : flash'[id] = flash[id]
        /\ \/ flash' = flash
           \/ whole[sid] = None /\ ~Intact(flash'[sid])
    <2>1. CASE saving.step = "erase"
      BY <1>2, <2>1 DEF FailSave, TypeInv
    <2>2. CASE saving.step = "program"
      <3>1. PICK x \in {Erased(at), Bad(at)} :
                at <= NWords /\ flash' = [flash EXCEPT ![sid][at] = x]
        BY <2>2 DEF FailSave
      <3>2. /\ at \in 1..NWords /\ whole[sid] = None
            /\ \A w \in at..NWords : flash[sid][w] = Erased(w)
        BY <2>2, <3>1, Programming DEF NWords
      <3>3. x \in AnyWord
        BY <3>2, ErasedType
      <3>4. /\ flash' \in [Ids -> [1..NWords -> AnyWord]]
            /\ \A id \in Ids : /\ flash'[id][2] \in Int /\ flash'[id][3] \in Int
                               /\ flash'[id][4] \in Int /\ flash'[id][5] \in AnyMode
            /\ \A id \in Ids \ {sid} : flash'[id] = flash[id]
            /\ \A w \in 1..NWords : flash'[sid][w] = IF w = at THEN x ELSE flash[sid][w]
        BY <2>2, <3>1, <3>3, WordChanged
      <3>5. flash'[sid][NWords] \in {Erased(NWords), Bad(NWords)}
        BY <3>1, <3>2, <3>4 DEF NWords
      <3>6. ~Intact(flash'[sid])
        BY <3>5, NotIntact
      <3>7. QED
        BY <3>2, <3>4, <3>6
    <2>3. QED
      BY <2>1, <2>2 DEF FailSave
  <1>4. TypeInv'
    BY <1>1, <1>2, <1>3 DEF TypeInv
  <1>5. ASSUME NEW id \in Ids PROVE AreaInv(id)'
    <2>1. AreaInv(id)
      BY DEF IInv
    <2>2. CASE flash' = flash
      BY <1>1, <1>2, <2>1, <2>2 DEF AreaInv
    <2>3. CASE id = sid /\ whole[sid] = None /\ ~Intact(flash'[sid])
      BY <1>1, <2>3 DEF AreaInv
    <2>4. CASE id # sid
      BY <1>1, <1>2, <1>3, <2>1, <2>4 DEF AreaInv
    <2>5. QED
      BY <1>3, <2>2, <2>3, <2>4
  <1>6. SavingInv'
    BY <1>1 DEF SavingInv, Idle
  <1>7. QED
    BY <1>1, <1>4, <1>5, <1>6 DEF IInv, GoodProps

-------------------------------------------------------------------------------
(* The theorems.                                                           *)

\* The inductive invariant holds: what an area holds, what is trusted, and how far a
\* save has come.
THEOREM Invariance == Spec => []IInv
  <1>1. IInv /\ [Next]_vars => IInv'
    <2> SUFFICES ASSUME IInv, [Next]_vars PROVE IInv'
      OBVIOUS
    <2>1. CASE ChangeSweep \/ ChangeMode \/ ChangeAll
      BY <2>1, ChangeInv
    <2>2. CASE \E id \in Ids : BeginSave(id)
      BY <2>2, BeginSaveInv
    <2>3. CASE \E id \in Ids : Recall(id)
      BY <2>3, RecallInv
    <2>4. CASE ErasePage
      BY <2>4, ErasePageInv
    <2>5. CASE ProgramWord
      BY <2>5, ProgramWordInv
    <2>6. CASE EndSave
      BY <2>6, EndSaveInv
    <2>7. CASE FailSave
      BY <2>7, FailSaveInv
    <2>8. CASE PowerCycle
      BY <2>8, PowerCycleInv
    <2>9. CASE UNCHANGED vars
      BY <2>9 DEF vars, IInv, TypeInv, GoodProps, AreaInv, SavingInv, InUse
    <2>10. QED
      BY <2>1, <2>2, <2>3, <2>4, <2>5, <2>6, <2>7, <2>8, <2>9 DEF Next
  <1>2. QED
    BY <1>1, InitInv, PTL DEF Spec

\* However the settings are changed, saved, recalled or lost, the sweep stays in range,
\* for every range, number of points and number typed.
THEOREM RangeKept == Spec => []FreqInRange
  <1>1. IInv => FreqInRange
    BY DEF IInv, GoodProps, FreqInRange
  <1>2. QED
    BY <1>1, Invariance, PTL

\* What is recalled was saved whole, wherever power was lost or a save failed before,
\* unless the last save of that area failed.
THEOREM RecallIsSound == Spec => RecallsWhatWasSaved
  <1> DEFINE Recalls ==
        /\ \A id \in Ids :
              Recall(id) => SavedIn(id, current_props') \/ id \in failed
        /\ PowerCycle => current_props' = Default \/ SavedIn(0, current_props')
  <1>1. IInv => Recalls
    <2> SUFFICES ASSUME IInv PROVE Recalls
      OBVIOUS
    <2>1. ASSUME NEW id \in Ids, Recall(id)
          PROVE  SavedIn(id, current_props') \/ id \in failed
      <3>1. Free /\ Trusted(id) /\ current_props' = PropsOf(flash[id])
        BY <2>1 DEF Recall
      <3>2. QED
        BY <3>1, TrustedIsWhole, WholeIsRead DEF SavedIn
    <2>2. ASSUME PowerCycle
          PROVE  current_props' = Default \/ SavedIn(0, current_props')
      <3>1. 0 \in Ids
        BY StoreAssumption DEF Ids
      <3>2. CASE Intact(flash[0])
        <4>1. whole[0] # None
          BY <3>1, <3>2 DEF IInv, AreaInv
        <4>2. current_props' = PropsOf(flash[0])
          BY <2>2, <3>2 DEF PowerCycle
        <4>3. QED
          BY <3>1, <4>1, <4>2, WholeIsRead DEF SavedIn
      <3>3. CASE ~Intact(flash[0])
        BY <2>2, <3>3 DEF PowerCycle
      <3>4. QED
        BY <3>2, <3>3
    <2>3. QED
      BY <2>1, <2>2
  <1>2. QED
    BY <1>1, Invariance, PTL DEF RecallsWhatWasSaved

\* Calibration data interpolated from the area last saved or recalled comes from the
\* right points, whatever two sweeps they are.
THEOREM CalibrationIsRight == Spec => []CalFromNeighbours
  <1>1. IInv => CalFromNeighbours
    <2> SUFFICES ASSUME IInv, Reference # None, ~torn, ~TornIn(lastsaveid)
                 PROVE  FromNeighbours(Reference, current_props)
      BY DEF CalFromNeighbours
    <2>1. current_props \in Properties /\ InRange(current_props)
      BY DEF IInv, GoodProps
    <2>2. lastsaveid \in Ids /\ whole[lastsaveid] # None /\ ~whole[lastsaveid].torn
      BY DEF IInv, TypeInv, TornIn
    <2>3. Reference = whole[lastsaveid].props
      BY <2>2, WholeIsRead DEF Reference
    <2>4. Reference \in Properties /\ InRange(Reference)
      BY <2>2, <2>3, WholeIsRead DEF GoodProps
    <2>5. QED
      BY <2>1, <2>4, InterpolationIsRight
  <1>2. QED
    BY <1>1, Invariance, PTL
===============================================================================
