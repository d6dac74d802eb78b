---------------------------- MODULE AdcStreamProofs ----------------------------
(***************************************************************************)
(* Proofs about AdcStream for a ring of any size, correlation tables of    *)
(* any length, and any number of samples.                                  *)
(***************************************************************************)
EXTENDS AdcStream, TLAPS

-------------------------------------------------------------------------------
(* Division with remainder, for the positions in a ring.                   *)

\* A remainder lies below its divisor.
LEMMA ModRange ==
    ASSUME NEW m \in Nat \ {0}, NEW n \in Nat
    PROVE  n % m \in 0 .. m - 1
  OBVIOUS

\* Division with remainder.
LEMMA DivMod ==
    ASSUME NEW m \in Nat \ {0}, NEW n \in Nat
    PROVE  /\ n = m * (n \div m) + (n % m)
           /\ n \div m \in Nat
  OBVIOUS

\* A positive multiple of m is at least m.
LEMMA MultipleAtLeast ==
    ASSUME NEW m \in Nat \ {0}, NEW x \in Int, x >= 1
    PROVE  m * x >= m
  OBVIOUS

\* Quotient and remainder are unique.
LEMMA DivisionUnique ==
    ASSUME NEW m \in Nat \ {0}, NEW p \in Int, NEW q \in Int,
           NEW r \in 0 .. m - 1, NEW s \in 0 .. m - 1,
           m * p + r = m * q + s
    PROVE  p = q /\ r = s
  <1>1. m * (p - q) = s - r /\ m * (q - p) = r - s
    OBVIOUS
  <1>2. ~(p - q >= 1)
    BY <1>1, MultipleAtLeast, p - q \in Int
  <1>3. ~(q - p >= 1)
    BY <1>1, MultipleAtLeast, q - p \in Int
  <1>4. QED
    BY <1>2, <1>3

\* What the remainder is, from any decomposition.
LEMMA ModIs ==
    ASSUME NEW m \in Nat \ {0}, NEW n \in Nat, NEW q \in Int,
           NEW r \in 0 .. m - 1, n = m * q + r
    PROVE  n % m = r
  BY DivMod, ModRange, DivisionUnique

\* Two numbers less than m apart with the same remainder are equal.
LEMMA ModInjective ==
    ASSUME NEW m \in Nat \ {0}, NEW a \in Nat, NEW b \in Nat,
           a <= b, b - a < m, a % m = b % m
    PROVE  a = b
  <1>1. /\ a = m * (a \div m) + (a % m) /\ a \div m \in Nat
        /\ b = m * (b \div m) + (b % m) /\ b \div m \in Nat
    BY DivMod
  <1>2. PICK p \in Nat, q \in Nat, r \in 0 .. m - 1 :
            a = m * p + r /\ b = m * q + r
    BY <1>1, ModRange
  <1>3. m * (q - p) = b - a
    BY <1>2
  <1>4. ~(q - p >= 1)
    BY <1>3, MultipleAtLeast, q - p \in Int
  <1>5. ~(p - q >= 1)
    <2>1. m * (p - q) = a - b
      BY <1>2
    <2>2. QED
      BY <2>1, MultipleAtLeast, p - q \in Int
  <1>6. QED
    BY <1>2, <1>4, <1>5

-------------------------------------------------------------------------------
(* The inductive invariant.                                                *)

\* The ring holds the last samples converted, each in its place.
RingInv ==
    \A n \in Nat : n < written /\ written - n <= bufWords
                      => adcBuffer[WordOf(n)] = n

\* The word to be read next is that of sample "next", whether or not it still is
\* in it; the words still to be summed have been converted.
Reading   == pc \in {"process", "emitValue"}
Remaining == IF Reading THEN end - samples ELSE 0

CursorInv ==
    /\ next + Remaining <= written
    /\ ~Reading => WordOf(next) = lastIndex
    /\ Reading => /\ samples <= end
                  /\ WordOf(next) = WrapIndex(samples)
                  /\ lastIndex = WrapIndex(end)

\* Not lapped: what is read next is still there.
FreshInv == ~torn => written - next < bufWords

\* The sum has the samples from "since" on, one for each phase.
SumInv ==
    /\ pc # "emitValue" => accumPhase < accumPeriod
    /\ pc = "emitValue" => accumPhase = accumPeriod
    /\ ~spoiled =>
          /\ ~torn
          /\ next = since + accumPhase
          /\ Len(accum) = accumPhase
          /\ \A i \in 1..accumPhase : accum[i] = since + i - 1
          /\ clipFlag = (\E i \in 1..accumPhase : since + i - 1 \in Clipped)

\* What was there when the interrupt came has been read, or is being read, or the
\* first of the two reads goes to the end of the ring.
CaughtInv ==
    /\ entered <= written
    /\ pc = "read" /\ round = 2 => next >= entered \/ lastIndex = 0
    /\ Reading => next + Remaining >= entered \/ (round = 1 /\ end = bufWords)

IInv == TypeOK /\ RingInv /\ CursorInv /\ FreshInv /\ SumInv /\ CaughtInv

-------------------------------------------------------------------------------
(* Positions in the ring.                                                  *)

\* Multiples of the divisor do not change a remainder.
LEMMA ModPlusMultiple ==
    ASSUME NEW m \in Nat \ {0}, NEW n \in Nat, NEW d \in Nat,
           \E q \in Int : n = d + m * q
    PROVE  n % m = d % m
  <1> PICK q \in Int : n = d + m * q
    OBVIOUS
  <1>1. PICK p \in Nat, r \in 0 .. m - 1 : d = m * p + r /\ d % m = r
    BY DivMod, ModRange
  <1> DEFINE s == p + q
  <1>2. s \in Int /\ n = m * s + r
    BY <1>1
  <1> HIDE DEF s
  <1>3. n % m = r
    BY <1>2, ModIs
  <1>4. QED
    BY <1>1, <1>3

\* A sample and the word that it goes to.
LEMMA WordRange ==
    ASSUME NEW n \in Nat
    PROVE  WordOf(n) \in Words /\ WordOf(n) \in 0 .. bufWords - 1 /\ WordOf(n) \in Nat
  BY AdcAssumption, ModRange DEF WordOf, Words

LEMMA WordInjective ==
    ASSUME NEW a \in Nat, NEW b \in Nat, a <= b, b - a < bufWords, WordOf(a) = WordOf(b)
    PROVE  a = b
  BY AdcAssumption, ModInjective DEF WordOf

LEMMA WordPlusMultiple ==
    ASSUME NEW n \in Nat, NEW d \in Nat, \E q \in Int : n = d + bufWords * q
    PROVE  WordOf(n) = WordOf(d)
  BY AdcAssumption, ModPlusMultiple DEF WordOf

LEMMA WordDivision ==
    ASSUME NEW n \in Nat
    PROVE  \E q \in Nat : n = bufWords * q + WordOf(n)
  BY AdcAssumption, DivMod DEF WordOf

LEMMA WordIs ==
    ASSUME NEW n \in Nat, NEW r \in Words, \E q \in Int : n = bufWords * q + r
    PROVE  WordOf(n) = r
  BY AdcAssumption, ModIs DEF WordOf, Words

\* Some words on and not beyond the end of the ring.
LEMMA WordMoves ==
    ASSUME NEW x \in Nat, NEW y \in Nat, NEW j \in 0 .. bufWords,
           y - x = j - WordOf(x)
    PROVE  WordOf(y) = WrapIndex(j)
  <1>1. bufWords \in Nat \ {0}
    BY AdcAssumption
  <1>2. PICK q \in Nat : x = bufWords * q + WordOf(x)
    BY WordDivision
  <1>3. WordOf(x) \in Nat
    BY WordRange
  <1>4. y = bufWords * q + j
    BY <1>1, <1>2, <1>3
  <1>5. CASE j < bufWords
    <2>1. j \in Words
      BY <1>1, <1>5 DEF Words
    <2>2. WordOf(y) = j
      BY <1>4, <2>1, WordIs, q \in Int
    <2>3. QED
      BY <1>1, <1>5, <2>2 DEF WrapIndex
  <1>6. CASE j = bufWords
    <2>1. q + 1 \in Int /\ y = bufWords * (q + 1) + 0 /\ 0 \in Words
      BY <1>1, <1>4, <1>6 DEF Words
    <2>2. WordOf(y) = 0
      BY <2>1, WordIs
    <2>3. QED
      BY <1>1, <1>6, <2>2 DEF WrapIndex
  <1>7. QED
    BY <1>1, <1>5, <1>6

\* What adc_read() finds: lastIndex stands for a sample that is still in the ring,
\* not older than the one that should come next, and for that one unless the ring
\* was lapped; it reads up to the newest, or up to the end of the ring.
LEMMA ReadFinds ==
    ASSUME TypeOK, CursorInv, ~Reading
    PROVE  /\ Behind \in Nat /\ next <= Behind /\ written - Behind < bufWords
           /\ WordOf(Behind) = lastIndex
           /\ written - next < bufWords => Behind = next
           /\ ReadEnd \in 0 .. bufWords /\ lastIndex <= ReadEnd
           /\ Behind + (ReadEnd - lastIndex) <= written
           /\ ReadEnd # bufWords => Behind + (ReadEnd - lastIndex) = written
           /\ lastIndex = 0 => ReadEnd # bufWords
           /\ WordOf(Behind + (ReadEnd - lastIndex)) = WrapIndex(ReadEnd)
  <1>1. /\ bufWords \in Nat \ {0} /\ written \in Nat /\ next \in Nat
        /\ lastIndex \in 0 .. bufWords - 1 /\ lastIndex \in Words
        /\ next <= written /\ WordOf(next) = lastIndex
    BY AdcAssumption DEF TypeOK, Words, CursorInv, Remaining, Reading
  <1> DEFINE d == written - next
             e == WordOf(d)
  <1>2. d \in Nat
    BY <1>1
  <1>3. PICK q \in Nat : next = bufWords * q + lastIndex
    BY <1>1, WordDivision
  <1>4. PICK p \in Nat : d = bufWords * p + e
    BY <1>2, WordDivision
  <1>5. e \in 0 .. bufWords - 1 /\ e \in Nat
    BY <1>2, WordRange
  <1>6. Behind = written - e
    <2>1. lastIndex <= next
      BY <1>1, <1>3
    <2>2. written - lastIndex \in Nat /\ written - lastIndex = d + bufWords * q /\ q \in Int
      BY <1>1, <1>3, <2>1
    <2>3. WordOf(written - lastIndex) = WordOf(d)
      BY <1>2, <2>2, WordPlusMultiple
    <2>4. QED
      BY <2>3 DEF Behind
  <1> HIDE DEF e
  <1>7. Behind = next + bufWords * p /\ bufWords * p \in Nat
    BY <1>1, <1>4, <1>5, <1>6
  <1>8. Behind \in Nat /\ next <= Behind /\ written - Behind < bufWords
    BY <1>1, <1>5, <1>6, <1>7
  <1>9. WordOf(Behind) = lastIndex
    BY <1>1, <1>7, <1>8, WordPlusMultiple, p \in Int
  <1>10. d < bufWords => Behind = next
    <2> SUFFICES ASSUME d < bufWords PROVE Behind = next
      OBVIOUS
    <2>1. d \in Words /\ d = bufWords * 0 + d
      BY <1>1, <1>2 DEF Words
    <2>2. WordOf(d) = d
      BY <1>2, <2>1, WordIs, 0 \in Int
    <2>3. QED
      BY <1>1, <1>6, <2>2 DEF e
  <1> DEFINE last == Behind + (ReadEnd - lastIndex)
  <1>11. CASE lastIndex + e < bufWords
    <2>1. lastIndex + e \in 0 .. bufWords /\ written - Behind = (lastIndex + e) - lastIndex
      BY <1>1, <1>5, <1>6, <1>11
    <2>2. WordOf(written) = WrapIndex(lastIndex + e)
      BY <1>1, <1>8, <1>9, <2>1, WordMoves
    <2>3. ReadEnd = lastIndex + e
      BY <1>1, <1>5, <1>11, <2>2 DEF ReadEnd, WrapIndex
    <2>4. last = written
      BY <1>1, <1>5, <1>6, <2>3
    <2>5. QED
      BY <1>1, <1>5, <1>8, <1>9, <1>10, <1>11, <2>2, <2>3, <2>4
  <1>12. CASE lastIndex + e >= bufWords
    <2> DEFINE z == Behind + (bufWords - lastIndex)
               f == lastIndex + e - bufWords
    <2>1. /\ z \in Nat /\ z - Behind = bufWords - lastIndex /\ bufWords \in 0 .. bufWords
          /\ f \in 0 .. bufWords /\ f < bufWords /\ f < lastIndex
          /\ written - z = f - 0 /\ z <= written
      BY <1>1, <1>5, <1>6, <1>8, <1>12
    <2> HIDE DEF z, f
    <2>2. WordOf(z) = WrapIndex(bufWords)
      BY <1>8, <1>9, <2>1, WordMoves
    <2>3. WrapIndex(bufWords) = 0
      BY <1>1 DEF WrapIndex
    <2>4. WordOf(written) = WrapIndex(f)
      BY <1>1, <2>1, <2>2, <2>3, WordMoves
    <2>5. ReadEnd = bufWords
      BY <1>1, <2>1, <2>4 DEF ReadEnd, WrapIndex
    <2>6. last = z
      BY <2>5 DEF z
    <2>7. QED
      BY <1>1, <1>8, <1>9, <1>10, <1>12, <1>5, <2>1, <2>2, <2>5, <2>6
  <1>13. QED
    BY <1>1, <1>5, <1>11, <1>12

-------------------------------------------------------------------------------
(* The invariant holds.                                                    *)

LEMMA InitHolds == Init => IInv
  <1> SUFFICES ASSUME Init PROVE IInv
    OBVIOUS
  <1> USE AdcAssumption DEF Init
  <1>1. TypeOK
    <2>1. adcBuffer \in [Words -> Nat \cup {NoSample}]
      BY ZenonT(30)
    <2>2. accum \in Seq(Nat \cup {NoSample})
      OBVIOUS
    <2>3. 0 \in Words /\ 0 \in 0 .. bufWords
      BY DEF Words
    <2>4. QED
      BY <2>1, <2>2, <2>3 DEF TypeOK, Reads
  <1>2. RingInv
    BY DEF RingInv
  <1>3. WordOf(0) = 0
    BY WordIs, 0 = bufWords * 0 + 0, 0 \in Words DEF Words
  <1>4. CursorInv
    BY <1>3 DEF CursorInv, Remaining, Reading
  <1>5. FreshInv /\ CaughtInv
    BY DEF FreshInv, CaughtInv, Remaining, Reading
  <1>6. SumInv
    <2>1. Len(accum) = 0 /\ accumPhase < accumPeriod
      OBVIOUS
    <2>2. ~ \E i \in 1 .. accumPhase : since + i - 1 \in Clipped
      OBVIOUS
    <2>3. \A i \in 1 .. accumPhase : accum[i] = since + i - 1
      OBVIOUS
    <2>4. clipFlag = \E i \in 1 .. accumPhase : since + i - 1 \in Clipped
      BY <2>2
    <2>5. QED
      BY <2>1, <2>3, <2>4 DEF SumInv
  <1>7. QED
    BY <1>1, <1>2, <1>4, <1>5, <1>6 DEF IInv

\* The converter overwrites the oldest sample in the ring.
LEMMA ConvertKeeps == IInv /\ Convert => IInv'
  <1> SUFFICES ASSUME IInv, Convert PROVE IInv'
    OBVIOUS
  <1> USE DEF IInv, Convert, ring, slice, processor, ghosts
  <1>1. /\ bufWords \in Nat \ {0} /\ written \in Nat /\ next \in Nat
        /\ entered \in Nat /\ written' = written + 1
        /\ samples \in Nat /\ end \in Nat
    BY AdcAssumption DEF TypeOK
  <1>2. WordOf(written) \in Words
    BY <1>1, WordRange
  <1>3. TypeOK'
    BY <1>1, <1>2 DEF TypeOK
  <1>4. RingInv'
    <2> SUFFICES ASSUME NEW n \in Nat, n < written', written' - n <= bufWords
                 PROVE  adcBuffer'[WordOf(n)] = n
      BY DEF RingInv
    <2>1. WordOf(n) \in Words
      BY WordRange
    <2>2. CASE n = written
      BY <1>2, <2>2 DEF TypeOK
    <2>3. CASE n # written
      <3>1. n < written /\ written - n < bufWords
        BY <1>1, <2>3
      <3>2. WordOf(n) # WordOf(written)
        BY <1>1, <3>1, WordInjective
      <3>3. adcBuffer[WordOf(n)] = n
        BY <1>1, <3>1 DEF RingInv
      <3>4. QED
        BY <1>2, <2>1, <3>2, <3>3 DEF TypeOK
    <2>4. QED
      BY <2>2, <2>3
  <1>5. CursorInv'
    BY <1>1 DEF CursorInv, Remaining, Reading
  <1>6. FreshInv'
    <2> SUFFICES ASSUME ~torn' PROVE written' - next' < bufWords
      BY DEF FreshInv
    <2>1. ~Laps
      OBVIOUS
    <2>2. QED
      BY <1>1, <2>1 DEF Laps
  <1>7. SumInv'
    BY <1>1 DEF SumInv
  <1>8. CaughtInv'
    BY <1>1 DEF CaughtInv, Remaining, Reading
  <1>9. QED
    BY <1>3, <1>4, <1>5, <1>6, <1>7, <1>8

\* The interrupt begins, and notes where the converter is.
LEMMA AdcProcessKeeps == IInv /\ AdcProcess => IInv'
  <1> SUFFICES ASSUME IInv, AdcProcess PROVE IInv'
    OBVIOUS
  <1> USE DEF IInv, AdcProcess, ring, slice, processor, ghosts
  <1>1. TypeOK'
    BY DEF TypeOK, Reads
  <1>2. RingInv'
    BY DEF RingInv
  <1>3. CursorInv' /\ FreshInv'
    BY DEF CursorInv, FreshInv, Remaining, Reading
  <1>4. SumInv'
    BY DEF SumInv
  <1>5. CaughtInv'
    BY DEF CaughtInv, Remaining, Reading, TypeOK
  <1>6. QED
    BY <1>1, <1>2, <1>3, <1>4, <1>5

\* adc_read() goes on with the sample that is due, unless the ring was lapped.
LEMMA ReadKeeps == IInv /\ Read => IInv'
  <1> SUFFICES ASSUME IInv, Read PROVE IInv'
    OBVIOUS
  <1> USE DEF IInv, Read, ring, processor
  <1>1. /\ bufWords \in Nat \ {0} /\ lastIndex \in Words /\ written \in Nat
        /\ next \in Nat /\ entered \in Nat /\ round \in 1 .. 2
    BY AdcAssumption DEF TypeOK, Reads
  <1>2. lastIndex \in Nat /\ lastIndex < bufWords
    BY <1>1 DEF Words
  <1>3. ~Reading /\ Reading'
    BY DEF Reading
  <1>4. /\ Behind \in Nat /\ next <= Behind /\ written - Behind < bufWords
        /\ WordOf(Behind) = lastIndex
        /\ written - next < bufWords => Behind = next
        /\ ReadEnd \in 0 .. bufWords /\ lastIndex <= ReadEnd
        /\ Behind + (ReadEnd - lastIndex) <= written
        /\ ReadEnd # bufWords => Behind + (ReadEnd - lastIndex) = written
        /\ lastIndex = 0 => ReadEnd # bufWords
    BY <1>3, ReadFinds
  <1>5. WrapIndex(ReadEnd) \in Words /\ WrapIndex(lastIndex) = lastIndex
    BY <1>1, <1>2, <1>4 DEF WrapIndex, Words
  <1>6. TypeOK'
    <2>1. samples' \in 0 .. bufWords /\ end' \in 0 .. bufWords
      BY <1>1, <1>2, <1>4
    <2>2. lastIndex' \in Words /\ next' \in Nat
      BY <1>4, <1>5
    <2>3. QED
      BY <2>1, <2>2 DEF TypeOK
  <1>7. RingInv'
    BY DEF RingInv
  <1>8. CursorInv'
    BY <1>1, <1>2, <1>3, <1>4, <1>5 DEF CursorInv, Remaining
  <1>9. FreshInv'
    BY <1>4 DEF FreshInv
  <1>10. SumInv'
    <2>1. ASSUME ~spoiled PROVE next' = next
      BY <1>4, <2>1 DEF SumInv, FreshInv
    <2>2. ~spoiled => /\ next' = since + accumPhase
                      /\ Len(accum) = accumPhase
                      /\ \A i \in 1 .. accumPhase : accum[i] = since + i - 1
                      /\ clipFlag = (\E i \in 1 .. accumPhase : since + i - 1 \in Clipped)
      BY <2>1 DEF SumInv
    <2>3. accumPhase < accumPeriod
      BY DEF SumInv
    <2>4. QED
      BY <2>2, <2>3 DEF SumInv
  <1>11. CaughtInv'
    BY <1>1, <1>2, <1>3, <1>4 DEF CaughtInv, Remaining, Reading
  <1>12. QED
    BY <1>6, <1>7, <1>8, <1>9, <1>10, <1>11

\* The sample that is due is summed at its place in the table.
LEMMA ProcessKeeps == IInv /\ Process => IInv'
  <1> SUFFICES ASSUME IInv, Process PROVE IInv'
    OBVIOUS
  <1> USE DEF IInv, Process, ring
  <1>1. /\ bufWords \in Nat \ {0} /\ written \in Nat /\ next \in Nat /\ entered \in Nat
        /\ samples \in Nat /\ end \in Nat /\ samples < end /\ end <= bufWords
        /\ accumPhase \in Nat /\ accumPeriod \in Nat /\ since \in Nat
    BY AdcAssumption DEF TypeOK
  <1>2. samples \in Words /\ WrapIndex(samples) = samples
    BY <1>1 DEF Words, WrapIndex
  <1>3. Reading /\ Reading'
    BY DEF Reading
  <1>4. /\ next + (end - samples) <= written /\ WordOf(next) = samples
        /\ lastIndex = WrapIndex(end)
    BY <1>2, <1>3 DEF CursorInv, Remaining
  <1>5. adcBuffer[samples] \in Nat \cup {NoSample}
    BY <1>2 DEF TypeOK
  <1>6. TypeOK'
    <2>1. accum' \in Seq(Nat \cup {NoSample})
      BY <1>5 DEF TypeOK
    <2>2. clipFlag' \in BOOLEAN /\ pc' \in {"idle", "read", "process", "emitValue"}
      BY DEF TypeOK
    <2>3. accumPhase' \in Nat /\ samples' \in 0 .. bufWords /\ next' \in Nat
      BY <1>1
    <2>4. QED
      BY <2>1, <2>2, <2>3 DEF TypeOK
  <1>7. RingInv'
    BY DEF RingInv
  <1>8. CursorInv'
    <2>1. WordOf(next + 1) = WrapIndex(samples + 1)
      BY <1>1, <1>4, WordMoves
    <2>2. QED
      BY <1>1, <1>3, <1>4, <2>1 DEF CursorInv, Remaining
  <1>9. FreshInv'
    BY <1>1 DEF FreshInv
  <1>10. SumInv'
    <2>1. accumPhase < accumPeriod /\ accumPhase' = accumPhase + 1
      BY DEF SumInv
    <2>2. /\ pc' # "emitValue" => accumPhase' < accumPeriod'
          /\ pc' = "emitValue" => accumPhase' = accumPeriod'
      BY <1>1, <2>1
    <2>3. ASSUME ~spoiled'
          PROVE  /\ ~torn' /\ next' = since' + accumPhase' /\ Len(accum') = accumPhase'
                 /\ \A i \in 1 .. accumPhase' : accum'[i] = since' + i - 1
                 /\ clipFlag' = (\E i \in 1 .. accumPhase' : since' + i - 1 \in Clipped)
      <3>1. /\ ~torn /\ next = since + accumPhase /\ Len(accum) = accumPhase
            /\ \A i \in 1 .. accumPhase : accum[i] = since + i - 1
            /\ clipFlag = (\E i \in 1 .. accumPhase : since + i - 1 \in Clipped)
        BY <2>3 DEF SumInv
      <3>2. adcBuffer[samples] = next
        BY <1>1, <1>4, <3>1 DEF RingInv, FreshInv
      <3>3. accum' = Append(accum, next) /\ accum \in Seq(Nat \cup {NoSample})
        BY <3>2 DEF TypeOK
      <3>4. Len(accum') = accumPhase'
        BY <2>1, <3>1, <3>3
      <3>5. ASSUME NEW i \in 1 .. accumPhase' PROVE accum'[i] = since' + i - 1
        <4>1. CASE i = accumPhase + 1
          BY <1>1, <3>1, <3>3, <4>1
        <4>2. CASE i # accumPhase + 1
          BY <1>1, <2>1, <3>1, <3>3, <4>2
        <4>3. QED
          BY <4>1, <4>2
      <3>6. clipFlag' = (\E i \in 1 .. accumPhase' : since' + i - 1 \in Clipped)
        <4>1. 1 .. accumPhase' = 1 .. accumPhase \cup {accumPhase + 1}
          BY <1>1, <2>1
        <4>2. since + (accumPhase + 1) - 1 = next
          BY <1>1, <3>1
        <4>3. ASSUME NEW i \in 1 .. accumPhase', since + i - 1 \in Clipped
              PROVE  clipFlag'
          BY <3>1, <3>2, <4>1, <4>2, <4>3
        <4>4. ASSUME clipFlag'
              PROVE  \E i \in 1 .. accumPhase' : since + i - 1 \in Clipped
          <5>1. CASE clipFlag
            BY <3>1, <4>1, <5>1
          <5>2. CASE next \in Clipped
            BY <4>1, <4>2, <5>2
          <5>3. QED
            BY <3>2, <4>4, <5>1, <5>2
        <4>5. clipFlag' \in BOOLEAN /\ since' = since
          OBVIOUS
        <4> DEFINE one == \E i \in 1 .. accumPhase' : since' + i - 1 \in Clipped
        <4>6. one <=> clipFlag'
          BY <4>3, <4>4, <4>5
        <4> HIDE DEF one
        <4>7. clipFlag' = one
          BY <4>5, <4>6
        <4>8. QED
          BY <4>7 DEF one
      <3>7. ~torn' /\ next' = since' + accumPhase'
        BY <1>1, <2>1, <3>1
      <3>8. \A i \in 1 .. accumPhase' : accum'[i] = since' + i - 1
        BY <3>5
      <3> HIDE DEF Process
      <3>9. QED
        BY <3>4, <3>6, <3>7, <3>8, Zenon
    <2>4. QED
      BY <2>2, <2>3 DEF SumInv
  <1>11. CaughtInv'
    BY <1>1, <1>3, <1>4 DEF CaughtInv, Remaining, Reading
  <1>12. QED
    BY <1>6, <1>7, <1>8, <1>9, <1>10, <1>11

\* The next sum begins with the sample that is due.
LEMMA EmitValueKeeps == IInv /\ EmitValue => IInv'
  <1> SUFFICES ASSUME IInv, EmitValue PROVE IInv'
    OBVIOUS
  <1> USE DEF IInv, EmitValue, ring, slice
  <1>1. next \in Nat /\ accumPeriod' \in Nat \ {0}
    BY AdcAssumption DEF TypeOK
  <1>2. TypeOK'
    <2>1. accum' \in Seq(Nat \cup {NoSample})
      OBVIOUS
    <2>2. QED
      BY <1>1, <2>1 DEF TypeOK
  <1>3. RingInv' /\ FreshInv'
    BY DEF RingInv, FreshInv
  <1>4. CursorInv'
    BY DEF CursorInv, Remaining, Reading
  <1>5. SumInv'
    <2>1. Len(accum') = 0 /\ accumPhase' = 0 /\ 0 < accumPeriod' /\ pc' # "emitValue"
      BY <1>1
    <2>2. ~spoiled' => ~torn' /\ next' = since' + 0
      BY <1>1
    <2>3. ~ \E i \in 1 .. 0 : since' + i - 1 \in Clipped
      OBVIOUS
    <2>4. clipFlag' = \E i \in 1 .. 0 : since' + i - 1 \in Clipped
      BY <2>3
    <2>5. QED
      BY <2>1, <2>2, <2>4 DEF SumInv
  <1>6. CaughtInv'
    BY DEF CaughtInv, Remaining, Reading
  <1>7. QED
    BY <1>2, <1>3, <1>4, <1>5, <1>6

\* The rest of the ring is read next, or the interrupt returns.
LEMMA EndOfSliceKeeps == IInv /\ EndOfSlice => IInv'
  <1> SUFFICES ASSUME IInv, EndOfSlice PROVE IInv'
    OBVIOUS
  <1> USE DEF IInv, EndOfSlice, ring, slice, processor, ghosts
  <1>1. /\ bufWords \in Nat \ {0} /\ next \in Nat /\ entered \in Nat
        /\ written \in Nat /\ end \in Nat /\ round \in 1 .. 2
    BY AdcAssumption DEF TypeOK, Reads
  <1>2. /\ samples = end /\ next + 0 <= written
        /\ WordOf(next) = WrapIndex(samples) /\ lastIndex = WrapIndex(end)
        /\ next >= entered \/ (round = 1 /\ end = bufWords)
    BY <1>1 DEF CursorInv, CaughtInv, Remaining, Reading
  <1>3. end = bufWords => lastIndex = 0
    BY <1>1, <1>2 DEF WrapIndex
  <1>4. ~Reading' /\ pc' \in {"read", "idle"} /\ round' \in 1 .. 2
    BY <1>1 DEF Reading, Reads
  <1>5. TypeOK'
    BY <1>4 DEF TypeOK, Reads
  <1>6. RingInv' /\ FreshInv'
    BY DEF RingInv, FreshInv
  <1>7. CursorInv'
    BY <1>1, <1>2, <1>4 DEF CursorInv, Remaining
  <1>8. SumInv'
    BY <1>4 DEF SumInv
  <1>9. CaughtInv'
    BY <1>1, <1>2, <1>3, <1>4 DEF CaughtInv
  <1>10. QED
    BY <1>5, <1>6, <1>7, <1>8, <1>9

\* The main thread changes the mode, reads or sets a table between interrupts.
LEMMA MainThreadKeeps == IInv /\ MainThread => IInv'
  <1> SUFFICES ASSUME IInv, MainThread PROVE IInv'
    OBVIOUS
  <1> USE DEF IInv, ring, slice, processor, ghosts
  <1>1. bufWords \in Nat \ {0} /\ Periods \subseteq Nat \ {0}
    BY AdcAssumption
  <1>2. CASE SetRaw
    <2>1. TypeOK' /\ RingInv' /\ FreshInv'
      BY <1>2 DEF SetRaw, TypeOK, RingInv, FreshInv
    <2>2. CursorInv' /\ SumInv' /\ CaughtInv'
      BY <1>2 DEF SetRaw, CursorInv, SumInv, CaughtInv, Remaining, Reading
    <2>3. QED
      BY <2>1, <2>2
  <1>3. CASE TransmitRaw
    <2> USE <1>3 DEF TransmitRaw
    <2>1. ~Reading /\ ~Reading'
      BY DEF Reading
    <2>2. /\ Behind \in Nat /\ next <= Behind /\ written - Behind < bufWords
          /\ ReadEnd \in 0 .. bufWords /\ lastIndex <= ReadEnd
          /\ Behind + (ReadEnd - lastIndex) <= written
          /\ WordOf(Behind + (ReadEnd - lastIndex)) = WrapIndex(ReadEnd)
      BY <2>1, ReadFinds
    <2>3. written \in Nat /\ lastIndex \in Nat /\ WrapIndex(ReadEnd) \in Words
      BY <1>1, <2>2 DEF TypeOK, Words, WrapIndex
    <2>4. /\ next' \in Nat /\ next' <= written /\ written - next' < bufWords
          /\ WordOf(next') = lastIndex'
      BY <1>1, <2>2, <2>3
    <2>5. TypeOK'
      BY <2>3, <2>4 DEF TypeOK
    <2>6. RingInv' /\ FreshInv'
      BY <2>4 DEF RingInv, FreshInv
    <2>7. CursorInv'
      BY <2>1, <2>3, <2>4 DEF CursorInv, Remaining
    <2>8. SumInv' /\ CaughtInv'
      BY <2>1 DEF SumInv, CaughtInv, Reading
    <2>9. QED
      BY <2>5, <2>6, <2>7, <2>8
  <1>4. CASE SetCorrelationTable
    <2> USE <1>4 DEF SetCorrelationTable
    <2>1. accumPeriod' \in Nat \ {0}
      BY <1>1
    <2>2. TypeOK' /\ RingInv' /\ FreshInv'
      BY <2>1 DEF TypeOK, RingInv, FreshInv
    <2>3. CursorInv' /\ CaughtInv'
      BY DEF CursorInv, CaughtInv, Remaining, Reading
    <2>4. SumInv'
      BY <2>1 DEF SumInv
    <2>5. QED
      BY <2>2, <2>3, <2>4
  <1>5. QED
    BY <1>2, <1>3, <1>4 DEF MainThread

LEMMA StutterKeeps == IInv /\ UNCHANGED vars => IInv'
  <1> SUFFICES ASSUME IInv, UNCHANGED vars PROVE IInv'
    OBVIOUS
  <1> USE DEF IInv, vars, ring, slice, processor, ghosts
  <1>1. TypeOK' /\ RingInv' /\ FreshInv'
    BY DEF TypeOK, RingInv, FreshInv
  <1>2. CursorInv' /\ SumInv' /\ CaughtInv'
    BY DEF CursorInv, SumInv, CaughtInv, Remaining, Reading
  <1>3. QED
    BY <1>1, <1>2

(***************************************************************************)
(* The ring, the cursor, the sum and the place where the interrupt began   *)
(* are related as IInv says, in every state.                               *)
(***************************************************************************)
THEOREM Invariance == Spec => []IInv
  <1>1. IInv /\ [Next]_vars => IInv'
    BY ConvertKeeps, AdcProcessKeeps, ReadKeeps, ProcessKeeps, EmitValueKeeps,
       EndOfSliceKeeps, MainThreadKeeps, StutterKeeps DEF Next, Interrupt
  <1>2. QED
    BY InitHolds, <1>1, PTL DEF Spec

(***************************************************************************)
(* Whatever is emitted during which the ring was not lapped is the sum of  *)
(* exactly the samples of one period that follow those of the value        *)
(* before, for every size of the ring and length of the tables.            *)
(***************************************************************************)
THEOREM WholeValues == Spec => []ValuesWhole
  <1>1. IInv => ValuesWhole
    <2> SUFFICES ASSUME IInv, pc = "emitValue", ~spoiled
                 PROVE  /\ accum = [i \in 1..accumPeriod |-> since + i - 1]
                        /\ clipFlag = \E i \in 1..accumPeriod : since + i - 1 \in Clipped
      BY DEF ValuesWhole
    <2>1. /\ accumPhase = accumPeriod /\ Len(accum) = accumPeriod
          /\ \A i \in 1 .. accumPeriod : accum[i] = since + i - 1
          /\ clipFlag = (\E i \in 1 .. accumPeriod : since + i - 1 \in Clipped)
      BY DEF IInv, SumInv
    <2>2. accum \in [1 .. accumPeriod -> Nat \cup {NoSample}]
      BY <2>1 DEF IInv, TypeOK
    <2>3. accum = [i \in 1 .. accumPeriod |-> accum[i]]
      BY <2>2
    <2>4. QED
      BY <2>1, <2>3
  <1>2. QED
    BY Invariance, <1>1, PTL

(***************************************************************************)
(* An interrupt reads everything that was converted when it came, for      *)
(* every size of the ring.                                                 *)
(***************************************************************************)
THEOREM LeavesNothing == Spec => CaughtUp
  <1>1. IInv /\ [Next]_vars => [pc # "idle" /\ pc' = "idle" => next >= entered]_vars
    <2> SUFFICES ASSUME IInv, Next, pc # "idle", pc' = "idle"
                 PROVE  next >= entered
      OBVIOUS
    <2>1. EndOfSlice
      BY DEF Next, Interrupt, MainThread, Convert, AdcProcess, Read, Process,
             EmitValue, SetRaw, TransmitRaw, SetCorrelationTable
    <2>2. /\ next \in Nat /\ entered \in Nat /\ end \in Nat /\ round \in 1 .. 2
          /\ samples = end /\ pc = "process" /\ ~(round < 2)
      BY <2>1 DEF IInv, TypeOK, EndOfSlice, Reads
    <2>3. QED
      BY <2>2 DEF IInv, CaughtInv, Remaining, Reading
  <1>2. QED
    BY Invariance, <1>1, PTL DEF Spec, CaughtUp
===============================================================================
