--------------------------- MODULE EventQueueProofs ---------------------------
(***************************************************************************)
(* Proofs about EventQueue for any number of writers, any size, any        *)
(* scheduling and any number of calls.                                     *)
(***************************************************************************)
EXTENDS EventQueue, TLAPS

-------------------------------------------------------------------------------
(* Division with remainder, for the positions in a ring.                   *)

\* A remainder lies below its divisor.
LEMMA ModRange ==
    ASSUME NEW m \in Nat \ {0}, NEW n \in Nat
    PROVE  n % m \in 0 .. m - 1
  OBVIOUS

\* Division with remainder.
LEMMA DivMod ==
    ASSUME NEW m \in Nat \ {0}, NEW n \in Nat
    PROVE  /\ n = m * (n \div m) + (n % m)
           /\ n \div m \in Nat
  OBVIOUS

\* A positive multiple of m is at least m.
LEMMA MultipleAtLeast ==
    ASSUME NEW m \in Nat \ {0}, NEW x \in Int, x >= 1
    PROVE  m * x >= m
  OBVIOUS

\* Quotient and remainder are unique.
LEMMA DivisionUnique ==
    ASSUME NEW m \in Nat \ {0}, NEW p \in Int, NEW q \in Int,
           NEW r \in 0 .. m - 1, NEW s \in 0 .. m - 1,
           m * p + r = m * q + s
    PROVE  p = q /\ r = s
  <1>1. m * (p - q) = s - r /\ m * (q - p) = r - s
    OBVIOUS
  <1>2. ~(p - q >= 1)
    BY <1>1, MultipleAtLeast, p - q \in Int
  <1>3. ~(q - p >= 1)
    BY <1>1, MultipleAtLeast, q - p \in Int
  <1>4. QED
    BY <1>2, <1>3

\* What the remainder is, from any decomposition.
LEMMA ModIs ==
    ASSUME NEW m \in Nat \ {0}, NEW n \in Nat, NEW q \in Int,
           NEW r \in 0 .. m - 1, n = m * q + r
    PROVE  n % m = r
  BY DivMod, ModRange, DivisionUnique

\* Two numbers less than m apart with the same remainder are equal.
LEMMA ModInjective ==
    ASSUME NEW m \in Nat \ {0}, NEW a \in Nat, NEW b \in Nat,
           a <= b, b - a < m, a % m = b % m
    PROVE  a = b
  <1>1. /\ a = m * (a \div m) + (a % m) /\ a \div m \in Nat
        /\ b = m * (b \div m) + (b % m) /\ b \div m \in Nat
    BY DivMod
  <1>2. PICK p \in Nat, q \in Nat, r \in 0 .. m - 1 :
            a = m * p + r /\ b = m * q + r
    BY <1>1, ModRange
  <1>3. m * (q - p) = b - a
    BY <1>2
  <1>4. ~(q - p >= 1)
    BY <1>3, MultipleAtLeast, q - p \in Int
  <1>5. ~(p - q >= 1)
    <2>1. m * (p - q) = a - b
      BY <1>2
    <2>2. QED
      BY <2>1, MultipleAtLeast, p - q \in Int
  <1>6. QED
    BY <1>2, <1>4, <1>5

\* The remainder of a successor, computed from the remainder.
LEMMA ModSucc ==
    ASSUME NEW m \in Nat \ {0}, NEW n \in Nat
    PROVE  ((n % m) + 1) % m = (n + 1) % m
  <1>1. PICK q \in Nat, r \in 0 .. m - 1 : n = m * q + r /\ n % m = r
    BY DivMod, ModRange
  <1>2. CASE r + 1 < m
    <2>1. (r + 1) % m = r + 1
      BY <1>2, ModIs, r + 1 \in 0 .. m - 1, r + 1 = m * 0 + (r + 1)
    <2>2. (n + 1) % m = r + 1
      BY <1>1, <1>2, ModIs, r + 1 \in 0 .. m - 1, n + 1 = m * q + (r + 1)
    <2>3. QED
      BY <1>1, <2>1, <2>2
  <1>3. CASE r + 1 = m
    <2>1. (r + 1) % m = 0
      BY <1>3, ModIs, 0 \in 0 .. m - 1, r + 1 = m * 1 + 0
    <2>2. n + 1 = m * (q + 1) + 0
      BY <1>1, <1>3
    <2>3. (n + 1) % m = 0
      <3> DEFINE k == n + 1  p == q + 1
      <3>1. k \in Nat /\ p \in Int /\ 0 \in 0 .. m - 1 /\ k = m * p + 0
        BY <2>2
      <3> HIDE DEF k, p
      <3>2. k % m = 0
        BY <3>1, ModIs
      <3>3. QED
        BY <3>2 DEF k
    <2>4. QED
      BY <1>1, <2>1, <2>3
  <1>4. QED
    BY <1>2, <1>3

-------------------------------------------------------------------------------
(* Positions modulo the size of the ring.                                  *)

\* A position taken modulo PosRange first still names the same slot.
LEMMA SlotOfPosition ==
    ASSUME NEW n \in Nat
    PROVE  /\ PosRange \in Nat \ {0}
           /\ Slot(n % PosRange) = Slot(n)
           /\ Slot((n % PosRange) + 1) = Slot(n + 1)
           /\ Slot(n) \in Slots
  <1>1. Size \in Nat \ {0} /\ Wraps \in Nat \ {0}
    BY QueueAssumption
  <1>2. PosRange \in Nat \ {0}
    BY <1>1 DEF PosRange
  <1>3. ASSUME NEW k \in Nat
        PROVE  Slot(k % PosRange) = Slot(k)
    <2>1. PICK q \in Nat, r \in Nat : k = PosRange * q + r /\ k % PosRange = r
      <3>1. k = PosRange * (k \div PosRange) + (k % PosRange)
        BY <1>2, DivMod
      <3>2. k \div PosRange \in Nat /\ k % PosRange \in Nat
        BY <1>2, DivMod, ModRange
      <3>3. QED
        BY <3>1, <3>2
    <2>2. PICK p \in Nat, s \in 0 .. Size - 1 : r = Size * p + s /\ r % Size = s
      BY <1>1, DivMod, ModRange
    <2>3. k = Size * (Wraps * q + p) + s
      <3>1. k = (Size * Wraps) * q + (Size * p + s)
        BY <2>1, <2>2 DEF PosRange
      <3>2. (Size * Wraps) * q = Size * (Wraps * q)
        BY <1>1
      <3>3. Wraps * q \in Nat
        BY <1>1
      <3>4. Size * (Wraps * q + p) = Size * (Wraps * q) + Size * p
        BY <1>1, <3>3
      <3>5. QED
        BY <3>1, <3>2, <3>4, <1>1, <3>3
    <2>4. Wraps * q + p \in Int
      BY <1>1
    <2>5. k % Size = s
      BY <1>1, <2>3, <2>4, ModIs
    <2>6. QED
      BY <2>1, <2>2, <2>5 DEF Slot
  <1>4. Slot((n % PosRange) + 1) = Slot(n + 1)
    <2>1. Slot(((n % PosRange) + 1) % PosRange) = Slot((n % PosRange) + 1)
      BY <1>2, <1>3, ModRange
    <2>2. ((n % PosRange) + 1) % PosRange = (n + 1) % PosRange
      BY <1>2, ModSucc
    <2>3. QED
      BY <1>3, <2>1, <2>2
  <1>5. Slot(n) \in Slots
    BY <1>1, ModRange DEF Slot, Slots
  <1>6. QED
    BY <1>2, <1>3, <1>4, <1>5

\* Two claims less than Size apart that share a slot are the same claim.
LEMMA SlotInjective ==
    ASSUME NEW a \in Nat, NEW b \in Nat,
           Slot(a) = Slot(b), a - b < Size, b - a < Size
    PROVE  a = b
  <1>1. Size \in Nat \ {0} /\ a % Size = b % Size
    BY QueueAssumption DEF Slot
  <1>2. CASE a <= b
    BY <1>1, <1>2, ModInjective
  <1>3. CASE b <= a
    <2>1. b = a
      BY <1>1, <1>3, ModInjective
    <2>2. QED
      BY <2>1
  <1>4. QED
    BY <1>2, <1>3

\* A full turn of the ring leads back to the same slot.
LEMMA SlotOfTurn ==
    ASSUME NEW n \in Nat
    PROVE  Slot(n + Size) = Slot(n)
  <1>1. Size \in Nat \ {0}
    BY QueueAssumption
  <1>2. PICK q \in Nat, r \in 0 .. Size - 1 : n = Size * q + r /\ n % Size = r
    BY <1>1, DivMod, ModRange
  <1>3. n + Size = Size * (q + 1) + r
    BY <1>1, <1>2
  <1>4. QED
    <2> DEFINE k == n + Size  p == q + 1
    <2>1. k \in Nat /\ p \in Int /\ k = Size * p + r
      BY <1>1, <1>3
    <2> HIDE DEF k, p
    <2>2. k % Size = r
      BY <1>1, <2>1, ModIs
    <2>3. QED
      BY <1>2, <2>2 DEF k, Slot

-------------------------------------------------------------------------------
(* Types.                                                                  *)

LEMMA TypeInit == Init => TypeOK
  <1> SUFFICES ASSUME Init PROVE TypeOK
    OBVIOUS
  <1>1. PosRange \in Nat \ {0} /\ 0 \in Slots
    BY QueueAssumption, SlotOfPosition DEF Slots
  <1>2. elements \in [Slots -> Values \cup {NoValue}]
        /\ elementStatus \in [Slots -> {0, 1}]
    BY DEF Init
  <1>3. rpos \in Slots /\ wpos2 \in 0 .. PosRange - 1
    BY <1>1 DEF Init
  <1>4. /\ wpc \in [Writers -> WriterSteps]
        /\ myWPos2 \in [Writers -> 0 .. PosRange - 1]
        /\ call \in [Writers -> Calls]
        /\ snap \in [Writers -> Nat]
        /\ sawFull \in [Writers -> BOOLEAN]
    BY <1>1, QueueAssumption DEF Init, WriterSteps, Calls
  <1>5. /\ rpc \in ReaderSteps /\ callback \in Values \cup {NoValue}
        /\ priority \in [Actors -> Nat]
        /\ claims \in Seq(Values)
        /\ delivered \in Seq(Values \cup {NoValue})
    BY QueueAssumption DEF Init, ReaderSteps
  <1>6. QED
    BY <1>2, <1>3, <1>4, <1>5 DEF TypeOK

LEMMA TypeStep == TypeOK /\ [Next]_vars => TypeOK'
  <1> SUFFICES ASSUME TypeOK, [Next]_vars PROVE TypeOK'
    OBVIOUS
  <1>1. /\ Size \in Nat \ {0} /\ PosRange \in Nat \ {0}
        /\ \A n \in Nat : Slot(n) \in Slots
        /\ Slots \subseteq Nat
    BY QueueAssumption, SlotOfPosition DEF Slots
  <1>2. ASSUME NEW w \in Writers, Writer(w) PROVE TypeOK'
    <2>1. Value(w) \in Values
      BY DEF TypeOK, Value, Values
    <2>2. myWPos2[w] \in Nat /\ Slot(myWPos2[w]) \in Slots
      BY <1>1 DEF TypeOK
    <2>3. CASE StartEnqueue(w)
      <3>1. call[w] + 1 \in Calls
        <4>1. MaxCalls \in Nat /\ CallsOf[w] \in 0 .. MaxCalls
          BY QueueAssumption
        <4>2. call[w] \in 0 .. MaxCalls /\ call[w] < CallsOf[w]
          BY <2>3 DEF StartEnqueue, TypeOK, Calls
        <4>3. QED
          BY <4>1, <4>2 DEF Calls
      <3>2. QED
        BY <2>3, <3>1 DEF StartEnqueue, TypeOK, ring, reading, WriterSteps
    <2>4. CASE SnapshotWPos(w)
      BY <2>4 DEF SnapshotWPos, TypeOK, ring, reading, WriterSteps
    <2>5. CASE RefuseFull(w) \/ FindRoom(w) \/ RetryClaim(w)
      BY <2>5 DEF RefuseFull, FindRoom, RetryClaim, TypeOK, ring, reading,
                  history, WriterSteps
    <2>6. CASE ClaimSlot(w)
      <3>1. (myWPos2[w] + 1) % PosRange \in 0 .. PosRange - 1
        <4> DEFINE k == myWPos2[w] + 1
        <4>1. k \in Nat
          BY <2>2
        <4> HIDE DEF k
        <4>2. k % PosRange \in 0 .. PosRange - 1
          BY <1>1, <4>1, ModRange
        <4>3. QED
          BY <4>2 DEF k
      <3>2. claims' \in Seq(Values)
        BY <2>1, <2>6 DEF ClaimSlot, TypeOK
      <3>3. snap' \in [Writers -> Nat] /\ sawFull' \in [Writers -> BOOLEAN]
        BY <2>6 DEF ClaimSlot, TypeOK
      <3>4. QED
        BY <2>6, <3>1, <3>2, <3>3 DEF ClaimSlot, TypeOK, reading, WriterSteps
    <2>7. CASE WriteElement(w)
      BY <2>1, <2>2, <2>7 DEF WriteElement, TypeOK, reading, history, WriterSteps
    <2>8. CASE EndEnqueue(w)
      BY <2>2, <2>8 DEF EndEnqueue, SetStatus, TypeOK, reading, history,
                        WriterSteps
    <2>9. QED
      BY <1>2, <2>3, <2>4, <2>5, <2>6, <2>7, <2>8 DEF Writer
  <1>3. CASE ReaderStep
    <2>1. CASE SeeReadable
      BY <2>1 DEF SeeReadable, TypeOK, ring, writing, history, ReaderSteps
    <2>2. CASE CopyHead
      BY <2>2 DEF CopyHead, TypeOK, ring, writing, history, ReaderSteps
    <2>3. CASE ClearStatus
      BY <2>3 DEF ClearStatus, TypeOK, writing, history, ReaderSteps
    <2>4. CASE AdvanceRPos
      <3>1. rpos' \in Slots
        BY <1>1, <2>4 DEF AdvanceRPos, NextRPos, TypeOK
      <3>2. delivered' \in Seq(Values \cup {NoValue})
        BY <2>4 DEF AdvanceRPos, TypeOK
      <3>3. QED
        BY <2>4, <3>1, <3>2 DEF AdvanceRPos, TypeOK, writing, ReaderSteps
    <2>5. QED
      BY <1>3, <2>1, <2>2, <2>3, <2>4 DEF ReaderStep
  <1>4. CASE UNCHANGED vars
    BY <1>4 DEF vars, ring, writing, reading, history, TypeOK
  <1>5. QED
    BY <1>2, <1>3, <1>4 DEF Next

\* Every variable of the queue keeps its type; in particular the indices stay
\* inside the ring (fifo.hpp:14, 22, 41, 71).
THEOREM TypeCorrect == Spec => []TypeOK
  BY TypeInit, TypeStep, PTL DEF Spec

-------------------------------------------------------------------------------
(* The inductive invariant.                                                *)

LEMMA InvInit == Init => IInv
  <1> SUFFICES ASSUME Init PROVE IInv
    OBVIOUS
  <1>1. TypeOK
    BY TypeInit
  <1>2. /\ Len(claims) = 0 /\ Len(delivered) = 0 /\ Held = 0 /\ InRing = {}
        /\ Size \in Nat /\ Size > 1 /\ PosRange \in Nat \ {0}
    BY QueueAssumption, SlotOfPosition DEF Init, Held, InRing
  <1>3. 0 % PosRange = 0 /\ Slot(0) = 0
    BY <1>2, ModIs DEF Slot
  <1>4. PositionsInv
    BY <1>2, <1>3 DEF Init, PositionsInv
  <1>5. \A w \in Writers : wpc[w] = "idle" /\ ~Owns(w) /\ ~Comparing(w)
    BY DEF Init, Owns, Comparing
  <1>6. ComparingInv /\ OwnerInv /\ DistinctInv /\ FullSeenInv /\ NestedInv
    BY <1>5 DEF ComparingInv, OwnerInv, DistinctInv, FullSeenInv, NestedInv
  <1>7. EntryInv /\ FreeInv
    BY <1>2 DEF Init, EntryInv, FreeInv
  <1>8. ReaderInv /\ DeliveredInOrder
    BY <1>2 DEF Init, ReaderInv, DeliveredInOrder
  <1>9. QED
    BY <1>1, <1>4, <1>6, <1>7, <1>8 DEF IInv

\* A step that touches neither the ring, the reader nor an owner keeps every
\* part of the invariant that speaks of these.
LEMMA QuietStep ==
    ASSUME IInv,
           UNCHANGED <<elements, elementStatus, rpos, wpos2, rpc, callback,
                       claims, delivered>>,
           \A v \in Writers : Owns(v)' <=> Owns(v),
           \A v \in Writers : Owns(v) =>
               wpc'[v] = wpc[v] /\ snap'[v] = snap[v]
               /\ myWPos2'[v] = myWPos2[v] /\ call'[v] = call[v]
    PROVE  /\ Held' = Held /\ PositionsInv' /\ OwnerInv' /\ DistinctInv'
           /\ EntryInv' /\ FreeInv' /\ ReaderInv' /\ DeliveredInOrder'
  <1>1. Held' = Held /\ InRing' = InRing
    BY DEF Held, InRing
  <1>2. \A n : Open(n)' <=> Open(n)
    BY DEF Open
  <1>3. PositionsInv'
    BY <1>1 DEF IInv, PositionsInv
  <1>4. OwnerInv'
    BY <1>1 DEF IInv, OwnerInv, Value
  <1>5. DistinctInv'
    BY DEF IInv, DistinctInv
  <1>6. EntryInv' /\ FreeInv'
    BY <1>1, <1>2 DEF IInv, EntryInv, FreeInv
  <1>7. ReaderInv' /\ DeliveredInOrder'
    BY <1>1, <1>2 DEF IInv, ReaderInv, DeliveredInOrder
  <1>8. QED
    BY <1>1, <1>3, <1>4, <1>5, <1>6, <1>7

\* The numbers the steps below calculate with.
LEMMA Numbers ==
    ASSUME TypeOK
    PROVE  /\ Size \in Nat \ {0} /\ Size > 1 /\ PosRange \in Nat \ {0}
           /\ Len(claims) \in Nat /\ Len(delivered) \in Nat
           /\ Held = Len(claims) - Len(delivered)
           /\ \A w \in Writers : snap[w] \in Nat /\ myWPos2[w] \in Nat
           /\ Slots = 0 .. Size - 1
  <1>1. PosRange \in Nat \ {0}
    BY SlotOfPosition, 0 \in Nat
  <1>2. /\ Size \in Nat \ {0} /\ Size > 1 /\ Slots = 0 .. Size - 1
        /\ Held = Len(claims) - Len(delivered)
    BY QueueAssumption DEF Held, Slots
  <1>3. Len(claims) \in Nat /\ Len(delivered) \in Nat
    BY DEF TypeOK
  <1>4. \A w \in Writers : snap[w] \in Nat /\ myWPos2[w] \in Nat
    BY <1>1 DEF TypeOK
  <1>5. QED
    BY <1>1, <1>2, <1>3, <1>4

\* The steps of a writer that own nothing before and after.
LEMMA QuietWriterStep ==
    ASSUME IInv, TypeOK', NEW w \in Writers,
           \/ StartEnqueue(w) \/ SnapshotWPos(w)
           \/ RefuseFull(w) \/ FindRoom(w) \/ RetryClaim(w)
    PROVE  IInv'
  <1>1. TypeOK
    BY DEF IInv
  <1>2. /\ UNCHANGED <<elements, elementStatus, rpos, wpos2, rpc, callback,
                       claims, delivered, priority>>
        /\ \A v \in Writers : v # w =>
              wpc'[v] = wpc[v] /\ snap'[v] = snap[v] /\ sawFull'[v] = sawFull[v]
              /\ myWPos2'[v] = myWPos2[v] /\ call'[v] = call[v]
        /\ wpc[w] \in {"idle", "snapshot", "check", "cas"}
        /\ wpc'[w] \in {"idle", "snapshot", "check", "cas"}
    BY <1>1 DEF StartEnqueue, SnapshotWPos, RefuseFull, FindRoom, RetryClaim,
                TypeOK, ring, reading, history
  <1>3. /\ \A v \in Writers : Owns(v)' <=> Owns(v)
        /\ \A v \in Writers : Owns(v) => v # w
    BY <1>2 DEF Owns
  <1>4. /\ Held' = Held /\ PositionsInv' /\ OwnerInv' /\ DistinctInv'
        /\ EntryInv' /\ FreeInv' /\ ReaderInv' /\ DeliveredInOrder'
    BY <1>2, <1>3, QuietStep
  <1>5. /\ Len(claims) \in Nat /\ Len(delivered) \in Nat
        /\ PosRange \in Nat \ {0} /\ Size \in Nat
        /\ Held = Len(claims) - Len(delivered)
        /\ \A v \in Writers : snap[v] \in Nat
    BY <1>1, Numbers
  <1>6. ASSUME NEW v \in Writers, Comparing(v)'
        PROVE  /\ snap'[v] <= Len(claims) /\ Len(claims) - snap'[v] < PosRange
               /\ myWPos2'[v] = snap'[v] % PosRange
               /\ wpc'[v] = "cas" /\ snap'[v] = Len(claims) => Held < Size - 1
               /\ Nested => Len(delivered) <= snap'[v]
    <2>1. CASE v # w
      <3>1. Comparing(v)
        BY <1>2, <1>6, <2>1 DEF Comparing
      <3>2. QED
        BY <1>2, <2>1, <3>1 DEF IInv, ComparingInv, NestedInv
    <2>2. CASE v = w /\ SnapshotWPos(w)
      <3>1. snap'[w] = Len(claims) /\ myWPos2'[w] = wpos2 /\ wpc'[w] = "check"
        BY <1>1, <2>2 DEF SnapshotWPos, TypeOK
      <3>2. wpos2 = Len(claims) % PosRange /\ 0 <= Held
        BY DEF IInv, PositionsInv
      <3>3. QED
        BY <1>5, <2>2, <3>1, <3>2
    <2>3. CASE v = w /\ FindRoom(w)
      <3>1. /\ wpc[w] = "check" /\ Comparing(w)
            /\ ~FullAt(myWPos2[w], rpos)
            /\ snap'[w] = snap[w] /\ myWPos2'[w] = myWPos2[w]
        BY <1>1, <2>3 DEF FindRoom, Comparing, history
      <3>2. /\ snap[w] <= Len(claims) /\ Len(claims) - snap[w] < PosRange
            /\ myWPos2[w] = snap[w] % PosRange
            /\ Nested => Len(delivered) <= snap[w]
        BY <3>1 DEF IInv, ComparingInv, NestedInv
      <3>3. ASSUME snap[w] = Len(claims) PROVE Held < Size - 1
        <4>1. 0 <= Held /\ Held <= Size - 1 /\ rpos = Slot(Len(delivered))
          BY DEF IInv, PositionsInv
        <4>2. Slot(Len(claims) + 1) # Slot(Len(delivered))
          BY <1>5, <3>1, <3>2, <3>3, <4>1, SlotOfPosition DEF FullAt
        <4>3. CASE Held = Size - 1
          <5>1. Len(claims) + 1 = Len(delivered) + Size
            BY <1>5, <4>3
          <5>2. Slot(Len(delivered) + Size) = Slot(Len(delivered))
            BY <1>5, SlotOfTurn
          <5>3. QED
            BY <4>2, <5>1, <5>2
        <4>4. QED
          BY <1>5, <4>1, <4>3
      <3>4. QED
        BY <2>3, <3>1, <3>2, <3>3
    <2>4. CASE v = w /\ (StartEnqueue(w) \/ RefuseFull(w) \/ RetryClaim(w))
      BY <1>1, <1>6, <2>4 DEF StartEnqueue, RefuseFull, RetryClaim, Comparing,
                              TypeOK
    <2>5. QED
      BY <2>1, <2>2, <2>3, <2>4
  <1>7. ComparingInv'
    BY <1>2, <1>4, <1>6 DEF ComparingInv
  <1>8. NestedInv'
    BY <1>2, <1>6 DEF NestedInv, Nested
  <1>9. FullSeenInv'
    <2>1. ASSUME NEW v \in Writers, wpc'[v] # "idle", Held = Size - 1
          PROVE  sawFull'[v]
      <3>1. CASE v # w
        BY <1>2, <2>1, <3>1 DEF IInv, FullSeenInv
      <3>2. CASE v = w /\ StartEnqueue(w)
        BY <1>1, <2>1, <3>2 DEF StartEnqueue, TypeOK
      <3>3. CASE v = w /\ ~StartEnqueue(w)
        BY <1>1, <2>1, <3>3 DEF SnapshotWPos, RefuseFull, FindRoom, RetryClaim,
                                TypeOK, history, IInv, FullSeenInv
      <3>4. QED
        BY <3>1, <3>2, <3>3
    <2>2. QED
      BY <1>4, <2>1 DEF FullSeenInv
  <1>10. QED
    BY <1>4, <1>7, <1>8, <1>9 DEF IInv

\* What a successful compare-and-swap does to the claims: the writer's snapshot
\* is current, there is room, and the new claim is open.
LEMMA ClaimEffect ==
    ASSUME IInv, NEW w \in Writers, ClaimSlot(w)
    PROVE  /\ Held < Size - 1 /\ Held' = Held + 1
           /\ delivered' = delivered /\ claims' = Append(claims, Value(w))
           /\ snap[w] = Len(claims) /\ snap'[w] = Len(claims)
           /\ \A n \in Nat : Open(n)' <=> Open(n) \/ n = Len(claims)
  <1> DEFINE T == Len(delivered)  C == Len(claims)
  <1>1. TypeOK
    BY DEF IInv
  <1>2. /\ PosRange \in Nat \ {0} /\ C \in Nat /\ T \in Nat /\ Held = C - T
        /\ \A v \in Writers : snap[v] \in Nat
    BY <1>1, Numbers
  <1>3. /\ delivered' = delivered /\ wpos2 = myWPos2[w]
        /\ wpc[w] = "cas" /\ wpc'[w] = "write" /\ snap'[w] = C
        /\ \A v \in Writers : v # w => wpc'[v] = wpc[v] /\ snap'[v] = snap[v]
        /\ claims' = Append(claims, Value(w))
    BY <1>1 DEF ClaimSlot, TypeOK, SamePosition
  <1>4. Held' = Held + 1
    <2>1. Value(w) \in Values /\ claims \in Seq(Values)
      BY <1>1 DEF TypeOK, Value, Values
    <2>2. QED
      BY <1>2, <1>3, <2>1 DEF Held
  <1>5. snap[w] = C /\ Held < Size - 1
    <2>1. /\ snap[w] <= C /\ C - snap[w] < PosRange
          /\ myWPos2[w] = snap[w] % PosRange
          /\ snap[w] = C => Held < Size - 1
      BY <1>3 DEF IInv, ComparingInv, Comparing
    <2>2. snap[w] % PosRange = C % PosRange
      BY <1>3, <2>1 DEF IInv, PositionsInv
    <2>3. snap[w] = C
      BY <1>2, <2>1, <2>2, ModInjective
    <2>4. QED
      BY <2>1, <2>3
  <1>6. \A v \in Writers : Owns(v)' <=> Owns(v) \/ v = w
    BY <1>3 DEF Owns
  <1>7. ~Owns(w)
    BY <1>3 DEF Owns
  <1>8. \A n \in Nat : Open(n)' <=> Open(n) \/ n = C
    BY <1>2, <1>3, <1>6, <1>7 DEF Open
  <1>9. QED
    BY <1>3, <1>4, <1>5, <1>8

\* A successful compare-and-swap.
LEMMA ClaimStep ==
    ASSUME IInv, TypeOK', NEW w \in Writers, ClaimSlot(w)
    PROVE  IInv'
  <1> DEFINE T == Len(delivered)  C == Len(claims)
  <1>1. TypeOK
    BY DEF IInv
  <1>2. /\ Size \in Nat /\ Size > 1 /\ PosRange \in Nat \ {0}
        /\ C \in Nat /\ T \in Nat /\ Held = C - T
        /\ \A v \in Writers : snap[v] \in Nat
    BY <1>1, Numbers
  <1>3. /\ UNCHANGED <<elements, elementStatus, rpos, rpc, callback, delivered,
                       priority, myWPos2, call>>
        /\ wpc[w] = "cas" /\ wpc'[w] = "write" /\ snap'[w] = C
        /\ \A v \in Writers : v # w => wpc'[v] = wpc[v] /\ snap'[v] = snap[v]
        /\ claims' = Append(claims, Value(w))
        /\ wpos2 = myWPos2[w] /\ wpos2' = (myWPos2[w] + 1) % PosRange
    BY <1>1 DEF ClaimSlot, TypeOK, reading, SamePosition
  <1>4. /\ Len(claims') = C + 1 /\ claims'[C + 1] = Value(w)
        /\ \A n \in 1 .. C : claims'[n] = claims[n]
        /\ Held' = Held + 1
    <2>1. Value(w) \in Values
      BY <1>1 DEF TypeOK, Value, Values
    <2>2. claims \in Seq(Values)
      BY <1>1 DEF TypeOK
    <2>3. QED
      BY <1>2, <1>3, <2>1, <2>2 DEF Held
  <1>5. /\ wpos2 = C % PosRange /\ 0 <= Held /\ Held <= Size - 1
        /\ rpos = Slot(T)
    BY DEF IInv, PositionsInv
  <1>6. snap[w] = C /\ Held < Size - 1
    BY ClaimEffect
  <1>7. /\ InRing = T .. C - 1 /\ InRing' = T .. C /\ InRing' = InRing \cup {C}
    BY <1>2, <1>3, <1>4, <1>5 DEF InRing
  <1>8. /\ \A v \in Writers : Owns(v)' <=> Owns(v) \/ v = w
        /\ ~Owns(w)
        /\ \A v \in Writers : Owns(v) => snap[v] \in InRing
    BY <1>3 DEF Owns, IInv, OwnerInv
  <1>9. \A n \in Nat : Open(n)' <=> Open(n) \/ n = C
    BY ClaimEffect
  <1>10. PositionsInv'
    <2>1. ((C % PosRange) + 1) % PosRange = (C + 1) % PosRange
      BY <1>2, ModSucc
    <2>2. wpos2' = (C + 1) % PosRange
      BY <1>3, <1>5, <2>1
    <2>3. QED
      BY <1>2, <1>3, <1>4, <1>5, <1>6, <2>2 DEF PositionsInv
  <1>11. ComparingInv'
    <2>1. ASSUME NEW v \in Writers, Comparing(v)'
          PROVE  /\ snap'[v] <= C + 1 /\ (C + 1) - snap'[v] < PosRange
                 /\ myWPos2'[v] = snap'[v] % PosRange
                 /\ snap'[v] # C + 1
      <3>1. v # w /\ Comparing(v) /\ snap'[v] = snap[v]
        BY <1>3, <2>1 DEF Comparing
      <3>2. snap[v] <= C /\ myWPos2[v] = snap[v] % PosRange
        BY <3>1 DEF IInv, ComparingInv
      <3>3. C + 1 - snap[v] < PosRange
        BY <3>1 DEF ClaimSlot, WithinOneTurn
      <3>4. QED
        BY <1>2, <1>3, <3>1, <3>2, <3>3
    <2>2. QED
      BY <1>4, <2>1 DEF ComparingInv
  <1>12. OwnerInv'
    <2>1. ASSUME NEW v \in Writers, Owns(v)'
          PROVE  /\ snap'[v] \in InRing'
                 /\ myWPos2'[v] = snap'[v] % PosRange
                 /\ claims'[snap'[v] + 1] = Value(v)'
                 /\ wpc'[v] = "commit" =>
                        elements'[Slot(snap'[v])] = Value(v)'
      <3>1. CASE v = w
        BY <1>3, <1>4, <1>5, <1>7, <3>1 DEF Value
      <3>2. CASE v # w
        <4>1. /\ Owns(v) /\ snap'[v] = snap[v] /\ wpc'[v] = wpc[v]
              /\ snap[v] \in InRing
          BY <1>3, <1>8, <2>1, <3>2
        <4>2. /\ myWPos2[v] = snap[v] % PosRange
              /\ claims[snap[v] + 1] = Value(v)
              /\ wpc[v] = "commit" => elements[Slot(snap[v])] = Value(v)
          BY <4>1 DEF IInv, OwnerInv
        <4>3. claims'[snap[v] + 1] = claims[snap[v] + 1]
          BY <1>2, <1>4, <1>7, <4>1
        <4>4. QED
          BY <1>3, <1>7, <4>1, <4>2, <4>3 DEF Value
      <3>3. QED
        BY <3>1, <3>2
    <2>2. QED
      BY <2>1 DEF OwnerInv
  <1>13. DistinctInv'
    <2>1. ASSUME NEW u \in Writers, NEW v \in Writers, Owns(u)', Owns(v)',
                 snap'[u] = snap'[v]
          PROVE  u = v
      <3>1. \A x \in Writers : x # w /\ Owns(x)' => snap'[x] # C
        BY <1>2, <1>3, <1>7, <1>8
      <3>2. CASE u # w /\ v # w
        BY <1>3, <1>8, <2>1, <3>2 DEF IInv, DistinctInv
      <3>3. QED
        BY <1>3, <2>1, <3>1, <3>2
    <2>2. QED
      BY <2>1 DEF DistinctInv
  <1>14. EntryInv'
    <2>1. elementStatus[Slot(C)] = 0
      <3>1. \A n \in InRing : Slot(n) # Slot(C)
        BY <1>2, <1>5, <1>6, <1>7, SlotInjective
      <3>2. Slot(C) \in Slots
        BY <1>2, SlotOfPosition
      <3>3. QED
        BY <3>1, <3>2 DEF IInv, FreeInv
    <2>2. ASSUME NEW n \in InRing'
          PROVE  IF Open(n)' \/ (n = T /\ rpc = "cleared")
                 THEN elementStatus[Slot(n)] = 0
                 ELSE /\ elementStatus[Slot(n)] = 1
                      /\ elements[Slot(n)] = claims'[n + 1]
      <3>1. CASE n = C
        BY <1>2, <1>9, <2>1, <3>1
      <3>2. CASE n \in InRing
        <4>1. claims'[n + 1] = claims[n + 1]
          BY <1>2, <1>4, <1>7, <3>2
        <4>2. n \in Nat /\ n # C
          BY <1>2, <1>7, <3>2
        <4>3. QED
          BY <1>9, <3>2, <4>1, <4>2 DEF IInv, EntryInv
      <3>3. QED
        BY <1>7, <3>1, <3>2
    <2>3. QED
      BY <1>3, <2>2 DEF EntryInv
  <1>15. FreeInv'
    BY <1>3, <1>7 DEF IInv, FreeInv
  <1>16. ReaderInv'
    <2>1. CASE rpc = "idle"
      BY <1>3, <2>1 DEF ReaderInv
    <2>2. CASE rpc # "idle"
      <3>1. Held > 0 /\ ~Open(T) /\ rpc # "aborted"
        BY <2>2 DEF IInv, ReaderInv
      <3>2. T \in InRing /\ claims'[T + 1] = claims[T + 1]
        BY <1>2, <1>4, <1>7, <3>1
      <3>3. ~Open(T)'
        <4>1. \A n \in Nat : n = T => ~Open(n)'
          BY <1>2, <1>9, <3>1
        <4>2. QED
          BY <1>2, <1>3, <4>1
      <3>4. QED
        BY <1>2, <1>3, <1>4, <3>1, <3>2, <3>3 DEF IInv, ReaderInv
    <2>3. QED
      BY <2>1, <2>2
  <1>17. DeliveredInOrder'
    <2>1. /\ T <= C /\ \A n \in 1 .. T : delivered[n] = claims[n]
      BY DEF IInv, DeliveredInOrder
    <2>2. QED
      BY <1>2, <1>3, <1>4, <2>1 DEF DeliveredInOrder
  <1>18. FullSeenInv'
    <2>1. ASSUME NEW v \in Writers, wpc'[v] # "idle", Held + 1 = Size - 1
          PROVE  sawFull'[v]
      <3>1. wpc[v] # "idle"
        BY <1>3, <2>1
      <3>2. QED
        BY <1>2, <2>1, <3>1 DEF ClaimSlot
    <2>2. QED
      BY <1>4, <2>1 DEF FullSeenInv
  <1>19. NestedInv'
    <2>1. ASSUME NEW v \in Writers, Comparing(v)', Nested PROVE T <= snap'[v]
      <3>1. v # w /\ Comparing(v) /\ snap'[v] = snap[v]
        BY <1>3, <2>1 DEF Comparing
      <3>2. QED
        BY <2>1, <3>1 DEF IInv, NestedInv
    <2>2. QED
      BY <1>3, <2>1 DEF NestedInv, Nested
  <1>20. QED
    BY <1>10, <1>11, <1>12, <1>13, <1>14, <1>15, <1>16, <1>17, <1>18, <1>19
       DEF IInv

\* The owner fills its slot; no other claim of the ring lives there.
LEMMA WriteStep ==
    ASSUME IInv, TypeOK', NEW w \in Writers, WriteElement(w)
    PROVE  IInv'
  <1> DEFINE T == Len(delivered)  C == Len(claims)
  <1>1. TypeOK
    BY DEF IInv
  <1>2. /\ Size \in Nat /\ Size > 1 /\ PosRange \in Nat \ {0}
        /\ C \in Nat /\ T \in Nat /\ Held = C - T
        /\ \A v \in Writers : snap[v] \in Nat
    BY <1>1, Numbers
  <1>3. /\ UNCHANGED <<elementStatus, rpos, wpos2, rpc, callback, claims,
                       delivered, priority, myWPos2, call, snap, sawFull>>
        /\ wpc[w] = "write" /\ wpc'[w] = "commit"
        /\ \A v \in Writers : v # w => wpc'[v] = wpc[v]
        /\ elements' = [elements EXCEPT ![Slot(myWPos2[w])] = Value(w)]
    BY <1>1 DEF WriteElement, TypeOK, reading, history
  <1>4. /\ Held' = Held /\ InRing' = InRing
        /\ \A v \in Writers : Owns(v)' <=> Owns(v)
        /\ \A v \in Writers : Comparing(v)' <=> Comparing(v)
        /\ \A v \in Writers : Value(v)' = Value(v)
        /\ Owns(w)
    BY <1>3 DEF Held, InRing, Owns, Comparing, Value
  <1>5. \A n \in Nat : Open(n)' <=> Open(n)
    BY <1>3, <1>4 DEF Open
  <1>6. /\ snap[w] \in InRing /\ myWPos2[w] = snap[w] % PosRange
        /\ Slot(myWPos2[w]) = Slot(snap[w]) /\ Slot(snap[w]) \in Slots
        /\ 0 <= Held /\ Held <= Size - 1
    BY <1>2, <1>4, SlotOfPosition DEF IInv, OwnerInv, PositionsInv
  <1>7. /\ elements'[Slot(snap[w])] = Value(w)
        /\ \A n \in InRing : n # snap[w] => elements'[Slot(n)] = elements[Slot(n)]
    <2>1. ASSUME NEW n \in InRing, Slot(n) = Slot(snap[w]) PROVE n = snap[w]
      <3>1. /\ n \in Nat /\ snap[w] \in Nat
            /\ n - snap[w] < Size /\ snap[w] - n < Size
        BY <1>2, <1>6 DEF InRing
      <3>2. QED
        BY <2>1, <3>1, SlotInjective
    <2>2. \A n \in InRing : Slot(n) \in Slots
      BY <1>2, SlotOfPosition DEF InRing
    <2>3. elements \in [Slots -> Values \cup {NoValue}]
      BY <1>1 DEF TypeOK
    <2>4. QED
      BY <1>3, <1>6, <2>1, <2>2, <2>3
  <1>8. PositionsInv' /\ FreeInv' /\ DeliveredInOrder'
    BY <1>3, <1>4 DEF IInv, PositionsInv, FreeInv, DeliveredInOrder
  <1>9. ComparingInv' /\ NestedInv' /\ DistinctInv'
    BY <1>3, <1>4 DEF IInv, ComparingInv, NestedInv, Nested, DistinctInv, Comparing
  <1>10. OwnerInv'
    <2>1. ASSUME NEW v \in Writers, Owns(v)', wpc'[v] = "commit"
          PROVE  elements'[Slot(snap[v])] = Value(v)
      <3>1. CASE v = w
        BY <1>7, <3>1
      <3>2. CASE v # w
        <4>1. /\ Owns(v) /\ snap[v] \in InRing /\ wpc[v] = "commit"
              /\ elements[Slot(snap[v])] = Value(v)
          BY <1>3, <1>4, <2>1, <3>2 DEF IInv, OwnerInv
        <4>2. snap[v] # snap[w]
          BY <1>4, <3>2, <4>1 DEF IInv, DistinctInv
        <4>3. QED
          BY <1>7, <4>1, <4>2
      <3>3. QED
        BY <3>1, <3>2
    <2>2. QED
      BY <1>3, <1>4, <2>1 DEF IInv, OwnerInv
  <1>11. EntryInv'
    <2>1. ASSUME NEW n \in InRing, ~Open(n)
          PROVE  elements'[Slot(n)] = elements[Slot(n)]
      <3>1. n # snap[w]
        BY <1>4, <2>1 DEF Open
      <3>2. QED
        BY <1>7, <3>1
    <2>2. InRing \subseteq Nat
      BY <1>2 DEF InRing
    <2>3. QED
      BY <1>3, <1>4, <1>5, <2>1, <2>2 DEF IInv, EntryInv
  <1>12. ReaderInv'
    BY <1>2, <1>3, <1>4, <1>5 DEF IInv, ReaderInv
  <1>13. FullSeenInv'
    BY <1>3, <1>4 DEF IInv, FullSeenInv
  <1>14. QED
    BY <1>8, <1>9, <1>10, <1>11, <1>12, <1>13 DEF IInv

\* The owner commits its slot and gives it up.
LEMMA CommitStep ==
    ASSUME IInv, TypeOK', NEW w \in Writers, EndEnqueue(w)
    PROVE  IInv'
  <1> DEFINE T == Len(delivered)  C == Len(claims)
  <1>1. TypeOK
    BY DEF IInv
  <1>2. /\ Size \in Nat /\ Size > 1 /\ PosRange \in Nat \ {0}
        /\ C \in Nat /\ T \in Nat /\ Held = C - T
        /\ \A v \in Writers : snap[v] \in Nat
    BY <1>1, Numbers
  <1>3. /\ UNCHANGED <<elements, rpos, wpos2, rpc, callback, claims, delivered,
                       priority, myWPos2, call, snap, sawFull>>
        /\ wpc[w] = "commit" /\ wpc'[w] = "idle"
        /\ \A v \in Writers : v # w => wpc'[v] = wpc[v]
        /\ elementStatus' = [elementStatus EXCEPT ![Slot(myWPos2[w])] = 1]
    BY <1>1 DEF EndEnqueue, SetStatus, TypeOK, reading, history
  <1>4. /\ Held' = Held /\ InRing' = InRing
        /\ \A v \in Writers : Owns(v)' <=> Owns(v) /\ v # w
        /\ \A v \in Writers : Comparing(v)' <=> Comparing(v)
        /\ \A v \in Writers : Value(v)' = Value(v)
        /\ Owns(w)
    BY <1>3 DEF Held, InRing, Owns, Comparing, Value
  <1>5. \A n \in Nat : Open(n)' <=> Open(n) /\ n # snap[w]
    BY <1>3, <1>4 DEF Open, IInv, DistinctInv
  <1>6. /\ snap[w] \in InRing /\ myWPos2[w] = snap[w] % PosRange
        /\ Slot(myWPos2[w]) = Slot(snap[w]) /\ Slot(snap[w]) \in Slots
        /\ 0 <= Held /\ Held <= Size - 1
        /\ claims[snap[w] + 1] = Value(w)
        /\ elements[Slot(snap[w])] = Value(w)
    BY <1>2, <1>3, <1>4, SlotOfPosition DEF IInv, OwnerInv, PositionsInv
  <1>7. /\ elementStatus'[Slot(snap[w])] = 1
        /\ \A s \in Slots : s # Slot(snap[w]) =>
                                 elementStatus'[s] = elementStatus[s]
        /\ \A n \in InRing : n # snap[w] =>
               Slot(n) \in Slots /\ Slot(n) # Slot(snap[w])
    <2>1. ASSUME NEW n \in InRing, Slot(n) = Slot(snap[w]) PROVE n = snap[w]
      <3>1. /\ n \in Nat /\ snap[w] \in Nat
            /\ n - snap[w] < Size /\ snap[w] - n < Size
        BY <1>2, <1>6 DEF InRing
      <3>2. QED
        BY <2>1, <3>1, SlotInjective
    <2>2. \A n \in InRing : Slot(n) \in Slots
      BY <1>2, SlotOfPosition DEF InRing
    <2>3. elementStatus \in [Slots -> {0, 1}]
      BY <1>1 DEF TypeOK
    <2>4. QED
      BY <1>3, <1>6, <2>1, <2>2, <2>3
  <1>8. PositionsInv' /\ DeliveredInOrder'
    BY <1>3, <1>4 DEF IInv, PositionsInv, DeliveredInOrder
  <1>9. ComparingInv' /\ NestedInv' /\ DistinctInv' /\ OwnerInv'
    <2>1. \A v \in Writers : Comparing(v) \/ Owns(v)' => v # w
      BY <1>3, <1>4 DEF Comparing
    <2>2. ComparingInv' /\ NestedInv'
      BY <1>3, <1>4, <2>1 DEF IInv, ComparingInv, NestedInv, Nested
    <2>3. DistinctInv' /\ OwnerInv'
      BY <1>3, <1>4, <2>1 DEF IInv, DistinctInv, OwnerInv
    <2>4. QED
      BY <2>2, <2>3
  <1>10. EntryInv'
    <2>1. ASSUME NEW n \in InRing
          PROVE  IF Open(n)' \/ (n = T /\ rpc = "cleared")
                 THEN elementStatus'[Slot(n)] = 0
                 ELSE /\ elementStatus'[Slot(n)] = 1
                      /\ elements[Slot(n)] = claims[n + 1]
      <3>1. n \in Nat
        BY <1>2, <2>1 DEF InRing
      <3>2. CASE n = snap[w]
        <4>1. Open(n)
          BY <1>4, <3>2 DEF Open
        <4>2. ~(n = T /\ rpc = "cleared")
          BY <4>1 DEF IInv, ReaderInv
        <4>3. QED
          BY <1>5, <1>6, <1>7, <3>1, <3>2, <4>2
      <3>3. CASE n # snap[w]
        BY <1>5, <1>7, <2>1, <3>1, <3>3 DEF IInv, EntryInv
      <3>4. QED
        BY <3>2, <3>3
    <2>2. QED
      BY <1>3, <1>4, <2>1 DEF EntryInv
  <1>11. FreeInv'
    BY <1>4, <1>6, <1>7 DEF IInv, FreeInv
  <1>12. ReaderInv'
    BY <1>2, <1>3, <1>4, <1>5 DEF IInv, ReaderInv
  <1>13. FullSeenInv'
    BY <1>3, <1>4 DEF IInv, FullSeenInv
  <1>14. QED
    BY <1>8, <1>9, <1>10, <1>11, <1>12, <1>13 DEF IInv

\* The reader's steps before it moves _rpos.
LEMMA QuietReaderStep ==
    ASSUME IInv, TypeOK', SeeReadable \/ CopyHead \/ ClearStatus
    PROVE  IInv'
  <1> DEFINE T == Len(delivered)  C == Len(claims)
  <1>1. TypeOK
    BY DEF IInv
  <1>2. /\ Size \in Nat /\ Size > 1 /\ PosRange \in Nat \ {0}
        /\ C \in Nat /\ T \in Nat /\ Held = C - T
        /\ \A v \in Writers : snap[v] \in Nat
    BY <1>1, Numbers
  <1>3. UNCHANGED <<elements, rpos, wpos2, writing, priority, history>>
    BY DEF SeeReadable, CopyHead, ClearStatus, ring
  <1>4. /\ Held' = Held /\ InRing' = InRing
        /\ \A v \in Writers : Owns(v)' <=> Owns(v)
        /\ \A v \in Writers : Comparing(v)' <=> Comparing(v)
        /\ \A v \in Writers : Value(v)' = Value(v)
        /\ \A n : Open(n)' <=> Open(n)
    BY <1>3 DEF Held, InRing, Owns, Comparing, Value, Open, writing, history
  <1>5. /\ PositionsInv' /\ DeliveredInOrder' /\ ComparingInv' /\ NestedInv'
        /\ DistinctInv' /\ OwnerInv' /\ FullSeenInv'
    BY <1>3, <1>4 DEF IInv, PositionsInv, DeliveredInOrder, ComparingInv,
       NestedInv, Nested, DistinctInv, OwnerInv, FullSeenInv, writing, history
  <1>6. /\ 0 <= Held /\ Held <= Size - 1 /\ rpos = Slot(T)
        /\ wpos2 = C % PosRange /\ Slot(wpos2) = Slot(C)
    BY <1>2, SlotOfPosition DEF IInv, PositionsInv
  <1>7. ASSUME Held > 0 PROVE Slot(wpos2) # rpos
    BY <1>2, <1>6, <1>7, SlotInjective
  <1>8. Slot(wpos2) # rpos => Held > 0 /\ T \in InRing
    BY <1>2, <1>6 DEF InRing
  <1>9. T \in InRing /\ elementStatus[rpos] = 1 /\ rpc # "cleared" => ~Open(T)
    BY <1>6 DEF IInv, EntryInv
  <1>10. CASE SeeReadable
    <2>1. /\ rpc = "idle" /\ rpc' = "readable"
          /\ elementStatus' = elementStatus /\ callback' = callback
          /\ Held > 0 /\ ~Open(T)
      BY <1>8, <1>9, <1>10 DEF SeeReadable, Readable, Committed, ring
    <2>2. EntryInv' /\ FreeInv'
      BY <1>3, <1>4, <2>1 DEF IInv, EntryInv, FreeInv, history
    <2>3. ReaderInv'
      BY <1>3, <1>4, <2>1 DEF ReaderInv, history
    <2>4. QED
      BY <1>5, <2>2, <2>3 DEF IInv
  <1>11. CASE CopyHead
    <2>1. /\ rpc = "readable" /\ rpc' = "copied"
          /\ elementStatus' = elementStatus /\ callback' = elements[rpos]
          /\ Held > 0 /\ ~Open(T)
      BY <1>11 DEF CopyHead, ring, IInv, ReaderInv
    <2>2. elements[rpos] = claims[T + 1]
      BY <1>2, <1>6, <2>1 DEF IInv, EntryInv, InRing
    <2>3. EntryInv' /\ FreeInv'
      BY <1>3, <1>4, <2>1 DEF IInv, EntryInv, FreeInv, history
    <2>4. ReaderInv'
      BY <1>3, <1>4, <2>1, <2>2 DEF ReaderInv, history
    <2>5. QED
      BY <1>5, <2>3, <2>4 DEF IInv
  <1>12. CASE ClearStatus
    <2>1. /\ rpc = "copied" /\ rpc' = "cleared" /\ callback' = callback
          /\ elementStatus' = [elementStatus EXCEPT ![rpos] = 0]
          /\ Held > 0 /\ ~Open(T) /\ callback = claims[T + 1]
      <3>1. /\ rpc = "copied" /\ callback' = callback
            /\ Held > 0 /\ ~Open(T) /\ callback = claims[T + 1]
        BY <1>12 DEF ClearStatus, IInv, ReaderInv
      <3>2. T \in InRing
        BY <1>2, <3>1 DEF InRing
      <3>3. elementStatus[rpos] = 1
        BY <1>6, <3>1, <3>2 DEF IInv, EntryInv
      <3>4. Readable
        BY <1>7, <3>1, <3>3 DEF Readable, Committed
      <3>5. QED
        BY <1>12, <3>1, <3>4 DEF ClearStatus
    <2>2. elementStatus \in [Slots -> {0, 1}] /\ rpos \in Slots
      BY <1>1 DEF TypeOK
    <2>3. T \in InRing
      BY <1>2, <2>1 DEF InRing
    <2>4. ASSUME NEW n \in InRing
          PROVE  IF Open(n) \/ n = T
                 THEN elementStatus'[Slot(n)] = 0
                 ELSE /\ elementStatus'[Slot(n)] = 1
                      /\ elements[Slot(n)] = claims[n + 1]
      <3>1. CASE n = T
        BY <1>6, <2>1, <2>2, <3>1
      <3>2. CASE n # T
        <4>1. n \in Nat /\ n - T < Size /\ T - n < Size
          BY <1>2, <1>6, <2>4 DEF InRing
        <4>2. Slot(n) \in Slots /\ Slot(n) # rpos
          BY <1>2, <1>6, <3>2, <4>1, SlotInjective, SlotOfPosition
        <4>3. elementStatus'[Slot(n)] = elementStatus[Slot(n)]
          BY <2>1, <2>2, <4>2
        <4>4. QED
          BY <2>1, <2>4, <3>2, <4>3 DEF IInv, EntryInv
      <3>3. QED
        BY <3>1, <3>2
    <2>5. EntryInv'
      BY <1>3, <1>4, <2>1, <2>4 DEF EntryInv, history
    <2>6. FreeInv'
      BY <1>4, <2>1, <2>2 DEF IInv, FreeInv
    <2>7. ReaderInv'
      BY <1>3, <1>4, <2>1 DEF ReaderInv, history
    <2>8. QED
      BY <1>5, <2>5, <2>6, <2>7 DEF IInv
  <1>13. QED
    BY <1>10, <1>11, <1>12

\* The reader gives the slot back.
LEMMA AdvanceStep ==
    ASSUME IInv, TypeOK', AdvanceRPos
    PROVE  IInv'
  <1> DEFINE T == Len(delivered)  C == Len(claims)
  <1>1. TypeOK
    BY DEF IInv
  <1>2. /\ Size \in Nat /\ Size > 1 /\ PosRange \in Nat \ {0}
        /\ C \in Nat /\ T \in Nat /\ Held = C - T
        /\ \A v \in Writers : snap[v] \in Nat
    BY <1>1, Numbers
  <1>3. /\ UNCHANGED <<elements, elementStatus, wpos2, wpc, myWPos2, call,
                       callback, priority, claims, snap, sawFull>>
        /\ rpc = "cleared" /\ rpc' = "idle"
        /\ rpos' = Slot(rpos + 1) /\ delivered' = Append(delivered, callback)
    BY DEF AdvanceRPos, writing, NextRPos
  <1>4. /\ Held > 0 /\ ~Open(T) /\ callback = claims[T + 1]
        /\ Held <= Size - 1 /\ rpos = Slot(T) /\ wpos2 = C % PosRange
    BY <1>3 DEF IInv, ReaderInv, PositionsInv
  <1>5. /\ Len(delivered') = T + 1 /\ delivered'[T + 1] = callback
        /\ \A n \in 1 .. T : delivered'[n] = delivered[n]
        /\ Held' = Held - 1
    <2>1. delivered \in Seq(Values \cup {NoValue})
          /\ callback \in Values \cup {NoValue}
      BY <1>1 DEF TypeOK
    <2>2. QED
      BY <1>2, <1>3, <2>1 DEF Held
  <1>6. /\ InRing = T .. C - 1 /\ InRing' = T + 1 .. C - 1
        /\ InRing = InRing' \cup {T} /\ T \notin InRing'
    BY <1>2, <1>3, <1>4, <1>5 DEF InRing
  <1>7. /\ \A v \in Writers : Owns(v)' <=> Owns(v)
        /\ \A v \in Writers : Comparing(v)' <=> Comparing(v)
        /\ \A v \in Writers : Value(v)' = Value(v)
        /\ \A n : Open(n)' <=> Open(n)
    BY <1>3 DEF Owns, Comparing, Value, Open
  <1>8. PositionsInv'
    <2>1. rpos' = Slot(T + 1)
      <3>1. Size \in Nat \ {0}
        BY <1>2
      <3>2. ((T % Size) + 1) % Size = (T + 1) % Size
        BY <1>2, <3>1, ModSucc
      <3>3. QED
        BY <1>3, <1>4, <3>2 DEF Slot
    <2>2. QED
      BY <1>2, <1>3, <1>4, <1>5, <2>1 DEF PositionsInv
  <1>9. ComparingInv'
    BY <1>2, <1>3, <1>5, <1>7 DEF IInv, ComparingInv
  <1>10. OwnerInv' /\ DistinctInv'
    <2>1. \A v \in Writers : Owns(v) => snap[v] # T
      BY <1>4 DEF Open
    <2>2. QED
      BY <1>3, <1>6, <1>7, <2>1 DEF IInv, OwnerInv, DistinctInv
  <1>11. EntryInv'
    BY <1>3, <1>6, <1>7 DEF IInv, EntryInv
  <1>12. FreeInv'
    <2>1. elementStatus[Slot(T)] = 0
      BY <1>3, <1>6 DEF IInv, EntryInv
    <2>2. QED
      BY <1>3, <1>6, <2>1 DEF IInv, FreeInv
  <1>13. ReaderInv'
    BY <1>3 DEF ReaderInv
  <1>14. DeliveredInOrder'
    BY <1>2, <1>3, <1>4, <1>5 DEF IInv, DeliveredInOrder
  <1>15. FullSeenInv'
    BY <1>2, <1>4, <1>5 DEF FullSeenInv
  <1>16. NestedInv'
    <2>1. ASSUME Nested, NEW v \in Writers PROVE ~Comparing(v)
      <3>1. priority[Reader] < priority[v]
        BY <2>1 DEF Nested
      <3>2. priority[Reader] \in Nat /\ priority[v] \in Nat
        BY <1>1 DEF TypeOK, Actors
      <3>3. wpc[v] = "idle"
        BY <3>1, <3>2 DEF AdvanceRPos, MayRun
      <3>4. QED
        BY <3>3 DEF Comparing
    <2>2. QED
      BY <1>3, <1>7, <2>1 DEF NestedInv, Nested
  <1>17. QED
    BY <1>8, <1>9, <1>10, <1>11, <1>12, <1>13, <1>14, <1>15, <1>16 DEF IInv

\* The invariant is inductive: one lemma per kind of step.
THEOREM Invariance == Spec => []IInv
  <1>1. IInv /\ [Next]_vars => IInv'
    <2> SUFFICES ASSUME IInv, [Next]_vars PROVE IInv'
      OBVIOUS
    <2>1. TypeOK'
      BY TypeStep DEF IInv
    <2>2. ASSUME NEW w \in Writers, Writer(w) PROVE IInv'
      BY <2>1, <2>2, QuietWriterStep, ClaimStep, WriteStep, CommitStep DEF Writer
    <2>3. CASE ReaderStep
      BY <2>1, <2>3, QuietReaderStep, AdvanceStep DEF ReaderStep
    <2>4. CASE UNCHANGED vars
      <3>1. UNCHANGED <<ring, wpc, myWPos2, call, rpc, callback, priority,
                        claims, delivered, snap, sawFull>>
        BY <2>4 DEF vars, writing, reading, history
      <3>2. /\ Held' = Held /\ PositionsInv' /\ OwnerInv' /\ DistinctInv'
            /\ EntryInv' /\ FreeInv' /\ ReaderInv' /\ DeliveredInOrder'
        <4>1. \A v \in Writers : Owns(v)' <=> Owns(v)
          BY <3>1 DEF Owns
        <4>2. QED
          BY <3>1, <4>1, QuietStep DEF ring
      <3>3. ComparingInv'
        BY <3>1, <3>2 DEF IInv, ComparingInv, Comparing
      <3>4. FullSeenInv'
        BY <3>1, <3>2 DEF IInv, FullSeenInv
      <3>5. NestedInv'
        BY <3>1 DEF IInv, NestedInv, Nested, Comparing
      <3>6. QED
        BY <2>1, <3>2, <3>3, <3>4, <3>5 DEF IInv
    <2>5. QED
      BY <2>2, <2>3, <2>4 DEF Next
  <1>2. QED
    BY <1>1, InvInit, PTL DEF Spec

\* The reader receives the enqueued values, each once, in the order of their
\* claims.
THEOREM InOrder == Spec => []DeliveredInOrder
  <1>1. IInv => DeliveredInOrder
    BY DEF IInv
  <1>2. QED
    BY <1>1, Invariance, PTL

\* The abort() in dequeue() is unreachable.
THEOREM NoAbort == Spec => []NeverAborts
  <1>1. IInv => NeverAborts
    BY DEF IInv, ReaderInv, NeverAborts
  <1>2. QED
    BY <1>1, Invariance, PTL

\* A slot has one user at a time.
THEOREM Exclusive == Spec => []SlotsExclusive
  <1>1. ASSUME IInv PROVE SlotsExclusive
    <2>1. TypeOK
      BY <1>1 DEF IInv
    <2>2. /\ Size \in Nat /\ Size > 1
          /\ Len(claims) \in Nat /\ Len(delivered) \in Nat
          /\ Held = Len(claims) - Len(delivered) /\ Held <= Size - 1
          /\ rpos = Slot(Len(delivered))
          /\ \A v \in Writers : snap[v] \in Nat
      BY <1>1, <2>1, Numbers DEF IInv, PositionsInv
    <2>3. ASSUME NEW w \in Writers, Owns(w)
          PROVE  snap[w] \in InRing /\ Slot(myWPos2[w]) = Slot(snap[w])
      BY <1>1, <2>2, <2>3, SlotOfPosition DEF IInv, OwnerInv
    <2>4. ASSUME NEW m \in InRing, NEW n \in InRing, Slot(m) = Slot(n)
          PROVE  m = n
      <3>1. m \in Nat /\ n \in Nat /\ m - n < Size /\ n - m < Size
        BY <2>2 DEF InRing
      <3>2. QED
        BY <2>4, <3>1, SlotInjective
    <2>5. ASSUME NEW w \in Writers, Owns(w)
          PROVE  /\ \A v \in Writers \ {w} :
                        Owns(v) => Slot(myWPos2[v]) # Slot(myWPos2[w])
                 /\ elementStatus[Slot(myWPos2[w])] = 0
                 /\ rpc # "idle" => rpos # Slot(myWPos2[w])
      <3>1. Open(snap[w])
        BY <2>5 DEF Open
      <3>2. \A v \in Writers \ {w} : Owns(v) => snap[v] # snap[w]
        BY <1>1, <2>5 DEF IInv, DistinctInv
      <3>3. elementStatus[Slot(snap[w])] = 0
        BY <1>1, <2>3, <2>5, <3>1 DEF IInv, EntryInv
      <3>4. ASSUME rpc # "idle" PROVE rpos # Slot(snap[w])
        <4>1. Held > 0 /\ ~Open(Len(delivered))
          BY <1>1, <3>4 DEF IInv, ReaderInv
        <4>2. Len(delivered) \in InRing /\ Len(delivered) # snap[w]
          BY <2>2, <3>1, <4>1 DEF InRing
        <4>3. QED
          BY <2>2, <2>3, <2>4, <2>5, <4>2
      <3>5. QED
        BY <2>3, <2>4, <2>5, <3>2, <3>3, <3>4
    <2>6. QED
      BY <2>5 DEF SlotsExclusive
  <1>2. QED
    BY <1>1, Invariance, PTL

\* Under nested interrupts a call is turned away only if it has seen the queue
\* full.
THEOREM RefusalsNested == Spec => NestedRefusalsJustified
  <1>1. ASSUME IInv, [Next]_vars, Nested, NEW w \in Writers,
               wpc[w] = "check", wpc'[w] = "idle"
        PROVE  sawFull[w]
    <2> DEFINE T == Len(delivered)  C == Len(claims)
    <2>1. TypeOK
      BY <1>1 DEF IInv
    <2>2. /\ Size \in Nat /\ Size > 1 /\ C \in Nat /\ T \in Nat /\ Held = C - T
          /\ snap[w] \in Nat
      BY <2>1, Numbers
    <2>3. FullAt(myWPos2[w], rpos)
      <3>1. wpc # wpc'
        BY <1>1
      <3>2. \E v \in Writers : Writer(v)
        BY <1>1, <3>1 DEF Next, ReaderStep, SeeReadable, CopyHead, ClearStatus,
                          AdvanceRPos, vars, writing
      <3>3. PICK v \in Writers : Writer(v)
        BY <3>2
      <3>4. v = w
        BY <1>1, <2>1, <3>3 DEF Writer, StartEnqueue, SnapshotWPos, RefuseFull,
           FindRoom, ClaimSlot, RetryClaim, WriteElement, EndEnqueue, TypeOK
      <3>5. QED
        BY <1>1, <2>1, <3>3, <3>4 DEF Writer, StartEnqueue, SnapshotWPos,
           RefuseFull, FindRoom, ClaimSlot, RetryClaim, WriteElement, EndEnqueue,
           TypeOK
    <2>4. /\ snap[w] <= C /\ T <= snap[w] /\ myWPos2[w] = snap[w] % PosRange
      BY <1>1 DEF IInv, ComparingInv, NestedInv, Comparing
    <2>5. 0 <= Held /\ Held <= Size - 1 /\ rpos = Slot(T)
      BY <1>1 DEF IInv, PositionsInv
    <2>6. Slot(snap[w] + 1) = Slot(T)
      BY <2>2, <2>3, <2>4, <2>5, SlotOfPosition DEF FullAt
    <2>7. snap[w] + 1 - T >= Size
      <3> DEFINE k == snap[w] + 1
      <3>1. k \in Nat /\ T \in Nat /\ k # T /\ T - k < Size
        BY <2>2, <2>4
      <3> HIDE DEF k, T
      <3>2. ~(k - T < Size)
        BY <2>6, <3>1, SlotInjective DEF k
      <3>3. Size \in Nat
        BY <2>2
      <3>4. QED
        BY <2>2, <3>1, <3>2, <3>3 DEF k
    <2>8. Held = Size - 1
      BY <2>2, <2>4, <2>5, <2>7
    <2>9. QED
      BY <1>1, <2>8 DEF IInv, FullSeenInv
  <1>2. ASSUME IInv, [Next]_vars
        PROVE  [Nested => \A w \in Writers :
                   wpc[w] = "check" /\ wpc'[w] = "idle" => sawFull[w]]_vars
    BY <1>1, <1>2
  <1>3. QED
    BY <1>2, Invariance, PTL DEF Spec, NestedRefusalsJustified

-------------------------------------------------------------------------------
(* The refinement.                                                         *)

\* What the abstract queue looks like while the invariant holds.
ViewOK ==
    /\ Held \in Nat /\ Held <= Size - 1
    /\ QueueView \in Seq(Abstract!Entries) /\ Len(QueueView) = Held
    /\ \A i \in 1 .. Held :
          /\ QueueView[i].value = claims[Len(delivered) + i]
          /\ QueueView[i].ready <=> ~Open(Len(delivered) + i - 1)

LEMMA ViewType == IInv => ViewOK
  <1> SUFFICES ASSUME IInv PROVE ViewOK
    OBVIOUS
  <1>1. TypeOK
    BY DEF IInv
  <1>2. /\ Len(claims) \in Nat /\ Len(delivered) \in Nat
        /\ Held = Len(claims) - Len(delivered)
        /\ Held \in Nat /\ Held <= Size - 1
    BY <1>1, Numbers DEF IInv, PositionsInv
  <1>3. \A i \in 1 .. Held : claims[Len(delivered) + i] \in Values
    BY <1>1, <1>2 DEF TypeOK
  <1>4. \A i \in 1 .. Held :
            /\ QueueView[i].value = claims[Len(delivered) + i]
            /\ QueueView[i].ready <=> ~Open(Len(delivered) + i - 1)
    BY <1>2 DEF QueueView, Open
  <1>5. QueueView \in [1 .. Held -> Abstract!Entries]
    BY <1>2, <1>3 DEF QueueView, Abstract!Entries
  <1>6. QED
    BY <1>2, <1>4, <1>5 DEF ViewOK

\* The same of the next state.
LEMMA ViewTypeNext == IInv' => ViewOK'
  BY ViewType, PTL

\* Sequences of entries that agree in every field are the same.
LEMMA SameEntries ==
    ASSUME NEW p \in Seq(Abstract!Entries), NEW q \in Seq(Abstract!Entries),
           Len(p) = Len(q),
           \A i \in 1 .. Len(p) : p[i].value = q[i].value,
           \A i \in 1 .. Len(p) : p[i].ready <=> q[i].ready
    PROVE  p = q
  <1>1. ASSUME NEW x \in Abstract!Entries, NEW y \in Abstract!Entries,
               x.value = y.value, x.ready <=> y.ready
        PROVE  x = y
    <2>1. x.ready = y.ready
      BY <1>1 DEF Abstract!Entries
    <2>2. QED
      BY <1>1, <2>1 DEF Abstract!Entries
  <1>2. \A i \in 1 .. Len(p) : p[i] = q[i]
    BY <1>1
  <1>3. QED
    BY <1>2

\* A step that claims, publishes and delivers nothing leaves the view alone.
LEMMA ViewKept ==
    ASSUME IInv, IInv', claims' = claims, delivered' = delivered,
           \A n \in Nat : Open(n)' <=> Open(n)
    PROVE  UNCHANGED <<QueueView, delivered>>
  <1>1. Held' = Held
    BY DEF Held
  <1>2. ViewOK /\ ViewOK' /\ Len(delivered) \in Nat
    BY ViewType, ViewTypeNext, Numbers DEF IInv
  <1>3. /\ Held \in Nat
        /\ QueueView \in Seq(Abstract!Entries) /\ Len(QueueView) = Held
        /\ QueueView' \in Seq(Abstract!Entries) /\ Len(QueueView') = Held
    BY <1>1, <1>2 DEF ViewOK
  <1>4. \A i \in 1 .. Held : QueueView'[i].value = QueueView[i].value
    BY <1>1, <1>2 DEF ViewOK
  <1>5. ASSUME NEW i \in 1 .. Held
        PROVE  QueueView'[i].ready <=> QueueView[i].ready
    <2>1. Len(delivered) + i - 1 \in Nat
      BY <1>2, <1>3, <1>5
    <2>2. Open(Len(delivered) + i - 1)' <=> Open(Len(delivered) + i - 1)
      BY <2>1
    <2>3. QED
      BY <1>1, <1>2, <2>2 DEF ViewOK
  <1>6. QED
    BY <1>3, <1>4, <1>5, SameEntries

\* A successful claim reserves an entry.
LEMMA ClaimReserves ==
    ASSUME IInv, IInv', NEW w \in Writers, ClaimSlot(w)
    PROVE  Abstract!Reserve(Value(w))
  <1> DEFINE T == Len(delivered)  C == Len(claims)
             entry == [value |-> Value(w), ready |-> FALSE]
             longer == Append(QueueView, entry)
  <1>1. /\ Held < Size - 1 /\ Held' = Held + 1
        /\ delivered' = delivered /\ claims' = Append(claims, Value(w))
        /\ \A n \in Nat : Open(n)' <=> Open(n) \/ n = C
    BY ClaimEffect
  <1>2. /\ TypeOK /\ C \in Nat /\ T \in Nat /\ Held = C - T
        /\ ViewOK /\ ViewOK' /\ Value(w) \in Values /\ claims \in Seq(Values)
    BY Numbers, ViewType, ViewTypeNext DEF IInv, TypeOK, Value, Values
  <1>3. /\ QueueView \in Seq(Abstract!Entries) /\ Len(QueueView) = Held
        /\ QueueView' \in Seq(Abstract!Entries) /\ Len(QueueView') = Held + 1
        /\ entry \in Abstract!Entries /\ Held \in Nat
        /\ entry.value = Value(w) /\ ~entry.ready
    BY <1>1, <1>2 DEF ViewOK, Abstract!Entries
  <1>4. /\ longer \in Seq(Abstract!Entries) /\ Len(longer) = Held + 1
        /\ \A i \in 1 .. Held : longer[i] = QueueView[i]
        /\ longer[Held + 1] = entry
    <2> HIDE DEF entry
    <2>1. QED
      BY <1>3
  <1> HIDE DEF entry, longer
  <1>5. ASSUME NEW i \in 1 .. Held + 1
        PROVE  /\ QueueView'[i].value = longer[i].value
               /\ QueueView'[i].ready <=> longer[i].ready
    <2> DEFINE n == T + i - 1
    <2>1. n \in Nat /\ T + i \in 1 .. C + 1
      BY <1>2, <1>3
    <2>2. /\ QueueView'[i].value = claims'[T + i]
          /\ QueueView'[i].ready <=> ~Open(n)'
      BY <1>1, <1>2 DEF ViewOK
    <2>3. Open(n)' <=> Open(n) \/ n = C
      BY <1>1, <2>1
    <2>4. CASE i \in 1 .. Held
      <3>1. claims'[T + i] = claims[T + i] /\ n # C
        BY <1>1, <1>2, <1>3, <2>4
      <3>2. /\ QueueView[i].value = claims[T + i]
            /\ QueueView[i].ready <=> ~Open(n)
        BY <1>2, <2>4 DEF ViewOK
      <3>3. QED
        BY <1>4, <2>2, <2>3, <2>4, <3>1, <3>2
    <2>5. CASE i = Held + 1
      <3>1. claims'[T + i] = Value(w) /\ n = C
        BY <1>1, <1>2, <1>3, <2>5
      <3> HIDE DEF n
      <3>2. QueueView'[i].value = Value(w) /\ ~QueueView'[i].ready
        BY <2>2, <2>3, <3>1
      <3>3. longer[i] = entry
        BY <1>4, <2>5
      <3>4. QED
        BY <1>3, <3>2, <3>3
    <2>6. QED
      BY <1>3, <2>4, <2>5
  <1>6. QueueView' = longer
    BY <1>3, <1>4, <1>5, SameEntries
  <1>7. QED
    BY <1>1, <1>3, <1>6 DEF Abstract!Reserve, entry, longer

\* A commit publishes the writer's entry.
LEMMA CommitPublishes ==
    ASSUME IInv, IInv', NEW w \in Writers, EndEnqueue(w)
    PROVE  \E i \in DOMAIN QueueView : Abstract!Publish(i)
  <1> DEFINE T == Len(delivered)  C == Len(claims)  k == snap[w] - T + 1
             published == [QueueView EXCEPT ![k].ready = TRUE]
  <1>1. /\ TypeOK /\ C \in Nat /\ T \in Nat /\ Held = C - T
        /\ ViewOK /\ ViewOK' /\ snap[w] \in Nat
    BY Numbers, ViewType, ViewTypeNext DEF IInv
  <1>2. /\ UNCHANGED <<claims, delivered, snap>>
        /\ wpc[w] = "commit" /\ wpc'[w] = "idle"
        /\ \A v \in Writers : v # w => wpc'[v] = wpc[v]
    BY <1>1 DEF EndEnqueue, TypeOK, history
  <1>3. /\ Held' = Held /\ Owns(w)
        /\ \A v \in Writers : Owns(v)' <=> Owns(v) /\ v # w
    BY <1>2 DEF Held, Owns
  <1>4. \A n \in Nat : Open(n)' <=> Open(n) /\ n # snap[w]
    BY <1>2, <1>3 DEF Open, IInv, DistinctInv
  <1>5. k \in 1 .. Held /\ T + k - 1 = snap[w] /\ Open(snap[w])
    BY <1>1, <1>3 DEF IInv, OwnerInv, InRing, Open
  <1>6. /\ QueueView \in Seq(Abstract!Entries) /\ Len(QueueView) = Held
        /\ QueueView' \in Seq(Abstract!Entries) /\ Len(QueueView') = Held
        /\ DOMAIN QueueView = 1 .. Held
    BY <1>1, <1>3 DEF ViewOK
  <1>7. ~QueueView[k].ready
    BY <1>1, <1>5 DEF ViewOK
  <1> HIDE DEF k
  <1>8. /\ published \in Seq(Abstract!Entries) /\ Len(published) = Held
        /\ published[k].value = QueueView[k].value /\ published[k].ready
        /\ \A i \in 1 .. Held : i # k => published[i] = QueueView[i]
    <2>1. QueueView[k] \in Abstract!Entries
      BY <1>5, <1>6
    <2>2. [QueueView[k] EXCEPT !.ready = TRUE] \in Abstract!Entries
      BY <2>1 DEF Abstract!Entries
    <2>3. published = [QueueView EXCEPT
                           ![k] = [QueueView[k] EXCEPT !.ready = TRUE]]
      BY <1>5, <1>6
    <2>4. /\ [QueueView[k] EXCEPT !.ready = TRUE].value = QueueView[k].value
          /\ [QueueView[k] EXCEPT !.ready = TRUE].ready
      BY <2>1 DEF Abstract!Entries
    <2>5. QED
      BY <1>5, <1>6, <2>2, <2>3, <2>4
  <1>9. ASSUME NEW i \in 1 .. Held
        PROVE  /\ QueueView'[i].value = published[i].value
               /\ QueueView'[i].ready <=> published[i].ready
    <2>0. PICK n \in Nat : n = T + i - 1
      BY <1>1, <1>6
    <2>1. (n = snap[w] <=> i = k) /\ n + 1 = T + i
      BY <1>1, <1>5, <1>6, <2>0 DEF k
    <2>2. /\ QueueView'[i].value = QueueView[i].value
          /\ QueueView'[i].ready <=> ~Open(n)'
          /\ QueueView[i].ready <=> ~Open(n)
      BY <1>1, <1>2, <1>3, <2>0 DEF ViewOK
    <2>3. Open(n)' <=> Open(n) /\ n # snap[w]
      BY <1>4
    <2> HIDE DEF published
    <2>4. QED
      BY <1>8, <2>1, <2>2, <2>3
  <1> HIDE DEF published
  <1>10. QueueView' = published
    BY <1>6, <1>8, <1>9, SameEntries
  <1>11. Abstract!Publish(k)
    BY <1>2, <1>7, <1>10 DEF Abstract!Publish, published
  <1>12. QED
    BY <1>5, <1>6, <1>11

\* The reader takes the head entry.
LEMMA AdvanceTakes ==
    ASSUME IInv, IInv', AdvanceRPos
    PROVE  Abstract!Take
  <1> DEFINE T == Len(delivered)  C == Len(claims)
             rest == Tail(QueueView)
  <1>1. /\ TypeOK /\ C \in Nat /\ T \in Nat /\ Held = C - T
        /\ ViewOK /\ ViewOK'
    BY Numbers, ViewType, ViewTypeNext DEF IInv
  <1>2. /\ UNCHANGED <<claims, snap, wpc>> /\ rpc = "cleared"
        /\ delivered' = Append(delivered, callback)
    BY DEF AdvanceRPos, writing
  <1>3. /\ Held > 0 /\ ~Open(T) /\ callback = claims[T + 1]
    BY <1>2 DEF IInv, ReaderInv
  <1>4. Len(delivered') = T + 1 /\ Held' = Held - 1
    <2>1. delivered \in Seq(Values \cup {NoValue})
          /\ callback \in Values \cup {NoValue}
      BY <1>1 DEF TypeOK
    <2>2. QED
      BY <1>1, <1>2, <2>1 DEF Held
  <1>5. \A n \in Nat : Open(n)' <=> Open(n)
    BY <1>2 DEF Open, Owns
  <1>6. /\ QueueView \in Seq(Abstract!Entries) /\ Len(QueueView) = Held
        /\ QueueView' \in Seq(Abstract!Entries) /\ Len(QueueView') = Held - 1
        /\ Held \in Nat
    BY <1>1, <1>4 DEF ViewOK
  <1>7. /\ rest \in Seq(Abstract!Entries) /\ Len(rest) = Held - 1
        /\ \A i \in 1 .. Held - 1 : rest[i] = QueueView[i + 1]
    BY <1>3, <1>6
  <1> HIDE DEF rest
  <1>8. ASSUME NEW i \in 1 .. Held - 1
        PROVE  /\ QueueView'[i].value = rest[i].value
               /\ QueueView'[i].ready <=> rest[i].ready
    <2>0. PICK n \in Nat : n = T + i
      BY <1>1
    <2>1. i + 1 \in 1 .. Held /\ i \in 1 .. Held'
          /\ T + 1 + i - 1 = n /\ T + (i + 1) - 1 = n /\ T + 1 + i = n + 1
          /\ T + (i + 1) = n + 1
      BY <1>1, <1>4, <1>6, <2>0
    <2>2. /\ QueueView'[i].value = claims[n + 1]
          /\ QueueView'[i].ready <=> ~Open(n)'
      <3>1. /\ QueueView'[i].value = claims'[Len(delivered') + i]
            /\ QueueView'[i].ready <=> ~Open(Len(delivered) + i - 1)'
        BY <1>1, <2>1 DEF ViewOK
      <3>2. Len(delivered') + i = n + 1 /\ Len(delivered') + i - 1 = n
        BY <1>4, <2>1
      <3>3. QED
        BY <1>2, <3>1, <3>2
    <2>3. /\ QueueView[i + 1].value = claims[n + 1]
          /\ QueueView[i + 1].ready <=> ~Open(n)
      BY <1>1, <2>1 DEF ViewOK
    <2>4. Open(n)' <=> Open(n)
      BY <1>5
    <2>5. rest[i] = QueueView[i + 1]
      BY <1>7
    <2>6. QED
      BY <2>2, <2>3, <2>4, <2>5
  <1>9. QueueView' = rest
    BY <1>6, <1>7, <1>8, SameEntries
  <1>10. /\ QueueView # <<>> /\ Head(QueueView).ready
         /\ Head(QueueView).value = callback
    <2>1. Head(QueueView) = QueueView[1] /\ QueueView # <<>> /\ 1 \in 1 .. Held
      BY <1>3, <1>6
    <2>2. QueueView[1].value = claims[T + 1]
      BY <1>1, <2>1 DEF ViewOK
    <2>3. QueueView[1].ready <=> ~Open(T)
      <3>1. T + 1 - 1 = T
        BY <1>1
      <3>2. QED
        BY <1>1, <2>1, <3>1 DEF ViewOK
    <2>4. QED
      BY <1>3, <2>1, <2>2, <2>3
  <1>11. QED
    BY <1>2, <1>9, <1>10 DEF Abstract!Take, rest

\* Every behaviour of the ring is one of the bounded queue.
THEOREM Refinement == Spec => ImplementsBoundedQueue
  <1>1. Init => Abstract!Init
    <2> SUFFICES ASSUME Init PROVE Abstract!Init
      OBVIOUS
    <2>1. Held = 0 /\ delivered = <<>>
      BY DEF Init, Held
    <2>2. QueueView = <<>>
      <3>1. ViewOK
        BY InvInit, ViewType
      <3>2. QueueView \in Seq(Abstract!Entries) /\ Len(QueueView) = 0
        BY <2>1, <3>1 DEF ViewOK
      <3>3. QED
        BY <3>2
    <2>3. QED
      BY <2>1, <2>2 DEF Abstract!Init
  <1>2. IInv /\ IInv' /\ [Next]_vars => [Abstract!Next]_(Abstract!vars)
    <2> SUFFICES ASSUME IInv, IInv', [Next]_vars
                 PROVE  Abstract!Next \/ UNCHANGED <<QueueView, delivered>>
      BY DEF Abstract!vars
    <2>1. TypeOK
      BY DEF IInv
    <2>2. ASSUME NEW w \in Writers, ClaimSlot(w) PROVE Abstract!Next
      <3>1. Value(w) \in Values
        BY <2>1 DEF TypeOK, Value, Values
      <3>2. QED
        BY <2>2, <3>1, ClaimReserves DEF Abstract!Next
    <2>3. ASSUME NEW w \in Writers, EndEnqueue(w) PROVE Abstract!Next
      BY <2>3, CommitPublishes DEF Abstract!Next
    <2>4. CASE AdvanceRPos
      BY <2>4, AdvanceTakes DEF Abstract!Next
    <2>5. ASSUME NEW w \in Writers,
                 \/ StartEnqueue(w) \/ SnapshotWPos(w) \/ RefuseFull(w)
                 \/ FindRoom(w) \/ RetryClaim(w) \/ WriteElement(w)
          PROVE  UNCHANGED <<QueueView, delivered>>
      <3>1. /\ claims' = claims /\ delivered' = delivered
            /\ \A v \in Writers : v # w => wpc'[v] = wpc[v] /\ snap'[v] = snap[v]
            /\ Owns(w)' <=> Owns(w)
            /\ Owns(w) => snap'[w] = snap[w]
        BY <2>1, <2>5 DEF StartEnqueue, SnapshotWPos, RefuseFull, FindRoom,
           RetryClaim, WriteElement, TypeOK, Owns, history
      <3>2. \A v \in Writers : Owns(v)' <=> Owns(v)
        BY <3>1 DEF Owns
      <3>3. \A n \in Nat : Open(n)' <=> Open(n)
        BY <3>1, <3>2 DEF Open
      <3>4. QED
        BY <3>1, <3>3, ViewKept
    <2>6. ASSUME SeeReadable \/ CopyHead \/ ClearStatus \/ UNCHANGED vars
          PROVE  UNCHANGED <<QueueView, delivered>>
      <3>1. UNCHANGED <<claims, delivered, snap, wpc>>
        BY <2>6 DEF SeeReadable, CopyHead, ClearStatus, vars, writing, history
      <3>2. \A n \in Nat : Open(n)' <=> Open(n)
        BY <3>1 DEF Open, Owns
      <3>3. QED
        BY <3>1, <3>2, ViewKept
    <2>7. QED
      BY <2>2, <2>3, <2>4, <2>5, <2>6 DEF Next, ReaderStep, Writer
  <1>3. QED
    BY <1>1, <1>2, Invariance, PTL DEF Spec, Abstract!Spec,
       ImplementsBoundedQueue
===============================================================================
