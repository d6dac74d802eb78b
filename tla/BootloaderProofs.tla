---------------------------- MODULE BootloaderProofs ----------------------------
(***************************************************************************)
(* Proofs about HostLink and the bootloader behind it, for a ring of any   *)
(* size, packets of any size, and any bytes a host may send.               *)
(***************************************************************************)
EXTENDS Bootloader, SequenceTheorems, FiniteSetTheorems, TLAPS

-------------------------------------------------------------------------------
(* Induction, for a set instead of a predicate: the pigeonhole principle   *)
(* forbids that counting from 0 leaves the set.                            *)

LEMMA SetInduction ==
    ASSUME NEW S, 0 \in S, \A n \in Nat : n \in S => n + 1 \in S
    PROVE  \A n \in Nat : n \in S
  <1> SUFFICES ASSUME NEW k \in Nat, k \notin S PROVE FALSE
    OBVIOUS
  <1> DEFINE T == {n \in 0 .. k : n \in S}
             U == T \ {0}
             f == [n \in T |-> n + 1]
  <1>1. IsFiniteSet(T) /\ 0 \in T
    <2>1. IsFiniteSet(0 .. k)
      BY FS_Interval
    <2> QED  BY <2>1, FS_Subset
  <1>2. IsFiniteSet(U) /\ Cardinality(U) = Cardinality(T) - 1 /\ Cardinality(T) \in Nat
    BY <1>1, FS_RemoveElement, FS_CardinalityType
  <1>3. f \in [T -> U]
    OBVIOUS
  <1>4. \E x, y \in T : x # y /\ f[x] = f[y]
    <2> HIDE DEF f, T, U
    <2> QED  BY <1>1, <1>2, <1>3, FS_PigeonHole
  <1> QED  BY <1>4

-------------------------------------------------------------------------------
(* Division with remainder, also of negative numbers.                      *)

LEMMA DivMod ==
    ASSUME NEW m \in Nat \ {0}, NEW n \in Int
    PROVE  /\ n = m * (n \div m) + (n % m)
           /\ n \div m \in Int
           /\ n % m \in 0 .. m - 1
  OBVIOUS

LEMMA MultipleAtLeast ==
    ASSUME NEW m \in Nat \ {0}, NEW x \in Int, x >= 1
    PROVE  m * x >= m
  OBVIOUS

LEMMA DivisionUnique ==
    ASSUME NEW m \in Nat \ {0}, NEW p \in Int, NEW q \in Int,
           NEW r \in 0 .. m - 1, NEW t \in 0 .. m - 1,
           m * p + r = m * q + t
    PROVE  p = q /\ r = t
  <1>1. m * (p - q) = t - r /\ m * (q - p) = r - t
    OBVIOUS
  <1>2. ~(p - q >= 1)
    BY <1>1, MultipleAtLeast, p - q \in Int
  <1>3. ~(q - p >= 1)
    BY <1>1, MultipleAtLeast, q - p \in Int
  <1> QED  BY <1>2, <1>3

LEMMA ModIs ==
    ASSUME NEW m \in Nat \ {0}, NEW n \in Int, NEW q \in Int,
           NEW r \in 0 .. m - 1, n = m * q + r
    PROVE  n % m = r
  BY DivMod, DivisionUnique

-------------------------------------------------------------------------------
(* The recursion of Meaning.                                               *)

Bytes == Seq(0 .. 255)

Call == [to : {"send", "reply", "handleReadFIFO", "handleWrite", "handleWriteFIFO", "fifo"},
         address : 0 .. 255, data : Bytes]

\* What Meaning picks the first value of.
From(b) == CHOOSE f : f = [i \in 1 .. Len(b) + 1 |-> Command(b, f, i)]

Opcodes == {NOP, INDICATE, READFIFO, WRITE, WRITEFIFO} \cup READS \cup WRITEWIDE

LEMMA Widths ==
    /\ \A op \in READS : op \in 0 .. 255 /\ Width(op) \in 1 .. 8
    /\ \A op \in {WRITE} \cup WRITEWIDE : op \in 0 .. 255 /\ Width(op) \in 1 .. 8
    /\ Width(WRITE) = 1
  <1>1. \A op : op \in READS <=> op \in {\h10, \h11, \h12, \h13}
    BY DEF READS
  <1>2. \A op : op \in {WRITE} \cup WRITEWIDE <=> op \in {\h20, \h21, \h22, \h23}
    BY DEF WRITE, WRITEWIDE
  <1>3. /\ Width(\h10) = 1 /\ Width(\h20) = 1 /\ Width(\h11) = 2 /\ Width(\h21) = 2
        /\ Width(\h12) = 4 /\ Width(\h22) = 4 /\ Width(\h13) = 8 /\ Width(\h23) = 8
    BY DEF Width
  <1>4. \A op \in {\h10, \h11, \h12, \h13} : op \in 0 .. 255 /\ Width(op) \in 1 .. 8
    BY <1>3
  <1>5. \A op \in {\h20, \h21, \h22, \h23} : op \in 0 .. 255 /\ Width(op) \in 1 .. 8
    BY <1>3
  <1>6. Width(WRITE) = 1
    BY <1>3 DEF WRITE
  <1> HIDE DEF Width
  <1> QED  BY <1>1, <1>2, <1>4, <1>5, <1>6

LEMMA ByteOf ==
    ASSUME NEW b \in Bytes, NEW i \in Int, i >= 1, i <= Len(b)
    PROVE  b[i] \in 0 .. 255
  <1>1. b \in Seq(0 .. 255) /\ Len(b) \in Nat
    BY DEF Bytes
  <1>2. i \in 1 .. Len(b)
    BY <1>1
  <1> QED  BY <1>1, <1>2, ElementOfSeq

LEMMA Distinct ==
    /\ INDICATE # NOP
    /\ \A op \in READS : op # NOP /\ op # INDICATE
    /\ READFIFO # NOP /\ READFIFO # INDICATE /\ READFIFO \notin READS
    /\ \A op \in {WRITE} \cup WRITEWIDE :
          op # NOP /\ op # INDICATE /\ op \notin READS /\ op # READFIFO
    /\ WRITE \notin WRITEWIDE
    /\ WRITEFIFO # NOP /\ WRITEFIFO # INDICATE /\ WRITEFIFO \notin READS
    /\ WRITEFIFO # READFIFO /\ WRITEFIFO \notin {WRITE} \cup WRITEWIDE
  BY DEF NOP, INDICATE, READS, READFIFO, WRITE, WRITEWIDE, WRITEFIFO

\* A command, opcode by opcode.
CommandTable(b, f, i) ==
    /\ b[i] = NOP => Command(b, f, i) = f[i + 1]
    /\ b[i] = INDICATE => Command(b, f, i) = ReplyCall \o f[i + 1]
    /\ b[i] \in READS =>
          Command(b, f, i) = IF i + 2 - 1 <= Len(b)
                             THEN SendCall(b[i + 1], Width(b[i])) \o f[i + 2]
                             ELSE << >>
    /\ b[i] = READFIFO =>
          Command(b, f, i) = IF i + 3 - 1 <= Len(b)
                             THEN ReadFIFOCall(b[i + 1], b[i + 2]) \o f[i + 3]
                             ELSE << >>
    /\ b[i] \in {WRITE} \cup WRITEWIDE =>
          Command(b, f, i) =
              IF i + (2 + Width(b[i])) - 1 <= Len(b)
              THEN WriteCall(b[i + 1], SubSeq(b, i + 2, i + 1 + Width(b[i])))
                      \o f[i + (2 + Width(b[i]))]
              ELSE << >>
    /\ b[i] = WRITEFIFO =>
          Command(b, f, i) =
              IF i + 3 - 1 <= Len(b)
              THEN WriteFIFOCall(b[i + 1], b[i + 2])
                     \o (IF i + (3 + b[i + 2]) - 1 <= Len(b)
                         THEN FIFOBytes(b[i + 1],
                                        SubSeq(b, i + 3, i + 2 + b[i + 2]))
                                \o f[i + (3 + b[i + 2])]
                         ELSE FIFOBytes(b[i + 1], SubSeq(b, i + 3, Len(b))))
              ELSE << >>
    /\ b[i] \notin Opcodes =>
          Command(b, f, i) = IF i + 3 - 1 <= Len(b) THEN f[i + 3] ELSE << >>

LEMMA CommandCases ==
    ASSUME NEW b, NEW f, NEW i, ~(i > Len(b))
    PROVE  CommandTable(b, f, i)
  <1> USE DEF CommandTable
  <1>1. CASE b[i] = NOP
    BY <1>1, Distinct DEF Command, Opcodes
  <1>2. CASE b[i] = INDICATE
    BY <1>2, Distinct DEF Command, Opcodes
  <1>3. CASE b[i] \in READS
    BY <1>3, Distinct DEF Command, Opcodes
  <1>4. CASE b[i] = READFIFO
    BY <1>4, Distinct DEF Command, Opcodes
  <1>5. CASE b[i] \in {WRITE} \cup WRITEWIDE
    BY <1>5, Distinct DEF Command, Opcodes
  <1>6. CASE b[i] = WRITEFIFO
    BY <1>6, Distinct DEF Command, Opcodes
  <1>7. CASE b[i] \notin Opcodes
    BY <1>7, Distinct DEF Command, Opcodes
  <1> QED  BY <1>1, <1>2, <1>3, <1>4, <1>5, <1>6, <1>7 DEF Opcodes

\* The calls of a command and what follows depend only on what begins later.
LEMMA Local ==
    ASSUME NEW b \in Bytes, NEW i \in 1 .. Len(b) + 1, NEW f, NEW g,
           \A j \in i + 1 .. Len(b) + 1 : f[j] = g[j]
    PROVE  Command(b, f, i) = Command(b, g, i)
  <1>1. CASE i > Len(b)
    BY <1>1 DEF Command
  <1>2. CASE ~(i > Len(b))
    <2>1. Len(b) \in Nat /\ i \in Nat /\ i >= 1 /\ i <= Len(b)
      BY <1>2 DEF Bytes
    <2>2. \A n \in Nat : n >= 1 /\ i + n - 1 <= Len(b) => f[i + n] = g[i + n]
      BY <2>1
    <2>3. f[i + 1] = g[i + 1]
      BY <2>1
    <2>4. i + 2 - 1 <= Len(b) => f[i + 2] = g[i + 2]
      BY <2>2
    <2>5. i + 3 - 1 <= Len(b) => f[i + 3] = g[i + 3]
      BY <2>2
    <2>6. b[i] \in {WRITE} \cup WRITEWIDE /\ i + (2 + Width(b[i])) - 1 <= Len(b)
            => f[i + (2 + Width(b[i]))] = g[i + (2 + Width(b[i]))]
      <3> SUFFICES ASSUME b[i] \in {WRITE} \cup WRITEWIDE,
                          i + (2 + Width(b[i])) - 1 <= Len(b)
                   PROVE  f[i + (2 + Width(b[i]))] = g[i + (2 + Width(b[i]))]
        OBVIOUS
      <3> DEFINE w == Width(b[i])
      <3>1. w \in 1 .. 8
        BY Widths
      <3> HIDE DEF w
      <3>2. 2 + w \in Nat /\ 2 + w >= 1
        BY <3>1
      <3> QED  BY <2>2, <3>2 DEF w
    <2>7. i + 3 - 1 <= Len(b) /\ i + (3 + b[i + 2]) - 1 <= Len(b)
            => f[i + (3 + b[i + 2])] = g[i + (3 + b[i + 2])]
      <3> SUFFICES ASSUME i + 3 - 1 <= Len(b), i + (3 + b[i + 2]) - 1 <= Len(b)
                   PROVE  f[i + (3 + b[i + 2])] = g[i + (3 + b[i + 2])]
        OBVIOUS
      <3>1. b[i + 2] \in 0 .. 255
        BY <2>1, ByteOf
      <3> DEFINE w == 3 + b[i + 2]
      <3>2. w \in Nat /\ w >= 1
        <4>1. \A x \in 0 .. 255 : 3 + x \in Nat /\ 3 + x >= 1
          OBVIOUS
        <4> QED  BY <3>1, <4>1
      <3> HIDE DEF w
      <3>3. i + w - 1 <= Len(b) => f[i + w] = g[i + w]
        BY <2>2, <3>2
      <3> QED  BY <3>3 DEF w
    <2> DEFINE Both == CommandTable(b, f, i) /\ CommandTable(b, g, i)
    <2>0. Both
      BY <1>2, CommandCases
    <2>8. CASE b[i] \in {NOP, INDICATE}
      BY <2>0, <2>3, <2>8 DEF CommandTable
    <2>9. CASE b[i] \in READS
      BY <2>0, <2>4, <2>9 DEF CommandTable
    <2>10. CASE b[i] = READFIFO
      BY <2>0, <2>5, <2>10 DEF CommandTable
    <2>11. CASE b[i] \in {WRITE} \cup WRITEWIDE
      BY <2>0, <2>6, <2>11 DEF CommandTable
    <2>12. CASE b[i] = WRITEFIFO
      BY <2>0, <2>7, <2>12 DEF CommandTable
    <2>13. CASE b[i] \notin Opcodes
      BY <2>0, <2>5, <2>13 DEF CommandTable
    <2> QED  BY <2>8, <2>9, <2>10, <2>11, <2>12, <2>13 DEF Opcodes
  <1>3. i > Len(b) \/ ~(i > Len(b))
    OBVIOUS
  <1> QED  BY <1>1, <1>2, <1>3

\* So there is such a function: it can be built from the end of the bytes.
LEMMA FromExists ==
    ASSUME NEW b \in Bytes
    PROVE  /\ From(b) = [i \in 1 .. Len(b) + 1 |-> Command(b, From(b), i)]
           /\ Meaning(b) = From(b)[1]
  <1> DEFINE N == Len(b) + 1
             Built(f, n) == /\ f = [i \in 1 .. N |-> f[i]]
                            /\ \A i \in 1 .. N : i > N - n => f[i] = Command(b, f, i)
             S == {n \in Nat : n <= N => \E f : Built(f, n)}
  <1>1. N \in Nat
    BY DEF Bytes
  <1>2. 0 \in S
    <2> DEFINE f == [i \in 1 .. N |-> << >>]
    <2>1. f = [i \in 1 .. N |-> f[i]]
      OBVIOUS
    <2>2. \A i \in 1 .. N : ~(i > N - 0)
      BY <1>1
    <2>3. Built(f, 0)
      BY <2>1, <2>2
    <2> HIDE DEF Built
    <2> QED  BY <2>3
  <1>3. ASSUME NEW n \in Nat, n \in S PROVE n + 1 \in S
    <2> SUFFICES ASSUME n + 1 <= N PROVE \E g : Built(g, n + 1)
      OBVIOUS
    <2>1. n <= N
      BY <1>1
    <2>2. PICK f : Built(f, n)
      BY <1>3, <2>1
    <2> DEFINE j == N - n
               g == [i \in 1 .. N |-> IF i = j THEN Command(b, f, j) ELSE f[i]]
    <2>3. j \in 1 .. N
      BY <1>1
    <2>4. \A i \in 1 .. N : i > j => g[i] = f[i]
      BY <1>1, <2>3
    <2>5. \A i \in 1 .. N : i > j => g[i] = Command(b, g, i)
      <3> SUFFICES ASSUME NEW i \in 1 .. N, i > j PROVE g[i] = Command(b, g, i)
        OBVIOUS
      <3>1. f[i] = Command(b, f, i)
        BY <2>2
      <3>2. \A k \in i + 1 .. Len(b) + 1 : f[k] = g[k]
        BY <1>1, <2>3, <2>4
      <3>3. Command(b, f, i) = Command(b, g, i)
        <4> HIDE DEF g, j
        <4> QED  BY <3>2, Local
      <3> QED  BY <2>4, <3>1, <3>3
    <2>6. g[j] = Command(b, g, j)
      <3>1. g[j] = Command(b, f, j)
        BY <2>3
      <3>2. \A k \in j + 1 .. Len(b) + 1 : f[k] = g[k]
        BY <1>1, <2>3, <2>4
      <3>3. Command(b, f, j) = Command(b, g, j)
        <4> HIDE DEF g, j
        <4> QED  BY <2>3, <3>2, Local
      <3> QED  BY <3>1, <3>3
    <2>7. g = [i \in 1 .. N |-> g[i]]
      OBVIOUS
    <2>8. \A i \in 1 .. N : i > N - (n + 1) => i > j \/ i = j
      BY <1>1
    <2>9. \A i \in 1 .. N : i > N - (n + 1) => g[i] = Command(b, g, i)
      <3> HIDE DEF g, j
      <3> QED  BY <2>5, <2>6, <2>8
    <2>10. Built(g, n + 1)
      BY <2>7, <2>9
    <2> HIDE DEF Built, g
    <2> QED  BY <2>10
  <1>4. N \in S
    <2> HIDE DEF S, N
    <2> QED  BY <1>1, <1>2, <1>3, SetInduction
  <1>5. PICK f : Built(f, N)
    BY <1>1, <1>4
  <1>6. \A i \in 1 .. N : f[i] = Command(b, f, i)
    BY <1>1, <1>5
  <1>7. f = [i \in 1 .. N |-> Command(b, f, i)]
    BY <1>5, <1>6
  <1>8. From(b) = [i \in 1 .. Len(b) + 1 |-> Command(b, From(b), i)]
    BY <1>7 DEF From
  <1>9. Meaning(b) = From(b)[1]
    BY DEF Meaning, From
  <1> QED  BY <1>8, <1>9

LEMMA FromIs ==
    ASSUME NEW b \in Bytes
    PROVE  /\ From(b)[Len(b) + 1] = << >>
           /\ \A i \in 1 .. Len(b) : /\ From(b)[i] = Command(b, From(b), i)
                                     /\ CommandTable(b, From(b), i)
  <1> DEFINE f == From(b)
  <1>1. Len(b) \in Nat
    BY DEF Bytes
  <1>2. \A i \in 1 .. Len(b) + 1 : f[i] = Command(b, f, i)
    <2>1. f = [i \in 1 .. Len(b) + 1 |-> Command(b, f, i)]
      BY FromExists
    <2> HIDE DEF f
    <2> QED  BY <2>1
  <1>3. Len(b) + 1 \in 1 .. Len(b) + 1 /\ Len(b) + 1 > Len(b)
    BY <1>1
  <1>4. Command(b, f, Len(b) + 1) = << >>
    <2> HIDE DEF f
    <2> QED  BY <1>3 DEF Command
  <1>5. \A i \in 1 .. Len(b) : i \in 1 .. Len(b) + 1 /\ ~(i > Len(b))
    BY <1>1
  <1>6. \A i \in 1 .. Len(b) : CommandTable(b, f, i)
    <2> HIDE DEF f
    <2> QED  BY <1>5, CommandCases
  <1> QED  BY <1>2, <1>3, <1>4, <1>5, <1>6

-------------------------------------------------------------------------------
(* The calls.                                                              *)

Calls == Seq(Call)

LEMMA CallTypes ==
    ASSUME NEW a \in 0 .. 255
    PROVE  /\ ReplyCall \in Calls
           /\ \A n \in 0 .. 255 : SendCall(a, n) \in Calls
           /\ \A n \in 0 .. 255 : ReadFIFOCall(a, n) \in Calls
           /\ \A n \in 0 .. 255 : WriteFIFOCall(a, n) \in Calls
           /\ \A d \in Bytes : WriteCall(a, d) \in Calls
           /\ \A d \in Bytes : FIFOBytes(a, d) \in Calls
  <1>1. \A n \in 0 .. 255 : <<n>> \in Bytes
    BY DEF Bytes
  <1>2. << >> \in Bytes
    BY DEF Bytes
  <1>3. \A x \in Call : <<x>> \in Calls
    BY DEF Calls
  <1>4. ReplyCall \in Calls
    <2>1. [to |-> "reply", address |-> 0, data |-> << >>] \in Call
      BY <1>2 DEF Call
    <2> QED  BY <1>3, <2>1 DEF ReplyCall
  <1>5. \A n \in 0 .. 255 : SendCall(a, n) \in Calls
    <2> TAKE n \in 0 .. 255
    <2>1. [to |-> "send", address |-> a, data |-> <<n>>] \in Call
      BY <1>1 DEF Call
    <2> QED  BY <1>3, <2>1 DEF SendCall
  <1>6. \A n \in 0 .. 255 : ReadFIFOCall(a, n) \in Calls
    <2> TAKE n \in 0 .. 255
    <2>1. [to |-> "handleReadFIFO", address |-> a, data |-> <<n>>] \in Call
      BY <1>1 DEF Call
    <2> QED  BY <1>3, <2>1 DEF ReadFIFOCall
  <1>7. \A n \in 0 .. 255 : WriteFIFOCall(a, n) \in Calls
    <2> TAKE n \in 0 .. 255
    <2>1. [to |-> "handleWriteFIFO", address |-> a, data |-> <<n>>] \in Call
      BY <1>1 DEF Call
    <2> QED  BY <1>3, <2>1 DEF WriteFIFOCall
  <1>8. \A d \in Bytes : WriteCall(a, d) \in Calls
    <2> TAKE d \in Bytes
    <2>1. [to |-> "handleWrite", address |-> a, data |-> d] \in Call
      BY DEF Call
    <2> QED  BY <1>3, <2>1 DEF WriteCall
  <1>9. \A d \in Bytes : FIFOBytes(a, d) \in Calls
    <2> TAKE d \in Bytes
    <2>1. Len(d) \in Nat /\ \A i \in 1 .. Len(d) : d[i] \in 0 .. 255
      BY ByteOf DEF Bytes
    <2>2. \A i \in 1 .. Len(d) : [to |-> "fifo", address |-> a, data |-> <<d[i]>>] \in Call
      <3> TAKE i \in 1 .. Len(d)
      <3>1. <<d[i]>> \in Bytes
        BY <1>1, <2>1
      <3> QED  BY <3>1 DEF Call
    <2> QED  BY <2>1, <2>2, IsASeq DEF FIFOBytes, Calls
  <1> QED  BY <1>4, <1>5, <1>6, <1>7, <1>8, <1>9

LEMMA Joined ==
    /\ << >> \in Calls
    /\ \A x, y \in Calls : x \o y \in Calls
    /\ \A x \in Calls : x \o << >> = x /\ << >> \o x = x
    /\ \A x, y, z \in Calls : (x \o y) \o z = x \o (y \o z)
  <1>1. << >> \in Calls /\ \A x, y \in Calls : x \o y \in Calls
    BY EmptySeq, ConcatProperties DEF Calls
  <1>2. \A x \in Calls : x \o << >> = x /\ << >> \o x = x
    BY ConcatEmptySeq DEF Calls
  <1>3. \A x, y, z \in Calls : (x \o y) \o z = x \o (y \o z)
    BY ConcatAssociative DEF Calls
  <1> QED  BY <1>1, <1>2, <1>3

LEMMA PartOf ==
    ASSUME NEW b \in Bytes, NEW i \in Int, i >= 1, NEW j \in Int, j <= Len(b)
    PROVE  /\ SubSeq(b, i, j) \in Bytes
           /\ Len(SubSeq(b, i, j)) = IF i <= j THEN j - i + 1 ELSE 0
           /\ \A k \in 1 .. j - i + 1 : SubSeq(b, i, j)[k] = b[i + k - 1]
  <1>1. Len(b) \in Nat
    BY DEF Bytes
  <1>2. \A k \in i .. j : b[k] \in 0 .. 255
    <2> TAKE k \in i .. j
    <2>1. k \in Int /\ k >= 1 /\ k <= Len(b)
      BY <1>1
    <2> QED  BY <2>1, ByteOf
  <1> QED  BY <1>2, SubSeqProperties DEF Bytes

LEMMA FIFOBytesAre ==
    ASSUME NEW a \in 0 .. 255, NEW d \in Bytes
    PROVE  /\ FIFOBytes(a, d) \in Calls
           /\ Len(FIFOBytes(a, d)) = Len(d)
           /\ \A k \in 1 .. Len(d) :
                 FIFOBytes(a, d)[k] = [to |-> "fifo", address |-> a, data |-> <<d[k]>>]
  <1>1. FIFOBytes(a, d) \in Calls
    BY CallTypes, Zenon
  <1>2. Len(d) \in Nat
    BY DEF Bytes
  <1> QED  BY <1>1, <1>2 DEF FIFOBytes, Calls

\* What the calls of a command are, is what calls are if what follows is.
LEMMA CommandTyped ==
    ASSUME NEW b \in Bytes, NEW i \in 1 .. Len(b), NEW f,
           \A j \in i + 1 .. Len(b) + 1 : f[j] \in Calls,
           CommandTable(b, f, i)
    PROVE  Command(b, f, i) \in Calls
  <1> DEFINE v == Command(b, f, i)
             op == b[i]
             w  == Width(op)
  <1>1. Len(b) \in Nat /\ i \in Nat /\ i >= 1 /\ i <= Len(b)
    BY DEF Bytes
  <1>2. \A n \in Nat : n >= 1 /\ i + n - 1 <= Len(b) => f[i + n] \in Calls
    BY <1>1
  <1>3. f[i + 1] \in Calls
    BY <1>1
  <1>4. i + 2 - 1 <= Len(b) => f[i + 2] \in Calls /\ b[i + 1] \in 0 .. 255
    BY <1>1, <1>2, ByteOf
  <1>5. i + 3 - 1 <= Len(b)
          => f[i + 3] \in Calls /\ b[i + 1] \in 0 .. 255 /\ b[i + 2] \in 0 .. 255
    BY <1>1, <1>2, ByteOf
  <1>6. op \in {WRITE} \cup WRITEWIDE /\ i + (2 + w) - 1 <= Len(b)
          => /\ f[i + (2 + w)] \in Calls /\ b[i + 1] \in 0 .. 255
             /\ SubSeq(b, i + 2, i + 1 + w) \in Bytes
    <2> SUFFICES ASSUME op \in {WRITE} \cup WRITEWIDE, i + (2 + w) - 1 <= Len(b)
                 PROVE  /\ f[i + (2 + w)] \in Calls /\ b[i + 1] \in 0 .. 255
                        /\ SubSeq(b, i + 2, i + 1 + w) \in Bytes
      OBVIOUS
    <2>1. w \in 1 .. 8
      BY Widths
    <2> HIDE DEF w, op
    <2>2. 2 + w \in Nat /\ 2 + w >= 1
      BY <2>1
    <2>3. f[i + (2 + w)] \in Calls
      BY <1>2, <2>2
    <2>4. b[i + 1] \in 0 .. 255
      BY <1>1, <2>1, ByteOf
    <2>5. SubSeq(b, i + 2, i + 1 + w) \in Bytes
      <3>1. i + 2 \in Int /\ i + 2 >= 1 /\ i + 1 + w \in Int /\ i + 1 + w <= Len(b)
        BY <1>1, <2>1
      <3> QED  BY <3>1, PartOf
    <2> QED  BY <2>3, <2>4, <2>5
  <1>7. i + 3 - 1 <= Len(b) /\ i + (3 + b[i + 2]) - 1 <= Len(b)
          => /\ f[i + (3 + b[i + 2])] \in Calls
             /\ SubSeq(b, i + 3, i + 2 + b[i + 2]) \in Bytes
    <2> SUFFICES ASSUME i + 3 - 1 <= Len(b), i + (3 + b[i + 2]) - 1 <= Len(b)
                 PROVE  /\ f[i + (3 + b[i + 2])] \in Calls
                        /\ SubSeq(b, i + 3, i + 2 + b[i + 2]) \in Bytes
      OBVIOUS
    <2> DEFINE x == b[i + 2]
    <2>1. x \in 0 .. 255
      BY <1>5
    <2> HIDE DEF x
    <2>2. i + (3 + x) - 1 <= Len(b)
      BY DEF x
    <2>3. 3 + x \in Nat /\ 3 + x >= 1
      BY <2>1
    <2>4. f[i + (3 + x)] \in Calls
      BY <1>2, <2>2, <2>3
    <2>5. SubSeq(b, i + 3, i + 2 + x) \in Bytes
      <3>1. i + 3 \in Int /\ i + 3 >= 1 /\ i + 2 + x \in Int /\ i + 2 + x <= Len(b)
        BY <1>1, <2>1, <2>2
      <3> QED  BY <3>1, PartOf
    <2> QED  BY <2>4, <2>5 DEF x
  <1>8. SubSeq(b, i + 3, Len(b)) \in Bytes
    <2>1. i + 3 \in Int /\ i + 3 >= 1 /\ Len(b) \in Int /\ Len(b) <= Len(b)
      BY <1>1
    <2> QED  BY <2>1, PartOf
  <1>9. op \in READS => w \in 0 .. 255
    <2>1. op \in READS => w \in 1 .. 8
      BY Widths
    <2> HIDE DEF w
    <2> QED  BY <2>1
  <1> HIDE DEF w
  <1>10. CASE op \in {NOP, INDICATE}
    <2>1. 0 \in 0 .. 255
      OBVIOUS
    <2>2. ReplyCall \in Calls
      BY <2>1, CallTypes, Zenon
    <2> QED  BY <1>3, <1>10, <2>2, Joined, ZenonT(30) DEF CommandTable
  <1>11. CASE op \in READS
    <2>1. CASE i + 2 - 1 <= Len(b)
      <3>1. v = SendCall(b[i + 1], w) \o f[i + 2]
        BY <1>11, <2>1 DEF CommandTable, w
      <3>2. SendCall(b[i + 1], w) \in Calls
        BY <1>4, <1>9, <1>11, <2>1, CallTypes, Zenon
      <3> QED  BY <1>4, <2>1, <3>1, <3>2, Joined
    <2>2. CASE ~(i + 2 - 1 <= Len(b))
      BY <1>11, <2>2, Joined DEF CommandTable
    <2> QED  BY <2>1, <2>2
  <1>12. CASE op = READFIFO
    <2>1. CASE i + 3 - 1 <= Len(b)
      <3>1. v = ReadFIFOCall(b[i + 1], b[i + 2]) \o f[i + 3]
        BY <1>12, <2>1, Zenon DEF CommandTable
      <3>2. ReadFIFOCall(b[i + 1], b[i + 2]) \in Calls
        BY <1>5, <2>1, CallTypes, Zenon
      <3> QED  BY <1>5, <2>1, <3>1, <3>2, Joined
    <2>2. CASE ~(i + 3 - 1 <= Len(b))
      BY <1>12, <2>2, Joined DEF CommandTable
    <2> QED  BY <2>1, <2>2
  <1>13. CASE op \in {WRITE} \cup WRITEWIDE
    <2>1. CASE i + (2 + w) - 1 <= Len(b)
      <3>1. v = WriteCall(b[i + 1], SubSeq(b, i + 2, i + 1 + w)) \o f[i + (2 + w)]
        BY <1>13, <2>1, Zenon DEF CommandTable, w
      <3>2. WriteCall(b[i + 1], SubSeq(b, i + 2, i + 1 + w)) \in Calls
        BY <1>6, <1>13, <2>1, CallTypes, Zenon
      <3> QED  BY <1>6, <1>13, <2>1, <3>1, <3>2, Joined
    <2>2. CASE ~(i + (2 + w) - 1 <= Len(b))
      BY <1>13, <2>2, Joined DEF CommandTable, w
    <2> QED  BY <2>1, <2>2
  <1>14. CASE op = WRITEFIFO
    <2> DEFINE x  == b[i + 2]
               r1 == FIFOBytes(b[i + 1], SubSeq(b, i + 3, i + 2 + x)) \o f[i + (3 + x)]
               r2 == FIFOBytes(b[i + 1], SubSeq(b, i + 3, Len(b)))
    <2>1. CASE i + 3 - 1 <= Len(b)
      <3>1. v = WriteFIFOCall(b[i + 1], x)
                   \o (IF i + (3 + x) - 1 <= Len(b) THEN r1 ELSE r2)
        BY <1>14, <2>1, Zenon DEF CommandTable
      <3>2. WriteFIFOCall(b[i + 1], x) \in Calls
        BY <1>5, <2>1, CallTypes, ZenonT(30)
      <3>3. i + (3 + x) - 1 <= Len(b) => r1 \in Calls
        BY <1>5, <1>7, <2>1, CallTypes, Joined, ZenonT(30)
      <3>4. r2 \in Calls
        BY <1>5, <1>8, <2>1, CallTypes, Zenon
      <3> HIDE DEF r1, r2, x
      <3> QED  BY <3>1, <3>2, <3>3, <3>4, Joined
    <2>2. CASE ~(i + 3 - 1 <= Len(b))
      BY <1>14, <2>2, Joined DEF CommandTable
    <2> QED  BY <2>1, <2>2
  <1>15. CASE op \notin Opcodes
    BY <1>5, <1>15, Joined DEF CommandTable
  <1> QED  BY <1>10, <1>11, <1>12, <1>13, <1>14, <1>15 DEF Opcodes

LEMMA FromTyped ==
    ASSUME NEW b \in Bytes
    PROVE  \A i \in 1 .. Len(b) + 1 : From(b)[i] \in Calls
  <1> DEFINE f == From(b)
             N == Len(b) + 1
             S == {n \in Nat : \A i \in 1 .. N : i > N - n => f[i] \in Calls}
  <1>1. Len(b) \in Nat
    BY DEF Bytes
  <1>2. 0 \in S
    BY <1>1
  <1>3. ASSUME NEW n \in Nat, n \in S PROVE n + 1 \in S
    <2> SUFFICES ASSUME NEW i \in 1 .. N, i > N - (n + 1) PROVE f[i] \in Calls
      OBVIOUS
    <2>1. CASE i > N - n
      BY <1>3, <2>1
    <2>2. CASE i = Len(b) + 1
      <3>1. f[i] = << >>
        BY <2>2, FromIs
      <3> HIDE DEF f
      <3> QED  BY <3>1, Joined
    <2>3. CASE i \in 1 .. Len(b) /\ ~(i > N - n)
      <3>1. f[i] = Command(b, f, i) /\ CommandTable(b, f, i)
        BY <2>3, FromIs
      <3>2. \A j \in i + 1 .. Len(b) + 1 : f[j] \in Calls
        <4> TAKE j \in i + 1 .. Len(b) + 1
        <4>1. j \in 1 .. N /\ j > N - n
          BY <1>1, <2>3
        <4> HIDE DEF f
        <4> QED  BY <1>3, <4>1
      <3> HIDE DEF f
      <3> QED  BY <2>3, <3>1, <3>2, CommandTyped
    <2> QED  BY <1>1, <2>1, <2>2, <2>3
  <1>4. N \in S
    <2>1. N \in Nat
      BY <1>1
    <2> HIDE DEF S, N
    <2> QED  BY <1>2, <1>3, <2>1, SetInduction
  <1>5. \A i \in 1 .. N : i > N - N
    BY <1>1
  <1> HIDE DEF f, N
  <1>6. \A i \in 1 .. N : f[i] \in Calls
    BY <1>4, <1>5
  <1> QED  BY <1>6 DEF f, N

-------------------------------------------------------------------------------
(* Places in the ring.                                                     *)

Mod(n) == n % BufferSize

LEMMA Ring ==
    /\ BufferSize \in Nat \ {0} /\ BufferSize \in Int /\ BufferSize > 1
    /\ \A n \in Int : Mod(n) \in 0 .. BufferSize - 1
    /\ \A n \in 0 .. BufferSize - 1 : Mod(n) = n
    /\ Mod(BufferSize) = 0
  <1>1. BufferSize \in Nat \ {0} /\ BufferSize \in Int /\ BufferSize > 1
    BY LinkAssumption
  <1>2. \A n \in Int : Mod(n) \in 0 .. BufferSize - 1
    BY <1>1, DivMod DEF Mod
  <1>3. \A n \in 0 .. BufferSize - 1 : Mod(n) = n
    <2> TAKE n \in 0 .. BufferSize - 1
    <2>1. n \in Int /\ n = BufferSize * 0 + n /\ 0 \in Int
      BY <1>1
    <2>2. n % BufferSize = n
      BY <1>1, <2>1, ModIs
    <2> QED  BY <2>2 DEF Mod
  <1>4. Mod(BufferSize) = 0
    <2>1. BufferSize = BufferSize * 1 + 0 /\ 0 \in 0 .. BufferSize - 1
      BY <1>1
    <2>2. BufferSize % BufferSize = 0
      BY <1>1, <2>1, ModIs
    <2> QED  BY <2>2 DEF Mod
  <1> QED  BY <1>1, <1>2, <1>3, <1>4

LEMMA ModSame ==
    ASSUME NEW x \in Int, NEW y \in Int, NEW k \in Int, Mod(x) = Mod(y)
    PROVE  Mod(x + k) = Mod(y + k)
  <1> DEFINE B == BufferSize
             a == x \div B
             d == y \div B
             e == (y + k) \div B
             t == (y + k) % B
             r == y % B
  <1>1. B \in Nat \ {0}
    BY Ring
  <1>2. x = B * a + r /\ a \in Int
    BY <1>1, DivMod DEF Mod
  <1>3. y = B * d + r /\ d \in Int /\ r \in 0 .. B - 1
    BY <1>1, DivMod
  <1>4. y + k = B * e + t /\ e \in Int /\ t \in 0 .. B - 1
    <2>1. y + k \in Int
      OBVIOUS
    <2> QED  BY <1>1, <2>1, DivMod
  <1> HIDE DEF B, a, d, e, t, r
  <1>5. x + k = B * (a - d + e) + t
    BY <1>1, <1>2, <1>3, <1>4
  <1>6. a - d + e \in Int /\ x + k \in Int
    BY <1>2, <1>3, <1>4
  <1>7. (x + k) % B = t
    BY <1>1, <1>4, <1>5, <1>6, ModIs
  <1> QED  BY <1>7 DEF B, t, Mod

LEMMA ModApart ==
    ASSUME NEW x \in Int, NEW y \in Int, x <= y, y - x < BufferSize, Mod(x) = Mod(y)
    PROVE  x = y
  <1>1. Mod(x + (-x)) = Mod(y + (-x))
    <2>1. -x \in Int
      OBVIOUS
    <2> QED  BY <2>1, ModSame
  <1>2. x + (-x) = 0 /\ y + (-x) = y - x /\ y - x \in 0 .. BufferSize - 1
        /\ 0 \in 0 .. BufferSize - 1
    BY Ring
  <1> QED  BY <1>1, <1>2, Ring

LEMMA ModDifference ==
    ASSUME NEW x \in Int, NEW y \in Int, NEW k \in Int
    PROVE  Mod(Mod(x) - Mod(y) + k) = Mod(x - y + k)
  <1> DEFINE mx == Mod(x)
             my == Mod(y)
  <1>1. mx \in Int /\ my \in Int /\ Mod(mx) = Mod(x) /\ Mod(my) = Mod(y)
    BY Ring
  <1>2. Mod(mx + (k - my)) = Mod(x + (k - my))
    <2>1. k - my \in Int
      BY <1>1
    <2> HIDE DEF mx, my
    <2> QED  BY <1>1, <2>1, ModSame
  <1>3. Mod(my + (x - y - my + k)) = Mod(y + (x - y - my + k))
    <2>1. x - y - my + k \in Int
      BY <1>1
    <2> HIDE DEF mx, my
    <2> QED  BY <1>1, <2>1, ModSame
  <1> HIDE DEF mx, my
  <1>4. /\ mx + (k - my) = mx - my + k
        /\ x + (k - my) = y + (x - y - my + k)
        /\ my + (x - y - my + k) = x - y + k
    BY <1>1
  <1> QED  BY <1>2, <1>3, <1>4 DEF mx, my

\* How far one place is ahead of another.
LEMMA Distance ==
    ASSUME NEW x \in Int, NEW y \in Int
    PROVE  /\ x - y \in 0 .. BufferSize - 1 => Mod(Mod(x) - Mod(y)) = x - y
           /\ x - y + BufferSize \in 0 .. BufferSize - 1
                 => Mod(Mod(x) - Mod(y)) = x - y + BufferSize
           /\ y - x \in 0 .. BufferSize - 1
                 => Mod(Mod(x) - Mod(y) - 1) = BufferSize - 1 - (y - x)
  <1> DEFINE mx == Mod(x)
             my == Mod(y)
  <1>1. mx \in Int /\ my \in Int
    BY Ring
  <1>2. Mod(mx - my) = Mod(x - y)
    <2>1. Mod(mx - my + 0) = Mod(x - y + 0)
      BY ModDifference
    <2> HIDE DEF mx, my
    <2>2. mx - my + 0 = mx - my /\ x - y + 0 = x - y
      BY <1>1
    <2> QED  BY <2>1, <2>2
  <1>3. Mod(mx - my - 1) = Mod(x - y - 1)
    <2>1. Mod(mx - my + (-1)) = Mod(x - y + (-1))
      BY ModDifference, -1 \in Int
    <2> HIDE DEF mx, my
    <2>2. mx - my + (-1) = mx - my - 1 /\ x - y + (-1) = x - y - 1
      BY <1>1
    <2> QED  BY <2>1, <2>2
  <1>4. \A z \in Int : Mod(z) = Mod(z + BufferSize)
    <2> TAKE z \in Int
    <2>1. Mod(0) = Mod(BufferSize) /\ 0 \in Int /\ BufferSize \in Int
      BY Ring
    <2>2. Mod(0 + z) = Mod(BufferSize + z)
      BY <2>1, ModSame
    <2>3. 0 + z = z /\ BufferSize + z = z + BufferSize
      BY <2>1
    <2> QED  BY <2>2, <2>3
  <1> HIDE DEF mx, my
  <1>5. x - y \in 0 .. BufferSize - 1 => Mod(mx - my) = x - y
    BY <1>2, Ring
  <1>6. x - y + BufferSize \in 0 .. BufferSize - 1 => Mod(mx - my) = x - y + BufferSize
    BY <1>2, <1>4, Ring
  <1>7. y - x \in 0 .. BufferSize - 1 => Mod(mx - my - 1) = BufferSize - 1 - (y - x)
    <2> SUFFICES ASSUME y - x \in 0 .. BufferSize - 1
                 PROVE  Mod(mx - my - 1) = BufferSize - 1 - (y - x)
      OBVIOUS
    <2> DEFINE z == x - y - 1
    <2>1. z \in Int /\ z + BufferSize \in 0 .. BufferSize - 1
          /\ z + BufferSize = BufferSize - 1 - (y - x)
      BY Ring
    <2>2. Mod(z) = Mod(z + BufferSize)
      BY <1>4, <2>1
    <2> HIDE DEF z
    <2>3. Mod(mx - my - 1) = z + BufferSize
      BY <1>3, <2>1, <2>2, Ring DEF z
    <2> QED  BY <2>1, <2>3
  <1> QED  BY <1>5, <1>6, <1>7 DEF mx, my

-------------------------------------------------------------------------------
(* The ring and drain().                                                   *)

RingTypes ==
    /\ buffer \in [0 .. BufferSize - 1 -> 0 .. 255]
    /\ wpos \in 0 .. BufferSize - 1 /\ rpos \in 0 .. BufferSize - 1
    /\ rdWPos \in 0 .. BufferSize - 1 /\ rest \in 0 .. BufferSize - 1
    /\ pc \in {"idle", "resume", "parse"}
    /\ s \in 0 .. end /\ end \in 0 .. BufferSize
    /\ accepted \in Bytes /\ consumed \in Nat /\ replies \in Nat
    /\ stream \in Streams /\ arrived \in 0 .. Len(stream.bytes)
    /\ Len(accepted) <= arrived

\* How many of the bytes stored drain() has released, and how many it will have
\* when it is done.
Base == Len(accepted) - Mod(wpos - rpos)
Snap == consumed + (end - s) + rest

\* What is stored and not released is in the ring, and what is handed over are
\* the next bytes of it.
RingHolds ==
    /\ 0 <= Base /\ Base <= consumed /\ consumed <= Len(accepted)
    /\ rpos = Mod(Base) /\ wpos = Mod(Len(accepted))
    /\ \A n \in Base .. Len(accepted) - 1 : buffer[Mod(n)] = accepted[n + 1]
    /\ pc = "idle" => consumed = Base
    /\ pc # "idle" => /\ Snap <= Len(accepted) /\ rdWPos = Mod(Snap)
                      /\ Mod(consumed) = Mod(s)
                      /\ rest > 0 => end = BufferSize

LEMMA HostIs ==
    ASSUME NEW h, IsHost(h)
    PROVE  /\ h.bytes \in Bytes /\ Len(h.bytes) \in Nat
           /\ \A n \in Nat : /\ ReleasedAfter(h, n) \in 0 .. Len(h.bytes)
                             /\ ReleasedAfter(h, n) <= ReleasedAfter(h, n + 1)
  <1> DEFINE w == h.waits
             L == Len(h.bytes)
  <1>1. h.bytes \in Bytes /\ L \in Nat /\ w \in Seq(1 .. L)
    BY DEF IsHost, Bytes
  <1>2. \A j, k \in 1 .. Len(w) : j <= k => w[j] <= w[k]
    BY DEF IsHost
  <1> HIDE DEF w, L
  <1>3. Len(w) \in Nat /\ \A k \in 1 .. Len(w) : w[k] \in 1 .. L
    BY <1>1
  <1>4. ASSUME NEW n \in Nat PROVE ReleasedAfter(h, n) \in 0 .. L
    <2>1. CASE n < Len(w)
      <3>1. n + 1 \in 1 .. Len(w)
        BY <1>3, <2>1
      <3> QED  BY <1>1, <1>3, <2>1, <3>1 DEF ReleasedAfter, w
    <2>2. CASE ~(n < Len(w))
      BY <1>1, <2>2 DEF ReleasedAfter, w, L
    <2> QED  BY <2>1, <2>2
  <1>5. ASSUME NEW n \in Nat PROVE ReleasedAfter(h, n) <= ReleasedAfter(h, n + 1)
    <2>1. CASE n + 1 < Len(w)
      <3>1. n + 1 \in 1 .. Len(w) /\ n + 2 \in 1 .. Len(w) /\ n < Len(w) /\ n + 1 <= n + 2
        BY <1>3, <2>1
      <3>2. w[n + 1] <= w[n + 2] /\ (n + 1) + 1 = n + 2
        BY <1>2, <3>1
      <3> QED  BY <2>1, <3>1, <3>2 DEF ReleasedAfter, w
    <2>2. CASE ~(n + 1 < Len(w))
      <3>1. ReleasedAfter(h, n + 1) = L
        BY <2>2 DEF ReleasedAfter, w, L
      <3> QED  BY <1>1, <1>4, <3>1
    <2> QED  BY <2>1, <2>2
  <1> QED  BY <1>1, <1>4, <1>5 DEF L

LEMMA Hosts ==
    ASSUME NEW h \in Streams
    PROVE  /\ h.bytes \in Bytes /\ Len(h.bytes) \in Nat
           /\ \A n \in Nat : /\ ReleasedAfter(h, n) \in 0 .. Len(h.bytes)
                             /\ ReleasedAfter(h, n) <= ReleasedAfter(h, n + 1)
  <1>1. IsHost(h)
    BY LinkAssumption
  <1> QED  BY <1>1, HostIs

\* The ring has room for what was not released, less one.
LEMMA Room ==
    ASSUME RingTypes, RingHolds
    PROVE  /\ Base \in Nat /\ Len(accepted) \in Nat
           /\ Len(accepted) - Base \in 0 .. BufferSize - 1
           /\ SpaceLeft(rpos, wpos) = BufferSize - 1 - (Len(accepted) - Base)
  <1>1. Len(accepted) \in Nat
    BY DEF RingTypes, Bytes
  <1>2. wpos \in Int /\ rpos \in Int /\ BufferSize \in Int
    BY Ring DEF RingTypes
  <1>3. Mod(wpos - rpos) \in 0 .. BufferSize - 1
    <2>1. wpos - rpos \in Int
      BY <1>2
    <2> QED  BY <2>1, Ring
  <1>4. Base \in Nat /\ Len(accepted) - Base \in 0 .. BufferSize - 1
    <2> DEFINE m == Mod(wpos - rpos)
    <2>1. m \in 0 .. BufferSize - 1 /\ Base = Len(accepted) - m /\ 0 <= Base
      BY <1>3 DEF Base, RingHolds
    <2> HIDE DEF m
    <2> QED  BY <1>1, <1>2, <2>1
  <1>5. SpaceLeft(rpos, wpos) = Mod(Mod(Base) - Mod(Len(accepted)) - 1)
    BY DEF SpaceLeft, Mod, RingHolds
  <1>6. Mod(Mod(Base) - Mod(Len(accepted)) - 1) = BufferSize - 1 - (Len(accepted) - Base)
    <2>1. Base \in Int /\ Len(accepted) \in Int
      BY <1>1, <1>4
    <2> HIDE DEF Base
    <2> QED  BY <1>4, <2>1, Distance
  <1> QED  BY <1>1, <1>4, <1>5, <1>6

\* What input() stores of a packet of n bytes.
Stored(n) ==
    SubSeq(stream.bytes, arrived + 1,
           arrived + IF n > SpaceLeft(rpos, wpos) THEN SpaceLeft(rpos, wpos) ELSE n)

LEMMA InputStores ==
    ASSUME RingTypes, RingHolds, NEW n \in Nat, Input(n)
    PROVE  /\ Stored(n) \in Bytes
           /\ Len(Stored(n)) = IF n > SpaceLeft(rpos, wpos) THEN SpaceLeft(rpos, wpos)
                                                           ELSE n
           /\ Len(Stored(n)) \in Nat /\ Len(Stored(n)) <= n
           /\ Len(Stored(n)) <= SpaceLeft(rpos, wpos)
           /\ arrived + n <= Released /\ arrived + n <= Len(stream.bytes)
           /\ accepted' = accepted \o Stored(n)
           /\ \A k \in 1 .. Len(Stored(n)) : Stored(n)[k] = stream.bytes[arrived + k]
  <1> DEFINE sl  == SpaceLeft(rpos, wpos)
             len == IF n > sl THEN sl ELSE n
             b   == stream.bytes
  <1>1. sl \in Nat
    <2> DEFINE held == Len(accepted) - Base
    <2>1. sl = BufferSize - 1 - held /\ held \in 0 .. BufferSize - 1 /\ BufferSize \in Int
      BY Room, Ring
    <2> HIDE DEF held, sl
    <2> QED  BY <2>1
  <1>2. b \in Bytes /\ Len(b) \in Nat /\ Released <= Len(b) /\ Released \in Int
    <2>1. ReleasedAfter(stream, replies) \in 0 .. Len(b) /\ b \in Bytes /\ Len(b) \in Nat
      BY Hosts DEF RingTypes
    <2> HIDE DEF b
    <2> QED  BY <2>1 DEF Released
  <1>3. arrived + n <= Released /\ arrived \in Nat
    BY DEF Input, RingTypes
  <1>4. Stored(n) = SubSeq(b, arrived + 1, arrived + len)
    BY DEF Stored
  <1>5. accepted' = accepted \o Stored(n)
    BY DEF Input, Stored
  <1> HIDE DEF sl, b
  <1>6. len \in Nat /\ len <= n /\ len <= sl
    BY <1>1
  <1> HIDE DEF len
  <1>7. arrived + 1 \in Int /\ arrived + 1 >= 1 /\ arrived + len \in Int
        /\ arrived + len <= Len(b) /\ (arrived + len) - (arrived + 1) + 1 = len
        /\ arrived + n <= Len(b)
    BY <1>2, <1>3, <1>6
  <1>8. /\ Stored(n) \in Bytes
        /\ Len(Stored(n)) = IF arrived + 1 <= arrived + len THEN len ELSE 0
        /\ \A k \in 1 .. len : Stored(n)[k] = b[(arrived + 1) + k - 1]
    BY <1>2, <1>4, <1>7, PartOf
  <1>9. Len(Stored(n)) = len
    BY <1>3, <1>6, <1>8
  <1>10. \A k \in 1 .. len : (arrived + 1) + k - 1 = arrived + k
    BY <1>3, <1>6
  <1>11. \A k \in 1 .. len : Stored(n)[k] = b[arrived + k]
    <2> TAKE k \in 1 .. len
    <2>1. Stored(n)[k] = b[(arrived + 1) + k - 1] /\ (arrived + 1) + k - 1 = arrived + k
      BY <1>8, <1>10
    <2> QED  BY <2>1
  <1>12. Len(Stored(n)) = IF n > SpaceLeft(rpos, wpos) THEN SpaceLeft(rpos, wpos) ELSE n
    BY <1>9 DEF len, sl
  <1> QED  BY <1>3, <1>5, <1>6, <1>7, <1>8, <1>9, <1>11, <1>12 DEF b, sl

LEMMA InputRing ==
    ASSUME RingTypes, RingHolds, NEW n \in Nat, Input(n)
    PROVE  RingTypes' /\ RingHolds' /\ Base' = Base
  <1> DEFINE st == Stored(n)
             L  == Len(accepted)
             ln == Len(st)
             a2 == accepted \o st
  <1>1. /\ st \in Bytes /\ ln \in Nat /\ ln <= n /\ ln <= BufferSize - 1 - (L - Base)
        /\ arrived + n <= Len(stream.bytes) /\ accepted' = a2
    BY InputStores, Room
  <1>2. /\ Base \in Nat /\ L \in Nat /\ L - Base \in 0 .. BufferSize - 1
        /\ BufferSize \in Int /\ accepted \in Bytes
    BY Room, Ring DEF RingTypes
  <1>3. /\ a2 \in Bytes /\ Len(a2) = L + ln
        /\ \A k \in 1 .. L : a2[k] = accepted[k]
        /\ \A k \in 1 .. ln : a2[L + k] = st[k]
    <2>1. /\ a2 \in Bytes /\ Len(a2) = L + ln
          /\ \A k \in 1 .. L + ln : a2[k] = IF k <= L THEN accepted[k] ELSE st[k - L]
      BY <1>1, <1>2, ConcatProperties DEF Bytes
    <2> HIDE DEF a2, st, L, ln
    <2>2. \A k \in 1 .. L : a2[k] = accepted[k]
      BY <1>1, <1>2, <2>1
    <2>3. \A k \in 1 .. ln : a2[L + k] = st[k]
      <3> TAKE k \in 1 .. ln
      <3>1. L + k \in 1 .. L + ln /\ ~(L + k <= L) /\ (L + k) - L = k
        BY <1>1, <1>2
      <3> QED  BY <2>1, <3>1
    <2> QED  BY <2>1, <2>2, <2>3
  <1>4. wpos' = Mod(L + ln)
    <2>1. wpos' = Mod(wpos + ln)
      BY InputStores DEF Input, Mod
    <2>2. Mod(wpos) = Mod(L) /\ wpos \in Int
      <3>1. wpos \in 0 .. BufferSize - 1 /\ wpos = Mod(L)
        BY DEF RingTypes, RingHolds
      <3> QED  BY <3>1, Ring
    <2> HIDE DEF L, ln
    <2>3. L \in Int /\ ln \in Int
      BY <1>1, <1>2
    <2>4. Mod(wpos + ln) = Mod(L + ln)
      BY <2>2, <2>3, ModSame
    <2> QED  BY <2>1, <2>4
  <1>5. UNCHANGED <<rpos, rdWPos, pc, s, end, rest, consumed, stream, replies>>
        /\ arrived' = arrived + n
    BY DEF Input, draining
  <1>6. Base' = Base
    <2>1. Base' = Len(accepted') - Mod(wpos' - rpos')
      BY DEF Base
    <2>2. rpos' = Mod(Base)
      BY <1>5 DEF RingHolds
    <2> HIDE DEF L, ln, Base, a2
    <2>3. L + ln \in Int /\ Base \in Int /\ (L + ln) - Base \in 0 .. BufferSize - 1
      BY <1>1, <1>2
    <2>4. Mod(Mod(L + ln) - Mod(Base)) = (L + ln) - Base
      BY <2>3, Distance
    <2>5. Base' = (L + ln) - ((L + ln) - Base)
      BY <1>1, <1>3, <1>4, <2>1, <2>2, <2>4
    <2> QED  BY <1>1, <1>2, <2>5
  <1>7. \A i \in 0 .. BufferSize - 1 :
            buffer'[i] = IF Mod(i - wpos) < ln THEN st[Mod(i - wpos) + 1] ELSE buffer[i]
    <2>1. ln = IF n > SpaceLeft(rpos, wpos) THEN SpaceLeft(rpos, wpos) ELSE n
      BY InputStores
    <2> QED  BY <2>1 DEF Input, Mod, Stored
  <1>8. buffer' \in [0 .. BufferSize - 1 -> 0 .. 255]
    <2>1. buffer' = [i \in 0 .. BufferSize - 1 |-> buffer'[i]]
      BY DEF Input
    <2>2. \A i \in 0 .. BufferSize - 1 : buffer'[i] \in 0 .. 255
      <3> TAKE i \in 0 .. BufferSize - 1
      <3> DEFINE k == Mod(i - wpos)
      <3>1. k \in 0 .. BufferSize - 1 /\ buffer[i] \in 0 .. 255
        <4>1. i - wpos \in Int
          BY Ring DEF RingTypes
        <4> QED  BY <4>1, Ring DEF RingTypes
      <3> HIDE DEF k, ln, st
      <3>2. k < ln => st[k + 1] \in 0 .. 255
        <4> SUFFICES ASSUME k < ln PROVE st[k + 1] \in 0 .. 255
          OBVIOUS
        <4>1. k + 1 \in Int /\ k + 1 >= 1 /\ k + 1 <= ln
          BY <1>1, <3>1
        <4> QED  BY <1>1, <4>1, ByteOf DEF ln
      <3> QED  BY <1>7, <3>1, <3>2 DEF k
    <2> QED  BY <2>1, <2>2
  <1>9. ASSUME NEW m \in Base .. L + ln - 1 PROVE buffer'[Mod(m)] = a2[m + 1]
    <2>1. m \in Int /\ m >= Base /\ m <= L + ln - 1 /\ Mod(m) \in 0 .. BufferSize - 1
      <3> HIDE DEF Base, L, ln
      <3>1. m \in Int /\ m >= Base /\ m <= L + ln - 1
        BY <1>1, <1>2
      <3> QED  BY <3>1, Ring
    <2>2. wpos = Mod(L)
      BY DEF RingHolds
    <2> DEFINE k == Mod(Mod(m) - wpos)
    <2>3. buffer'[Mod(m)] = IF k < ln THEN st[k + 1] ELSE buffer[Mod(m)]
      BY <1>7, <2>1
    <2>4. CASE m < L
      <3>1. k = m - L + BufferSize
        <4> HIDE DEF Base, L
        <4>1. m - L + BufferSize \in 0 .. BufferSize - 1 /\ L \in Int
          BY <1>1, <1>2, <2>1, <2>4
        <4>2. Mod(Mod(m) - Mod(L)) = m - L + BufferSize
          BY <2>1, <4>1, Distance
        <4> QED  BY <2>2, <4>2
      <3>2. ~(k < ln)
        <4> HIDE DEF k, Base, L, ln
        <4> QED  BY <1>1, <1>2, <2>1, <3>1
      <3>3. buffer[Mod(m)] = accepted[m + 1]
        <4>1. m \in Base .. Len(accepted) - 1
          <5> HIDE DEF Base
          <5> QED  BY <1>2, <2>1, <2>4
        <4> QED  BY <4>1 DEF RingHolds
      <3>4. a2[m + 1] = accepted[m + 1]
        <4> HIDE DEF Base, L, a2
        <4>1. m + 1 \in 1 .. L
          BY <1>2, <2>1, <2>4
        <4> QED  BY <1>3, <4>1
      <3> QED  BY <2>3, <3>2, <3>3, <3>4
    <2>5. CASE m >= L
      <3>1. k = m - L
        <4> HIDE DEF Base, L, ln
        <4>1. m - L \in 0 .. BufferSize - 1 /\ L \in Int
          BY <1>1, <1>2, <2>1, <2>5
        <4>2. Mod(Mod(m) - Mod(L)) = m - L
          BY <2>1, <4>1, Distance
        <4> QED  BY <2>2, <4>2
      <3> HIDE DEF k, L, ln, a2, st, Base
      <3>2. k < ln /\ k + 1 \in 1 .. ln /\ L + (k + 1) = m + 1
        BY <1>1, <1>2, <2>1, <2>5, <3>1
      <3>3. a2[L + (k + 1)] = st[k + 1]
        BY <1>3, <3>2
      <3> QED  BY <2>3, <3>2, <3>3
    <2>6. m < L \/ m >= L
      BY <1>2, <2>1
    <2> QED  BY <2>4, <2>5, <2>6
  <1>10. RingTypes'
    <2>1. wpos' \in 0 .. BufferSize - 1
      <3> HIDE DEF L, ln
      <3>1. L + ln \in Int
        BY <1>1, <1>2
      <3> QED  BY <1>4, <3>1, Ring
    <2>2. accepted' \in Bytes /\ Len(accepted') = L + ln
      BY <1>1, <1>3
    <2>3. arrived + n \in 0 .. Len(stream.bytes) /\ L + ln <= arrived + n
      <3>1. Len(stream.bytes) \in Nat
        BY Hosts DEF RingTypes
      <3>2. arrived \in 0 .. Len(stream.bytes) /\ L <= arrived
        BY DEF RingTypes
      <3> DEFINE z == Len(stream.bytes)
      <3> HIDE DEF L, ln, z
      <3>3. z \in Nat /\ arrived \in 0 .. z /\ arrived + n <= z
        BY <1>1, <3>1, <3>2 DEF z
      <3>4. arrived + n \in 0 .. z /\ L + ln <= arrived + n
        BY <1>1, <1>2, <3>2, <3>3
      <3> QED  BY <3>4 DEF z
    <2> QED  BY <1>5, <1>8, <2>1, <2>2, <2>3 DEF RingTypes
  <1>11. RingHolds'
    <2>1. Len(accepted') = L + ln
      BY <1>1, <1>3
    <2>2. rpos' = Mod(Base') /\ wpos' = Mod(Len(accepted'))
      BY <1>4, <1>5, <1>6, <2>1 DEF RingHolds
    <2>3. consumed <= L /\ Base <= consumed /\ 0 <= Base /\ consumed \in Nat
      BY DEF RingHolds, RingTypes
    <2>4. consumed <= L + ln
      <3> HIDE DEF L, ln
      <3> QED  BY <1>1, <1>2, <2>3
    <2>5. \A m \in Base' .. Len(accepted') - 1 : buffer'[Mod(m)] = accepted'[m + 1]
      <3>1. \A m \in Base .. L + ln - 1 : buffer'[Mod(m)] = accepted'[m + 1]
        BY <1>1, <1>9
      <3>2. Base' = Base /\ Len(accepted') - 1 = L + ln - 1
        BY <1>6, <2>1
      <3> HIDE DEF L, ln, a2, st, Base
      <3>3. Base' .. Len(accepted') - 1 = Base .. L + ln - 1
        BY <3>2
      <3> QED  BY <3>1, <3>3
    <2>6. Snap' = Snap
      BY <1>5 DEF Snap
    <2>7. pc # "idle" => Snap <= L + ln
      <3> SUFFICES ASSUME pc # "idle" PROVE Snap <= L + ln
        OBVIOUS
      <3>1. Snap <= L /\ Snap \in Int
        BY Ring DEF RingHolds, Snap, RingTypes
      <3> HIDE DEF Snap, L, ln
      <3> QED  BY <1>1, <1>2, <3>1
    <2>8. pc' = "idle" => consumed' = Base'
      BY <1>5, <1>6 DEF RingHolds
    <2>9. pc' # "idle" => /\ Snap' <= Len(accepted') /\ rdWPos' = Mod(Snap')
                          /\ Mod(consumed') = Mod(s') /\ (rest' > 0 => end' = BufferSize)
      BY <1>5, <2>1, <2>6, <2>7 DEF RingHolds
    <2>10. 0 <= Base' /\ Base' <= consumed' /\ consumed' <= Len(accepted')
      BY <1>5, <1>6, <2>1, <2>3, <2>4
    <2> QED  BY <2>2, <2>5, <2>8, <2>9, <2>10 DEF RingHolds
  <1> QED  BY <1>6, <1>10, <1>11

LEMMA BeginRing ==
    ASSUME RingTypes, RingHolds, BeginDrain
    PROVE  /\ RingTypes' /\ RingHolds' /\ Base' = Base
           /\ Snap' = Len(accepted) /\ s' < end'
  <1>1. /\ pc = "idle" /\ rpos # wpos /\ rdWPos' = wpos /\ s' = rpos
        /\ IF wpos > rpos THEN end' = wpos /\ rest' = 0
                          ELSE end' = BufferSize /\ rest' = wpos
        /\ pc' \in {"resume", "parse"}
        /\ UNCHANGED <<buffer, wpos, rpos, accepted, arrived, stream, consumed, replies>>
    BY DEF BeginDrain, HasBytes, EntryPoint, ring, host
  <1>2. /\ wpos \in 0 .. BufferSize - 1 /\ rpos \in 0 .. BufferSize - 1
        /\ BufferSize \in Int /\ BufferSize > 1 /\ wpos \in Int /\ rpos \in Int
        /\ consumed \in Nat /\ Len(accepted) \in Nat /\ Base \in Nat /\ consumed = Base
    BY <1>1, Room, Ring DEF RingTypes, RingHolds
  <1>3. Mod(wpos) = wpos /\ Mod(rpos) = rpos
    BY <1>2, Ring
  <1>4. s' \in 0 .. end' /\ s' < end' /\ end' \in 0 .. BufferSize
        /\ rest' \in 0 .. BufferSize - 1 /\ (rest' > 0 => end' = BufferSize)
    <2>1. CASE wpos > rpos
      <3>1. end' = wpos /\ rest' = 0 /\ s' = rpos
        BY <1>1, <2>1
      <3> QED  BY <1>2, <2>1, <3>1
    <2>2. CASE ~(wpos > rpos)
      <3>1. end' = BufferSize /\ rest' = wpos /\ s' = rpos
        BY <1>1, <2>2
      <3> QED  BY <1>2, <2>2, <3>1
    <2> QED  BY <2>1, <2>2
  <1>5. Base' = Base
    BY <1>1 DEF Base
  <1>6. Base + (end' - s') + rest' = Len(accepted)
    <2> DEFINE m == Mod(wpos - rpos)
    <2>1. Base = Len(accepted) - m
      BY DEF Base
    <2>2. CASE wpos > rpos
      <3>1. wpos - rpos \in 0 .. BufferSize - 1
        BY <1>2, <2>2
      <3>2. m = wpos - rpos
        BY <1>2, <1>3, <3>1, Distance
      <3>3. end' = wpos /\ rest' = 0 /\ s' = rpos
        BY <1>1, <2>2
      <3> HIDE DEF m, Base
      <3> QED  BY <1>2, <2>1, <3>2, <3>3
    <2>3. CASE ~(wpos > rpos)
      <3>1. wpos - rpos + BufferSize \in 0 .. BufferSize - 1
        BY <1>1, <1>2, <2>3
      <3>2. m = wpos - rpos + BufferSize
        BY <1>2, <1>3, <3>1, Distance
      <3>3. end' = BufferSize /\ rest' = wpos /\ s' = rpos
        BY <1>1, <2>3
      <3> HIDE DEF m, Base
      <3> QED  BY <1>2, <2>1, <3>2, <3>3
    <2> QED  BY <2>2, <2>3
  <1>7. Snap' = Len(accepted)
    BY <1>1, <1>2, <1>6 DEF Snap
  <1>8. RingTypes'
    BY <1>1, <1>2, <1>4 DEF RingTypes
  <1>9. RingHolds'
    <2>1. rdWPos' = Mod(Snap')
      BY <1>1, <1>7 DEF RingHolds
    <2>2. Mod(consumed') = Mod(s')
      <3>1. Mod(consumed) = rpos
        BY <1>2 DEF RingHolds
      <3> QED  BY <1>1, <1>3, <3>1
    <2>3. Snap' <= Len(accepted')
      BY <1>1, <1>2, <1>7
    <2> QED  BY <1>1, <1>4, <1>5, <2>1, <2>2, <2>3 DEF RingHolds
  <1> QED  BY <1>4, <1>5, <1>7, <1>8, <1>9

LEMMA NextRing ==
    ASSUME RingTypes, RingHolds, NextChunk
    PROVE  RingTypes' /\ RingHolds' /\ Base' = Base /\ Snap' = Snap
  <1>1. /\ pc = "parse" /\ s = end /\ rest > 0 /\ s' = 0 /\ end' = rest /\ rest' = 0
        /\ pc' \in {"resume", "parse"}
        /\ UNCHANGED <<buffer, wpos, rpos, rdWPos, accepted, arrived, stream, consumed,
                       replies>>
    BY DEF NextChunk, EntryPoint, ring, host
  <1>2. Base' = Base
    BY <1>1 DEF Base
  <1>3. rest \in 0 .. BufferSize - 1 /\ BufferSize \in Int /\ BufferSize > 1
        /\ consumed \in Nat /\ end \in 0 .. BufferSize
    BY Ring DEF RingTypes
  <1>4. Snap' = Snap
    <2>1. Snap' = consumed + (rest - 0) + 0 /\ Snap = consumed + (end - end) + rest
      BY <1>1 DEF Snap
    <2> HIDE DEF Snap
    <2> QED  BY <1>3, <2>1
  <1>5. Mod(consumed') = Mod(s')
    <2>1. end = BufferSize /\ Mod(consumed) = Mod(s)
      BY <1>1 DEF RingHolds
    <2>2. Mod(BufferSize) = 0 /\ Mod(0) = 0
      <3>1. 0 \in 0 .. BufferSize - 1
        BY <1>3
      <3> QED  BY <3>1, Ring
    <2> QED  BY <1>1, <2>1, <2>2
  <1>6. s' \in 0 .. end' /\ end' \in 0 .. BufferSize /\ rest' \in 0 .. BufferSize - 1
        /\ ~(rest' > 0)
    BY <1>1, <1>3
  <1>7. RingTypes'
    BY <1>1, <1>6 DEF RingTypes
  <1>8. RingHolds'
    BY <1>1, <1>2, <1>4, <1>5, <1>6 DEF RingHolds
  <1> QED  BY <1>2, <1>4, <1>7, <1>8

LEMMA EndRing ==
    ASSUME RingTypes, RingHolds, EndDrain
    PROVE  RingTypes' /\ RingHolds' /\ Base' = consumed /\ Snap = consumed
  <1>1. /\ pc = "parse" /\ s = end /\ rest = 0 /\ rpos' = rdWPos /\ pc' = "idle"
        /\ UNCHANGED <<buffer, wpos, rdWPos, s, end, rest, accepted, arrived, stream,
                       consumed, replies>>
    BY DEF EndDrain, RPosAfter, host
  <1>2. /\ consumed \in Nat /\ end \in 0 .. BufferSize /\ BufferSize \in Int
        /\ Base \in Nat /\ Len(accepted) \in Nat /\ Len(accepted) - Base \in 0 .. BufferSize - 1
        /\ Base <= consumed /\ consumed <= Len(accepted)
    BY Ring, Room DEF RingTypes, RingHolds
  <1>3. Snap = consumed
    BY <1>1, <1>2 DEF Snap
  <1>4. rpos' = Mod(consumed) /\ wpos' = Mod(Len(accepted))
    BY <1>1, <1>3 DEF RingHolds
  <1>5. Base' = consumed
    <2>1. Base' = Len(accepted) - Mod(Mod(Len(accepted)) - Mod(consumed))
      BY <1>1, <1>4 DEF Base
    <2>2. Len(accepted) - consumed \in 0 .. BufferSize - 1
      <3> HIDE DEF Base
      <3> QED  BY <1>2
    <2>3. Mod(Mod(Len(accepted)) - Mod(consumed)) = Len(accepted) - consumed
      <3>1. Len(accepted) \in Int /\ consumed \in Int
        BY <1>2
      <3> QED  BY <2>2, <3>1, Distance
    <2>4. Base' = Len(accepted) - (Len(accepted) - consumed)
      BY <2>1, <2>3
    <2> QED  BY <1>2, <2>4
  <1>6. RingTypes'
    BY <1>1 DEF RingTypes
  <1>7. \A n \in Base' .. Len(accepted') - 1 : buffer'[Mod(n)] = accepted'[n + 1]
    <2>1. \A n \in consumed .. Len(accepted) - 1 : n \in Base .. Len(accepted) - 1
      <3> HIDE DEF Base
      <3> QED  BY <1>2
    <2>2. \A n \in consumed .. Len(accepted) - 1 : buffer[Mod(n)] = accepted[n + 1]
      BY <2>1 DEF RingHolds
    <2>3. Base' .. Len(accepted') - 1 = consumed .. Len(accepted) - 1
      BY <1>1, <1>5
    <2> QED  BY <1>1, <2>2, <2>3
  <1>8. RingHolds'
    BY <1>1, <1>2, <1>4, <1>5, <1>7 DEF RingHolds
  <1> QED  BY <1>3, <1>5, <1>6, <1>8

\* handleInput() goes on in its chunk.
LEMMA TakeRing ==
    ASSUME RingTypes, RingHolds, pc # "idle", pc' \in {"resume", "parse"},
           NEW n \in Nat, n <= end - s, NEW made, Take(n, made)
    PROVE  RingTypes' /\ RingHolds' /\ Base' = Base /\ Snap' = Snap
  <1>1. /\ s' = s + n /\ consumed' = consumed + n
        /\ replies' = replies + (IF made = ReplyCall THEN 1 ELSE 0)
        /\ UNCHANGED <<buffer, wpos, rpos, rdWPos, end, rest, accepted, arrived, stream>>
    BY DEF Take, ring, host
  <1>2. /\ s \in 0 .. end /\ end \in 0 .. BufferSize /\ BufferSize \in Int
        /\ consumed \in Nat /\ rest \in 0 .. BufferSize - 1 /\ replies \in Nat
        /\ Base \in Nat /\ Base <= consumed /\ Len(accepted) \in Nat
    BY Ring, Room DEF RingTypes, RingHolds
  <1>3. Base' = Base
    BY <1>1 DEF Base
  <1>4. Snap' = Snap
    <2>1. Snap' = (consumed + n) + (end - (s + n)) + rest
          /\ Snap = consumed + (end - s) + rest
      BY <1>1 DEF Snap
    <2> HIDE DEF Snap
    <2> QED  BY <1>2, <2>1
  <1>5. Mod(consumed') = Mod(s')
    <2>1. consumed \in Int /\ s \in Int /\ n \in Int /\ Mod(consumed) = Mod(s)
      BY <1>2 DEF RingHolds
    <2>2. Mod(consumed + n) = Mod(s + n)
      BY <2>1, ModSame
    <2> QED  BY <1>1, <2>2
  <1>6. s' \in 0 .. end' /\ consumed' \in Nat /\ replies' \in Nat /\ Base <= consumed'
    <2> HIDE DEF Base
    <2>1. (IF made = ReplyCall THEN 1 ELSE 0) \in {0, 1}
      OBVIOUS
    <2>2. replies' \in Nat
      BY <1>1, <1>2, <2>1
    <2>3. s' \in 0 .. end' /\ consumed' \in Nat /\ Base <= consumed'
      BY <1>1, <1>2
    <2> QED  BY <2>2, <2>3
  <1>7. consumed' <= Len(accepted')
    <2>1. Snap <= Len(accepted) /\ Snap = consumed + (end - s) + rest
      BY DEF RingHolds, Snap
    <2> HIDE DEF Snap
    <2> QED  BY <1>1, <1>2, <2>1
  <1>8. RingTypes'
    BY <1>1, <1>6 DEF RingTypes
  <1>9. RingHolds'
    <2>1. pc' # "idle"
      OBVIOUS
    <2> QED  BY <1>1, <1>3, <1>4, <1>5, <1>6, <1>7, <2>1 DEF RingHolds
  <1> QED  BY <1>3, <1>4, <1>8, <1>9

\* The chunk's bytes are those that come next.
LEMMA NextBytes ==
    ASSUME RingTypes, RingHolds, pc # "idle"
    PROVE  /\ consumed + (end - s) <= Len(accepted)
           /\ \A j \in 0 .. end - s - 1 : buffer[s + j] = accepted[consumed + j + 1]
  <1>1. /\ s \in 0 .. end /\ end \in 0 .. BufferSize /\ BufferSize \in Int
        /\ consumed \in Nat /\ rest \in 0 .. BufferSize - 1
        /\ Base \in Nat /\ Base <= consumed /\ Len(accepted) \in Nat
    BY Ring, Room DEF RingTypes, RingHolds
  <1>2. consumed + (end - s) <= Len(accepted)
    <2>1. Snap <= Len(accepted) /\ Snap = consumed + (end - s) + rest
      BY DEF RingHolds, Snap
    <2> HIDE DEF Snap
    <2> QED  BY <1>1, <2>1
  <1>3. ASSUME NEW j \in 0 .. end - s - 1
        PROVE  buffer[s + j] = accepted[consumed + j + 1]
    <2>1. consumed \in Int /\ s \in Int /\ j \in Int /\ Mod(consumed) = Mod(s)
      BY <1>1 DEF RingHolds
    <2>2. Mod(consumed + j) = Mod(s + j)
      BY <2>1, ModSame
    <2>3. s + j \in 0 .. BufferSize - 1
      BY <1>1
    <2>4. Mod(s + j) = s + j
      BY <2>3, Ring
    <2>5. consumed + j \in Base .. Len(accepted) - 1
      <3> HIDE DEF Base
      <3> QED  BY <1>1, <1>2
    <2>6. buffer[Mod(consumed + j)] = accepted[consumed + j + 1]
      BY <2>5 DEF RingHolds
    <2> QED  BY <2>2, <2>4, <2>6
  <1> QED  BY <1>2, <1>3

-------------------------------------------------------------------------------
(* Parts of the stream, registers, and the commands of a stream.           *)

LEMMA PartIs ==
    ASSUME NEW b \in Bytes, NEW i \in Int, i >= 1, NEW j \in Int, j <= Len(b),
           NEW d \in Bytes, Len(d) = j - i + 1,
           \A k \in 1 .. Len(d) : d[k] = b[i + k - 1]
    PROVE  SubSeq(b, i, j) = d
  <1> DEFINE t == SubSeq(b, i, j)
  <1>1. /\ t \in Bytes /\ Len(t) = IF i <= j THEN j - i + 1 ELSE 0
        /\ \A k \in 1 .. j - i + 1 : t[k] = b[i + k - 1]
    BY PartOf
  <1> HIDE DEF t
  <1>2. Len(d) \in Nat
    BY DEF Bytes
  <1>3. Len(t) = Len(d)
    BY <1>1, <1>2
  <1>4. \A k \in 1 .. Len(t) : t[k] = d[k]
    BY <1>1, <1>3
  <1>5. t = d
    BY <1>1, <1>3, <1>4, SeqEqual DEF Bytes
  <1> QED  BY <1>5 DEF t

LEMMA FIFOJoin ==
    ASSUME NEW a \in 0 .. 255, NEW d \in Bytes, NEW e \in Bytes
    PROVE  /\ d \o e \in Bytes /\ Len(d \o e) = Len(d) + Len(e)
           /\ \A k \in 1 .. Len(d) : (d \o e)[k] = d[k]
           /\ \A k \in 1 .. Len(e) : (d \o e)[Len(d) + k] = e[k]
           /\ FIFOBytes(a, d \o e) = FIFOBytes(a, d) \o FIFOBytes(a, e)
  <1> DEFINE g == d \o e
             x == FIFOBytes(a, d)
             y == FIFOBytes(a, e)
             z == FIFOBytes(a, g)
  <1>1. Len(d) \in Nat /\ Len(e) \in Nat
    BY DEF Bytes
  <1>2. /\ g \in Bytes /\ Len(g) = Len(d) + Len(e)
        /\ \A k \in 1 .. Len(d) + Len(e) : g[k] = IF k <= Len(d) THEN d[k] ELSE e[k - Len(d)]
    BY ConcatProperties DEF Bytes
  <1>3. /\ x \in Calls /\ Len(x) = Len(d)
        /\ \A k \in 1 .. Len(d) : x[k] = [to |-> "fifo", address |-> a, data |-> <<d[k]>>]
    BY FIFOBytesAre
  <1>4. /\ y \in Calls /\ Len(y) = Len(e)
        /\ \A k \in 1 .. Len(e) : y[k] = [to |-> "fifo", address |-> a, data |-> <<e[k]>>]
    BY FIFOBytesAre
  <1>5. /\ z \in Calls /\ Len(z) = Len(g)
        /\ \A k \in 1 .. Len(g) : z[k] = [to |-> "fifo", address |-> a, data |-> <<g[k]>>]
    <2> HIDE DEF g
    <2> QED  BY <1>2, FIFOBytesAre
  <1>6. /\ x \o y \in Calls /\ Len(x \o y) = Len(d) + Len(e)
        /\ \A k \in 1 .. Len(d) + Len(e) :
              (x \o y)[k] = IF k <= Len(d) THEN x[k] ELSE y[k - Len(d)]
    <2>1. x \in Seq(Call) /\ y \in Seq(Call) /\ Len(x) = Len(d) /\ Len(y) = Len(e)
      BY <1>3, <1>4 DEF Calls
    <2> HIDE DEF x, y
    <2>2. /\ x \o y \in Seq(Call) /\ Len(x \o y) = Len(x) + Len(y)
          /\ \A k \in 1 .. Len(x) + Len(y) :
                (x \o y)[k] = IF k <= Len(x) THEN x[k] ELSE y[k - Len(x)]
      BY <2>1, ConcatProperties
    <2> QED  BY <2>1, <2>2 DEF Calls
  <1> HIDE DEF g, x, y, z
  <1>7. \A k \in 1 .. Len(e) : g[Len(d) + k] = e[k]
    <2> TAKE k \in 1 .. Len(e)
    <2>1. Len(d) + k \in 1 .. Len(d) + Len(e) /\ ~(Len(d) + k <= Len(d))
          /\ (Len(d) + k) - Len(d) = k
      BY <1>1
    <2> QED  BY <1>2, <2>1
  <1>8. \A k \in 1 .. Len(d) : g[k] = d[k]
    BY <1>1, <1>2
  <1>9. \A k \in 1 .. Len(z) : z[k] = (x \o y)[k]
    <2> SUFFICES ASSUME NEW k \in 1 .. Len(d) + Len(e) PROVE z[k] = (x \o y)[k]
      BY <1>2, <1>5
    <2>1. CASE k <= Len(d)
      <3>1. k \in 1 .. Len(d)
        BY <1>1, <2>1
      <3>2. g[k] = d[k] /\ (x \o y)[k] = x[k]
        BY <1>2, <1>6, <2>1
      <3> QED  BY <1>2, <1>3, <1>5, <3>1, <3>2
    <2>2. CASE ~(k <= Len(d))
      <3>1. k - Len(d) \in 1 .. Len(e)
        BY <1>1, <2>2
      <3>2. g[k] = e[k - Len(d)] /\ (x \o y)[k] = y[k - Len(d)]
        BY <1>2, <1>6, <2>2
      <3> QED  BY <1>2, <1>4, <1>5, <3>1, <3>2
    <2> QED  BY <2>1, <2>2
  <1>10. z = x \o y
    BY <1>2, <1>5, <1>6, <1>9, SeqEqual DEF Calls
  <1> QED  BY <1>2, <1>7, <1>8, <1>10 DEF g, x, y, z

LEMMA Addresses ==
    /\ \A x \in Int : Byte(x) \in 0 .. 255 /\ Byte(Byte(x) + 1) = Byte(x + 1)
    /\ \A x \in 0 .. 255 : Byte(x) = x
    /\ \A x, y \in Int : x < y /\ y < x + 256 => Byte(x) # Byte(y)
  BY DEF Byte

\* The registers written hold bytes.
RegistersHold(r) == \A a \in DOMAIN r : r[a] \in 0 .. 255

LEMMA Registers ==
    ASSUME NEW r, RegistersHold(r), NEW a, NEW v \in 0 .. 255
    PROVE  /\ RegistersHold(SetReg(r, a, v))
           /\ Reg(SetReg(r, a, v), a) = v
           /\ \A x : x # a => Reg(SetReg(r, a, v), x) = Reg(r, x)
           /\ \A x : Reg(r, x) \in 0 .. 255
  BY DEF RegistersHold, SetReg, Reg

\* b begins with the first n bytes of d.
Agrees(b, d, n) == b \in Bytes /\ n <= Len(b) /\ \A k \in 1 .. n : b[k] = d[k]

\* What follows the first p bytes, whatever it is, is read from there, after
\* the calls pre.
Framed(d, p, pre) ==
    \A b \in Bytes : Agrees(b, d, p) => From(b)[1] = pre \o From(b)[p + 1]

\* The bytes from p + 1 to q are whole commands that cause the calls made.
Completes(d, p, q, made) ==
    \A b \in Bytes : Agrees(b, d, q) => From(b)[p + 1] = made \o From(b)[q + 1]

LEMMA FramedStep ==
    ASSUME NEW d, NEW p \in Nat, NEW q \in Nat, p <= q,
           NEW pre \in Calls, NEW made \in Calls,
           Framed(d, p, pre), Completes(d, p, q, made)
    PROVE  Framed(d, q, pre \o made)
  <1> SUFFICES ASSUME NEW b \in Bytes, Agrees(b, d, q)
               PROVE  From(b)[1] = (pre \o made) \o From(b)[q + 1]
    BY DEF Framed
  <1>1. Len(b) \in Nat /\ q <= Len(b)
    BY DEF Agrees, Bytes
  <1>2. Agrees(b, d, p)
    <2>1. p <= Len(b) /\ \A k \in 1 .. p : k \in 1 .. q
      BY <1>1
    <2> QED  BY <2>1 DEF Agrees
  <1>3. From(b)[1] = pre \o From(b)[p + 1]
    BY <1>2 DEF Framed
  <1>4. From(b)[p + 1] = made \o From(b)[q + 1]
    BY DEF Completes
  <1>5. From(b)[q + 1] \in Calls
    <2>1. q + 1 \in 1 .. Len(b) + 1
      BY <1>1
    <2> QED  BY <2>1, FromTyped
  <1> DEFINE t == From(b)[q + 1]
  <1>6. pre \o (made \o t) = (pre \o made) \o t
    <2> HIDE DEF t
    <2> QED  BY <1>5, Joined DEF t
  <1> QED  BY <1>3, <1>4, <1>6

LEMMA Whole ==
    ASSUME NEW d, NEW p \in Nat
    PROVE  /\ d[p + 1] = NOP => Completes(d, p, p + 1, << >>)
           /\ d[p + 1] = INDICATE => Completes(d, p, p + 1, ReplyCall)
           /\ d[p + 1] \in READS
                 => Completes(d, p, p + 2, SendCall(d[p + 2], Width(d[p + 1])))
           /\ d[p + 1] = READFIFO
                 => Completes(d, p, p + 3, ReadFIFOCall(d[p + 2], d[p + 3]))
           /\ d[p + 1] \notin Opcodes => Completes(d, p, p + 3, << >>)
  <1> DEFINE i == p + 1
  <1>1. ASSUME NEW b \in Bytes, NEW n \in 1 .. 3, Agrees(b, d, p + n)
        PROVE  /\ From(b)[i] = Command(b, From(b), i) /\ CommandTable(b, From(b), i)
               /\ b[i] = d[i] /\ From(b)[i + n] \in Calls /\ i + n - 1 <= Len(b)
               /\ \A k \in 1 .. n : b[p + k] = d[p + k]
    <2>1. Len(b) \in Nat /\ p + n <= Len(b)
      BY <1>1 DEF Agrees, Bytes
    <2>2. i \in 1 .. Len(b) /\ i \in 1 .. p + n /\ i + n \in 1 .. Len(b) + 1
          /\ i + n - 1 <= Len(b)
      BY <2>1
    <2>3. From(b)[i] = Command(b, From(b), i) /\ CommandTable(b, From(b), i)
      BY <2>2, FromIs
    <2>4. From(b)[i + n] \in Calls
      BY <2>2, FromTyped
    <2>5. \A k \in 1 .. n : p + k \in 1 .. p + n
      OBVIOUS
    <2>6. b[i] = d[i] /\ \A k \in 1 .. n : b[p + k] = d[p + k]
      BY <1>1, <2>2, <2>5 DEF Agrees
    <2> QED  BY <2>2, <2>3, <2>4, <2>6
  <1>2. i + 1 = (p + 1) + 1 /\ i + 2 = (p + 2) + 1 /\ i + 3 = (p + 3) + 1
        /\ i + 1 = p + 2 /\ i + 2 = p + 3
    OBVIOUS
  <1>3. ASSUME d[p + 1] = NOP PROVE Completes(d, p, p + 1, << >>)
    <2> SUFFICES ASSUME NEW b \in Bytes, Agrees(b, d, p + 1)
                 PROVE  From(b)[i] = << >> \o From(b)[(p + 1) + 1]
      BY DEF Completes
    <2> DEFINE f == From(b)
    <2>1. f[i] = Command(b, f, i) /\ CommandTable(b, f, i) /\ b[i] = d[i] /\ f[i + 1] \in Calls
      BY <1>1
    <2> HIDE DEF f
    <2>2. f[i] = f[i + 1]
      BY <1>3, <2>1 DEF CommandTable
    <2>3. f[i] = << >> \o f[(p + 1) + 1]
      BY <1>2, <2>1, <2>2, Joined
    <2> QED  BY <2>3 DEF f
  <1>4. ASSUME d[p + 1] = INDICATE PROVE Completes(d, p, p + 1, ReplyCall)
    <2> SUFFICES ASSUME NEW b \in Bytes, Agrees(b, d, p + 1)
                 PROVE  From(b)[i] = ReplyCall \o From(b)[(p + 1) + 1]
      BY DEF Completes
    <2> DEFINE f == From(b)
    <2>1. f[i] = Command(b, f, i) /\ CommandTable(b, f, i) /\ b[i] = d[i]
      BY <1>1
    <2> HIDE DEF f
    <2>2. f[i] = ReplyCall \o f[(p + 1) + 1]
      BY <1>2, <1>4, <2>1 DEF CommandTable
    <2> QED  BY <2>2 DEF f
  <1>5. ASSUME d[p + 1] \in READS
        PROVE  Completes(d, p, p + 2, SendCall(d[p + 2], Width(d[p + 1])))
    <2> SUFFICES ASSUME NEW b \in Bytes, Agrees(b, d, p + 2)
                 PROVE  From(b)[i] = SendCall(d[p + 2], Width(d[p + 1])) \o From(b)[(p + 2) + 1]
      BY DEF Completes
    <2> DEFINE f == From(b)
    <2>1. /\ f[i] = Command(b, f, i) /\ CommandTable(b, f, i) /\ b[i] = d[i]
          /\ i + 2 - 1 <= Len(b) /\ \A k \in 1 .. 2 : b[p + k] = d[p + k]
      BY <1>1
    <2> HIDE DEF f
    <2>2. b[i + 1] = d[p + 2]
      BY <1>2, <2>1
    <2>3. f[i] = SendCall(d[p + 2], Width(d[p + 1])) \o f[(p + 2) + 1]
      BY <1>2, <1>5, <2>1, <2>2 DEF CommandTable
    <2> QED  BY <2>3 DEF f
  <1>6. ASSUME d[p + 1] = READFIFO
        PROVE  Completes(d, p, p + 3, ReadFIFOCall(d[p + 2], d[p + 3]))
    <2> SUFFICES ASSUME NEW b \in Bytes, Agrees(b, d, p + 3)
                 PROVE  From(b)[i] = ReadFIFOCall(d[p + 2], d[p + 3]) \o From(b)[(p + 3) + 1]
      BY DEF Completes
    <2> DEFINE f == From(b)
    <2>1. /\ f[i] = Command(b, f, i) /\ CommandTable(b, f, i) /\ b[i] = d[i]
          /\ i + 3 - 1 <= Len(b) /\ \A k \in 1 .. 3 : b[p + k] = d[p + k]
      BY <1>1
    <2> HIDE DEF f
    <2>2. b[i + 1] = d[p + 2] /\ b[i + 2] = d[p + 3]
      BY <1>2, <2>1
    <2>3. f[i] = ReadFIFOCall(d[p + 2], d[p + 3]) \o f[(p + 3) + 1]
      BY <1>2, <1>6, <2>1, <2>2 DEF CommandTable
    <2> QED  BY <2>3 DEF f
  <1>7. ASSUME d[p + 1] \notin Opcodes PROVE Completes(d, p, p + 3, << >>)
    <2> SUFFICES ASSUME NEW b \in Bytes, Agrees(b, d, p + 3)
                 PROVE  From(b)[i] = << >> \o From(b)[(p + 3) + 1]
      BY DEF Completes
    <2> DEFINE f == From(b)
    <2>1. /\ f[i] = Command(b, f, i) /\ CommandTable(b, f, i) /\ b[i] = d[i]
          /\ i + 3 - 1 <= Len(b) /\ f[i + 3] \in Calls
      BY <1>1
    <2> HIDE DEF f
    <2>2. f[i] = f[i + 3]
      BY <1>7, <2>1 DEF CommandTable
    <2>3. f[i] = << >> \o f[(p + 3) + 1]
      BY <1>2, <2>1, <2>2, Joined
    <2> QED  BY <2>3 DEF f
  <1> QED  BY <1>3, <1>4, <1>5, <1>6, <1>7

LEMMA WholeWrite ==
    ASSUME NEW d, NEW p \in Nat, d[p + 1] \in {WRITE} \cup WRITEWIDE,
           NEW v \in Bytes, Len(v) = Width(d[p + 1]),
           \A k \in 1 .. Len(v) : v[k] = d[p + 2 + k]
    PROVE  Completes(d, p, p + 2 + Len(v), WriteCall(d[p + 2], v))
  <1> DEFINE i == p + 1
             w == Len(v)
  <1>1. w \in 1 .. 8 /\ w \in Nat /\ w = Width(d[i])
    <2>1. Width(d[i]) \in 1 .. 8
      BY Widths
    <2> HIDE DEF w
    <2> QED  BY <2>1 DEF w
  <1> SUFFICES ASSUME NEW b \in Bytes, Agrees(b, d, p + 2 + w)
               PROVE  From(b)[i] = WriteCall(d[p + 2], v) \o From(b)[(p + 2 + w) + 1]
    BY DEF Completes
  <1> DEFINE f == From(b)
  <1> HIDE DEF w
  <1>2. Len(b) \in Nat /\ p + 2 + w <= Len(b) /\ \A k \in 1 .. p + 2 + w : b[k] = d[k]
    BY DEF Agrees, Bytes
  <1>3. /\ i \in 1 .. Len(b) /\ i \in 1 .. p + 2 + w /\ i + 1 \in 1 .. p + 2 + w
        /\ i + (2 + w) - 1 <= Len(b) /\ i + (2 + w) = (p + 2 + w) + 1 /\ i + 1 = p + 2
        /\ i + 2 \in Int /\ i + 2 >= 1 /\ i + 1 + w \in Int /\ i + 1 + w <= Len(b)
        /\ (i + 1 + w) - (i + 2) + 1 = w
    <2> DEFINE n == Len(b)
    <2>1. n \in Nat /\ p + 2 + w <= n /\ w \in 1 .. 8
      BY <1>1, <1>2
    <2> HIDE DEF n
    <2> QED  BY <2>1 DEF n
  <1>4. b[i] = d[i] /\ b[i + 1] = d[p + 2]
    BY <1>2, <1>3
  <1>5. f[i] = Command(b, f, i) /\ CommandTable(b, f, i)
    BY <1>3, FromIs
  <1>6. SubSeq(b, i + 2, i + 1 + w) = v
    <2>1. \A k \in 1 .. w : v[k] = b[(i + 2) + k - 1]
      <3> TAKE k \in 1 .. w
      <3>1. (i + 2) + k - 1 = p + 2 + k /\ p + 2 + k \in 1 .. p + 2 + w
        BY <1>1
      <3>2. v[k] = d[p + 2 + k]
        BY DEF w
      <3> QED  BY <1>2, <3>1, <3>2
    <2>2. Len(v) = (i + 1 + w) - (i + 2) + 1 /\ \A k \in 1 .. Len(v) : v[k] = b[(i + 2) + k - 1]
      BY <1>3, <2>1 DEF w
    <2> HIDE DEF i
    <2> QED  BY <1>3, <2>2, PartIs
  <1> HIDE DEF f
  <1>7. Command(b, f, i) = WriteCall(b[i + 1], SubSeq(b, i + 2, i + 1 + w)) \o f[i + (2 + w)]
    BY <1>1, <1>3, <1>4, <1>5 DEF CommandTable
  <1> QED  BY <1>3, <1>4, <1>5, <1>6, <1>7 DEF f

LEMMA WholeFIFO ==
    ASSUME NEW d, NEW p \in Nat, NEW v \in Bytes,
           d[p + 1] = WRITEFIFO, d[p + 2] \in 0 .. 255,
           d[p + 3] = Len(v), Len(v) \in 0 .. 255,
           \A k \in 1 .. Len(v) : v[k] = d[p + 3 + k]
    PROVE  Completes(d, p, p + 3 + Len(v),
                     WriteFIFOCall(d[p + 2], Len(v)) \o FIFOBytes(d[p + 2], v))
  <1> DEFINE i == p + 1
             w == Len(v)
             a == d[p + 2]
             x == WriteFIFOCall(a, w)
             y == FIFOBytes(a, v)
  <1>1. w \in 0 .. 255 /\ w \in Nat /\ x \in Calls /\ y \in Calls
    <2>1. a \in 0 .. 255 /\ w \in 0 .. 255
      OBVIOUS
    <2>2. x \in Calls /\ y \in Calls
      <3> HIDE DEF a, w
      <3>1. x \in Calls
        BY <2>1, CallTypes, ZenonT(30)
      <3>2. y \in Calls
        BY <2>1, CallTypes, Zenon
      <3> QED  BY <3>1, <3>2
    <2>3. w \in Nat
      <3> HIDE DEF w
      <3> QED  BY <2>1
    <2> QED  BY <2>1, <2>2, <2>3
  <1> SUFFICES ASSUME NEW b \in Bytes, Agrees(b, d, p + 3 + w)
               PROVE  From(b)[i] = (x \o y) \o From(b)[(p + 3 + w) + 1]
    BY DEF Completes
  <1> DEFINE f == From(b)
  <1> HIDE DEF w
  <1>2. Len(b) \in Nat /\ p + 3 + w <= Len(b) /\ \A k \in 1 .. p + 3 + w : b[k] = d[k]
    BY DEF Agrees, Bytes
  <1>3. /\ i \in 1 .. Len(b) /\ i \in 1 .. p + 3 + w /\ i + 1 \in 1 .. p + 3 + w
        /\ i + 2 \in 1 .. p + 3 + w /\ i + 1 = p + 2 /\ i + 2 = p + 3
        /\ i + 3 - 1 <= Len(b)
        /\ i + (3 + w) - 1 <= Len(b) /\ i + (3 + w) = (p + 3 + w) + 1
        /\ i + (3 + w) \in 1 .. Len(b) + 1
        /\ i + 3 \in Int /\ i + 3 >= 1 /\ i + 2 + w \in Int /\ i + 2 + w <= Len(b)
        /\ (i + 2 + w) - (i + 3) + 1 = w
    BY <1>1, <1>2
  <1>4. b[i] = WRITEFIFO /\ b[i + 1] = a /\ b[i + 2] = w
    BY <1>2, <1>3 DEF w
  <1>5. f[i] = Command(b, f, i) /\ CommandTable(b, f, i) /\ f[i + (3 + w)] \in Calls
    BY <1>3, FromIs, FromTyped
  <1>6. SubSeq(b, i + 3, i + 2 + w) = v
    <2>1. \A k \in 1 .. w : v[k] = b[(i + 3) + k - 1]
      <3> TAKE k \in 1 .. w
      <3>1. (i + 3) + k - 1 = p + 3 + k /\ p + 3 + k \in 1 .. p + 3 + w
        BY <1>1
      <3>2. v[k] = d[p + 3 + k]
        BY DEF w
      <3> QED  BY <1>2, <3>1, <3>2
    <2>2. Len(v) = (i + 2 + w) - (i + 3) + 1 /\ \A k \in 1 .. Len(v) : v[k] = b[(i + 3) + k - 1]
      BY <1>3, <2>1 DEF w
    <2> HIDE DEF i
    <2> QED  BY <1>3, <2>2, PartIs
  <1> HIDE DEF f
  <1>7. Command(b, f, i) =
            WriteFIFOCall(a, w)
               \o (FIFOBytes(a, SubSeq(b, i + 3, i + 2 + w)) \o f[i + (3 + w)])
    BY <1>3, <1>4, <1>5, Distinct, ZenonT(30) DEF CommandTable
  <1>8. Command(b, f, i) = x \o (y \o f[i + (3 + w)])
    BY <1>6, <1>7, Zenon
  <1> HIDE DEF x, y
  <1>9. x \o (y \o f[i + (3 + w)]) = (x \o y) \o f[i + (3 + w)]
    BY <1>1, <1>5, Joined
  <1> QED  BY <1>3, <1>5, <1>8, <1>9 DEF f

-------------------------------------------------------------------------------
(* The parser: p bytes are whole commands, which caused the calls pre; it  *)
(* is in one of four places in the next command.                           *)

ParserTypes ==
    /\ cmdPhase \in 0 .. 2 /\ cmdOpcode \in 0 .. 255 /\ cmdAddress \in 0 .. 255
    /\ cmdStartAddress \in 0 .. 255 /\ cmdEndAddress \in 0 .. 255
    /\ writeFIFOBytesLeft \in 0 .. 255
    /\ RegistersHold(registers)

Between(p, pre) ==
    /\ cmdPhase = 0 /\ writeFIFOBytesLeft = 0
    /\ p = consumed /\ calls = pre

HasOpcode(p, pre) ==
    /\ cmdPhase = 1 /\ writeFIFOBytesLeft = 0
    /\ consumed = p + 1 /\ calls = pre
    /\ cmdOpcode = accepted[p + 1] /\ cmdOpcode \notin {NOP, INDICATE}

\* Of a register write, n bytes have been stored.
HasAddress(p, pre, n) ==
    /\ cmdPhase = 2 /\ writeFIFOBytesLeft = 0
    /\ consumed = p + 2 + n /\ calls = pre
    /\ cmdOpcode = accepted[p + 1] /\ cmdOpcode \notin {NOP, INDICATE} \cup READS
    /\ cmdStartAddress = accepted[p + 2]
    /\ cmdOpcode \notin WRITEWIDE => n = 0
    /\ cmdOpcode \in WRITEWIDE =>
          n < Width(cmdOpcode) /\ cmdEndAddress = Byte(cmdStartAddress + Width(cmdOpcode))
    /\ cmdAddress = Byte(cmdStartAddress + n)
    /\ \A k \in 1 .. n :
          Reg(registers, Byte(cmdStartAddress + k - 1)) = accepted[p + 2 + k]

\* Of a FIFO write, the bytes v have been passed on.
InFIFO(p, pre, v) ==
    /\ cmdPhase = 0 /\ writeFIFOBytesLeft > 0
    /\ consumed = p + 3 + Len(v)
    /\ accepted[p + 1] = WRITEFIFO /\ accepted[p + 2] = cmdAddress
    /\ accepted[p + 3] = Len(v) + writeFIFOBytesLeft
    /\ \A k \in 1 .. Len(v) : v[k] = accepted[p + 3 + k]
    /\ calls = pre \o (WriteFIFOCall(cmdAddress, accepted[p + 3])
                          \o FIFOBytes(cmdAddress, v))

AtCommand(p, pre) ==
    \/ Between(p, pre)
    \/ HasOpcode(p, pre)
    \/ \E n \in Nat : HasAddress(p, pre, n)
    \/ \E v \in Bytes : InFIFO(p, pre, v)

ParserHolds ==
    /\ pc = "resume" => writeFIFOBytesLeft > 0
    /\ pc = "parse" /\ writeFIFOBytesLeft > 0 => s = end
    /\ \E p \in Nat, pre \in Calls : Framed(accepted, p, pre) /\ AtCommand(p, pre)

\* A command is complete.
LEMMA AtWhole ==
    ASSUME NEW p \in Nat, NEW q \in Nat, NEW pre \in Calls, NEW made \in Calls, p <= q,
           Framed(accepted, p, pre), Completes(accepted, p, q, made),
           accepted' = accepted, consumed' = q, cmdPhase' = 0,
           writeFIFOBytesLeft' = 0, calls' = pre \o made, pc' # "resume"
    PROVE  ParserHolds'
  <1> DEFINE m == pre \o made
  <1>1. m \in Calls
    BY Joined
  <1>2. Framed(accepted, q, m)
    BY FramedStep
  <1> HIDE DEF m
  <1>3. Framed(accepted', q, m)
    BY <1>2
  <1>4. Between(q, m)'
    BY DEF Between, m
  <1>5. AtCommand(q, m)'
    BY <1>4 DEF AtCommand
  <1>6. ~(writeFIFOBytesLeft' > 0)
    OBVIOUS
  <1> QED  BY <1>1, <1>3, <1>5, <1>6 DEF ParserHolds

\* A command goes on.
LEMMA AtPart ==
    ASSUME NEW p \in Nat, NEW pre \in Calls, Framed(accepted, p, pre),
           accepted' = accepted, AtCommand(p, pre)',
           pc' = "resume" => writeFIFOBytesLeft' > 0,
           pc' = "parse" /\ writeFIFOBytesLeft' > 0 => s' = end'
    PROVE  ParserHolds'
  <1>1. Framed(accepted', p, pre)
    OBVIOUS
  <1> QED  BY <1>1 DEF ParserHolds

LEMMA ByteRead ==
    ASSUME RingTypes, RingHolds, pc = "parse", s < end
    PROVE  /\ c = accepted[consumed + 1] /\ c \in 0 .. 255
           /\ consumed \in Nat /\ consumed + 1 <= Len(accepted) /\ Len(accepted) \in Nat
           /\ end - s \in Nat /\ end - s >= 1 /\ consumed + (end - s) <= Len(accepted)
  <1>1. /\ s \in Nat /\ end \in Nat /\ consumed \in Nat /\ Len(accepted) \in Nat
    BY Room, Ring DEF RingTypes
  <1>2. /\ consumed + (end - s) <= Len(accepted)
        /\ \A j \in 0 .. end - s - 1 : buffer[s + j] = accepted[consumed + j + 1]
    BY NextBytes
  <1>3. 0 \in 0 .. end - s - 1 /\ s + 0 = s /\ consumed + 0 + 1 = consumed + 1
    BY <1>1
  <1>4. buffer[s + 0] = accepted[consumed + 0 + 1]
    BY <1>2, <1>3
  <1>5. c = accepted[consumed + 1]
    BY <1>3, <1>4 DEF c
  <1>6. c \in 0 .. 255
    <2>1. s \in 0 .. BufferSize - 1
      BY <1>1, Ring DEF RingTypes
    <2> QED  BY <2>1 DEF c, RingTypes
  <1> QED  BY <1>1, <1>2, <1>5, <1>6

LEMMA OpcodeStep ==
    ASSUME RingTypes, RingHolds, ParserTypes, ParserHolds, Opcode
    PROVE  ParserTypes' /\ ParserHolds'
  <1>1. /\ cmdPhase = 0 /\ pc = "parse" /\ s < end /\ cmdOpcode' = c
        /\ cmdPhase' = IF c \in {NOP, INDICATE} THEN 0 ELSE 1
        /\ consumed' = consumed + 1
        /\ calls' = calls \o (IF c = INDICATE THEN ReplyCall ELSE << >>)
        /\ UNCHANGED <<accepted, pc, cmdAddress, cmdStartAddress, cmdEndAddress,
                       writeFIFOBytesLeft, registers>>
    BY DEF Opcode, AtPhase, Take, host
  <1>2. c = accepted[consumed + 1] /\ c \in 0 .. 255 /\ consumed \in Nat
    BY <1>1, ByteRead
  <1>3. writeFIFOBytesLeft = 0
    <2>1. ~(writeFIFOBytesLeft > 0)
      BY <1>1 DEF ParserHolds, RingTypes
    <2> QED  BY <2>1 DEF ParserTypes
  <1>4. ParserTypes'
    BY <1>1, <1>2 DEF ParserTypes
  <1> SUFFICES ParserHolds'
    BY <1>4
  <1>5. PICK p \in Nat, pre \in Calls : Framed(accepted, p, pre) /\ AtCommand(p, pre)
    BY DEF ParserHolds
  <1>6. Between(p, pre)
    BY <1>1, <1>3, <1>5 DEF AtCommand, HasOpcode, HasAddress, InFIFO
  <1>7. p = consumed /\ calls = pre
    BY <1>6 DEF Between
  <1>8. CASE c \in {NOP, INDICATE}
    <2>1. PICK made : made = IF c = INDICATE THEN ReplyCall ELSE << >>
      OBVIOUS
    <2>2. made \in Calls
      <3>1. 0 \in 0 .. 255
        OBVIOUS
      <3>2. ReplyCall \in Calls
        BY <3>1, CallTypes, Zenon
      <3> QED  BY <2>1, <3>2, Joined
    <2>3. Completes(accepted, p, p + 1, made)
      BY <1>2, <1>7, <1>8, <2>1, Distinct, Whole
    <2>4. p + 1 \in Nat /\ p <= p + 1 /\ consumed' = p + 1 /\ calls' = pre \o made
      BY <1>1, <1>7, <2>1
    <2>5. /\ accepted' = accepted /\ cmdPhase' = 0 /\ writeFIFOBytesLeft' = 0
          /\ pc' # "resume"
      BY <1>1, <1>3, <1>8
    <2> QED  BY <1>5, <2>2, <2>3, <2>4, <2>5, AtWhole
  <1>9. CASE c \notin {NOP, INDICATE}
    <2>1. calls' = pre
      BY <1>1, <1>5, <1>7, <1>9, Joined
    <2>2. HasOpcode(p, pre)'
      BY <1>1, <1>2, <1>3, <1>7, <1>9, <2>1 DEF HasOpcode
    <2>3. AtCommand(p, pre)' /\ Framed(accepted', p, pre)
      BY <1>1, <1>5, <2>2 DEF AtCommand
    <2>4. pc' # "resume" /\ ~(writeFIFOBytesLeft' > 0) /\ accepted' = accepted
      BY <1>1, <1>3
    <2> QED  BY <1>5, <2>3, <2>4, AtPart
  <1> QED  BY <1>8, <1>9

LEMMA AddressStep ==
    ASSUME RingTypes, RingHolds, ParserTypes, ParserHolds, Address
    PROVE  ParserTypes' /\ ParserHolds'
  <1> DEFINE op == cmdOpcode
             W  == Width(cmdOpcode)
  <1>1. /\ cmdPhase = 1 /\ pc = "parse" /\ s < end
        /\ cmdStartAddress' = c /\ cmdAddress' = c
        /\ cmdEndAddress' = IF op \in WRITEWIDE THEN Byte(c + W) ELSE cmdEndAddress
        /\ cmdPhase' = IF op \in READS THEN 0 ELSE 2
        /\ consumed' = consumed + 1
        /\ calls' = calls \o (IF op \in READS THEN SendCall(c, W) ELSE << >>)
        /\ UNCHANGED <<accepted, pc, cmdOpcode, writeFIFOBytesLeft, registers>>
    BY DEF Address, AtPhase, Take, host, EndAddress
  <1>2. c = accepted[consumed + 1] /\ c \in 0 .. 255 /\ consumed \in Nat
    BY <1>1, ByteRead
  <1>3. op \in WRITEWIDE => W \in 1 .. 8
    BY Widths
  <1>4. op \in READS => W \in 1 .. 8
    BY Widths
  <1> HIDE DEF W
  <1>5. ParserTypes'
    <2>1. op \in WRITEWIDE => Byte(c + W) \in 0 .. 255
      <3> SUFFICES ASSUME op \in WRITEWIDE PROVE Byte(c + W) \in 0 .. 255
        OBVIOUS
      <3>1. c + W \in Int
        BY <1>2, <1>3
      <3> QED  BY <3>1, Addresses
    <2> QED  BY <1>1, <1>2, <2>1 DEF ParserTypes
  <1> SUFFICES ParserHolds'
    BY <1>5
  <1>6. PICK p \in Nat, pre \in Calls : Framed(accepted, p, pre) /\ AtCommand(p, pre)
    BY DEF ParserHolds
  <1>7. HasOpcode(p, pre)
    BY <1>1, <1>6 DEF AtCommand, Between, HasAddress, InFIFO
  <1>8. /\ writeFIFOBytesLeft = 0 /\ consumed = p + 1 /\ calls = pre
        /\ op = accepted[p + 1] /\ op \notin {NOP, INDICATE} /\ c = accepted[p + 2]
    <2>1. /\ writeFIFOBytesLeft = 0 /\ consumed = p + 1 /\ calls = pre
          /\ op = accepted[p + 1] /\ op \notin {NOP, INDICATE}
      BY <1>7 DEF HasOpcode
    <2>2. consumed + 1 = p + 2
      BY <2>1
    <2> QED  BY <1>2, <2>1, <2>2
  <1>9. CASE op \in READS
    <2>1. PICK made : made = SendCall(c, W)
      OBVIOUS
    <2>2. made \in Calls
      <3>1. W \in 0 .. 255
        BY <1>4, <1>9
      <3> QED  BY <1>2, <2>1, <3>1, CallTypes, Zenon
    <2>3. Completes(accepted, p, p + 2, made)
      BY <1>8, <1>9, <2>1, Whole DEF W
    <2>4. p + 2 \in Nat /\ p <= p + 2 /\ consumed' = p + 2 /\ calls' = pre \o made
      BY <1>1, <1>8, <1>9, <2>1
    <2>5. accepted' = accepted /\ cmdPhase' = 0 /\ writeFIFOBytesLeft' = 0 /\ pc' # "resume"
      BY <1>1, <1>8, <1>9
    <2> QED  BY <1>6, <2>2, <2>3, <2>4, <2>5, AtWhole, Zenon
  <1>10. CASE op \notin READS
    <2>1. calls' = pre
      BY <1>1, <1>6, <1>8, <1>10, Joined
    <2>2. cmdPhase' = 2 /\ writeFIFOBytesLeft' = 0 /\ consumed' = p + 2 + 0
      BY <1>1, <1>8, <1>10
    <2>3. op \in WRITEWIDE => 0 < W /\ cmdEndAddress' = Byte(c + W)
      BY <1>1, <1>3
    <2>4. cmdAddress' = Byte(c + 0)
      <3>1. c + 0 = c /\ Byte(c) = c
        BY <1>2, Addresses
      <3> QED  BY <1>1, <3>1
    <2>5. \A k \in 1 .. 0 : FALSE
      OBVIOUS
    <2>6. HasAddress(p, pre, 0)'
      BY <1>1, <1>8, <1>10, <2>1, <2>2, <2>3, <2>4, <2>5 DEF HasAddress, W
    <2>7. AtCommand(p, pre)'
      <3>1. 0 \in Nat
        OBVIOUS
      <3> QED  BY <2>6, <3>1 DEF AtCommand
    <2>8. pc' # "resume" /\ ~(writeFIFOBytesLeft' > 0) /\ accepted' = accepted
      BY <1>1, <1>8
    <2> QED  BY <1>6, <2>7, <2>8, AtPart
  <1> QED  BY <1>9, <1>10

\* What is known at the third byte of a command and after.
LEMMA InPhase2 ==
    ASSUME RingTypes, RingHolds, ParserTypes, ParserHolds, AtPhase(2)
    PROVE  \E p \in Nat, pre \in Calls, n \in Nat :
              /\ Framed(accepted, p, pre) /\ HasAddress(p, pre, n)
              /\ c = accepted[p + 3 + n] /\ accepted[p + 2] = cmdStartAddress
              /\ accepted[p + 1] = cmdOpcode /\ calls = pre
              /\ consumed = p + 2 + n /\ writeFIFOBytesLeft = 0
  <1>1. cmdPhase = 2 /\ pc = "parse" /\ s < end
    BY DEF AtPhase
  <1>2. c = accepted[consumed + 1] /\ consumed \in Nat
    BY <1>1, ByteRead
  <1>3. PICK p \in Nat, pre \in Calls : Framed(accepted, p, pre) /\ AtCommand(p, pre)
    BY DEF ParserHolds
  <1>4. PICK n \in Nat : HasAddress(p, pre, n)
    BY <1>1, <1>3 DEF AtCommand, Between, HasOpcode, InFIFO
  <1>5. /\ consumed = p + 2 + n /\ accepted[p + 2] = cmdStartAddress
        /\ accepted[p + 1] = cmdOpcode /\ calls = pre /\ writeFIFOBytesLeft = 0
    BY <1>4 DEF HasAddress
  <1>6. consumed + 1 = p + 3 + n
    BY <1>5
  <1>7. c = accepted[p + 3 + n]
    BY <1>2, <1>6
  <1> QED  BY <1>3, <1>4, <1>5, <1>7

LEMMA ParameterStep ==
    ASSUME RingTypes, RingHolds, ParserTypes, ParserHolds, Parameter
    PROVE  ParserTypes' /\ ParserHolds'
  <1>1. /\ AtPhase(2) /\ pc = "parse" /\ s < end /\ cmdPhase' = 0
        /\ cmdOpcode \notin {WRITE, WRITEFIFO} \cup WRITEWIDE
        /\ consumed' = consumed + 1
        /\ calls' = calls \o (IF cmdOpcode = READFIFO THEN ReadFIFOCall(cmdAddress, c)
                                                      ELSE << >>)
        /\ UNCHANGED <<accepted, pc, cmdOpcode, cmdAddress, cmdStartAddress, cmdEndAddress,
                       writeFIFOBytesLeft, registers>>
    BY DEF Parameter, AtPhase, Take, host
  <1>2. ParserTypes'
    BY <1>1 DEF ParserTypes
  <1> SUFFICES ParserHolds'
    BY <1>2
  <1>3. PICK p \in Nat, pre \in Calls, n \in Nat :
            /\ Framed(accepted, p, pre) /\ HasAddress(p, pre, n)
            /\ c = accepted[p + 3 + n] /\ accepted[p + 2] = cmdStartAddress
            /\ accepted[p + 1] = cmdOpcode /\ calls = pre
            /\ consumed = p + 2 + n /\ writeFIFOBytesLeft = 0
    BY <1>1, InPhase2
  <1>4. n = 0 /\ cmdOpcode \notin {NOP, INDICATE} \cup READS
        /\ cmdAddress = Byte(cmdStartAddress + n)
    BY <1>1, <1>3 DEF HasAddress
  <1>5. p + 3 + n = p + 3 /\ consumed + 1 = p + 3 /\ p + 3 \in Nat /\ p <= p + 3
    BY <1>3, <1>4
  <1>6. cmdAddress = accepted[p + 2] /\ cmdAddress \in 0 .. 255 /\ c \in 0 .. 255
    <2>1. cmdStartAddress \in 0 .. 255 /\ cmdAddress \in 0 .. 255
      BY DEF ParserTypes
    <2>2. cmdStartAddress + n = cmdStartAddress
      BY <1>4, <2>1
    <2>3. c \in 0 .. 255
      BY <1>1, ByteRead
    <2> QED  BY <1>3, <1>4, <2>1, <2>2, <2>3, Addresses
  <1>7. PICK made : made = IF cmdOpcode = READFIFO THEN ReadFIFOCall(cmdAddress, c) ELSE << >>
    OBVIOUS
  <1>8. made \in Calls
    <2>1. ReadFIFOCall(cmdAddress, c) \in Calls
      BY <1>6, CallTypes, Zenon
    <2> QED  BY <1>7, <2>1, Joined
  <1>9. Completes(accepted, p, p + 3, made)
    <2>1. c = accepted[p + 3]
      BY <1>3, <1>5
    <2>2. CASE cmdOpcode = READFIFO
      BY <1>3, <1>6, <1>7, <2>1, <2>2, Whole
    <2>3. CASE cmdOpcode # READFIFO
      <3>1. accepted[p + 1] \notin Opcodes
        BY <1>1, <1>3, <1>4, <2>3 DEF Opcodes
      <3> QED  BY <1>7, <2>3, <3>1, Whole
    <2> QED  BY <2>2, <2>3
  <1>10. /\ accepted' = accepted /\ cmdPhase' = 0 /\ writeFIFOBytesLeft' = 0 /\ pc' # "resume"
         /\ consumed' = p + 3 /\ calls' = pre \o made
    BY <1>1, <1>3, <1>5, <1>7
  <1> QED  BY <1>3, <1>5, <1>8, <1>9, <1>10, AtWhole

LEMMA WriteMoreStep ==
    ASSUME RingTypes, RingHolds, ParserTypes, ParserHolds, WriteMore
    PROVE  ParserTypes' /\ ParserHolds'
  <1> DEFINE st == cmdStartAddress
             W  == Width(cmdOpcode)
  <1>1. /\ AtPhase(2) /\ pc = "parse" /\ s < end /\ cmdOpcode \in WRITEWIDE
        /\ Byte(cmdAddress + 1) # cmdEndAddress
        /\ registers' = SetReg(registers, cmdAddress, c)
        /\ cmdAddress' = Byte(cmdAddress + 1)
        /\ consumed' = consumed + 1 /\ calls' = calls \o << >>
        /\ UNCHANGED <<accepted, pc, cmdPhase, cmdOpcode, cmdStartAddress, cmdEndAddress,
                       writeFIFOBytesLeft>>
    BY DEF WriteMore, AtPhase, Take, host
  <1>2. c \in 0 .. 255 /\ cmdAddress \in 0 .. 255 /\ st \in 0 .. 255
        /\ RegistersHold(registers)
    BY <1>1, ByteRead DEF ParserTypes
  <1>0. /\ RegistersHold(registers') /\ Reg(registers', cmdAddress) = c
        /\ \A x : x # cmdAddress => Reg(registers', x) = Reg(registers, x)
    <2> DEFINE r == SetReg(registers, cmdAddress, c)
    <2>1. /\ RegistersHold(r) /\ Reg(r, cmdAddress) = c
          /\ \A x : x # cmdAddress => Reg(r, x) = Reg(registers, x)
      BY <1>2 DEF RegistersHold, SetReg, Reg
    <2>2. registers' = r
      BY <1>1
    <2> HIDE DEF r
    <2> QED  BY <2>1, <2>2
  <1>3. Byte(cmdAddress + 1) \in 0 .. 255
    <2>1. cmdAddress + 1 \in Int
      BY <1>2
    <2> QED  BY <2>1, Addresses
  <1>4. ParserTypes'
    <2>1. RegistersHold(registers')
      BY <1>0
    <2> QED  BY <1>1, <1>3, <2>1 DEF ParserTypes
  <1> SUFFICES ParserHolds'
    BY <1>4
  <1>5. PICK p \in Nat, pre \in Calls, n \in Nat :
            /\ Framed(accepted, p, pre) /\ HasAddress(p, pre, n)
            /\ c = accepted[p + 3 + n] /\ accepted[p + 2] = cmdStartAddress
            /\ accepted[p + 1] = cmdOpcode /\ calls = pre
            /\ consumed = p + 2 + n /\ writeFIFOBytesLeft = 0
    BY <1>1, InPhase2
  <1>6. /\ n < W /\ cmdEndAddress = Byte(st + W) /\ cmdAddress = Byte(st + n)
        /\ cmdOpcode \notin {NOP, INDICATE} \cup READS /\ cmdPhase = 2
        /\ \A k \in 1 .. n : Reg(registers, Byte(st + k - 1)) = accepted[p + 2 + k]
    BY <1>1, <1>5 DEF HasAddress
  <1>7. W \in 1 .. 8
    BY <1>1, Widths
  <1> HIDE DEF W
  <1>8. cmdAddress' = Byte(st + (n + 1))
    <2>1. st + n \in Int /\ (st + n) + 1 = st + (n + 1)
      BY <1>2
    <2>2. Byte(Byte(st + n) + 1) = Byte((st + n) + 1)
      BY <2>1, Addresses
    <2> QED  BY <1>1, <1>6, <2>1, <2>2
  <1>9. n + 1 < W
    <2>1. n + 1 # W
      BY <1>1, <1>6, <1>8
    <2> QED  BY <1>6, <1>7, <2>1
  <1>10. ASSUME NEW k \in 1 .. n + 1
         PROVE  Reg(registers', Byte(st + k - 1)) = accepted[p + 2 + k]
    <2>1. CASE k \in 1 .. n
      <3>1. st + k - 1 \in Int /\ st + n \in Int /\ st + k - 1 < st + n
            /\ st + n < (st + k - 1) + 256
        BY <1>2, <1>7, <1>9, <2>1
      <3>2. Byte(st + k - 1) # Byte(st + n)
        BY <3>1, Addresses
      <3>3. Reg(registers', Byte(st + k - 1)) = Reg(registers, Byte(st + k - 1))
        BY <1>0, <1>6, <3>2
      <3> QED  BY <1>6, <2>1, <3>3
    <2>2. CASE k = n + 1
      <3>1. st + k - 1 = st + n /\ p + 2 + k = p + 3 + n
        BY <1>2, <2>2
      <3>2. Reg(registers', cmdAddress) = c
        BY <1>0
      <3> QED  BY <1>5, <1>6, <3>1, <3>2
    <2> QED  BY <2>1, <2>2
  <1>11. HasAddress(p, pre, n + 1)'
    <2>1. consumed' = p + 2 + (n + 1)
      BY <1>1, <1>5
    <2>2. calls' = pre
      BY <1>1, <1>5, Joined
    <2> QED  BY <1>1, <1>5, <1>6, <1>8, <1>9, <1>10, <2>1, <2>2 DEF HasAddress, W
  <1>12. AtCommand(p, pre)'
    <2>1. n + 1 \in Nat
      OBVIOUS
    <2> QED  BY <1>11, <2>1 DEF AtCommand
  <1>13. pc' # "resume" /\ ~(writeFIFOBytesLeft' > 0) /\ accepted' = accepted
    BY <1>1, <1>5
  <1> QED  BY <1>5, <1>12, <1>13, AtPart

LEMMA WriteLastStep ==
    ASSUME RingTypes, RingHolds, ParserTypes, ParserHolds, WriteLast
    PROVE  ParserTypes' /\ ParserHolds'
  <1> DEFINE st == cmdStartAddress
             W  == Width(cmdOpcode)
             first == IF cmdOpcode = WRITE THEN cmdAddress ELSE cmdStartAddress
  <1>1. /\ AtPhase(2) /\ pc = "parse" /\ s < end /\ cmdOpcode \in {WRITE} \cup WRITEWIDE
        /\ cmdOpcode \in WRITEWIDE => Byte(cmdAddress + 1) = cmdEndAddress
        /\ registers' = SetReg(registers, cmdAddress, c)
        /\ cmdAddress' = IF cmdOpcode = WRITE THEN cmdAddress ELSE Byte(cmdAddress + 1)
        /\ cmdPhase' = 0 /\ consumed' = consumed + 1
        /\ calls' = calls \o WriteCall(first, RegBytes(registers', first, W))
        /\ UNCHANGED <<accepted, pc, cmdOpcode, cmdStartAddress, cmdEndAddress,
                       writeFIFOBytesLeft>>
    BY DEF WriteLast, AtPhase, Take, host
  <1>2. c \in 0 .. 255 /\ cmdAddress \in 0 .. 255 /\ st \in 0 .. 255
        /\ RegistersHold(registers)
    BY <1>1, ByteRead DEF ParserTypes
  <1>0. /\ RegistersHold(registers') /\ Reg(registers', cmdAddress) = c
        /\ \A x : x # cmdAddress => Reg(registers', x) = Reg(registers, x)
    <2> DEFINE r == SetReg(registers, cmdAddress, c)
    <2>1. /\ RegistersHold(r) /\ Reg(r, cmdAddress) = c
          /\ \A x : x # cmdAddress => Reg(r, x) = Reg(registers, x)
      BY <1>2 DEF RegistersHold, SetReg, Reg
    <2>2. registers' = r
      BY <1>1
    <2> HIDE DEF r
    <2> QED  BY <2>1, <2>2
  <1>3. Byte(cmdAddress + 1) \in 0 .. 255
    <2>1. cmdAddress + 1 \in Int
      BY <1>2
    <2> QED  BY <2>1, Addresses
  <1>4. RegistersHold(registers')
    BY <1>0
  <1>5. ParserTypes'
    BY <1>1, <1>2, <1>3, <1>4 DEF ParserTypes
  <1> SUFFICES ParserHolds'
    BY <1>5
  <1>6. PICK p \in Nat, pre \in Calls, n \in Nat :
            /\ Framed(accepted, p, pre) /\ HasAddress(p, pre, n)
            /\ c = accepted[p + 3 + n] /\ accepted[p + 2] = cmdStartAddress
            /\ accepted[p + 1] = cmdOpcode /\ calls = pre
            /\ consumed = p + 2 + n /\ writeFIFOBytesLeft = 0
    BY <1>1, InPhase2
  <1>7. /\ cmdOpcode \notin WRITEWIDE => n = 0
        /\ cmdOpcode \in WRITEWIDE => n < W /\ cmdEndAddress = Byte(st + W)
        /\ cmdAddress = Byte(st + n)
        /\ \A k \in 1 .. n : Reg(registers, Byte(st + k - 1)) = accepted[p + 2 + k]
    BY <1>6 DEF HasAddress
  <1>8. W \in 1 .. 8 /\ (cmdOpcode = WRITE => W = 1)
    BY <1>1, Widths
  <1> HIDE DEF W
  <1>9. n + 1 = W /\ first = st
    <2>1. CASE cmdOpcode = WRITE
      <3>1. n = 0
        BY <1>7, <2>1, Distinct
      <3>2. st + n = st
        BY <1>2, <3>1
      <3>3. cmdAddress = st
        BY <1>2, <1>7, <3>2, Addresses
      <3> QED  BY <1>8, <2>1, <3>1, <3>3
    <2>2. CASE cmdOpcode \in WRITEWIDE
      <3>1. n < W /\ Byte(Byte(st + n) + 1) = Byte(st + W)
        BY <1>1, <1>7, <2>2
      <3>2. st + n \in Int /\ (st + n) + 1 \in Int /\ st + W \in Int
        BY <1>2, <1>8
      <3>3. Byte((st + n) + 1) = Byte(st + W)
        BY <3>1, <3>2, Addresses
      <3>4. ~((st + n) + 1 < st + W /\ st + W < ((st + n) + 1) + 256)
        BY <3>2, <3>3, Addresses
      <3>5. n + 1 = W
        BY <1>2, <1>8, <3>1, <3>4
      <3>6. first = st
        BY <2>2, Distinct
      <3> QED  BY <3>5, <3>6
    <2> QED  BY <1>1, <2>1, <2>2
  <1>10. PICK v : v = RegBytes(registers', st, W)
    OBVIOUS
  <1>11. v \in Bytes /\ Len(v) = W
         /\ \A k \in 1 .. W : v[k] = Reg(registers', Byte(st + k - 1))
    <2>1. v = [k \in 1 .. W |-> Reg(registers', Byte(st + k - 1))]
      BY <1>10 DEF RegBytes
    <2>2. \A k \in 1 .. W : Reg(registers', Byte(st + k - 1)) \in 0 .. 255
      BY <1>1, <1>2, <1>4, Registers, Zenon
    <2>3. W \in Nat
      BY <1>8
    <2> QED  BY <2>1, <2>2, <2>3, IsASeq DEF Bytes
  <1>12. \A k \in 1 .. W : v[k] = accepted[p + 2 + k]
    <2> TAKE k \in 1 .. W
    <2>1. CASE k \in 1 .. n
      <3>1. st + k - 1 \in Int /\ st + n \in Int /\ st + k - 1 < st + n
            /\ st + n < (st + k - 1) + 256
        BY <1>2, <1>8, <1>9, <2>1
      <3>2. Byte(st + k - 1) # Byte(st + n)
        BY <3>1, Addresses
      <3>3. Reg(registers', Byte(st + k - 1)) = Reg(registers, Byte(st + k - 1))
        BY <1>0, <1>7, <3>2
      <3> QED  BY <1>7, <1>11, <2>1, <3>3
    <2>2. CASE k = n + 1
      <3>1. st + k - 1 = st + n /\ p + 2 + k = p + 3 + n
        BY <1>2, <2>2
      <3>2. Reg(registers', cmdAddress) = c
        BY <1>0
      <3> QED  BY <1>6, <1>7, <1>11, <3>1, <3>2
    <2>3. k \in 1 .. n \/ k = n + 1
      BY <1>8, <1>9
    <2> QED  BY <2>1, <2>2, <2>3
  <1>13. PICK made : made = WriteCall(accepted[p + 2], v)
    OBVIOUS
  <1>14. PICK q : q = p + 2 + Len(v)
    OBVIOUS
  <1>15. made \in Calls
    BY <1>2, <1>6, <1>11, <1>13, CallTypes, Zenon
  <1>16. Completes(accepted, p, q, made)
    <2>1. \A k \in 1 .. Len(v) : v[k] = accepted[p + 2 + k]
      BY <1>11, <1>12
    <2>2. accepted[p + 1] \in {WRITE} \cup WRITEWIDE /\ Len(v) = Width(accepted[p + 1])
      BY <1>1, <1>6, <1>11 DEF W
    <2>3. Completes(accepted, p, p + 2 + Len(v), WriteCall(accepted[p + 2], v))
      BY <1>11, <2>1, <2>2, WholeWrite
    <2> QED  BY <1>13, <1>14, <2>3
  <1>17. q \in Nat /\ p <= q /\ consumed' = q
    <2>1. q = p + 2 + W /\ consumed' = (p + 2 + n) + 1
      BY <1>1, <1>6, <1>11, <1>14
    <2> QED  BY <1>8, <1>9, <2>1
  <1>18. /\ accepted' = accepted /\ cmdPhase' = 0 /\ writeFIFOBytesLeft' = 0
         /\ pc' # "resume" /\ calls' = pre \o made
    BY <1>1, <1>6, <1>9, <1>10, <1>13
  <1> QED  BY <1>6, <1>15, <1>16, <1>17, <1>18, AtWhole

LEMMA AheadIs ==
    ASSUME RingTypes, RingHolds, pc # "idle", NEW k \in Nat, NEW n \in Nat, k + n <= end - s
    PROVE  /\ Ahead(k, n) \in Bytes /\ Len(Ahead(k, n)) = n
           /\ \A i \in 1 .. n : Ahead(k, n)[i] = accepted[consumed + k + i]
  <1>1. /\ s \in Nat /\ end \in Nat /\ end <= BufferSize /\ consumed \in Nat
        /\ BufferSize \in Int
    BY Ring DEF RingTypes
  <1>2. \A j \in 0 .. end - s - 1 : buffer[s + j] = accepted[consumed + j + 1]
    BY NextBytes
  <1>3. \A i \in 1 .. n : /\ s + k + i - 1 \in 0 .. BufferSize - 1
                          /\ s + k + i - 1 = s + (k + i - 1)
                          /\ k + i - 1 \in 0 .. end - s - 1
                          /\ consumed + (k + i - 1) + 1 = consumed + k + i
    BY <1>1
  <1>4. \A i \in 1 .. n : buffer[s + k + i - 1] \in 0 .. 255
    BY <1>3 DEF RingTypes
  <1>5. Ahead(k, n) \in Bytes
    BY <1>4, IsASeq DEF Ahead, Bytes
  <1>6. Len(Ahead(k, n)) = n
    BY DEF Ahead
  <1>7. \A i \in 1 .. n : Ahead(k, n)[i] = accepted[consumed + k + i]
    <2> TAKE i \in 1 .. n
    <2>1. Ahead(k, n)[i] = buffer[s + (k + i - 1)]
      BY <1>3 DEF Ahead
    <2> QED  BY <1>2, <1>3, <2>1
  <1> QED  BY <1>5, <1>6, <1>7

LEMMA FirstBytesAre ==
    ASSUME RingTypes, RingHolds, pc = "parse", s < end
    PROVE  \E v \in Bytes :
              /\ v = FirstBytes
              /\ Len(v) = IF c <= end - s - 1 THEN c ELSE end - s - 1
              /\ Len(v) \in Nat /\ 1 + Len(v) <= end - s
              /\ \A k \in 1 .. Len(v) : v[k] = accepted[consumed + 1 + k]
  <1>1. c \in 0 .. 255 /\ end - s \in Nat /\ end - s >= 1
    BY ByteRead
  <1> DEFINE n == IF c <= end - s - 1 THEN c ELSE end - s - 1
  <1>2. n \in Nat /\ 1 + n <= end - s
    BY <1>1
  <1>3. FirstBytes = Ahead(1, n)
    BY DEF FirstBytes
  <1>4. pc # "idle" /\ 1 \in Nat
    OBVIOUS
  <1> HIDE DEF n
  <1>5. /\ Ahead(1, n) \in Bytes /\ Len(Ahead(1, n)) = n
        /\ \A k \in 1 .. n : Ahead(1, n)[k] = accepted[consumed + 1 + k]
    BY <1>2, <1>4, AheadIs
  <1>6. /\ FirstBytes \in Bytes /\ Len(FirstBytes) = n
        /\ \A k \in 1 .. n : FirstBytes[k] = accepted[consumed + 1 + k]
    BY <1>3, <1>5
  <1> QED  BY <1>2, <1>6 DEF n

LEMMA StartStep ==
    ASSUME RingTypes, RingHolds, ParserTypes, ParserHolds, StartWriteFIFO,
           RegistersHold(registers')
    PROVE  ParserTypes' /\ ParserHolds'
  <1>0. pc = "parse" /\ s < end /\ AtPhase(2)
    BY DEF StartWriteFIFO, AtPhase
  <1>1. PICK v \in Bytes :
              /\ v = FirstBytes
              /\ Len(v) = IF c <= end - s - 1 THEN c ELSE end - s - 1
              /\ Len(v) \in Nat /\ 1 + Len(v) <= end - s
              /\ \A k \in 1 .. Len(v) : v[k] = accepted[consumed + 1 + k]
    BY <1>0, FirstBytesAre
  <1>2. /\ cmdOpcode = WRITEFIFO /\ cmdPhase' = 0
        /\ writeFIFOBytesLeft' = IF Len(v) = c THEN writeFIFOBytesLeft ELSE c - Len(v)
        /\ consumed' = consumed + (1 + Len(v)) /\ s' = s + (1 + Len(v)) /\ end' = end
        /\ calls' = calls \o (WriteFIFOCall(cmdAddress, c) \o FIFOBytes(cmdAddress, v))
        /\ UNCHANGED <<accepted, pc, cmdOpcode, cmdAddress, cmdStartAddress, cmdEndAddress>>
    BY <1>1 DEF StartWriteFIFO, Take, host, LeftAfter
  <1>3. c \in 0 .. 255 /\ end - s \in Nat /\ s \in Nat /\ end \in Nat
    BY <1>0, ByteRead, Ring DEF RingTypes
  <1>4. PICK p \in Nat, pre \in Calls, n \in Nat :
            /\ Framed(accepted, p, pre) /\ HasAddress(p, pre, n)
            /\ c = accepted[p + 3 + n] /\ accepted[p + 2] = cmdStartAddress
            /\ accepted[p + 1] = cmdOpcode /\ calls = pre
            /\ consumed = p + 2 + n /\ writeFIFOBytesLeft = 0
    BY <1>0, InPhase2
  <1>5. Len(v) <= c /\ (Len(v) # c => Len(v) = end - s - 1)
        /\ (Len(v) # c => c - Len(v) \in 1 .. 255)
    <2> DEFINE l == Len(v)
    <2>1. l = (IF c <= end - s - 1 THEN c ELSE end - s - 1) /\ l \in Nat
      BY <1>1
    <2> HIDE DEF l
    <2>2. l <= c /\ (l # c => l = end - s - 1) /\ (l # c => c - l \in 1 .. 255)
      BY <1>3, <2>1
    <2> QED  BY <2>2 DEF l
  <1>6. ParserTypes'
    <2>1. writeFIFOBytesLeft' \in 0 .. 255
      <3>1. Len(v) # c => c - Len(v) \in 0 .. 255
        BY <1>5
      <3> QED  BY <1>2, <1>4, <3>1
    <2> QED  BY <1>2, <2>1 DEF ParserTypes
  <1> SUFFICES ParserHolds'
    BY <1>6
  <1>7. n = 0 /\ cmdAddress = Byte(cmdStartAddress + n)
    BY <1>2, <1>4, Distinct DEF HasAddress
  <1>8. cmdAddress = accepted[p + 2] /\ cmdAddress \in 0 .. 255
    <2>1. cmdStartAddress \in 0 .. 255 /\ cmdAddress \in 0 .. 255
      BY DEF ParserTypes
    <2>2. cmdStartAddress + n = cmdStartAddress
      BY <1>7, <2>1
    <2> QED  BY <1>4, <1>7, <2>1, <2>2, Addresses
  <1>9. p + 3 + n = p + 3 /\ consumed = p + 2
    BY <1>4, <1>7
  <1>10. c = accepted[p + 3] /\ consumed' = p + 3 + Len(v)
    <2>1. c = accepted[p + 3]
      BY <1>4, <1>9
    <2>2. (p + 2) + (1 + Len(v)) = p + 3 + Len(v)
      BY <1>1
    <2> QED  BY <1>2, <1>9, <2>1, <2>2
  <1>11. \A k \in 1 .. Len(v) : v[k] = accepted[p + 3 + k]
    <2> TAKE k \in 1 .. Len(v)
    <2>1. consumed + 1 + k = p + 3 + k
      BY <1>1, <1>9
    <2> QED  BY <1>1, <2>1
  <1>12. CASE Len(v) = c
    <2>1. PICK made : made = WriteFIFOCall(cmdAddress, c) \o FIFOBytes(cmdAddress, v)
      OBVIOUS
    <2>2. made \in Calls
      <3>1. WriteFIFOCall(cmdAddress, c) \in Calls
        BY <1>3, <1>8, CallTypes, ZenonT(30)
      <3>2. FIFOBytes(cmdAddress, v) \in Calls
        BY <1>8, CallTypes, Zenon
      <3> QED  BY <2>1, <3>1, <3>2, Joined
    <2>3. PICK q : q = p + 3 + Len(v)
      OBVIOUS
    <2>4. Completes(accepted, p, q, made)
      <3>1. accepted[p + 1] = WRITEFIFO /\ accepted[p + 2] \in 0 .. 255
            /\ accepted[p + 3] = Len(v) /\ Len(v) \in 0 .. 255
        BY <1>2, <1>3, <1>4, <1>8, <1>10, <1>12
      <3>2. Completes(accepted, p, p + 3 + Len(v),
                      WriteFIFOCall(accepted[p + 2], Len(v)) \o FIFOBytes(accepted[p + 2], v))
        BY <1>11, <3>1, WholeFIFO
      <3> QED  BY <1>8, <1>12, <2>1, <2>3, <3>2
    <2>5. q \in Nat /\ p <= q /\ consumed' = q
      BY <1>1, <1>10, <2>3
    <2>6. /\ accepted' = accepted /\ cmdPhase' = 0 /\ writeFIFOBytesLeft' = 0
          /\ pc' # "resume" /\ calls' = pre \o made
      BY <1>0, <1>2, <1>4, <1>12, <2>1
    <2> QED  BY <1>4, <2>2, <2>4, <2>5, <2>6, AtWhole
  <1>13. CASE Len(v) # c
    <2>1. writeFIFOBytesLeft' = c - Len(v) /\ writeFIFOBytesLeft' > 0
      <3>1. writeFIFOBytesLeft' = c - Len(v) /\ c - Len(v) \in 1 .. 255
        BY <1>2, <1>5, <1>13
      <3>2. \A x \in 1 .. 255 : x > 0
        OBVIOUS
      <3> QED  BY <3>1, <3>2
    <2>2. accepted'[p + 3] = Len(v) + writeFIFOBytesLeft'
      <3>1. c = Len(v) + (c - Len(v))
        BY <1>1, <1>3
      <3> QED  BY <1>2, <1>10, <2>1, <3>1
    <2>3. InFIFO(p, pre, v)'
      BY <1>2, <1>4, <1>8, <1>10, <1>11, <2>1, <2>2 DEF InFIFO
    <2>4. AtCommand(p, pre)'
      BY <2>3 DEF AtCommand
    <2>5. s' = end'
      <3>1. Len(v) = end - s - 1 /\ s' = s + (1 + Len(v)) /\ end' = end
        BY <1>2, <1>5, <1>13
      <3> QED  BY <1>3, <3>1
    <2>6. pc' # "resume" /\ accepted' = accepted
      BY <1>0, <1>2
    <2> QED  BY <1>4, <2>4, <2>5, <2>6, AtPart
  <1> QED  BY <1>12, <1>13

LEMMA ResumedBytesAre ==
    ASSUME RingTypes, RingHolds, ParserTypes, pc # "idle"
    PROVE  \E e \in Bytes :
              /\ e = ResumedBytes
              /\ Len(e) = IF writeFIFOBytesLeft <= end - s THEN writeFIFOBytesLeft
                                                           ELSE end - s
              /\ Len(e) \in Nat /\ Len(e) <= end - s
              /\ \A k \in 1 .. Len(e) : e[k] = accepted[consumed + k]
  <1>1. writeFIFOBytesLeft \in 0 .. 255 /\ s \in Nat /\ end \in Nat /\ s <= end
        /\ consumed \in Nat
    BY Ring DEF ParserTypes, RingTypes
  <1> DEFINE n == IF writeFIFOBytesLeft <= end - s THEN writeFIFOBytesLeft ELSE end - s
  <1>2. n \in Nat /\ n <= end - s /\ 0 + n <= end - s
    BY <1>1
  <1>3. ResumedBytes = Ahead(0, n)
    BY DEF ResumedBytes
  <1>4. 0 \in Nat
    OBVIOUS
  <1> HIDE DEF n
  <1>5. /\ Ahead(0, n) \in Bytes /\ Len(Ahead(0, n)) = n
        /\ \A k \in 1 .. n : Ahead(0, n)[k] = accepted[consumed + 0 + k]
    BY <1>2, <1>4, AheadIs
  <1>6. /\ ResumedBytes \in Bytes /\ Len(ResumedBytes) = n
        /\ \A k \in 1 .. n : ResumedBytes[k] = accepted[consumed + k]
    <2>1. consumed + 0 = consumed
      BY <1>1
    <2> QED  BY <1>3, <1>5, <2>1
  <1> QED  BY <1>2, <1>6 DEF n

LEMMA ResumeStep ==
    ASSUME RingTypes, RingHolds, ParserTypes, ParserHolds, ResumeWriteFIFO,
           RegistersHold(registers')
    PROVE  ParserTypes' /\ ParserHolds'
  <1> DEFINE left == writeFIFOBytesLeft
  <1>0. pc = "resume" /\ pc # "idle"
    BY DEF ResumeWriteFIFO
  <1>1. PICK e \in Bytes :
              /\ e = ResumedBytes
              /\ Len(e) = IF left <= end - s THEN left ELSE end - s
              /\ Len(e) \in Nat /\ Len(e) <= end - s
              /\ \A k \in 1 .. Len(e) : e[k] = accepted[consumed + k]
    BY <1>0, ResumedBytesAre
  <1>2. /\ left' = left - Len(e)
        /\ consumed' = consumed + Len(e) /\ s' = s + Len(e) /\ end' = end
        /\ calls' = calls \o FIFOBytes(cmdAddress, e) /\ pc' = "parse"
        /\ UNCHANGED <<accepted, cmdPhase, cmdOpcode, cmdAddress, cmdStartAddress,
                       cmdEndAddress>>
    BY <1>1 DEF ResumeWriteFIFO, Take, host, LeftAfter, command
  <1>3. left \in 1 .. 255 /\ s \in Nat /\ end \in Nat /\ s <= end /\ consumed \in Nat
        /\ cmdAddress \in 0 .. 255
    <2>1. left > 0
      BY <1>0 DEF ParserHolds
    <2>2. left \in 0 .. 255 /\ s \in Nat /\ end \in Nat /\ s <= end /\ consumed \in Nat
          /\ cmdAddress \in 0 .. 255
      BY Ring DEF ParserTypes, RingTypes
    <2> QED  BY <2>1, <2>2
  <1>4. /\ Len(e) <= left /\ left - Len(e) \in 0 .. 255
        /\ left - Len(e) > 0 => s + Len(e) = end
        /\ left - Len(e) = 0 \/ left - Len(e) > 0
    <2> DEFINE l == Len(e)
    <2>1. l = (IF left <= end - s THEN left ELSE end - s) /\ l \in Nat
      BY <1>1
    <2> HIDE DEF l, left
    <2>2. /\ l <= left /\ left - l \in 0 .. 255
          /\ left - l > 0 => s + l = end
          /\ left - l = 0 \/ left - l > 0
      BY <1>3, <2>1
    <2> QED  BY <2>2 DEF l
  <1>5. ParserTypes'
    BY <1>2, <1>4 DEF ParserTypes
  <1> SUFFICES ParserHolds'
    BY <1>5
  <1>6. PICK p \in Nat, pre \in Calls : Framed(accepted, p, pre) /\ AtCommand(p, pre)
    BY DEF ParserHolds
  <1>7. PICK v \in Bytes : InFIFO(p, pre, v)
    <2>1. left # 0
      BY <1>3
    <2> QED  BY <1>6, <2>1 DEF AtCommand, Between, HasOpcode, HasAddress
  <1>8. PICK n : n = accepted[p + 3]
    OBVIOUS
  <1>9. /\ consumed = p + 3 + Len(v) /\ accepted[p + 1] = WRITEFIFO
        /\ accepted[p + 2] = cmdAddress /\ n = Len(v) + left
        /\ \A k \in 1 .. Len(v) : v[k] = accepted[p + 3 + k]
        /\ calls = pre \o (WriteFIFOCall(cmdAddress, n) \o FIFOBytes(cmdAddress, v))
        /\ cmdPhase = 0 /\ Len(v) \in Nat
    BY <1>7, <1>8 DEF InFIFO, Bytes
  <1>10. PICK u : u = v \o e
    OBVIOUS
  <1>11. /\ u \in Bytes /\ Len(u) = Len(v) + Len(e)
         /\ \A k \in 1 .. Len(v) : u[k] = v[k]
         /\ \A k \in 1 .. Len(e) : u[Len(v) + k] = e[k]
         /\ FIFOBytes(cmdAddress, u) = FIFOBytes(cmdAddress, v) \o FIFOBytes(cmdAddress, e)
    BY <1>3, <1>10, FIFOJoin, ZenonT(30)
  <1>12. \A k \in 1 .. Len(u) : u[k] = accepted[p + 3 + k]
    <2> TAKE k \in 1 .. Len(u)
    <2>1. CASE k \in 1 .. Len(v)
      BY <1>9, <1>11, <2>1
    <2>2. CASE k - Len(v) \in 1 .. Len(e)
      <3>1. k = Len(v) + (k - Len(v)) /\ consumed + (k - Len(v)) = p + 3 + k
        BY <1>9
      <3>2. u[k] = e[k - Len(v)]
        BY <1>11, <2>2, <3>1
      <3> QED  BY <1>1, <2>2, <3>1, <3>2
    <2>3. k \in 1 .. Len(v) \/ k - Len(v) \in 1 .. Len(e)
      BY <1>1, <1>9, <1>11
    <2> QED  BY <2>1, <2>2, <2>3
  <1>13. consumed' = p + 3 + Len(u)
    <2>1. \A x, y \in Nat : (p + 3 + x) + y = p + 3 + (x + y)
      OBVIOUS
    <2>2. Len(v) \in Nat /\ Len(e) \in Nat
      BY <1>1, <1>9
    <2>3. (p + 3 + Len(v)) + Len(e) = p + 3 + (Len(v) + Len(e))
      BY <2>1, <2>2
    <2> QED  BY <1>2, <1>9, <1>11, <2>3
  <1>14. calls' = pre \o (WriteFIFOCall(cmdAddress, n) \o FIFOBytes(cmdAddress, u))
         /\ (n \in 0 .. 255
               => WriteFIFOCall(cmdAddress, n) \o FIFOBytes(cmdAddress, u) \in Calls)
    <2>0. n \in 0 .. 255
      <3>1. Len(accepted) \in Nat /\ consumed <= Len(accepted) /\ p + 3 <= consumed
            /\ accepted \in Bytes
        BY <1>9, Room DEF RingHolds, RingTypes
      <3>2. p + 3 \in Int /\ p + 3 >= 1 /\ p + 3 <= Len(accepted)
        BY <1>3, <3>1
      <3> QED  BY <1>8, <3>1, <3>2, ByteOf
    <2> DEFINE w == WriteFIFOCall(cmdAddress, n)
               x == FIFOBytes(cmdAddress, v)
               y == FIFOBytes(cmdAddress, e)
               z == FIFOBytes(cmdAddress, u)
    <2>1. w \in Calls /\ x \in Calls /\ y \in Calls /\ z \in Calls
      <3>1. w \in Calls
        BY <1>3, <2>0, CallTypes, ZenonT(30)
      <3>2. x \in Calls /\ y \in Calls
        BY <1>3, CallTypes, ZenonT(30)
      <3>3. z \in Calls
        BY <1>3, <1>11, CallTypes, Zenon
      <3> QED  BY <3>1, <3>2, <3>3
    <2>2. z = x \o y /\ calls' = (pre \o (w \o x)) \o y
      BY <1>2, <1>9, <1>11
    <2> HIDE DEF w, x, y, z
    <2>3. w \o x \in Calls /\ w \o z \in Calls
      BY <2>1, Joined
    <2>4. (pre \o (w \o x)) \o y = pre \o ((w \o x) \o y)
      <3> DEFINE t == w \o x
      <3>1. t \in Calls /\ pre \in Calls
        BY <1>6, <2>3
      <3> HIDE DEF t
      <3>2. (pre \o t) \o y = pre \o (t \o y)
        <4>1. pre \in Seq(Call) /\ t \in Seq(Call) /\ y \in Seq(Call)
          BY <2>1, <3>1 DEF Calls
        <4> QED  BY <4>1, ConcatAssociative
      <3> QED  BY <3>2 DEF t
    <2>5. (w \o x) \o y = w \o (x \o y)
      BY <2>1, Joined
    <2> QED  BY <2>2, <2>3, <2>4, <2>5 DEF w, z
  <1>15. n \in 0 .. 255
    <2>1. Len(accepted) \in Nat /\ consumed <= Len(accepted) /\ p + 3 <= consumed
          /\ accepted \in Bytes
      BY <1>9, Room DEF RingHolds, RingTypes
    <2>2. p + 3 \in Int /\ p + 3 >= 1 /\ p + 3 <= Len(accepted)
      BY <1>3, <2>1
    <2> QED  BY <1>8, <2>1, <2>2, ByteOf
  <1>16. CASE left - Len(e) = 0
    <2>1. PICK made : made = WriteFIFOCall(cmdAddress, n) \o FIFOBytes(cmdAddress, u)
      OBVIOUS
    <2>2. made \in Calls
      BY <1>14, <1>15, <2>1
    <2>3. PICK q : q = p + 3 + Len(u)
      OBVIOUS
    <2>4. n = Len(u)
      BY <1>1, <1>3, <1>9, <1>11, <1>16
    <2>5. Completes(accepted, p, q, made)
      <3>1. accepted[p + 1] = WRITEFIFO /\ accepted[p + 2] \in 0 .. 255
            /\ accepted[p + 3] = Len(u) /\ Len(u) \in 0 .. 255
        BY <1>3, <1>8, <1>9, <1>15, <2>4
      <3>2. Completes(accepted, p, p + 3 + Len(u),
                      WriteFIFOCall(accepted[p + 2], Len(u)) \o FIFOBytes(accepted[p + 2], u))
        BY <1>11, <1>12, <3>1, WholeFIFO
      <3> QED  BY <1>9, <2>1, <2>3, <2>4, <3>2
    <2>6. q \in Nat /\ p <= q /\ consumed' = q
      BY <1>13, <1>15, <2>3, <2>4
    <2>7. /\ accepted' = accepted /\ cmdPhase' = 0 /\ writeFIFOBytesLeft' = 0
          /\ pc' # "resume" /\ calls' = pre \o made
      BY <1>2, <1>9, <1>14, <1>16, <2>1
    <2> QED  BY <1>6, <2>2, <2>5, <2>6, <2>7, AtWhole
  <1>17. CASE left - Len(e) > 0
    <2>1. left' > 0 /\ n = Len(u) + left'
      <3> DEFINE l == Len(e)
                 m == Len(v)
      <3>1. left' = left - l /\ n = m + left /\ Len(u) = m + l /\ l \in Nat /\ m \in Nat
        BY <1>1, <1>2, <1>9, <1>11
      <3>2. left' > 0
        BY <1>2, <1>17
      <3> HIDE DEF l, m, left
      <3>3. m + left = (m + l) + (left - l)
        BY <1>3, <3>1
      <3> QED  BY <3>1, <3>2, <3>3
    <2>2. InFIFO(p, pre, u)'
      BY <1>2, <1>8, <1>9, <1>12, <1>13, <1>14, <2>1 DEF InFIFO
    <2>3. AtCommand(p, pre)'
      BY <1>11, <2>2 DEF AtCommand
    <2>4. s' = end' /\ pc' # "resume" /\ accepted' = accepted
      BY <1>2, <1>4, <1>17
    <2> QED  BY <1>6, <2>3, <2>4, AtPart
  <1> QED  BY <1>4, <1>16, <1>17

LEMMA InputParser ==
    ASSUME RingTypes, RingHolds, ParserTypes, ParserHolds, NEW m \in Nat, Input(m)
    PROVE  ParserTypes' /\ ParserHolds'
  <1>1. /\ accepted' = accepted \o Stored(m)
        /\ UNCHANGED <<rdWPos, pc, s, end, rest, cmdPhase, cmdOpcode, cmdAddress,
                       cmdStartAddress, cmdEndAddress, writeFIFOBytesLeft, registers,
                       consumed, calls>>
    BY InputStores DEF Input, draining, parser, command
  <1>2. ParserTypes'
    BY <1>1 DEF ParserTypes
  <1>3. \A k \in 1 .. consumed : accepted'[k] = accepted[k]
    <2>1. /\ Stored(m) \in Bytes /\ accepted \in Bytes /\ consumed <= Len(accepted)
          /\ Len(accepted) \in Nat /\ consumed \in Nat /\ Len(Stored(m)) \in Nat
      BY InputStores, Room DEF RingTypes, RingHolds
    <2> DEFINE st == Stored(m)
    <2> HIDE DEF st
    <2>2. \A k \in 1 .. Len(accepted) + Len(st) :
             (accepted \o st)[k] = IF k <= Len(accepted) THEN accepted[k]
                                                         ELSE st[k - Len(accepted)]
      BY <2>1, ConcatProperties DEF Bytes, st
    <2>3. \A k \in 1 .. consumed : k \in 1 .. Len(accepted) + Len(st) /\ k <= Len(accepted)
      BY <2>1 DEF st
    <2>4. accepted' = accepted \o st
      BY <1>1 DEF st
    <2> QED  BY <2>2, <2>3, <2>4
  <1>4. PICK p \in Nat, pre \in Calls : Framed(accepted, p, pre) /\ AtCommand(p, pre)
    BY DEF ParserHolds
  <1>5. consumed \in Nat
    BY DEF RingTypes
  <1>6. p <= consumed
    <2>1. CASE Between(p, pre)
      BY <1>5, <2>1 DEF Between
    <2>2. CASE HasOpcode(p, pre)
      BY <2>2 DEF HasOpcode
    <2>3. ASSUME NEW n \in Nat, HasAddress(p, pre, n) PROVE p <= consumed
      BY <2>3 DEF HasAddress
    <2>4. ASSUME NEW v \in Bytes, InFIFO(p, pre, v) PROVE p <= consumed
      <3>1. Len(v) \in Nat /\ consumed = p + 3 + Len(v)
        BY <2>4 DEF InFIFO, Bytes
      <3> QED  BY <3>1
    <2> QED  BY <1>4, <2>1, <2>2, <2>3, <2>4 DEF AtCommand
  <1>7. Framed(accepted', p, pre)
    <2> SUFFICES ASSUME NEW b \in Bytes, Agrees(b, accepted', p)
                 PROVE  From(b)[1] = pre \o From(b)[p + 1]
      BY DEF Framed
    <2>1. \A k \in 1 .. p : k \in 1 .. consumed
      BY <1>5, <1>6
    <2>2. Agrees(b, accepted, p)
      BY <1>3, <2>1 DEF Agrees
    <2> QED  BY <1>4, <2>2 DEF Framed
  <1>8. AtCommand(p, pre)'
    <2>1. CASE Between(p, pre)
      <3>1. Between(p, pre)'
        BY <1>1, <2>1 DEF Between
      <3> QED  BY <3>1 DEF AtCommand
    <2>2. CASE HasOpcode(p, pre)
      <3>1. p + 1 \in 1 .. consumed
        BY <2>2 DEF HasOpcode
      <3>2. accepted'[p + 1] = accepted[p + 1]
        BY <1>3, <3>1
      <3>3. HasOpcode(p, pre)'
        BY <1>1, <2>2, <3>2 DEF HasOpcode
      <3> QED  BY <3>3 DEF AtCommand
    <2>3. ASSUME NEW n \in Nat, HasAddress(p, pre, n) PROVE AtCommand(p, pre)'
      <3>1. consumed = p + 2 + n
        BY <2>3 DEF HasAddress
      <3>2. p + 1 \in 1 .. consumed /\ p + 2 \in 1 .. consumed
            /\ \A k \in 1 .. n : p + 2 + k \in 1 .. consumed
        BY <3>1
      <3>3. accepted'[p + 1] = accepted[p + 1] /\ accepted'[p + 2] = accepted[p + 2]
            /\ \A k \in 1 .. n : accepted'[p + 2 + k] = accepted[p + 2 + k]
        BY <1>3, <3>2
      <3>4. HasAddress(p, pre, n)'
        BY <1>1, <2>3, <3>3 DEF HasAddress
      <3> QED  BY <3>4 DEF AtCommand
    <2>4. ASSUME NEW v \in Bytes, InFIFO(p, pre, v) PROVE AtCommand(p, pre)'
      <3>1. Len(v) \in Nat /\ consumed = p + 3 + Len(v)
        BY <2>4 DEF InFIFO, Bytes
      <3>2. p + 1 \in 1 .. consumed /\ p + 2 \in 1 .. consumed /\ p + 3 \in 1 .. consumed
            /\ \A k \in 1 .. Len(v) : p + 3 + k \in 1 .. consumed
        BY <3>1
      <3>3. /\ accepted'[p + 1] = accepted[p + 1] /\ accepted'[p + 2] = accepted[p + 2]
            /\ accepted'[p + 3] = accepted[p + 3]
            /\ \A k \in 1 .. Len(v) : accepted'[p + 3 + k] = accepted[p + 3 + k]
        BY <1>3, <3>2
      <3>4. InFIFO(p, pre, v)'
        BY <1>1, <2>4, <3>3 DEF InFIFO
      <3> QED  BY <3>4 DEF AtCommand
    <2> QED  BY <1>4, <2>1, <2>2, <2>3, <2>4 DEF AtCommand
  <1>9. ParserHolds'
    BY <1>1, <1>7, <1>8 DEF ParserHolds
  <1> QED  BY <1>2, <1>9

LEMMA ParserSame ==
    ASSUME ParserTypes, ParserHolds,
           UNCHANGED <<cmdPhase, cmdOpcode, cmdAddress, cmdStartAddress, cmdEndAddress,
                       writeFIFOBytesLeft, registers, accepted, consumed, calls>>,
           pc' = "resume" => writeFIFOBytesLeft > 0,
           pc' = "parse" /\ writeFIFOBytesLeft > 0 => s' = end'
    PROVE  ParserTypes' /\ ParserHolds'
  <1>1. ParserTypes'
    BY DEF ParserTypes
  <1>2. PICK p \in Nat, pre \in Calls : Framed(accepted, p, pre) /\ AtCommand(p, pre)
    BY DEF ParserHolds
  <1>3. AtCommand(p, pre)'
    <2>1. Between(p, pre) => Between(p, pre)'
      BY DEF Between
    <2>2. HasOpcode(p, pre) => HasOpcode(p, pre)'
      BY DEF HasOpcode
    <2>3. \A n \in Nat : HasAddress(p, pre, n) => HasAddress(p, pre, n)'
      BY DEF HasAddress
    <2>4. \A v \in Bytes : InFIFO(p, pre, v) => InFIFO(p, pre, v)'
      BY DEF InFIFO
    <2> QED  BY <1>2, <2>1, <2>2, <2>3, <2>4 DEF AtCommand
  <1>4. ParserHolds'
    BY <1>2, <1>3, AtPart
  <1> QED  BY <1>1, <1>4

LEMMA DrainParser ==
    ASSUME ParserTypes, ParserHolds, BeginDrain \/ NextChunk \/ EndDrain
    PROVE  ParserTypes' /\ ParserHolds'
  <1>1. /\ UNCHANGED <<cmdPhase, cmdOpcode, cmdAddress, cmdStartAddress, cmdEndAddress,
                       writeFIFOBytesLeft, registers, accepted, consumed, calls>>
        /\ pc' = "resume" => writeFIFOBytesLeft > 0
        /\ pc' = "parse" => ~(writeFIFOBytesLeft > 0)
    <2>1. CASE BeginDrain
      BY <2>1 DEF BeginDrain, EntryPoint, parser, command, host
    <2>2. CASE NextChunk
      BY <2>2 DEF NextChunk, EntryPoint, parser, command, host
    <2>3. CASE EndDrain
      BY <2>3 DEF EndDrain, parser, command, host
    <2> QED  BY <2>1, <2>2, <2>3
  <1> QED  BY <1>1, ParserSame

\* What the calls are when a command is not complete.
LEMMA CallsMean ==
    ASSUME RingTypes, RingHolds, ParserTypes, ParserHolds
    PROVE  CallsAreMeaning /\ calls \in Calls
  <1>1. /\ accepted \in Bytes /\ consumed \in Nat /\ consumed <= Len(accepted)
        /\ Len(accepted) \in Nat
    BY Room DEF RingTypes, RingHolds
  <1>2. PICK b : b = SubSeq(accepted, 1, consumed)
    OBVIOUS
  <1>3. b \in Bytes /\ Len(b) = consumed /\ \A k \in 1 .. consumed : b[k] = accepted[k]
    <2>1. 1 \in Int /\ 1 >= 1 /\ consumed \in Int
      BY <1>1
    <2>2. /\ b \in Bytes /\ Len(b) = IF 1 <= consumed THEN consumed - 1 + 1 ELSE 0
          /\ \A k \in 1 .. consumed - 1 + 1 : b[k] = accepted[1 + k - 1]
      BY <1>1, <1>2, <2>1, PartOf
    <2>3. consumed - 1 + 1 = consumed /\ \A k \in 1 .. consumed : 1 + k - 1 = k
      BY <1>1
    <2>4. Len(b) = consumed
      BY <1>1, <2>2
    <2> QED  BY <2>2, <2>3, <2>4
  <1>4. PICK p \in Nat, pre \in Calls : Framed(accepted, p, pre) /\ AtCommand(p, pre)
    BY DEF ParserHolds
  <1> DEFINE f == From(b)
             i == p + 1
  <1>5. p <= Len(b) => f[1] = pre \o f[i]
    <2> SUFFICES ASSUME p <= Len(b) PROVE f[1] = pre \o f[i]
      OBVIOUS
    <2>1. \A k \in 1 .. p : k \in 1 .. consumed
      BY <1>1, <1>3
    <2>2. Agrees(b, accepted, p)
      BY <1>3, <2>1 DEF Agrees
    <2> QED  BY <1>3, <1>4, <2>2 DEF Framed
  <1>6. i \in 1 .. Len(b) => /\ f[i] = Command(b, f, i) /\ CommandTable(b, f, i)
                             /\ b[i] = accepted[i]
    BY <1>1, <1>3, FromIs
  <1>7. f[Len(b) + 1] = << >> /\ Meaning(b) = f[1]
    BY <1>3, FromIs, FromExists
  <1> HIDE DEF f
  <1>8. p <= Len(b) /\ calls = pre \o f[i] /\ calls \in Calls
    <2>1. CASE Between(p, pre)
      <3>1. p = consumed /\ calls = pre
        BY <2>1 DEF Between
      <3>2. f[i] = << >>
        BY <1>3, <1>7, <3>1
      <3> QED  BY <1>1, <1>3, <1>4, <3>1, <3>2, Joined
    <2>2. CASE HasOpcode(p, pre)
      <3>1. consumed = p + 1 /\ calls = pre /\ cmdOpcode = accepted[i]
            /\ cmdOpcode \notin {NOP, INDICATE}
        BY <2>2 DEF HasOpcode
      <3>2. i \in 1 .. Len(b) /\ ~(i + 2 - 1 <= Len(b)) /\ ~(i + 3 - 1 <= Len(b))
        BY <1>3, <3>1
      <3>3. b[i] \in {WRITE} \cup WRITEWIDE => ~(i + (2 + Width(b[i])) - 1 <= Len(b))
        <4> DEFINE w == Width(b[i])
        <4>1. b[i] \in {WRITE} \cup WRITEWIDE => w \in 1 .. 8
          BY Widths
        <4> HIDE DEF w
        <4>2. w \in 1 .. 8 => ~(i + (2 + w) - 1 <= Len(b))
          BY <1>3, <3>1
        <4> QED  BY <4>1, <4>2 DEF w
      <3>4. f[i] = << >>
        BY <1>6, <3>1, <3>2, <3>3 DEF CommandTable, Opcodes
      <3> QED  BY <1>3, <1>4, <3>1, <3>2, <3>4, Joined
    <2>3. ASSUME NEW n \in Nat, HasAddress(p, pre, n)
          PROVE  p <= Len(b) /\ calls = pre \o f[i] /\ calls \in Calls
      <3>1. /\ consumed = p + 2 + n /\ calls = pre /\ cmdOpcode = accepted[i]
            /\ cmdOpcode \notin {NOP, INDICATE} \cup READS
            /\ cmdOpcode \notin WRITEWIDE => n = 0
            /\ cmdOpcode \in WRITEWIDE => n < Width(cmdOpcode)
        BY <2>3 DEF HasAddress
      <3>2. i \in 1 .. Len(b) /\ p <= Len(b)
        BY <1>3, <3>1
      <3>3. b[i] = cmdOpcode
        BY <1>6, <3>1, <3>2
      <3>4. b[i] \notin WRITEWIDE => ~(i + 3 - 1 <= Len(b))
        BY <1>3, <3>1, <3>3
      <3>5. b[i] \in {WRITE} \cup WRITEWIDE => ~(i + (2 + Width(b[i])) - 1 <= Len(b))
        <4> SUFFICES ASSUME b[i] \in {WRITE} \cup WRITEWIDE
                     PROVE  ~(i + (2 + Width(b[i])) - 1 <= Len(b))
          OBVIOUS
        <4> DEFINE w == Width(b[i])
        <4>1. w \in 1 .. 8
          BY Widths
        <4>2. n < w
          <5>1. CASE b[i] \in WRITEWIDE
            BY <3>1, <3>3, <5>1
          <5>2. CASE b[i] \notin WRITEWIDE
            <6>1. n = 0
              BY <3>1, <3>3, <5>2
            <6> HIDE DEF w
            <6> QED  BY <4>1, <6>1
          <5> QED  BY <5>1, <5>2
        <4> HIDE DEF w
        <4>3. ~(i + (2 + w) - 1 <= Len(b))
          BY <1>3, <3>1, <4>1, <4>2
        <4> QED  BY <4>3 DEF w
      <3>6. f[i] = << >>
        BY <1>6, <3>1, <3>2, <3>3, <3>4, <3>5, Distinct DEF CommandTable, Opcodes
      <3> QED  BY <1>4, <3>1, <3>2, <3>6, Joined
    <2>4. ASSUME NEW v \in Bytes, InFIFO(p, pre, v)
          PROVE  p <= Len(b) /\ calls = pre \o f[i] /\ calls \in Calls
      <3>1. PICK n : n = accepted[p + 3]
        OBVIOUS
      <3>2. /\ consumed = p + 3 + Len(v) /\ accepted[p + 1] = WRITEFIFO
            /\ accepted[p + 2] = cmdAddress /\ n = Len(v) + writeFIFOBytesLeft
            /\ \A k \in 1 .. Len(v) : v[k] = accepted[p + 3 + k]
            /\ calls = pre \o (WriteFIFOCall(cmdAddress, n) \o FIFOBytes(cmdAddress, v))
            /\ writeFIFOBytesLeft > 0 /\ Len(v) \in Nat
        BY <2>4, <3>1 DEF InFIFO, Bytes
      <3>3. /\ i \in 1 .. Len(b) /\ i + 1 \in 1 .. consumed /\ i + 2 \in 1 .. consumed
            /\ i + 1 = p + 2 /\ i + 2 = p + 3 /\ i + 3 - 1 <= Len(b) /\ p <= Len(b)
            /\ i + 3 \in Int /\ i + 3 >= 1 /\ Len(b) \in Int /\ Len(b) <= Len(b)
            /\ Len(v) = Len(b) - (i + 3) + 1
        BY <1>3, <3>2
      <3>4. b[i] = WRITEFIFO /\ b[i + 1] = cmdAddress /\ b[i + 2] = n
        BY <1>3, <1>6, <3>1, <3>2, <3>3
      <3>5. n \in 0 .. 255 /\ writeFIFOBytesLeft \in Nat
        <4>1. i + 2 \in Int /\ i + 2 >= 1 /\ i + 2 <= Len(b)
          BY <3>3
        <4>2. b[i + 2] \in 0 .. 255
          <5> DEFINE k == i + 2
          <5> HIDE DEF k
          <5>1. b[k] \in 0 .. 255
            BY <1>3, <4>1, ByteOf DEF k
          <5> QED  BY <5>1 DEF k
        <4>3. writeFIFOBytesLeft \in Nat
          BY DEF ParserTypes
        <4> QED  BY <3>4, <4>2, <4>3
      <3>6. ~(i + (3 + b[i + 2]) - 1 <= Len(b))
        <4>1. ~(i + (3 + n) - 1 <= Len(b))
          BY <1>3, <3>2, <3>5
        <4> QED  BY <3>4, <4>1
      <3>7. SubSeq(b, i + 3, Len(b)) = v
        <4>1. \A k \in 1 .. Len(v) : v[k] = b[(i + 3) + k - 1]
          <5> TAKE k \in 1 .. Len(v)
          <5>1. (i + 3) + k - 1 = p + 3 + k /\ p + 3 + k \in 1 .. consumed
            BY <3>2
          <5> QED  BY <1>3, <3>2, <5>1
        <4> HIDE DEF i
        <4> QED  BY <1>3, <3>3, <4>1, PartIs
      <3>8. f[i] = WriteFIFOCall(cmdAddress, n) \o FIFOBytes(cmdAddress, v)
        BY <1>6, <3>3, <3>4, <3>6, <3>7, Zenon DEF CommandTable
      <3>9. calls \in Calls
        <4>1. cmdAddress \in 0 .. 255
          BY DEF ParserTypes
        <4>2. WriteFIFOCall(cmdAddress, n) \in Calls /\ FIFOBytes(cmdAddress, v) \in Calls
          BY <3>5, <4>1, CallTypes, Zenon
        <4> QED  BY <1>4, <3>2, <4>2, Joined
      <3> QED  BY <3>2, <3>3, <3>8, <3>9
    <2> QED  BY <1>4, <2>1, <2>2, <2>3, <2>4 DEF AtCommand
  <1>9. calls = Meaning(b)
    BY <1>5, <1>7, <1>8
  <1> QED  BY <1>2, <1>8, <1>9 DEF CallsAreMeaning

\* The rounds of the parser's loop.
Round == Opcode \/ Address \/ Parameter \/ WriteMore \/ WriteLast \/ StartWriteFIFO
            \/ ResumeWriteFIFO

LEMMA RoundTakes ==
    ASSUME RingTypes, RingHolds, ParserTypes, Round
    PROVE  /\ pc # "idle" /\ pc' = "parse"
           /\ \E n \in Nat : n <= end - s /\ \E made : Take(n, made)
  <1>1. CASE Opcode \/ Address \/ Parameter \/ WriteMore \/ WriteLast
    <2>1. pc = "parse" /\ s < end /\ pc' = pc
      BY <1>1 DEF Opcode, Address, Parameter, WriteMore, WriteLast, AtPhase
    <2>2. \E made : Take(1, made)
      BY <1>1 DEF Opcode, Address, Parameter, WriteMore, WriteLast
    <2>3. 1 \in Nat /\ 1 <= end - s
      BY <2>1, ByteRead
    <2> QED  BY <2>1, <2>2, <2>3
  <1>2. CASE StartWriteFIFO
    <2>1. pc = "parse" /\ s < end /\ pc' = pc
      BY <1>2 DEF StartWriteFIFO, AtPhase
    <2>2. PICK n : n = 1 + Len(FirstBytes)
      OBVIOUS
    <2>3. n \in Nat /\ n <= end - s
      BY <2>1, <2>2, FirstBytesAre
    <2>4. \E made : Take(n, made)
      BY <1>2, <2>2 DEF StartWriteFIFO
    <2> QED  BY <2>1, <2>3, <2>4
  <1>3. CASE ResumeWriteFIFO
    <2>1. pc = "resume" /\ pc' = "parse"
      BY <1>3 DEF ResumeWriteFIFO
    <2>2. PICK n : n = Len(ResumedBytes)
      OBVIOUS
    <2>3. n \in Nat /\ n <= end - s
      BY <2>1, <2>2, ResumedBytesAre
    <2>4. \E made : Take(n, made)
      BY <1>3, <2>2 DEF ResumeWriteFIFO
    <2> QED  BY <2>1, <2>3, <2>4
  <1> QED  BY <1>1, <1>2, <1>3 DEF Round

LEMMA RoundRing ==
    ASSUME RingTypes, RingHolds, ParserTypes, Round
    PROVE  RingTypes' /\ RingHolds' /\ Base' = Base /\ Snap' = Snap
  <1>1. pc # "idle" /\ pc' \in {"resume", "parse"}
    BY RoundTakes
  <1>2. PICK n \in Nat : n <= end - s /\ \E made : Take(n, made)
    BY RoundTakes
  <1>3. PICK made : Take(n, made)
    BY <1>2
  <1> QED  BY <1>1, <1>2, <1>3, TakeRing

LEMMA RoundParser ==
    ASSUME RingTypes, RingHolds, ParserTypes, ParserHolds, Round, RegistersHold(registers')
    PROVE  ParserTypes' /\ ParserHolds'
  <1>1. CASE Opcode
    BY <1>1, OpcodeStep
  <1>2. CASE Address
    BY <1>2, AddressStep
  <1>3. CASE Parameter
    BY <1>3, ParameterStep
  <1>4. CASE WriteMore
    BY <1>4, WriteMoreStep
  <1>5. CASE WriteLast
    BY <1>5, WriteLastStep
  <1>6. CASE StartWriteFIFO
    BY <1>6, StartStep
  <1>7. CASE ResumeWriteFIFO
    BY <1>7, ResumeStep
  <1> QED  BY <1>1, <1>2, <1>3, <1>4, <1>5, <1>6, <1>7 DEF Round

-------------------------------------------------------------------------------
(* The handlers of the bootloader.                                         *)

LEMMA WordCount ==
    ASSUME NEW b \in Bytes
    PROVE  /\ Len(WordsOf(b)) \in Nat
           /\ 4 * Len(WordsOf(b)) <= Len(b) /\ Len(b) < 4 * Len(WordsOf(b)) + 4
           /\ Leftover(b) = SubSeq(b, 4 * Len(WordsOf(b)) + 1, Len(b))
           /\ Leftover(b) \in Bytes /\ Len(Leftover(b)) = Len(b) - 4 * Len(WordsOf(b))
           /\ \A k \in 1 .. Len(b) - 4 * Len(WordsOf(b)) :
                 Leftover(b)[k] = b[4 * Len(WordsOf(b)) + k]
           /\ \A i \in 1 .. Len(WordsOf(b)) :
                 WordsOf(b)[i] = SubSeq(b, 4 * (i - 1) + 1, 4 * i)
  <1> DEFINE n == Len(b)
             w == n \div 4
  <1>1. n \in Nat
    BY DEF Bytes
  <1>2. w \in Nat /\ 4 * w <= n /\ n < 4 * w + 4
    <2> HIDE DEF n
    <2> QED  BY <1>1
  <1>3. Len(WordsOf(b)) = w
    <2> HIDE DEF w
    <2> QED  BY <1>2 DEF WordsOf, WordSize, w
  <1>4. \A i \in 1 .. w : WordsOf(b)[i] = SubSeq(b, 4 * (i - 1) + 1, 4 * i)
    BY DEF WordsOf, WordSize
  <1>5. Leftover(b) = SubSeq(b, 4 * w + 1, n)
    BY DEF Leftover, WordSize
  <1> HIDE DEF w
  <1>6. 4 * w + 1 \in Int /\ 4 * w + 1 >= 1 /\ n \in Int /\ n <= Len(b)
        /\ n - (4 * w + 1) + 1 = n - 4 * w
    BY <1>1, <1>2
  <1>7. /\ Leftover(b) \in Bytes
        /\ Len(Leftover(b)) = IF 4 * w + 1 <= n THEN n - (4 * w + 1) + 1 ELSE 0
        /\ \A k \in 1 .. n - (4 * w + 1) + 1 : Leftover(b)[k] = b[(4 * w + 1) + k - 1]
    BY <1>5, <1>6, PartOf
  <1>8. Len(Leftover(b)) = n - 4 * w
    <2> HIDE DEF n
    <2> QED  BY <1>1, <1>2, <1>7
  <1>9. \A k \in 1 .. n - 4 * w : Leftover(b)[k] = b[4 * w + k]
    <2> TAKE k \in 1 .. n - 4 * w
    <2>1. (4 * w + 1) + k - 1 = 4 * w + k /\ k \in 1 .. n - (4 * w + 1) + 1
      BY <1>1, <1>2, <1>6
    <2> QED  BY <1>7, <2>1
  <1> QED  BY <1>2, <1>3, <1>4, <1>5, <1>7, <1>8, <1>9

LEMMA StartIsInt ==
    ASSUME NEW r, RegistersHold(r)
    PROVE  FlashWriteStart(r) \in Nat
  <1> DEFINE b == RegBytes(r, FLASHSTART, 4)
  <1>1. \A k \in 1 .. 4 : b[k] \in 0 .. 255
    BY DEF RegBytes, Reg, RegistersHold
  <1>2. b[1] \in 0 .. 255 /\ b[2] \in 0 .. 255 /\ b[3] \in 0 .. 255 /\ b[4] \in 0 .. 255
    <2> HIDE DEF b
    <2> QED  BY <1>1
  <1> HIDE DEF b
  <1> DEFINE w == b[1]
             x == b[2]
             y == b[3]
             z == b[4]
  <1>3. FlashWriteStart(r) = w + 256 * x + 65536 * y + 16777216 * z
    BY DEF FlashWriteStart, Uint32, b
  <1>4. w \in 0 .. 255 /\ x \in 0 .. 255 /\ y \in 0 .. 255 /\ z \in 0 .. 255
    BY <1>2
  <1> HIDE DEF w, x, y, z
  <1> QED  BY <1>3, <1>4

LEMMA SetStartTyped ==
    ASSUME NEW r, RegistersHold(r), NEW n \in Nat
    PROVE  RegistersHold(SetFlashWriteStart(r, n))
  <1>1. \A k \in 1 .. 4 : Uint32Bytes(n)[k] \in 0 .. 255
    <2>1. \A x \in Int : x % 256 \in 0 .. 255
      OBVIOUS
    <2>2. n \in Int /\ n \div 256 \in Int /\ n \div 65536 \in Int /\ n \div 16777216 \in Int
      OBVIOUS
    <2>3. /\ n % 256 \in 0 .. 255 /\ (n \div 256) % 256 \in 0 .. 255
          /\ (n \div 65536) % 256 \in 0 .. 255 /\ (n \div 16777216) % 256 \in 0 .. 255
      BY <2>1, <2>2
    <2>4. \A w, x, y, z \in 0 .. 255 : \A k \in 1 .. 4 : <<w, x, y, z>>[k] \in 0 .. 255
      OBVIOUS
    <2> DEFINE w == n % 256
               x == (n \div 256) % 256
               y == (n \div 65536) % 256
               z == (n \div 16777216) % 256
    <2>5. Uint32Bytes(n) = <<w, x, y, z>>
      BY DEF Uint32Bytes
    <2>6. w \in 0 .. 255 /\ x \in 0 .. 255 /\ y \in 0 .. 255 /\ z \in 0 .. 255
      BY <2>3
    <2> HIDE DEF w, x, y, z
    <2> QED  BY <2>4, <2>5, <2>6, ZenonT(30)
  <1> DEFINE u == Uint32Bytes(n)
  <1> HIDE DEF u
  <1>2. \A a \in FLASHSTART .. FLASHSTART + 3 : u[a - FLASHSTART + 1] \in 0 .. 255
    <2>1. \A a \in FLASHSTART .. FLASHSTART + 3 : a - FLASHSTART + 1 \in 1 .. 4
      BY DEF FLASHSTART
    <2> QED  BY <1>1, <2>1 DEF u
  <1> DEFINE D == FLASHSTART .. FLASHSTART + 3
             g == [a \in DOMAIN r \cup D |-> IF a \in D THEN u[a - FLASHSTART + 1] ELSE r[a]]
  <1>3. \A a \in DOMAIN r : r[a] \in 0 .. 255
    BY DEF RegistersHold
  <1>4. \A a \in DOMAIN r \cup D : g[a] \in 0 .. 255
    <2> HIDE DEF D
    <2>1. \A a \in D : u[a - FLASHSTART + 1] \in 0 .. 255
      BY <1>2 DEF D
    <2> QED  BY <1>3, <2>1
  <1>5. DOMAIN g = DOMAIN r \cup D
    OBVIOUS
  <1>6. SetFlashWriteStart(r, n) = g
    BY DEF SetFlashWriteStart, u
  <1> HIDE DEF g, D
  <1> QED  BY <1>4, <1>5, <1>6 DEF RegistersHold

LEMMA HandlerTyped ==
    ASSUME NEW a, NEW d \in Bytes, wordBuffer \in Bytes, RegistersHold(registers),
           HandleWriteFIFO(a, d)
    PROVE  wordBuffer' \in Bytes /\ RegistersHold(registers')
  <1>1. wordBuffer \o d \in Bytes
    BY ConcatProperties DEF Bytes
  <1>2. CASE a # FLASHFIFO \/ HeldBack(wordBuffer, d)
    BY <1>1, <1>2 DEF HandleWriteFIFO
  <1>3. CASE ~(a # FLASHFIFO \/ HeldBack(wordBuffer, d))
    <2> DEFINE b == wordBuffer \o d
               n == StartAfter(FlashWriteStart(registers), WordsOf(b))
    <2>1. wordBuffer' = Leftover(b) /\ registers' = SetFlashWriteStart(registers, n)
      BY <1>3 DEF HandleWriteFIFO
    <2>2. n \in Nat
      <3> HIDE DEF b
      <3>1. FlashWriteStart(registers) \in Nat /\ Len(WordsOf(b)) \in Nat
        BY <1>1, StartIsInt, WordCount DEF b
      <3> QED  BY <3>1 DEF StartAfter, WordSize
    <2>3. Leftover(b) \in Bytes
      <3> HIDE DEF b
      <3> QED  BY <1>1, WordCount DEF b
    <2> HIDE DEF n
    <2>4. RegistersHold(SetFlashWriteStart(registers, n))
      BY <2>2, SetStartTyped
    <2> QED  BY <2>1, <2>3, <2>4
  <1> QED  BY <1>2, <1>3

-------------------------------------------------------------------------------
(* The inductive invariant.                                                *)

LinkInv == RingTypes /\ RingHolds /\ ParserTypes /\ ParserHolds /\ wordBuffer \in Bytes

LEMMA LinkInvInit == Init => LinkInv
  <1> SUFFICES ASSUME Init PROVE LinkInv
    OBVIOUS
  <1>1. /\ buffer = [i \in 0 .. BufferSize - 1 |-> 0] /\ wpos = 0 /\ rpos = 0
        /\ rdWPos = 0 /\ pc = "idle" /\ s = 0 /\ end = 0 /\ rest = 0
        /\ cmdPhase = 0 /\ cmdOpcode = 0 /\ cmdAddress = 255 /\ cmdEndAddress = 255
        /\ cmdStartAddress = 0 /\ writeFIFOBytesLeft = 0 /\ registers = << >>
        /\ stream \in Streams /\ arrived = 0 /\ accepted = << >> /\ consumed = 0
        /\ replies = 0 /\ calls = << >> /\ wordBuffer = << >>
    BY DEF Init, LinkInit
  <1>2. << >> \in Bytes /\ Len(<< >>) = 0
    BY EmptySeq DEF Bytes
  <1>3. BufferSize \in Nat /\ 0 \in 0 .. BufferSize - 1 /\ Mod(0) = 0
    <2>1. BufferSize \in Nat /\ 0 \in 0 .. BufferSize - 1
      BY Ring
    <2> QED  BY <2>1, Ring
  <1>4. RingTypes
    <2>1. 0 \in 0 .. Len(stream.bytes)
      <3>1. Len(stream.bytes) \in Nat
        BY <1>1, Hosts
      <3> QED  BY <3>1
    <2>2. 0 \in 0 .. 0 /\ 0 \in 0 .. BufferSize /\ 0 \in Nat /\ 0 \in 0 .. 255 /\ 0 <= 0
      BY <1>3
    <2>3. [i \in 0 .. BufferSize - 1 |-> 0] \in [0 .. BufferSize - 1 -> 0 .. 255]
      BY <2>2
    <2> QED  BY <1>1, <1>2, <1>3, <2>1, <2>2, <2>3 DEF RingTypes
  <1>5. Base = 0
    <2>1. wpos - rpos = 0
      BY <1>1
    <2>2. Mod(wpos - rpos) = 0
      BY <1>3, <2>1
    <2>3. Len(accepted) = 0
      BY <1>1, <1>2
    <2> QED  BY <2>2, <2>3 DEF Base
  <1>6. RingHolds
    <2>1. \A n \in 0 .. 0 - 1 : FALSE
      OBVIOUS
    <2> QED  BY <1>1, <1>2, <1>3, <1>5, <2>1 DEF RingHolds
  <1>7. ParserTypes
    <2>1. RegistersHold(<< >>)
      BY DEF RegistersHold
    <2> QED  BY <1>1, <2>1 DEF ParserTypes
  <1>8. ParserHolds
    <2>1. << >> \in Calls /\ 0 \in Nat
      BY Joined
    <2>2. Framed(accepted, 0, << >>)
      <3> SUFFICES ASSUME NEW b \in Bytes PROVE From(b)[1] = << >> \o From(b)[0 + 1]
        BY DEF Framed
      <3>1. From(b)[1] \in Calls
        <4>1. 1 \in 1 .. Len(b) + 1
          BY DEF Bytes
        <4> QED  BY <4>1, FromTyped
      <3>2. From(b)[1] = << >> \o From(b)[1]
        BY <3>1, Joined
      <3> QED  BY <3>2
    <2>3. AtCommand(0, << >>)
      BY <1>1 DEF AtCommand, Between
    <2> QED  BY <1>1, <2>1, <2>2, <2>3 DEF ParserHolds
  <1> QED  BY <1>1, <1>2, <1>4, <1>6, <1>7, <1>8 DEF LinkInv

\* Every step of the system is of one of these kinds for the link.
LEMMA Steps ==
    ASSUME LinkInv, Next
    PROVE  \/ (\E n \in 1 .. PacketMax : Input(n)) /\ UNCHANGED boot
           \/ (BeginDrain \/ NextChunk \/ EndDrain) /\ UNCHANGED boot
           \/ Round /\ RegistersHold(registers') /\ wordBuffer' \in Bytes
  <1> USE DEF LinkInv
  <1>1. CASE Receive
    BY <1>1 DEF Receive
  <1>2. CASE MainLoop
    <2>1. CASE Parsing /\ UNCHANGED boot
      <3>1. CASE BeginDrain \/ NextChunk \/ EndDrain
        BY <2>1, <3>1
      <3>2. CASE Opcode \/ Address \/ Parameter \/ WriteMore
        <4>1. ParserTypes'
          BY <3>2, OpcodeStep, AddressStep, ParameterStep, WriteMoreStep
        <4> QED  BY <2>1, <3>2, <4>1 DEF Round, boot, ParserTypes
      <3> QED  BY <2>1, <3>1, <3>2 DEF Parsing
    <2>2. ASSUME NEW a, WriteLast, HandleWrite(a)
          PROVE  Round /\ RegistersHold(registers') /\ wordBuffer' \in Bytes
      <3>1. ParserTypes'
        BY <2>2, WriteLastStep
      <3> QED  BY <2>2, <3>1 DEF Round, HandleWrite, ParserTypes
    <2>3. CASE StartWriteFIFO /\ HandleWriteFIFO(cmdAddress, FirstBytes)
      <3>1. pc = "parse" /\ s < end
        BY <2>3 DEF StartWriteFIFO, AtPhase
      <3>2. FirstBytes \in Bytes
        BY <3>1, FirstBytesAre
      <3> QED  BY <2>3, <3>2, HandlerTyped DEF Round, ParserTypes
    <2>4. CASE ResumeWriteFIFO /\ HandleWriteFIFO(cmdAddress, ResumedBytes)
      <3>1. pc # "idle"
        BY <2>4 DEF ResumeWriteFIFO
      <3>2. ResumedBytes \in Bytes
        BY <3>1, ResumedBytesAre
      <3> QED  BY <2>4, <3>2, HandlerTyped DEF Round, ParserTypes
    <2> QED  BY <1>2, <2>1, <2>2, <2>3, <2>4 DEF MainLoop
  <1> QED  BY <1>1, <1>2 DEF Next

LEMMA LinkInvStep == LinkInv /\ [Next]_bootVars => LinkInv'
  <1> SUFFICES ASSUME LinkInv, [Next]_bootVars PROVE LinkInv'
    OBVIOUS
  <1> USE DEF LinkInv
  <1>1. ASSUME NEW n \in 1 .. PacketMax, Input(n), UNCHANGED boot PROVE LinkInv'
    <2>1. n \in Nat
      BY LinkAssumption
    <2> QED  BY <1>1, <2>1, InputRing, InputParser DEF boot
  <1>2. CASE (BeginDrain \/ NextChunk \/ EndDrain) /\ UNCHANGED boot
    <2>1. RingTypes' /\ RingHolds'
      BY <1>2, BeginRing, NextRing, EndRing
    <2>2. ParserTypes' /\ ParserHolds'
      BY <1>2, DrainParser
    <2> QED  BY <1>2, <2>1, <2>2 DEF boot
  <1>3. CASE Round /\ RegistersHold(registers') /\ wordBuffer' \in Bytes
    <2>1. RingTypes' /\ RingHolds'
      BY <1>3, RoundRing
    <2>2. ParserTypes' /\ ParserHolds'
      BY <1>3, RoundParser
    <2> QED  BY <1>3, <2>1, <2>2
  <1>4. CASE UNCHANGED bootVars
    <2>1. UNCHANGED <<buffer, wpos, rpos, rdWPos, pc, s, end, rest, cmdPhase, cmdOpcode,
                      cmdAddress, cmdStartAddress, cmdEndAddress, writeFIFOBytesLeft,
                      registers, stream, arrived, accepted, consumed, replies, calls,
                      wordBuffer>>
      BY <1>4 DEF bootVars, linkVars, boot, ring, draining, parser, command, host
    <2>2. RingTypes' /\ Base' = Base /\ Snap' = Snap
      BY <2>1 DEF RingTypes, Base, Snap
    <2>3. RingHolds'
      BY <2>1, <2>2 DEF RingHolds
    <2>4. ParserTypes' /\ ParserHolds'
      <3>1. /\ pc' = "resume" => writeFIFOBytesLeft > 0
            /\ pc' = "parse" /\ writeFIFOBytesLeft > 0 => s' = end'
        BY <2>1 DEF ParserHolds
      <3> QED  BY <2>1, <3>1, ParserSame
    <2> QED  BY <2>1, <2>2, <2>3, <2>4
  <1>5. Next => LinkInv'
    <2> SUFFICES ASSUME Next PROVE LinkInv'
      OBVIOUS
    <2>1. \/ (\E n \in 1 .. PacketMax : Input(n)) /\ UNCHANGED boot
          \/ (BeginDrain \/ NextChunk \/ EndDrain) /\ UNCHANGED boot
          \/ Round /\ RegistersHold(registers') /\ wordBuffer' \in Bytes
      BY Steps
    <2> HIDE DEF LinkInv
    <2> QED  BY <1>1, <1>2, <1>3, <2>1
  <1> QED  BY <1>4, <1>5

(***************************************************************************)
(* The inductive invariant: the words of the ring between Base and the end *)
(* of what was stored are the bytes accepted, what drain() has handed to   *)
(* the parser lies among them (StreamFIFO), and the parser has reached a   *)
(* certain place within the command that begins at a boundary of commands, *)
(* with the calls made being what comes before means (CommandParser).      *)
(***************************************************************************)
THEOREM LinkInvariance == Spec => []LinkInv
  BY LinkInvInit, LinkInvStep, PTL DEF Spec

(***************************************************************************)
(* Whatever is sent, in packets of whatever size, and wherever the ring    *)
(* wraps: the positions of StreamFIFO and the variables of CommandParser   *)
(* stay in their ranges, the parser never reads more than was stored, and  *)
(* data is owed to a FIFO write only between commands                      *)
(* (stream_fifo.cpp, command_parser.cpp).                                  *)
(***************************************************************************)
THEOREM LinkTyping == Spec => []LinkTypeOK
  <1>1. LinkInv => LinkTypeOK
    <2> SUFFICES ASSUME LinkInv PROVE LinkTypeOK
      OBVIOUS
    <2>1. writeFIFOBytesLeft > 0 => cmdPhase = 0
      <3>1. PICK p \in Nat, pre \in Calls : AtCommand(p, pre)
        BY DEF LinkInv, ParserHolds
      <3>2. writeFIFOBytesLeft = 0 => ~(writeFIFOBytesLeft > 0)
        OBVIOUS
      <3> QED  BY <3>1, <3>2 DEF AtCommand, Between, HasOpcode, HasAddress, InFIFO
    <2> QED  BY <2>1 DEF LinkInv, RingTypes, RingHolds, ParserTypes, LinkTypeOK
  <1> QED  BY <1>1, LinkInvariance, PTL

(***************************************************************************)
(* Whatever packets the stream comes in, the handlers have been called     *)
(* with exactly what the bytes parsed so far mean (command_parser.hpp:5-20)*)
(***************************************************************************)
THEOREM Meaningful == Spec => []CallsAreMeaning
  <1>1. LinkInv => CallsAreMeaning
    BY CallsMean DEF LinkInv
  <1> QED  BY <1>1, LinkInvariance, PTL

(***************************************************************************)
(* Bytes are dropped only when the ring is left full to its last usable    *)
(* slot (stream_fifo.cpp:8-9).                                             *)
(***************************************************************************)
THEOREM OnlyWhenFull == Spec => DroppedOnlyWhenFull
  <1>1. LinkInv /\ [Next]_bootVars
          => [Len(accepted') - Len(accepted) < arrived' - arrived
                => (wpos' + 1) % BufferSize = rpos]_linkVars
    <2> SUFFICES ASSUME LinkInv, Next,
                        Len(accepted') - Len(accepted) < arrived' - arrived
                 PROVE  (wpos' + 1) % BufferSize = rpos
      BY DEF bootVars
    <2>1. \E n \in 1 .. PacketMax : Input(n)
      <3>1. Len(accepted) \in Nat /\ arrived \in Int
        BY DEF LinkInv, RingTypes, Bytes
      <3>2. ~UNCHANGED <<accepted, arrived>>
        BY <3>1
      <3>3. BeginDrain \/ NextChunk \/ EndDrain => UNCHANGED <<accepted, arrived>>
        BY DEF BeginDrain, NextChunk, EndDrain, host
      <3>4. Round => UNCHANGED <<accepted, arrived>>
        <4>1. \A k, made : Take(k, made) => UNCHANGED <<accepted, arrived>>
          BY DEF Take, host
        <4> QED  BY <4>1, RoundTakes DEF LinkInv
      <3> QED  BY <3>2, <3>3, <3>4, Steps
    <2>2. PICK n \in 1 .. PacketMax : Input(n)
      BY <2>1
    <2> DEFINE st == Stored(n)
               L  == Len(accepted)
               l  == Len(st)
               sl == SpaceLeft(rpos, wpos)
    <2>3. n \in Nat
      BY LinkAssumption
    <2>4. /\ l \in Nat /\ st \in Bytes /\ l = (IF n > sl THEN sl ELSE n)
          /\ accepted' = accepted \o st /\ arrived' = arrived + n
      BY <2>2, <2>3, InputStores DEF LinkInv, Input
    <2>5. /\ Base \in Nat /\ L \in Nat /\ L - Base \in 0 .. BufferSize - 1
          /\ sl = BufferSize - 1 - (L - Base) /\ accepted \in Bytes /\ arrived \in Nat
          /\ BufferSize \in Int
      BY Room, Ring DEF LinkInv, RingTypes
    <2>6. Len(accepted') = L + l
      BY <2>4, <2>5, ConcatProperties DEF Bytes
    <2>7. l = sl
      <3> HIDE DEF l, L, sl
      <3>1. l < n
        BY <2>3, <2>4, <2>5, <2>6 DEF L
      <3> QED  BY <2>4, <3>1
    <2>8. Base' = Base /\ wpos' = Mod(L + l) /\ rpos = Mod(Base) /\ RingHolds'
      <3>1. Base' = Base /\ RingHolds'
        BY <2>2, <2>3, InputRing DEF LinkInv
      <3>2. wpos' = Mod(Len(accepted'))
        BY <3>1 DEF RingHolds
      <3> QED  BY <2>6, <3>1, <3>2 DEF LinkInv, RingHolds
    <2> HIDE DEF L, l, sl, Base
    <2>9. L + l + 1 = Base + BufferSize
      BY <2>4, <2>5, <2>7
    <2>10. Mod(wpos' + 1) = Mod(L + l + 1)
      <3>1. wpos' \in Int /\ Mod(wpos') = Mod(L + l) /\ L + l \in Int
        <4>1. L + l \in Int
          BY <2>4, <2>5
        <4> QED  BY <2>8, <4>1, Ring
      <3> QED  BY <3>1, ModSame
    <2>11. Mod(Base + BufferSize) = Mod(Base)
      <3>1. Mod(BufferSize) = Mod(0) /\ BufferSize \in Int /\ 0 \in Int /\ Base \in Int
        BY <2>5, Ring
      <3>2. Mod(BufferSize + Base) = Mod(0 + Base)
        BY <3>1, ModSame, Zenon
      <3>3. BufferSize + Base = Base + BufferSize /\ 0 + Base = Base
        BY <3>1
      <3> QED  BY <3>2, <3>3
    <2> QED  BY <2>8, <2>9, <2>10, <2>11 DEF Mod
  <1> QED  BY <1>1, LinkInvariance, PTL DEF Spec, DroppedOnlyWhenFull
-------------------------------------------------------------------------------
(* The replies among the calls.                                            *)

NoReplies(k) == \A i \in 1 .. Len(k) : k[i].to # "reply"
NoWrites(k)  == \A i \in 1 .. Len(k) : k[i].to # "handleWrite"

\* Calls as they are made at one time.
Makes(made) == made \in Calls /\ (made = ReplyCall \/ NoReplies(made))
Quiet(made) == Makes(made) /\ NoWrites(made)

LEMMA SilentCalls ==
    ASSUME NEW a \in 0 .. 255
    PROVE  /\ Quiet(<< >>) /\ Quiet(ReplyCall)
           /\ \A n \in 0 .. 255 : Quiet(SendCall(a, n)) /\ Quiet(ReadFIFOCall(a, n))
           /\ \A d \in Bytes : Makes(WriteCall(a, d)) /\ Quiet(FIFOBytes(a, d))
           /\ \A n \in 0 .. 255, d \in Bytes :
                 Quiet(WriteFIFOCall(a, n) \o FIFOBytes(a, d))
  <1>1. Quiet(<< >>)
    BY Joined DEF Quiet, Makes, NoReplies, NoWrites
  <1>0. Quiet(ReplyCall)
    <2>1. ReplyCall \in Calls
      BY CallTypes, Zenon
    <2>2. NoWrites(ReplyCall)
      BY DEF NoWrites, ReplyCall
    <2> QED  BY <2>1, <2>2 DEF Quiet, Makes
  <1>2. \A n \in 0 .. 255 : Quiet(SendCall(a, n)) /\ Quiet(ReadFIFOCall(a, n))
    <2> TAKE n \in 0 .. 255
    <2>1. SendCall(a, n) \in Calls /\ ReadFIFOCall(a, n) \in Calls
      BY CallTypes, Zenon
    <2>2. NoReplies(SendCall(a, n)) /\ NoReplies(ReadFIFOCall(a, n))
      BY DEF NoReplies, SendCall, ReadFIFOCall
    <2>3. NoWrites(SendCall(a, n)) /\ NoWrites(ReadFIFOCall(a, n))
      BY DEF NoWrites, SendCall, ReadFIFOCall
    <2> QED  BY <2>1, <2>2, <2>3 DEF Makes, Quiet
  <1>3. \A d \in Bytes : /\ NoReplies(FIFOBytes(a, d)) /\ NoWrites(FIFOBytes(a, d))
                         /\ FIFOBytes(a, d) \in Calls
    <2> TAKE d \in Bytes
    <2>1. /\ FIFOBytes(a, d) \in Calls /\ Len(FIFOBytes(a, d)) = Len(d)
          /\ \A k \in 1 .. Len(d) : FIFOBytes(a, d)[k] = [to |-> "fifo", address |-> a,
                                                         data |-> <<d[k]>>]
      BY FIFOBytesAre
    <2>2. ASSUME NEW k \in 1 .. Len(d) PROVE FIFOBytes(a, d)[k].to = "fifo"
      <3>1. PICK x : x = FIFOBytes(a, d)[k]
        OBVIOUS
      <3>2. x = [to |-> "fifo", address |-> a, data |-> <<d[k]>>]
        BY <2>1, <3>1
      <3>3. x.to = "fifo"
        BY <3>2
      <3> QED  BY <3>1, <3>3
    <2> QED  BY <2>1, <2>2 DEF NoReplies, NoWrites
  <1>4. \A d \in Bytes : Makes(WriteCall(a, d)) /\ Quiet(FIFOBytes(a, d))
    <2> TAKE d \in Bytes
    <2>1. WriteCall(a, d) \in Calls
      BY CallTypes, ZenonT(30)
    <2>2. NoReplies(WriteCall(a, d))
      BY DEF NoReplies, WriteCall
    <2> QED  BY <1>3, <2>1, <2>2 DEF Makes, Quiet
  <1>5. ASSUME NEW n \in 0 .. 255, NEW d \in Bytes
        PROVE  Quiet(WriteFIFOCall(a, n) \o FIFOBytes(a, d))
    <2> DEFINE x == WriteFIFOCall(a, n)
               y == FIFOBytes(a, d)
    <2>1. x \in Calls /\ y \in Calls /\ NoReplies(y) /\ NoWrites(y)
      BY <1>3, CallTypes, Zenon
    <2>2. Len(x) = 1 /\ x[1].to = "handleWriteFIFO"
      BY DEF WriteFIFOCall
    <2> HIDE DEF x, y
    <2>3. /\ x \o y \in Calls /\ Len(x \o y) = Len(x) + Len(y) /\ Len(y) \in Nat
          /\ \A i \in 1 .. Len(x) + Len(y) :
                (x \o y)[i] = IF i <= Len(x) THEN x[i] ELSE y[i - Len(x)]
      BY <2>1, ConcatProperties DEF Calls
    <2>4. ASSUME NEW i \in 1 .. Len(x \o y)
          PROVE  (x \o y)[i].to # "reply" /\ (x \o y)[i].to # "handleWrite"
      <3>1. i \in 1 .. 1 + Len(y) /\ (x \o y)[i] = IF i <= 1 THEN x[i] ELSE y[i - 1]
        BY <2>2, <2>3
      <3>2. CASE i = 1
        BY <2>2, <3>1, <3>2
      <3>3. CASE i # 1
        <4>1. ~(i <= 1) /\ i - 1 \in 1 .. Len(y)
          BY <2>3, <3>1, <3>3
        <4> QED  BY <2>1, <3>1, <4>1 DEF NoReplies, NoWrites
      <3> QED  BY <3>2, <3>3
    <2>5. NoReplies(x \o y) /\ NoWrites(x \o y)
      BY <2>4 DEF NoReplies, NoWrites
    <2> QED  BY <2>3, <2>5 DEF Makes, Quiet, x, y
  <1> QED  BY <1>0, <1>1, <1>2, <1>4, <1>5

LEMMA RepliesJoin ==
    ASSUME NEW x \in Calls, NEW made, Makes(made)
    PROVE  RepliesIn(x \o made) = RepliesIn(x) + (IF made = ReplyCall THEN 1 ELSE 0)
  <1> DEFINE R(k) == {i \in 1 .. Len(k) : k[i].to = "reply"}
             z    == x \o made
  <1>1. made \in Calls /\ Len(x) \in Nat /\ Len(made) \in Nat
    BY DEF Makes, Calls
  <1>2. /\ Len(z) = Len(x) + Len(made)
        /\ \A i \in 1 .. Len(x) + Len(made) :
              z[i] = IF i <= Len(x) THEN x[i] ELSE made[i - Len(x)]
    BY <1>1, ConcatProperties DEF Calls
  <1> HIDE DEF z
  <1>3. IsFiniteSet(R(x)) /\ Cardinality(R(x)) \in Nat
    <2>1. IsFiniteSet(1 .. Len(x))
      BY <1>1, FS_Interval
    <2>2. R(x) \subseteq 1 .. Len(x)
      OBVIOUS
    <2> QED  BY <2>1, <2>2, FS_Subset, FS_CardinalityType
  <1>4. \A i \in 1 .. Len(x) : i \in 1 .. Len(z) /\ z[i] = x[i]
    BY <1>1, <1>2
  <1>5. CASE made = ReplyCall
    <2>1. Len(made) = 1 /\ made[1].to = "reply"
      BY <1>5 DEF ReplyCall
    <2>2. /\ Len(z) = Len(x) + 1
          /\ \A i \in 1 .. Len(x) + 1 : i = Len(x) + 1 => z[i] = made[1]
      BY <1>1, <1>2, <2>1
    <2>3. \A i : i \in 1 .. Len(z) <=> i \in 1 .. Len(x) \/ i = Len(x) + 1
      BY <1>1, <2>2
    <2>4. z[Len(x) + 1].to = "reply"
      BY <1>1, <2>1, <2>2
    <2>5. R(z) = R(x) \cup {Len(x) + 1}
      BY <1>4, <2>3, <2>4
    <2>6. Len(x) + 1 \notin R(x)
      BY <1>1
    <2>7. Cardinality(R(z)) = Cardinality(R(x)) + 1
      BY <1>3, <2>5, <2>6, FS_AddElement
    <2> QED  BY <1>5, <2>7 DEF RepliesIn, z
  <1>6. CASE NoReplies(made)
    <2>1. made # ReplyCall
      <3> SUFFICES ASSUME made = ReplyCall PROVE FALSE
        OBVIOUS
      <3>1. Len(made) = 1 /\ made[1].to = "reply"
        BY DEF ReplyCall
      <3> QED  BY <1>6, <3>1 DEF NoReplies
    <2>2. \A i \in 1 .. Len(z) : i \in 1 .. Len(x) \/ z[i].to # "reply"
      <3> TAKE i \in 1 .. Len(z)
      <3>1. CASE ~(i <= Len(x))
        <4>1. i - Len(x) \in 1 .. Len(made) /\ z[i] = made[i - Len(x)]
          BY <1>1, <1>2, <3>1
        <4> QED  BY <1>6, <4>1 DEF NoReplies
      <3> QED  BY <1>1, <1>2, <3>1
    <2>3. R(z) = R(x)
      BY <1>4, <2>2
    <2>4. Cardinality(R(z)) = Cardinality(R(x)) + 0
      <3> HIDE DEF R
      <3>1. Cardinality(R(z)) = Cardinality(R(x))
        BY <2>3
      <3> QED  BY <1>3, <3>1
    <2> QED  BY <2>1, <2>4 DEF RepliesIn, z
  <1> QED  BY <1>5, <1>6 DEF Makes

-------------------------------------------------------------------------------
(* What is called in a round.                                              *)

LEMMA RoundMakes ==
    ASSUME RingTypes, RingHolds, ParserTypes, Round, RegistersHold(registers')
    PROVE  \E n, made : Makes(made) /\ Take(n, made) /\ (NoWrites(made) \/ WriteLast)
  <1>1. cmdAddress \in 0 .. 255 /\ cmdStartAddress \in 0 .. 255
    BY DEF ParserTypes
  <1>2. pc = "parse" /\ s < end => c \in 0 .. 255
    BY ByteRead
  <1>3. Quiet(<< >>)
    BY <1>1, SilentCalls, ZenonT(30)
  <1>4. CASE Opcode
    <2>1. Quiet(ReplyCall)
      BY <1>1, SilentCalls, ZenonT(30)
    <2>2. Take(1, IF c = INDICATE THEN ReplyCall ELSE << >>)
      BY <1>4 DEF Opcode
    <2>3. PICK made : made = IF c = INDICATE THEN ReplyCall ELSE << >>
      OBVIOUS
    <2>4. Quiet(made) /\ Take(1, made)
      BY <1>3, <2>1, <2>2, <2>3
    <2> QED  BY <2>4 DEF Quiet
  <1>5. CASE Address
    <2>1. Take(1, IF cmdOpcode \in READS THEN SendCall(c, Width(cmdOpcode)) ELSE << >>)
      BY <1>5 DEF Address
    <2>2. PICK made : made = IF cmdOpcode \in READS THEN SendCall(c, Width(cmdOpcode))
                                                    ELSE << >>
      OBVIOUS
    <2>3. cmdOpcode \in READS => Quiet(SendCall(c, Width(cmdOpcode)))
      <3>1. c \in 0 .. 255
        BY <1>2, <1>5 DEF Address, AtPhase
      <3>2. cmdOpcode \in READS => Width(cmdOpcode) \in 1 .. 8
        BY Widths
      <3>3. \A n \in 1 .. 8 : n \in 0 .. 255
        OBVIOUS
      <3> QED  BY <3>1, <3>2, <3>3, SilentCalls, ZenonT(30)
    <2>4. Quiet(made) /\ Take(1, made)
      BY <1>3, <2>1, <2>2, <2>3
    <2> QED  BY <2>4 DEF Quiet
  <1>6. CASE Parameter
    <2>1. Take(1, IF cmdOpcode = READFIFO THEN ReadFIFOCall(cmdAddress, c) ELSE << >>)
      BY <1>6 DEF Parameter
    <2>2. PICK made : made = IF cmdOpcode = READFIFO THEN ReadFIFOCall(cmdAddress, c)
                                                     ELSE << >>
      OBVIOUS
    <2>3. c \in 0 .. 255
      BY <1>2, <1>6 DEF Parameter, AtPhase
    <2>4. Quiet(ReadFIFOCall(cmdAddress, c))
      BY <1>1, <2>3, SilentCalls, Zenon
    <2>5. Quiet(made) /\ Take(1, made)
      BY <1>3, <2>1, <2>2, <2>4
    <2> QED  BY <2>5 DEF Quiet
  <1>7. CASE WriteMore
    BY <1>3, <1>7 DEF WriteMore, Quiet
  <1>8. CASE WriteLast
    <2>1. PICK first : first = IF cmdOpcode = WRITE THEN cmdAddress ELSE cmdStartAddress
      OBVIOUS
    <2>2. PICK W : W = Width(cmdOpcode)
      OBVIOUS
    <2>3. W \in 1 .. 8 /\ first \in 0 .. 255
      BY <1>1, <1>8, <2>1, <2>2, Widths DEF WriteLast
    <2>4. PICK v : v = RegBytes(registers', first, W)
      OBVIOUS
    <2>5. Take(1, WriteCall(first, v))
      BY <1>8, <2>1, <2>2, <2>4 DEF WriteLast
    <2>6. v \in Bytes
      <3>1. \A k \in 1 .. W : Reg(registers', Byte(first + k - 1)) \in 0 .. 255
        BY DEF RegistersHold, Reg
      <3>2. v = [k \in 1 .. W |-> Reg(registers', Byte(first + k - 1))] /\ W \in Nat
        BY <2>3, <2>4 DEF RegBytes
      <3> QED  BY <3>1, <3>2, IsASeq DEF Bytes
    <2>7. Makes(WriteCall(first, v))
      BY <2>3, <2>6, SilentCalls, Zenon
    <2> QED  BY <1>8, <2>5, <2>7
  <1>9. CASE StartWriteFIFO
    <2>1. PICK v \in Bytes : v = FirstBytes
      BY <1>9, FirstBytesAre DEF StartWriteFIFO, AtPhase
    <2>2. PICK k : k = 1 + Len(FirstBytes)
      OBVIOUS
    <2>3. PICK made : made = WriteFIFOCall(cmdAddress, c) \o FIFOBytes(cmdAddress, v)
      BY Zenon
    <2>4. c \in 0 .. 255
      BY <1>2, <1>9 DEF StartWriteFIFO, AtPhase
    <2>5. Take(k, made)
      BY <1>9, <2>1, <2>2, <2>3 DEF StartWriteFIFO
    <2>6. Quiet(made)
      BY <1>1, <2>3, <2>4, SilentCalls, ZenonT(30)
    <2> QED  BY <2>5, <2>6 DEF Quiet
  <1>10. CASE ResumeWriteFIFO
    <2>1. PICK e \in Bytes : e = ResumedBytes
      BY <1>10, ResumedBytesAre DEF ResumeWriteFIFO
    <2>2. PICK k : k = Len(ResumedBytes)
      OBVIOUS
    <2>3. PICK made : made = FIFOBytes(cmdAddress, e)
      OBVIOUS
    <2>4. Take(k, made)
      BY <1>10, <2>1, <2>2, <2>3 DEF ResumeWriteFIFO
    <2>5. Quiet(made)
      BY <1>1, <2>3, SilentCalls, Zenon
    <2> QED  BY <2>4, <2>5 DEF Quiet
  <1> QED  BY <1>4, <1>5, <1>6, <1>7, <1>8, <1>9, <1>10 DEF Round
-------------------------------------------------------------------------------
(* Paced hosts.                                                            *)

Paced ==
    /\ replies = RepliesIn(calls)
    /\ arrived <= Released
    /\ stream.paced =>
          /\ accepted = SubSeq(stream.bytes, 1, arrived)
          /\ pc # "idle" => Snap <= ReleasedAfter(stream, RepliesTo(stream.bytes, Base))

LEMMA HostBytes ==
    ASSUME RingTypes
    PROVE  /\ stream.bytes \in Bytes /\ Len(stream.bytes) \in Nat
           /\ arrived \in Nat /\ arrived <= Len(stream.bytes)
           /\ consumed \in Nat /\ accepted \in Bytes
  <1> DEFINE l == Len(stream.bytes)
  <1>1. stream.bytes \in Bytes /\ l \in Nat
    BY Hosts DEF RingTypes
  <1>2. arrived \in 0 .. l /\ consumed \in Nat /\ accepted \in Bytes
    BY DEF RingTypes
  <1> HIDE DEF l
  <1>3. arrived \in Nat /\ arrived <= l
    BY <1>1, <1>2
  <1> QED  BY <1>1, <1>2, <1>3 DEF l

LEMMA RepliesAreNat ==
    ASSUME NEW b \in Bytes, NEW n \in 0 .. Len(b)
    PROVE  RepliesTo(b, n) \in Nat
  <1> DEFINE x == SubSeq(b, 1, n)
             k == Meaning(x)
             R == {i \in 1 .. Len(k) : k[i].to = "reply"}
  <1>1. n \in Int /\ n <= Len(b) /\ 1 \in Int /\ 1 >= 1
    BY DEF Bytes
  <1>2. x \in Bytes
    BY <1>1, PartOf
  <1> HIDE DEF x
  <1>3. k \in Calls
    <2>1. k = From(x)[1]
      BY <1>2, FromExists
    <2>2. 1 \in 1 .. Len(x) + 1
      BY <1>2 DEF Bytes
    <2> QED  BY <1>2, <2>1, <2>2, FromTyped
  <1> HIDE DEF k
  <1>4. IsFiniteSet(1 .. Len(k))
    <2>1. Len(k) \in Nat
      BY <1>3 DEF Calls
    <2> QED  BY <2>1, FS_Interval
  <1>5. Cardinality(R) \in Nat
    <2>1. R \subseteq 1 .. Len(k)
      OBVIOUS
    <2> QED  BY <1>4, <2>1, FS_Subset, FS_CardinalityType
  <1> QED  BY <1>5 DEF RepliesTo, RepliesIn, k, x

\* The bytes that were parsed are the first that were sent, and the replies are
\* those to them.
LEMMA ParsedBytes ==
    ASSUME LinkInv, Paced, stream.paced
    PROVE  /\ Len(accepted) = arrived
           /\ replies = RepliesTo(stream.bytes, consumed)
  <1> DEFINE b == stream.bytes
  <1>1. /\ b \in Bytes /\ Len(b) \in Nat /\ arrived \in Nat /\ arrived <= Len(b)
        /\ consumed \in Nat /\ accepted \in Bytes
    BY HostBytes DEF LinkInv
  <1>2. accepted = SubSeq(b, 1, arrived)
    BY DEF Paced
  <1> HIDE DEF b
  <1>3. /\ Len(SubSeq(b, 1, arrived)) = IF 1 <= arrived THEN arrived - 1 + 1 ELSE 0
        /\ \A k \in 1 .. arrived - 1 + 1 : SubSeq(b, 1, arrived)[k] = b[1 + k - 1]
    BY <1>1, PartOf
  <1>4. Len(accepted) = arrived
    BY <1>1, <1>2, <1>3
  <1>5. \A k \in 1 .. arrived : accepted[k] = b[k]
    <2> TAKE k \in 1 .. arrived
    <2>1. k \in 1 .. arrived - 1 + 1 /\ 1 + k - 1 = k
      BY <1>1
    <2> QED  BY <1>2, <1>3, <2>1
  <1>6. consumed <= arrived
    BY <1>4 DEF LinkInv, RingHolds
  <1>7. SubSeq(accepted, 1, consumed) = SubSeq(b, 1, consumed)
    <2>1. /\ SubSeq(accepted, 1, consumed) \in Bytes /\ SubSeq(b, 1, consumed) \in Bytes
          /\ Len(SubSeq(accepted, 1, consumed)) = Len(SubSeq(b, 1, consumed))
          /\ Len(SubSeq(b, 1, consumed)) = IF 1 <= consumed THEN consumed - 1 + 1 ELSE 0
          /\ \A k \in 1 .. consumed - 1 + 1 :
                /\ SubSeq(accepted, 1, consumed)[k] = accepted[1 + k - 1]
                /\ SubSeq(b, 1, consumed)[k] = b[1 + k - 1]
      BY <1>1, <1>4, <1>6, PartOf
    <2>2. \A k \in 1 .. Len(SubSeq(b, 1, consumed)) :
             SubSeq(accepted, 1, consumed)[k] = SubSeq(b, 1, consumed)[k]
      <3> TAKE k \in 1 .. Len(SubSeq(b, 1, consumed))
      <3>1. k \in 1 .. consumed - 1 + 1 /\ 1 + k - 1 = k /\ k \in 1 .. arrived
        BY <1>1, <1>6, <2>1
      <3> QED  BY <1>5, <2>1, <3>1
    <2> DEFINE x == SubSeq(accepted, 1, consumed)
               y == SubSeq(b, 1, consumed)
    <2>3. x \in Bytes /\ y \in Bytes /\ Len(x) = Len(y) /\ \A k \in 1 .. Len(y) : x[k] = y[k]
      BY <2>1, <2>2
    <2> HIDE DEF x, y
    <2>4. x = y
      BY <2>3, SeqEqual DEF Bytes
    <2> QED  BY <2>4 DEF x, y
  <1>8. calls = Meaning(SubSeq(b, 1, consumed))
    BY <1>7, CallsMean DEF LinkInv, CallsAreMeaning
  <1> QED  BY <1>4, <1>8 DEF Paced, RepliesTo, b

\* What a paced host sends has room.
LEMMA PacedRoom ==
    ASSUME LinkInv, Paced, stream.paced, NEW n \in Nat, Input(n)
    PROVE  n <= SpaceLeft(rpos, wpos)
  <1> DEFINE b == stream.bytes
             d == Base
             a == consumed
             R(k) == ReleasedAfter(stream, RepliesTo(stream.bytes, k))
  <1>1. /\ Len(accepted) = arrived /\ replies = RepliesTo(b, consumed)
    BY ParsedBytes
  <1>2. arrived + n <= R(a) /\ arrived <= R(a)
    BY <1>1 DEF Input, Released, Paced
  <1>3. /\ d \in Nat /\ Len(accepted) - d \in 0 .. BufferSize - 1
        /\ SpaceLeft(rpos, wpos) = BufferSize - 1 - (Len(accepted) - d)
        /\ d <= a /\ a <= Len(accepted) /\ a \in Nat /\ arrived \in Nat
        /\ arrived <= Len(b) /\ Len(b) \in Nat /\ BufferSize \in Int
    <2>1. /\ a \in Nat /\ arrived \in Nat /\ arrived <= Len(b) /\ Len(b) \in Nat
      BY HostBytes DEF LinkInv
    <2>2. d <= a /\ a <= Len(accepted)
      BY DEF LinkInv, RingHolds
    <2>3. /\ d \in Nat /\ Len(accepted) - d \in 0 .. BufferSize - 1
          /\ SpaceLeft(rpos, wpos) = BufferSize - 1 - (Len(accepted) - d)
      BY Room DEF LinkInv
    <2> QED  BY <2>1, <2>2, <2>3, Ring
  <1>4. replies \in Nat /\ R(a) \in 0 .. Len(b)
    <2>1. replies \in Nat /\ stream \in Streams
      BY DEF LinkInv, RingTypes
    <2>2. ReleasedAfter(stream, replies) \in 0 .. Len(b)
      BY <2>1, Hosts
    <2> QED  BY <1>1, <2>1, <2>2
  <1>5. a <= R(d) /\ R(d) \in Int
    <2>1. CASE pc = "idle"
      <3>1. a = d
        BY <2>1 DEF LinkInv, RingHolds
      <3> HIDE DEF d, a, b, R
      <3> QED  BY <1>1, <1>2, <1>3, <1>4, <3>1
    <2>2. CASE pc # "idle"
      <3>1. Snap <= R(d)
        BY <2>2 DEF Paced
      <3>2. a <= Snap /\ Snap \in Int
        <4>1. s \in Nat /\ end \in Nat /\ s <= end /\ rest \in Nat /\ consumed \in Nat
          BY Ring DEF LinkInv, RingTypes
        <4> QED  BY <4>1 DEF Snap
      <3>3. R(d) \in Int
        <4>1. RepliesTo(b, d) \in Nat
          <5>1. b \in Bytes
            BY Hosts DEF LinkInv, RingTypes
          <5>2. d \in 0 .. Len(b)
            <6> HIDE DEF d, a, b
            <6> QED  BY <1>1, <1>3
          <5> QED  BY <5>1, <5>2, RepliesAreNat
        <4> QED  BY <4>1, Hosts DEF LinkInv, RingTypes
      <3> HIDE DEF d, a, b, R
      <3> QED  BY <1>3, <3>1, <3>2, <3>3
    <2> QED  BY <2>1, <2>2
  <1>6. R(a) - d < BufferSize
    <2>1. d \in 0 .. Len(b)
      <3> HIDE DEF d, a, b, R
      <3> QED  BY <1>1, <1>3
    <2>2. a \in d .. R(d)
      <3> HIDE DEF d, a, b, R
      <3> QED  BY <1>3, <1>5
    <2>3. stream \in Streams
      BY DEF LinkInv, RingTypes
    <2> HIDE DEF d
    <2>4. KeepsPace(stream)
      BY <2>3, PacedAssumption
    <2> QED  BY <2>1, <2>2, <2>4 DEF KeepsPace
  <1> HIDE DEF d, a, b, R
  <1> QED  BY <1>1, <1>2, <1>3, <1>4, <1>6
LEMMA PacedInput ==
    ASSUME LinkInv, Paced, NEW n \in Nat, Input(n)
    PROVE  Paced'
  <1>1. /\ arrived + n <= Released /\ arrived' = arrived + n
        /\ UNCHANGED <<stream, replies, calls, pc, consumed, end, s, rest>>
    BY DEF Input, draining
  <1>2. Base' = Base /\ Snap' = Snap
    BY <1>1, InputRing DEF LinkInv, Snap
  <1>3. replies' = RepliesIn(calls') /\ arrived' <= Released'
    <2>1. Released' = Released
      BY <1>1 DEF Released
    <2> QED  BY <1>1, <2>1 DEF Paced
  <1>4. ASSUME stream.paced PROVE accepted' = SubSeq(stream.bytes, 1, arrived')
    <2> DEFINE b == stream.bytes
               x == SubSeq(b, 1, arrived)
               y == SubSeq(b, arrived + 1, arrived + n)
               z == SubSeq(b, 1, arrived + n)
    <2>1. n <= SpaceLeft(rpos, wpos)
      BY <1>4, PacedRoom
    <2>2. ~(n > SpaceLeft(rpos, wpos))
      <3>1. SpaceLeft(rpos, wpos) \in Int
        <4>1. /\ Len(accepted) - Base \in 0 .. BufferSize - 1 /\ BufferSize \in Int
              /\ SpaceLeft(rpos, wpos) = BufferSize - 1 - (Len(accepted) - Base)
          BY Room, Ring DEF LinkInv
        <4> DEFINE held == Len(accepted) - Base
        <4> HIDE DEF held
        <4> QED  BY <4>1 DEF held
      <3> QED  BY <2>1, <3>1
    <2>3. accepted' = accepted \o Stored(n) /\ arrived + n <= Len(b)
      BY InputStores DEF LinkInv
    <2>4. Stored(n) = y
      BY <2>2 DEF Stored
    <2>5. accepted' = x \o y
      BY <1>4, <2>3, <2>4 DEF Paced
    <2>6. b \in Bytes /\ Len(b) \in Nat /\ arrived \in Nat
      BY HostBytes DEF LinkInv
    <2> HIDE DEF b
    <2>7. x \in Bytes /\ Len(x) = arrived /\ \A k \in 1 .. arrived : x[k] = b[k]
      <3>1. /\ x \in Bytes /\ Len(x) = IF 1 <= arrived THEN arrived - 1 + 1 ELSE 0
            /\ \A k \in 1 .. arrived - 1 + 1 : x[k] = b[1 + k - 1]
        BY <2>3, <2>6, PartOf
      <3> HIDE DEF x
      <3>2. Len(x) = arrived
        BY <2>6, <3>1
      <3>3. \A k \in 1 .. arrived : k \in 1 .. arrived - 1 + 1 /\ 1 + k - 1 = k
        BY <2>6
      <3> QED  BY <3>1, <3>2, <3>3
    <2>8. y \in Bytes /\ Len(y) = n /\ \A k \in 1 .. n : y[k] = b[arrived + k]
      <3>1. /\ y \in Bytes
            /\ Len(y) = IF arrived + 1 <= arrived + n THEN arrived + n - (arrived + 1) + 1
                                                      ELSE 0
            /\ \A k \in 1 .. arrived + n - (arrived + 1) + 1 : y[k] = b[arrived + 1 + k - 1]
        BY <2>3, <2>6, PartOf
      <3> HIDE DEF y
      <3>2. Len(y) = n
        BY <2>6, <3>1
      <3>3. \A k \in 1 .. n : /\ k \in 1 .. arrived + n - (arrived + 1) + 1
                              /\ arrived + 1 + k - 1 = arrived + k
        BY <2>6
      <3> QED  BY <3>1, <3>2, <3>3
    <2>9. z \in Bytes /\ Len(z) = arrived + n /\ \A k \in 1 .. arrived + n : z[k] = b[k]
      <3>1. /\ z \in Bytes /\ Len(z) = IF 1 <= arrived + n THEN arrived + n - 1 + 1 ELSE 0
            /\ \A k \in 1 .. arrived + n - 1 + 1 : z[k] = b[1 + k - 1]
        BY <2>3, <2>6, PartOf
      <3> HIDE DEF z
      <3>2. Len(z) = arrived + n
        BY <2>6, <3>1
      <3>3. \A k \in 1 .. arrived + n : k \in 1 .. arrived + n - 1 + 1 /\ 1 + k - 1 = k
        BY <2>6
      <3> QED  BY <3>1, <3>2, <3>3
    <2> HIDE DEF x, y, z
    <2>10. /\ x \o y \in Bytes /\ Len(x \o y) = Len(x) + Len(y)
           /\ \A k \in 1 .. Len(x) + Len(y) :
                 (x \o y)[k] = IF k <= Len(x) THEN x[k] ELSE y[k - Len(x)]
      BY <2>7, <2>8, ConcatProperties, ZenonT(30) DEF Bytes
    <2>11. x \o y = z
      <3>1. Len(x \o y) = Len(z)
        BY <2>7, <2>8, <2>9, <2>10
      <3>2. ASSUME NEW k \in 1 .. Len(x \o y) PROVE (x \o y)[k] = z[k]
        <4>1. k \in 1 .. arrived + n
          BY <2>9, <3>1
        <4>2. z[k] = b[k]
          BY <2>9, <4>1
        <4>3. CASE k <= arrived
          <5>1. k \in 1 .. arrived
            BY <2>6, <4>1, <4>3
          <5> QED  BY <2>7, <2>8, <2>10, <4>1, <4>2, <4>3, <5>1
        <4>4. CASE ~(k <= arrived)
          <5>1. k - arrived \in 1 .. n /\ arrived + (k - arrived) = k
            BY <2>6, <4>1, <4>4
          <5>2. (x \o y)[k] = y[k - arrived]
            BY <2>7, <2>8, <2>10, <4>1, <4>4
          <5> QED  BY <2>8, <4>2, <5>1, <5>2
        <4> QED  BY <4>3, <4>4
      <3> QED  BY <2>9, <2>10, <3>1, <3>2, SeqEqual DEF Bytes
    <2> QED  BY <1>1, <2>5, <2>11 DEF z, b
  <1>5. ASSUME stream.paced, pc # "idle"
        PROVE  Snap <= ReleasedAfter(stream, RepliesTo(stream.bytes, Base))
    BY <1>5 DEF Paced
  <1> QED  BY <1>1, <1>2, <1>3, <1>4, <1>5 DEF Paced

LEMMA PacedDrain ==
    ASSUME LinkInv, Paced, BeginDrain \/ NextChunk \/ EndDrain
    PROVE  Paced'
  <1>1. UNCHANGED <<stream, replies, calls, arrived, accepted, consumed>>
    BY DEF BeginDrain, NextChunk, EndDrain, host
  <1>2. Released' = Released
    BY <1>1 DEF Released
  <1>3. replies' = RepliesIn(calls') /\ arrived' <= Released'
        /\ (stream'.paced => accepted' = SubSeq(stream'.bytes, 1, arrived'))
    BY <1>1, <1>2 DEF Paced
  <1>4. ASSUME stream.paced, pc' # "idle"
        PROVE  Snap' <= ReleasedAfter(stream, RepliesTo(stream.bytes, Base'))
    <2>1. CASE BeginDrain
      <3>1. Base' = Base /\ Snap' = Len(accepted) /\ Base = consumed
        BY <2>1, BeginRing DEF LinkInv, BeginDrain, RingHolds
      <3>2. Len(accepted) = arrived /\ replies = RepliesTo(stream.bytes, consumed)
        BY <1>4, ParsedBytes
      <3> QED  BY <3>1, <3>2 DEF Paced, Released
    <2>2. CASE NextChunk
      <3>1. Base' = Base /\ Snap' = Snap /\ pc # "idle"
        BY <2>2, NextRing DEF LinkInv, NextChunk
      <3> QED  BY <1>4, <3>1 DEF Paced
    <2>3. CASE EndDrain
      BY <1>4, <2>3 DEF EndDrain
    <2> QED  BY <2>1, <2>2, <2>3
  <1> QED  BY <1>1, <1>3, <1>4 DEF Paced

LEMMA PacedRound ==
    ASSUME LinkInv, Paced, Round, RegistersHold(registers')
    PROVE  Paced'
  <1> USE DEF LinkInv
  <1>1. PICK n, made : Makes(made) /\ Take(n, made)
    BY RoundMakes
  <1>2. /\ calls' = calls \o made /\ replies' = replies + (IF made = ReplyCall THEN 1 ELSE 0)
        /\ UNCHANGED <<stream, arrived, accepted>>
    BY <1>1 DEF Take, host
  <1>3. calls \in Calls /\ replies \in Nat /\ stream \in Streams /\ arrived \in Nat
    BY CallsMean, HostBytes DEF RingTypes
  <1>4. replies' = RepliesIn(calls')
    <2>1. RepliesIn(calls \o made) = RepliesIn(calls) + (IF made = ReplyCall THEN 1 ELSE 0)
      BY <1>1, <1>3, RepliesJoin
    <2> QED  BY <1>2, <2>1 DEF Paced
  <1>5. arrived' <= Released'
    <2> DEFINE R(k) == ReleasedAfter(stream, k)
    <2>1. /\ R(replies) \in Int /\ R(replies + 1) \in Int /\ R(replies) <= R(replies + 1)
      <3>1. replies + 1 \in Nat
        BY <1>3
      <3>2. /\ R(replies) \in 0 .. Len(stream.bytes) /\ R(replies) <= R(replies + 1)
            /\ R(replies + 1) \in 0 .. Len(stream.bytes)
        BY <1>3, <3>1, Hosts
      <3> HIDE DEF R
      <3> QED  BY <3>2
    <2>2. arrived <= R(replies)
      BY DEF Paced, Released
    <2>3. replies' = replies \/ replies' = replies + 1
      BY <1>2, <1>3
    <2>4. arrived <= R(replies')
      <3> HIDE DEF R
      <3>1. CASE replies' = replies
        BY <2>2, <3>1
      <3>2. CASE replies' = replies + 1
        <4>1. arrived <= R(replies + 1)
          BY <1>3, <2>1, <2>2
        <4> QED  BY <3>2, <4>1
      <3> QED  BY <2>3, <3>1, <3>2
    <2> QED  BY <1>2, <2>4 DEF Released
  <1>6. Base' = Base /\ Snap' = Snap /\ pc # "idle"
    BY RoundRing, RoundTakes
  <1>7. stream'.paced => accepted' = SubSeq(stream'.bytes, 1, arrived')
    BY <1>2 DEF Paced
  <1>8. stream'.paced
          => Snap' <= ReleasedAfter(stream', RepliesTo(stream'.bytes, Base'))
    BY <1>2, <1>6 DEF Paced
  <1> QED  BY <1>4, <1>5, <1>7, <1>8 DEF Paced

LEMMA PacedInit == Init => Paced
  <1> SUFFICES ASSUME Init PROVE Paced
    OBVIOUS
  <1>1. /\ stream \in Streams /\ arrived = 0 /\ accepted = << >> /\ replies = 0
        /\ calls = << >> /\ pc = "idle"
    BY DEF Init, LinkInit
  <1>2. RepliesIn(<< >>) = 0
    <2>1. {i \in 1 .. Len(<< >>) : << >>[i].to = "reply"} = {}
      <3>1. Len(<< >>) = 0 /\ 1 .. 0 = {}
        OBVIOUS
      <3> QED  BY <3>1
    <2> QED  BY <2>1, FS_EmptySet DEF RepliesIn
  <1>3. arrived <= Released
    <2> DEFINE r == ReleasedAfter(stream, 0)
    <2>1. r \in 0 .. Len(stream.bytes)
      BY <1>1, Hosts
    <2> HIDE DEF r
    <2>2. 0 <= r
      BY <2>1
    <2> QED  BY <1>1, <2>2 DEF r, Released
  <1>4. SubSeq(stream.bytes, 1, 0) = << >>
    <2> DEFINE x == SubSeq(stream.bytes, 1, 0)
    <2>1. stream.bytes \in Bytes /\ Len(stream.bytes) \in Nat
      BY <1>1, Hosts
    <2>2. x \in Bytes /\ Len(x) = IF 1 <= 0 THEN 0 - 1 + 1 ELSE 0
      BY <2>1, PartOf
    <2> HIDE DEF x
    <2>3. x \in Bytes /\ Len(x) = 0
      BY <2>2
    <2>4. x = << >>
      BY <2>3, EmptySeq DEF Bytes
    <2> QED  BY <2>4 DEF x
  <1> QED  BY <1>1, <1>2, <1>3, <1>4 DEF Paced

LEMMA PacedStep == LinkInv /\ Paced /\ [Next]_bootVars => Paced'
  <1> SUFFICES ASSUME LinkInv, Paced, [Next]_bootVars PROVE Paced'
    OBVIOUS
  <1>1. CASE Next
    <2>1. ASSUME NEW n \in 1 .. PacketMax, Input(n) PROVE Paced'
      <3>1. n \in Nat
        BY LinkAssumption
      <3> QED  BY <2>1, <3>1, PacedInput
    <2> QED  BY <1>1, <2>1, Steps, PacedDrain, PacedRound
  <1>2. CASE UNCHANGED bootVars
    <2>1. UNCHANGED <<wpos, rpos, pc, s, end, rest, stream, arrived, accepted, consumed,
                      replies, calls>>
      BY <1>2 DEF bootVars, linkVars, ring, draining, host
    <2>2. Base' = Base /\ Snap' = Snap /\ Released' = Released
      BY <2>1 DEF Base, Snap, Released
    <2> QED  BY <2>1, <2>2 DEF Paced
  <1> QED  BY <1>1, <1>2

(***************************************************************************)
(* A host that never has more under way than the ring holds loses nothing, *)
(* although input() drops what does not fit and the reply to INDICATE      *)
(* leaves before drain() has released what came before it                  *)
(* (stream_fifo.cpp:3-35, bootload_firmware.py:199-210).                   *)
(***************************************************************************)
THEOREM LosesNothing == Spec => []NothingLost
  <1>1. LinkInv /\ Paced => NothingLost
    BY ParsedBytes DEF NothingLost
  <1> QED  BY <1>1, PacedInit, PacedStep, LinkInvariance, PTL DEF Spec

\* How far a host has sent when it has had k - 1 replies: the end of block k.
EndOf(h, k) == IF k = 0 THEN 0 ELSE ReleasedAfter(h, k - 1)

LEMMA LaterReleased ==
    ASSUME NEW h, IsHost(h), NEW x \in Nat, NEW y \in Nat, x <= y
    PROVE  ReleasedAfter(h, x) <= ReleasedAfter(h, y)
  <1> DEFINE w == h.waits
             L == Len(h.bytes)
  <1>1. L \in Nat /\ w \in Seq(1 .. L) /\ \A j, k \in 1 .. Len(w) : j <= k => w[j] <= w[k]
    BY DEF IsHost
  <1>2. ReleasedAfter(h, x) \in 0 .. L
    BY HostIs
  <1>3. \A n \in Nat : ReleasedAfter(h, n) = IF n < Len(w) THEN w[n + 1] ELSE L
    BY DEF ReleasedAfter
  <1> HIDE DEF w, L
  <1>4. Len(w) \in Nat
    BY <1>1
  <1>5. CASE y < Len(w)
    <2>1. x < Len(w) /\ x + 1 \in 1 .. Len(w) /\ y + 1 \in 1 .. Len(w) /\ x + 1 <= y + 1
      BY <1>4, <1>5
    <2>2. w[x + 1] <= w[y + 1]
      BY <1>1, <2>1
    <2> QED  BY <1>3, <1>5, <2>1, <2>2
  <1>6. CASE ~(y < Len(w))
    <2>1. ReleasedAfter(h, y) = L
      BY <1>3, <1>6
    <2> QED  BY <1>1, <1>2, <2>1
  <1> QED  BY <1>5, <1>6

(***************************************************************************)
(* What makes a host paced: it waits for a reply where a block ends, and   *)
(* any two blocks that follow each other fit in the ring.  One is not      *)
(* enough, since the reply leaves before drain() has released the block    *)
(* (bootload_firmware.py:199-210, stream_fifo.cpp:33).                     *)
(***************************************************************************)
THEOREM BlocksFit ==
    ASSUME NEW h, IsHost(h),
           \A n \in 0 .. Len(h.bytes) :
              /\ EndOf(h, RepliesTo(h.bytes, n)) <= n
              /\ \A k \in Nat : n <= EndOf(h, k) => RepliesTo(h.bytes, n) <= k,
           \A k \in Nat : EndOf(h, k + 2) - EndOf(h, k) < BufferSize
    PROVE  KeepsPace(h)
  <1> DEFINE L    == Len(h.bytes)
             N(n) == RepliesTo(h.bytes, n)
             R(k) == ReleasedAfter(h, k)
  <1>1. L \in Nat /\ h.bytes \in Bytes
    BY HostIs
  <1>2. \A k \in Nat : R(k) \in 0 .. L /\ R(k) <= R(k + 1)
    BY HostIs
  <1>3. \A n \in 0 .. L : N(n) \in Nat
    BY <1>1, RepliesAreNat
  <1>4. \A k \in Nat : EndOf(h, k + 1) = R(k)
    <2> TAKE k \in Nat
    <2>1. k + 1 # 0 /\ (k + 1) - 1 = k
      OBVIOUS
    <2> QED  BY <2>1 DEF EndOf
  <1>5. \A n \in 0 .. L : EndOf(h, N(n)) <= n
    OBVIOUS
  <1>6. \A n \in 0 .. L : \A k \in Nat : n <= EndOf(h, k) => N(n) <= k
    OBVIOUS
  <1>7. \A k \in Nat : EndOf(h, k + 2) - EndOf(h, k) < BufferSize
    OBVIOUS
  <1>8. BufferSize \in Nat
    BY LinkAssumption
  <1> HIDE DEF L, N, R
  <1> SUFFICES ASSUME NEW d \in 0 .. L, NEW a \in d .. R(N(d))
               PROVE  R(N(a)) - d < BufferSize
    BY DEF KeepsPace, L, N, R
  <1>9. PICK k \in Nat : k = N(d)
    BY <1>3
  <1>10. a \in 0 .. L /\ a <= R(k)
    <2>1. PICK r \in 0 .. L : r = R(k)
      BY <1>2
    <2>2. a \in d .. r
      BY <1>9, <2>1
    <2>3. a \in 0 .. L /\ a <= r
      BY <1>1, <2>1, <2>2
    <2> QED  BY <2>1, <2>3
  <1>11. PICK l \in Nat : l = N(a)
    BY <1>3, <1>10
  <1>12. l <= k + 1
    <2>1. a <= EndOf(h, k + 1) /\ k + 1 \in Nat
      BY <1>4, <1>10
    <2> QED  BY <1>6, <1>10, <1>11, <2>1
  <1>13. R(l) <= R(k + 1)
    <2>1. k + 1 \in Nat
      OBVIOUS
    <2> QED  BY <1>12, <2>1, LaterReleased DEF R
  <1>14. R(k + 1) - EndOf(h, k) < BufferSize
    <2>1. (k + 1) + 1 = k + 2 /\ k + 1 \in Nat
      OBVIOUS
    <2>2. EndOf(h, k + 2) = R(k + 1)
      BY <1>4, <2>1
    <2> QED  BY <1>7, <2>2
  <1>15. EndOf(h, k) <= d
    BY <1>5, <1>9
  <1>16. EndOf(h, k) \in Int /\ R(l) \in Int /\ R(k + 1) \in Int /\ d \in Int
    <2>1. k + 1 \in Nat /\ k \in Nat
      OBVIOUS
    <2>2. R(l) \in 0 .. L /\ R(k + 1) \in 0 .. L
      BY <1>2, <2>1
    <2>3. EndOf(h, k) \in Int
      <3>1. CASE k = 0
        BY <3>1 DEF EndOf
      <3>2. CASE k # 0
        <4>1. k - 1 \in Nat /\ EndOf(h, k) = R(k - 1)
          BY <3>2 DEF EndOf, R
        <4>2. R(k - 1) \in 0 .. L
          BY <1>2, <4>1
        <4> QED  BY <1>1, <4>1, <4>2
      <3> QED  BY <3>1, <3>2
    <2> QED  BY <1>1, <2>2, <2>3
  <1>17. R(l) - d < BufferSize
    BY <1>8, <1>13, <1>14, <1>15, <1>16
  <1> QED  BY <1>11, <1>17
-------------------------------------------------------------------------------
(* The flash: addresses of words are multiples of 4.                       *)

Page(a) == a - (a % PageSize)

LEMMA Multiples ==
    ASSUME NEW m \in Nat \ {0}, m % 4 = 0, NEW x \in Int
    PROVE  \E q \in Int : m * x = 4 * q
  <1>1. m = 4 * (m \div 4) /\ m \div 4 \in Int
    BY DivMod
  <1>2. PICK k \in Int : m = 4 * k
    BY <1>1
  <1>3. (4 * k) * x = 4 * (k * x) /\ k * x \in Int
    OBVIOUS
  <1>4. m * x = 4 * (k * x)
    BY <1>2, <1>3
  <1> QED  BY <1>3, <1>4

LEMMA UserFlashIs == \E u \in Nat : UserFlash = 4 * u
  <1>1. UserFlash \in Nat /\ PageSize \in Nat \ {0} /\ PageSize % 4 = 0
        /\ UserFlash % PageSize = 0
    BY BootloaderAssumption DEF WordSize
  <1>2. UserFlash = PageSize * (UserFlash \div PageSize) + (UserFlash % PageSize)
        /\ UserFlash \div PageSize \in Int
    BY <1>1, DivMod
  <1>3. PICK k \in Int : k = UserFlash \div PageSize
    BY <1>2
  <1>4. UserFlash = PageSize * k + 0
    BY <1>1, <1>2, <1>3
  <1>5. PICK q \in Int : PageSize * k = 4 * q
    BY <1>1, Multiples
  <1>6. UserFlash = 4 * q
    BY <1>4, <1>5
  <1> QED  BY <1>1, <1>6

LEMMA WordIs ==
    ASSUME NEW a \in Words
    PROVE  \E q, p \in Int : a = 4 * q /\ Page(a) = 4 * p /\ p <= q /\ UserFlash <= a
  <1>1. a \in Int /\ UserFlash <= a /\ a % 4 = 0 /\ UserFlash \in Nat
    BY BootloaderAssumption DEF Words, WordSize
  <1>2. a = 4 * (a \div 4) + (a % 4) /\ a \div 4 \in Int
    BY <1>1, DivMod
  <1>3. PICK q \in Int : a = 4 * q
    BY <1>1, <1>2
  <1>4. PageSize \in Nat \ {0} /\ PageSize % 4 = 0
    BY BootloaderAssumption DEF WordSize
  <1>5. /\ a = PageSize * (a \div PageSize) + (a % PageSize)
        /\ a \div PageSize \in Int /\ a % PageSize \in 0 .. PageSize - 1
    BY <1>1, <1>4, DivMod
  <1>6. PICK k \in Int, r \in 0 .. PageSize - 1 : k = a \div PageSize /\ r = a % PageSize
    BY <1>5
  <1>7. Page(a) = a - r /\ a = PageSize * k + r
    BY <1>5, <1>6 DEF Page
  <1>8. PICK p \in Int : PageSize * k = 4 * p
    BY <1>4, Multiples
  <1>9. r \in Int /\ r >= 0
    BY <1>4
  <1>10. Page(a) = 4 * p /\ 4 * p <= a
    BY <1>1, <1>7, <1>8, <1>9
  <1>11. p <= q
    BY <1>3, <1>10
  <1> QED  BY <1>1, <1>3, <1>10, <1>11

\* The addresses of w words from n on.
Written(n, w) == {n + WordSize * (i - 1) : i \in 1 .. w}

LEMMA WrittenAre ==
    ASSUME NEW n \in Int, NEW w \in Nat, NEW x \in Int
    PROVE  4 * x \in Written(4 * n, w) <=> n <= x /\ x < n + w
  <1>1. ASSUME 4 * x \in Written(4 * n, w) PROVE n <= x /\ x < n + w
    <2>1. PICK i \in 1 .. w : 4 * x = 4 * n + 4 * (i - 1)
      BY <1>1 DEF Written, WordSize
    <2> QED  BY <2>1
  <1>2. ASSUME n <= x, x < n + w PROVE 4 * x \in Written(4 * n, w)
    <2>1. (x - n) + 1 \in 1 .. w /\ 4 * x = 4 * n + 4 * (((x - n) + 1) - 1)
      BY <1>2
    <2> QED  BY <2>1 DEF Written, WordSize
  <1> QED  BY <1>1, <1>2

\* The words below n are those of h, the rest is old or blank, and blank where the
\* page has been erased.
Holds(f, h, n) ==
    \A a \in Words :
        IF a < n THEN f[a] = SubSeq(h, a - UserFlash + 1, a - UserFlash + WordSize)
                 ELSE f[a] \in {Old, Blank} /\ (Page(a) < n => f[a] = Blank)

LEMMA Programming ==
    ASSUME NEW q \in Nat, NEW f, NEW h, NEW words, Len(words) \in Nat,
           Holds(f, h, UserFlash + 4 * q),
           \A i \in 1 .. Len(words) :
              words[i] = SubSeq(h, 4 * (q + i - 1) + 1, 4 * (q + i))
    PROVE  Holds(Programmed(f, UserFlash + 4 * q, words), h,
                 UserFlash + 4 * (q + Len(words)))
  <1> DEFINE w == Len(words)
             n == UserFlash + 4 * q
             g == Programmed(f, n, words)
             before(a) == IF PageErased(a, Written(n, w)) THEN Blank ELSE f[a]
  <1>1. PICK u \in Nat : UserFlash = 4 * u
    BY UserFlashIs
  <1>2. n = 4 * (u + q) /\ u + q \in Int
    BY <1>1
  <1>3. \A a \in Words : g[a] = IF a \in Written(n, w) /\ before(a) = Blank
                                THEN words[((a - n) \div 4) + 1] ELSE before(a)
    BY DEF Programmed, Written, WordSize
  <1>4. \A a \in Words : PageErased(a, Written(n, w)) <=> Page(a) \in Written(n, w)
    BY DEF PageErased, Page
  <1> SUFFICES ASSUME NEW a \in Words
               PROVE  IF a < UserFlash + 4 * (q + w)
                      THEN g[a] = SubSeq(h, a - UserFlash + 1, a - UserFlash + WordSize)
                      ELSE g[a] \in {Old, Blank}
                           /\ (Page(a) < UserFlash + 4 * (q + w) => g[a] = Blank)
    BY DEF Holds
  <1>5. PICK x, p \in Int : a = 4 * x /\ Page(a) = 4 * p /\ p <= x /\ UserFlash <= a
    BY WordIs
  <1>6. a \in Written(n, w) <=> u + q <= x /\ x < u + q + w
    BY <1>2, <1>5, WrittenAre
  <1>7. Page(a) \in Written(n, w) <=> u + q <= p /\ p < u + q + w
    BY <1>2, <1>5, WrittenAre
  <1>8. IF a < n THEN f[a] = SubSeq(h, a - UserFlash + 1, a - UserFlash + WordSize)
                 ELSE f[a] \in {Old, Blank} /\ (Page(a) < n => f[a] = Blank)
    BY DEF Holds
  <1>9. /\ a < n <=> x < u + q
        /\ Page(a) < n <=> p < u + q
        /\ a < UserFlash + 4 * (q + w) <=> x < u + q + w
        /\ Page(a) < UserFlash + 4 * (q + w) <=> p < u + q + w
    BY <1>1, <1>2, <1>5
  <1>10. before(a) = IF Page(a) \in Written(n, w) THEN Blank ELSE f[a]
    BY <1>4
  <1>11. g[a] = IF a \in Written(n, w) /\ before(a) = Blank
                THEN words[((a - n) \div 4) + 1] ELSE before(a)
    BY <1>3
  <1> HIDE DEF g, before
  <1>12. CASE x < u + q
    <2>1. a < n /\ a < UserFlash + 4 * (q + w) /\ a \notin Written(n, w)
          /\ Page(a) \notin Written(n, w)
      BY <1>5, <1>6, <1>7, <1>9, <1>12
    <2> QED  BY <1>8, <1>10, <1>11, <2>1
  <1>13. CASE u + q <= x /\ x < u + q + w
    <2>1. a \in Written(n, w) /\ ~(a < n) /\ a < UserFlash + 4 * (q + w)
      BY <1>6, <1>9, <1>13
    <2>2. before(a) = Blank
      <3>1. CASE Page(a) \in Written(n, w)
        BY <1>10, <3>1
      <3>2. CASE Page(a) \notin Written(n, w)
        <4>1. p < u + q
          BY <1>5, <1>7, <1>13, <3>2
        <4> QED  BY <1>8, <1>9, <1>10, <2>1, <3>2, <4>1
      <3> QED  BY <3>1, <3>2
    <2>3. PICK i : i = (x - (u + q)) + 1
      OBVIOUS
    <2>4. i \in 1 .. w /\ ((a - n) \div 4) + 1 = i
      <3>1. a - n = 4 * (x - (u + q)) /\ x - (u + q) \in Int
        BY <1>2, <1>5
      <3>2. \A y \in Int : (4 * y) \div 4 = y
        OBVIOUS
      <3>3. (a - n) \div 4 = x - (u + q)
        BY <3>1, <3>2
      <3> QED  BY <1>13, <2>3, <3>3
    <2>5. g[a] = words[i]
      BY <1>11, <2>1, <2>2, <2>4
    <2>6. 4 * (q + i - 1) + 1 = a - UserFlash + 1 /\ 4 * (q + i) = a - UserFlash + WordSize
      BY <1>1, <1>5, <2>3 DEF WordSize
    <2>7. words[i] = SubSeq(h, 4 * (q + i - 1) + 1, 4 * (q + i))
      BY <2>4
    <2>8. words[i] = SubSeq(h, a - UserFlash + 1, a - UserFlash + WordSize)
      BY <2>6, <2>7
    <2> QED  BY <2>1, <2>5, <2>8
  <1>14. CASE ~(x < u + q + w)
    <2>1. ~(a < UserFlash + 4 * (q + w)) /\ a \notin Written(n, w) /\ ~(a < n)
      BY <1>6, <1>9, <1>14
    <2>2. g[a] = before(a) /\ f[a] \in {Old, Blank} /\ (Page(a) < n => f[a] = Blank)
      BY <1>8, <1>11, <2>1
    <2>3. Page(a) < UserFlash + 4 * (q + w) => Page(a) \in Written(n, w) \/ Page(a) < n
      BY <1>5, <1>7, <1>9
    <2> QED  BY <1>10, <2>1, <2>2, <2>3
  <1> QED  BY <1>1, <1>5, <1>12, <1>13, <1>14

\* A number that a uint32_t holds.
Fits(n) == n < 4294967296

\* What is read back of a uint32_t.
LEMMA StartIs ==
    ASSUME NEW r, NEW n \in Nat, Fits(n)
    PROVE  /\ Uint32(Uint32Bytes(n)) = n
           /\ FlashWriteStart(SetFlashWriteStart(r, n)) = n
  <1> DEFINE u == Uint32Bytes(n)
             g == SetFlashWriteStart(r, n)
  <1>1. Uint32(u) = n
    <2> DEFINE w == n % 256
               x == (n \div 256) % 256
               y == (n \div 65536) % 256
               z == (n \div 16777216) % 256
    <2>1. u[1] = w /\ u[2] = x /\ u[3] = y /\ u[4] = z
      BY DEF Uint32Bytes
    <2>2. w + 256 * x + 65536 * y + 16777216 * z = n
      BY SMT DEF Fits
    <2> HIDE DEF u, w, x, y, z
    <2> QED  BY <2>1, <2>2 DEF Uint32
  <1>2. \A k \in 1 .. 4 : RegBytes(g, FLASHSTART, 4)[k] = u[k]
    <2> TAKE k \in 1 .. 4
    <2>1. Byte(FLASHSTART + k - 1) = FLASHSTART + k - 1
      BY DEF FLASHSTART, Byte
    <2>2. FLASHSTART + k - 1 \in FLASHSTART .. FLASHSTART + 3
          /\ (FLASHSTART + k - 1) - FLASHSTART + 1 = k
      BY DEF FLASHSTART
    <2> HIDE DEF u
    <2>3. Reg(g, FLASHSTART + k - 1) = u[k]
      BY <2>2 DEF SetFlashWriteStart, Reg, u
    <2> QED  BY <2>1, <2>3 DEF RegBytes
  <1>3. FlashWriteStart(g) = Uint32(u)
    <2> DEFINE b == RegBytes(g, FLASHSTART, 4)
    <2>1. b[1] = u[1] /\ b[2] = u[2] /\ b[3] = u[3] /\ b[4] = u[4]
      <3> HIDE DEF b, u
      <3>1. 1 \in 1 .. 4 /\ 2 \in 1 .. 4 /\ 3 \in 1 .. 4 /\ 4 \in 1 .. 4
        OBVIOUS
      <3> QED  BY <1>2, <3>1 DEF b
    <2> HIDE DEF b, u
    <2> QED  BY <2>1 DEF FlashWriteStart, Uint32, b
  <1> QED  BY <1>1, <1>3
-------------------------------------------------------------------------------
(* What the calls made so far say of those of the whole upload.            *)

\* The calls before place p and what begins there make up the meaning of the
\* host's bytes.
LEMMA MeaningFrom ==
    ASSUME RingTypes, stream.paced => accepted = SubSeq(stream.bytes, 1, arrived),
           stream.paced, NEW p \in Nat, p <= Len(accepted), NEW pre, Framed(accepted, p, pre)
    PROVE  /\ Meaning(stream.bytes) = pre \o From(stream.bytes)[p + 1]
           /\ From(stream.bytes)[p + 1] \in Calls
           /\ Len(accepted) <= Len(stream.bytes)
           /\ \A k \in 1 .. Len(accepted) : stream.bytes[k] = accepted[k]
  <1> DEFINE b == stream.bytes
  <1>1. /\ b \in Bytes /\ Len(b) \in Nat /\ arrived \in Nat /\ arrived <= Len(b)
        /\ accepted \in Bytes
    BY HostBytes
  <1>2. accepted = SubSeq(b, 1, arrived)
    OBVIOUS
  <1> HIDE DEF b
  <1>3. /\ Len(SubSeq(b, 1, arrived)) = IF 1 <= arrived THEN arrived - 1 + 1 ELSE 0
        /\ \A k \in 1 .. arrived - 1 + 1 : SubSeq(b, 1, arrived)[k] = b[1 + k - 1]
    BY <1>1, PartOf
  <1>4. Len(accepted) = arrived
    BY <1>1, <1>2, <1>3
  <1>5. \A k \in 1 .. Len(accepted) : b[k] = accepted[k]
    <2> TAKE k \in 1 .. Len(accepted)
    <2>1. k \in 1 .. arrived - 1 + 1 /\ 1 + k - 1 = k
      BY <1>1, <1>4
    <2> QED  BY <1>2, <1>3, <2>1
  <1>6. Agrees(b, accepted, p)
    <2>1. \A k \in 1 .. p : k \in 1 .. Len(accepted)
      BY <1>1, <1>4
    <2> QED  BY <1>1, <1>4, <1>5, <2>1 DEF Agrees
  <1>7. From(b)[1] = pre \o From(b)[p + 1]
    BY <1>1, <1>6 DEF Framed
  <1>8. Meaning(b) = From(b)[1]
    BY <1>1, FromExists
  <1>9. From(b)[p + 1] \in Calls
    <2>1. p + 1 \in 1 .. Len(b) + 1
      BY <1>1, <1>4
    <2> QED  BY <1>1, <2>1, FromTyped
  <1> QED  BY <1>1, <1>4, <1>5, <1>7, <1>8, <1>9 DEF b

\* Places in what is put together of three.
LEMMA Places ==
    ASSUME NEW x \in Calls, NEW y \in Calls, NEW z \in Calls, Len(y) >= 1
    PROVE  /\ Len(x) \in Nat /\ Len(x) + 1 \in 1 .. Len(x \o (y \o z))
           /\ (x \o (y \o z))[Len(x) + 1] = y[1]
           /\ \A i \in 1 .. Len(x) : (x \o (y \o z))[i] = x[i]
           /\ Len(x \o y) = Len(x) + Len(y)
           /\ \A i \in 1 .. Len(x) + Len(y) :
                 (x \o y)[i] = IF i <= Len(x) THEN x[i] ELSE y[i - Len(x)]
  <1>1. Len(x) \in Nat /\ Len(y) \in Nat /\ Len(z) \in Nat
    BY DEF Calls
  <1> DEFINE t == y \o z
  <1>2. t \in Calls /\ Len(t) = Len(y) + Len(z) /\ t[1] = y[1]
    <2>1. /\ t \in Calls /\ Len(t) = Len(y) + Len(z)
          /\ \A i \in 1 .. Len(y) + Len(z) : t[i] = IF i <= Len(y) THEN y[i] ELSE z[i - Len(y)]
      BY ConcatProperties DEF Calls
    <2>2. 1 \in 1 .. Len(y) + Len(z) /\ 1 <= Len(y)
      BY <1>1
    <2> HIDE DEF t
    <2> QED  BY <2>1, <2>2
  <1> HIDE DEF t
  <1>3. /\ Len(x \o t) = Len(x) + Len(t)
        /\ \A i \in 1 .. Len(x) + Len(t) :
              (x \o t)[i] = IF i <= Len(x) THEN x[i] ELSE t[i - Len(x)]
    <2>1. t \in Calls
      BY <1>2
    <2> QED  BY <2>1, ConcatProperties DEF Calls
  <1>4. /\ Len(x) + 1 \in 1 .. Len(x) + Len(t) /\ ~(Len(x) + 1 <= Len(x))
        /\ (Len(x) + 1) - Len(x) = 1
    BY <1>1, <1>2
  <1>5. (x \o t)[Len(x) + 1] = y[1]
    BY <1>2, <1>3, <1>4
  <1>6. \A i \in 1 .. Len(x) : i \in 1 .. Len(x) + Len(t) /\ i <= Len(x)
    BY <1>1, <1>2
  <1>7. /\ Len(x \o y) = Len(x) + Len(y)
        /\ \A i \in 1 .. Len(x) + Len(y) :
              (x \o y)[i] = IF i <= Len(x) THEN x[i] ELSE y[i - Len(x)]
    BY ConcatProperties DEF Calls
  <1> QED  BY <1>1, <1>3, <1>4, <1>5, <1>6, <1>7 DEF t

LEMMA FirstOf ==
    ASSUME NEW w \in Calls, NEW x \in Calls, Len(w) = 1
    PROVE  (w \o x)[1] = w[1] /\ Len(w \o x) >= 1
  <1>1. Len(x) \in Nat
    BY DEF Calls
  <1>2. /\ Len(w \o x) = Len(w) + Len(x)
        /\ \A i \in 1 .. Len(w) + Len(x) :
              (w \o x)[i] = IF i <= Len(w) THEN w[i] ELSE x[i - Len(w)]
    BY ConcatProperties DEF Calls
  <1>3. 1 \in 1 .. Len(w) + Len(x) /\ 1 <= Len(w)
    BY <1>1
  <1> QED  BY <1>1, <1>2, <1>3

RebootCall == WriteCall(REBOOT, <<\h5e>>)
StartCall  == WriteCall(FLASHSTART, Uint32Bytes(UserFlash))

\* The device resets when it is asked to.
ResetWhenAsked == \A i \in 1 .. Len(calls) : <<calls[i]>> = RebootCall => Reset

\* In an upload, the call that follows those made so far.
LEMMA Uploads ==
    ASSUME RingTypes, Uploading
    PROVE  LET m == Meaning(stream.bytes)
           IN  /\ stream.paced /\ Len(m) \in Nat /\ Len(m) > 1 /\ m \in Calls
               /\ Fits(UserFlash + Len(stream.bytes))
               /\ <<m[1]>> = StartCall /\ <<m[Len(m)]>> = RebootCall
               /\ \A i \in 1 .. Len(m) :
                     m[i].to = "handleWrite" => i = 1 \/ i = Len(m)
  <1> DEFINE m == Meaning(stream.bytes)
             l == Len(stream.bytes)
  <1>1. stream \in Streams /\ "image" \in DOMAIN stream
    BY DEF RingTypes, Uploading
  <1>2. /\ stream.paced /\ (UserFlash + l) \div 16777216 < 256 /\ Len(m) > 1
        /\ <<m[1]>> = StartCall /\ <<m[Len(m)]>> = RebootCall
        /\ \A i \in 2 .. Len(m) - 1 : m[i].to # "handleWrite"
    <2>1. IsUpload(stream)
      BY <1>1, UploadAssumption
    <2> QED  BY <2>1 DEF IsUpload, StartCall, RebootCall
  <1>3. m \in Calls /\ Len(m) \in Nat
    <2>1. stream.bytes \in Bytes
      BY HostBytes
    <2>2. m = From(stream.bytes)[1] /\ 1 \in 1 .. Len(stream.bytes) + 1
      BY <2>1, FromExists DEF Bytes
    <2>3. m \in Calls
      BY <2>1, <2>2, FromTyped
    <2> QED  BY <2>3 DEF Calls
  <1>4. Fits(UserFlash + l)
    <2>1. UserFlash \in Nat /\ l \in Nat
      BY BootloaderAssumption, HostBytes
    <2> HIDE DEF l
    <2>2. (UserFlash + l) \div 16777216 < 256
      BY <1>2
    <2> QED  BY <2>1, <2>2, SMT DEF Fits
  <1>5. \A i \in 1 .. Len(m) : i = 1 \/ i = Len(m) \/ i \in 2 .. Len(m) - 1
    BY <1>3
  <1> HIDE DEF m
  <1> QED  BY <1>2, <1>3, <1>4, <1>5 DEF m

\* The register of the address has been written before data for the flash comes.
LEMMA StartBeforeData ==
    ASSUME RingTypes, Uploading, accepted = SubSeq(stream.bytes, 1, arrived),
           NEW p \in Nat, p + 3 <= Len(accepted), NEW pre \in Calls,
           Framed(accepted, p, pre), accepted[p + 1] = WRITEFIFO
    PROVE  pre # << >> /\ pre[1].to = "handleWrite" /\ Len(pre) >= 1
  <1> DEFINE b == stream.bytes
             m == Meaning(b)
             f == From(b)
             i == p + 1
  <1>1. stream.paced /\ <<m[1]>> = StartCall
    BY Uploads
  <1>2. Len(accepted) \in Nat
    BY DEF RingTypes, Bytes
  <1>3. /\ m = pre \o f[i] /\ f[i] \in Calls /\ Len(accepted) <= Len(b)
        /\ \A k \in 1 .. Len(accepted) : b[k] = accepted[k]
    <2>1. \A l \in Nat : p + 3 <= l => p <= l
      OBVIOUS
    <2>2. p <= Len(accepted)
      BY <1>2, <2>1
    <2> QED  BY <1>1, <2>2, MeaningFrom
  <1>4. b \in Bytes /\ Len(b) \in Nat
    BY HostBytes
  <1> HIDE DEF b, m, f
  <1>5. /\ i \in 1 .. Len(accepted) /\ i \in 1 .. Len(b) /\ i + 1 \in 1 .. Len(b)
        /\ i + 2 \in 1 .. Len(b) /\ i + 3 - 1 <= Len(b) /\ i \in Nat
    <2>1. \A k, l \in Nat : p + 3 <= k /\ k <= l
             => /\ i \in 1 .. k /\ i \in 1 .. l /\ i + 1 \in 1 .. l
                /\ i + 2 \in 1 .. l /\ i + 3 - 1 <= l /\ i \in Nat
      OBVIOUS
    <2>2. Len(accepted) <= Len(b)
      BY <1>3
    <2> HIDE DEF i
    <2> QED  BY <1>2, <1>4, <2>1, <2>2
  <1>6. b[i] = WRITEFIFO /\ b[i + 1] \in 0 .. 255 /\ b[i + 2] \in 0 .. 255
    <2>1. b[i] = WRITEFIFO
      BY <1>3, <1>5
    <2>2. \A k \in 1 .. Len(b) : b[k] \in 0 .. 255
      BY <1>4, ByteOf
    <2> HIDE DEF i
    <2> QED  BY <1>5, <2>1, <2>2
  <1>7. f[i] = Command(b, f, i) /\ CommandTable(b, f, i)
    BY <1>4, <1>5, FromIs DEF f
  <1>8. PICK rest2 : f[i] = WriteFIFOCall(b[i + 1], b[i + 2]) \o rest2
    BY <1>5, <1>6, <1>7 DEF CommandTable
  <1>9. f[i][1].to = "handleWriteFIFO" /\ Len(f[i]) >= 1
    <2> DEFINE e == f[i]
    <2>1. CASE i + (3 + b[i + 2]) - 1 <= Len(b)
      <3> DEFINE d == SubSeq(b, i + 3, i + 2 + b[i + 2])
                 t == f[i + (3 + b[i + 2])]
                 w == WriteFIFOCall(b[i + 1], b[i + 2])
      <3>1. e = w \o (FIFOBytes(b[i + 1], d) \o t)
        BY <1>5, <1>6, <1>7, <2>1 DEF CommandTable
      <3>2. d \in Bytes
        <4>1. /\ i + 3 \in Int /\ i + 3 >= 1 /\ i + 2 + b[i + 2] \in Int
              /\ i + 2 + b[i + 2] <= Len(b)
          <5>1. \A k, l \in Nat, n \in 0 .. 255 : k + (3 + n) - 1 <= l
                   => k + 3 \in Int /\ k + 3 >= 1 /\ k + 2 + n \in Int /\ k + 2 + n <= l
            OBVIOUS
          <5> HIDE DEF i
          <5> QED  BY <1>4, <1>5, <1>6, <2>1, <5>1
        <4> QED  BY <1>4, <4>1, PartOf
      <3>3. t \in Calls
        <4>1. i + (3 + b[i + 2]) \in 1 .. Len(b) + 1
          <5>1. \A k, l \in Nat, n \in 0 .. 255 : k + (3 + n) - 1 <= l
                   => k + (3 + n) \in 1 .. l + 1
            OBVIOUS
          <5> HIDE DEF i
          <5> QED  BY <1>4, <1>5, <1>6, <2>1, <5>1, Zenon
        <4> QED  BY <1>4, <4>1, FromTyped DEF f
      <3>4. FIFOBytes(b[i + 1], d) \in Calls /\ w \in Calls
        BY <1>6, <3>2, CallTypes, ZenonT(30)
      <3>5. FIFOBytes(b[i + 1], d) \o t \in Calls
        BY <3>3, <3>4, Joined
      <3>6. Len(w) = 1 /\ w[1].to = "handleWriteFIFO"
        BY DEF WriteFIFOCall
      <3> DEFINE x == FIFOBytes(b[i + 1], d) \o t
      <3> HIDE DEF w, x, e
      <3> QED  BY <3>1, <3>4, <3>5, <3>6, FirstOf DEF e, x
    <2>2. CASE ~(i + (3 + b[i + 2]) - 1 <= Len(b))
      <3> DEFINE d == SubSeq(b, i + 3, Len(b))
                 w == WriteFIFOCall(b[i + 1], b[i + 2])
                 x == FIFOBytes(b[i + 1], d)
      <3>1. e = w \o x
        BY <1>5, <1>6, <1>7, <2>2 DEF CommandTable
      <3>2. d \in Bytes
        <4>1. i + 3 \in Int /\ i + 3 >= 1 /\ Len(b) \in Int /\ Len(b) <= Len(b)
          BY <1>4, <1>5
        <4> QED  BY <1>4, <4>1, PartOf
      <3>3. x \in Calls /\ w \in Calls
        BY <1>6, <3>2, CallTypes, ZenonT(30)
      <3>4. Len(w) = 1 /\ w[1].to = "handleWriteFIFO"
        BY DEF WriteFIFOCall
      <3> HIDE DEF w, x, e
      <3> QED  BY <3>1, <3>3, <3>4, FirstOf DEF e
    <2> QED  BY <2>1, <2>2
  <1>10. m[1].to = "handleWrite"
    <2>1. <<m[1]>>[1] = StartCall[1] /\ StartCall[1].to = "handleWrite"
      BY <1>1 DEF StartCall, WriteCall
    <2> QED  BY <2>1
  <1>11. pre # << >>
    <2> SUFFICES ASSUME pre = << >> PROVE FALSE
      OBVIOUS
    <2>1. m = f[i]
      BY <1>3, Joined
    <2> QED  BY <1>9, <1>10, <2>1
  <1>12. Len(pre) \in Nat /\ Len(pre) # 0
    BY <1>11, EmptySeq DEF Calls
  <1>13. m[1] = pre[1]
    <2> DEFINE x == f[i]
    <2>1. x \in Calls /\ m = pre \o x
      BY <1>3
    <2> HIDE DEF x
    <2>2. m[1] = IF 1 <= Len(pre) THEN pre[1] ELSE x[1 - Len(pre)]
      <3>1. Len(x) \in Nat
        BY <2>1 DEF Calls
      <3>2. 1 \in 1 .. Len(pre) + Len(x)
        BY <1>12, <3>1
      <3> QED  BY <2>1, <3>2, ConcatProperties DEF Calls
    <2> QED  BY <1>12, <2>2
  <1> QED  BY <1>10, <1>11, <1>12, <1>13
-------------------------------------------------------------------------------
(* Register writes in an upload: the address, and in the end the reset.    *)

LEMMA WideWidths == \A op \in WRITEWIDE : Width(op) # 1 /\ Width(op) \in Nat
  <1>1. \A op : op \in WRITEWIDE <=> op \in {\h21, \h22, \h23}
    BY DEF WRITEWIDE
  <1>2. Width(\h21) = 2 /\ Width(\h22) = 4 /\ Width(\h23) = 8
    BY DEF Width
  <1>3. \A op \in {\h21, \h22, \h23} : Width(op) # 1 /\ Width(op) \in Nat
    BY <1>2
  <1> HIDE DEF Width
  <1> QED  BY <1>1, <1>3

\* While a value of more than one byte is written, nothing has been called.
LEMMA WideIsFirst ==
    ASSUME RingTypes, RingHolds, ParserTypes, ParserHolds, Uploading, ResetWhenAsked,
           accepted = SubSeq(stream.bytes, 1, arrived), ~Reset, WriteMore
    PROVE  calls = << >>
  <1> DEFINE b == stream.bytes
             m == Meaning(b)
             f == From(b)
  <1>1. AtPhase(2) /\ cmdOpcode \in WRITEWIDE
    BY DEF WriteMore
  <1>2. PICK p \in Nat, pre \in Calls, n \in Nat :
            /\ Framed(accepted, p, pre) /\ HasAddress(p, pre, n)
            /\ c = accepted[p + 3 + n] /\ accepted[p + 2] = cmdStartAddress
            /\ accepted[p + 1] = cmdOpcode /\ calls = pre
            /\ consumed = p + 2 + n /\ writeFIFOBytesLeft = 0
    BY <1>1, InPhase2
  <1> DEFINE i == p + 1
             W == Width(b[i])
  <1>3. /\ stream.paced /\ Len(m) \in Nat /\ Len(m) > 1 /\ m \in Calls
        /\ <<m[1]>> = StartCall /\ <<m[Len(m)]>> = RebootCall
        /\ \A k \in 1 .. Len(m) : m[k].to = "handleWrite" => k = 1 \/ k = Len(m)
    BY Uploads
  <1>4. Len(accepted) \in Nat /\ consumed <= Len(accepted) /\ calls \in Calls
    <2>1. calls \in Calls
      BY CallsMean
    <2>2. Len(accepted) \in Nat
      BY DEF RingTypes, Bytes
    <2> QED  BY <2>1, <2>2 DEF RingHolds
  <1>5. p + 2 <= Len(accepted) /\ p <= Len(accepted)
    <2>1. consumed = p + 2 + n
      BY <1>2
    <2>2. \A l \in Nat : p + 2 + n <= l => p + 2 <= l /\ p <= l
      OBVIOUS
    <2> QED  BY <1>4, <2>1, <2>2
  <1>6. /\ m = calls \o f[i] /\ f[i] \in Calls /\ Len(accepted) <= Len(b)
        /\ \A k \in 1 .. Len(accepted) : b[k] = accepted[k]
    BY <1>2, <1>3, <1>5, MeaningFrom
  <1>7. b \in Bytes /\ Len(b) \in Nat
    BY HostBytes
  <1> HIDE DEF b, m, f
  <1>8. i \in Nat /\ i \in 1 .. Len(b) /\ i + 1 \in 1 .. Len(b) /\ b[i] = cmdOpcode
    <2>1. i \in 1 .. Len(accepted) /\ i \in 1 .. Len(b) /\ i + 1 \in 1 .. Len(b) /\ i \in Nat
      <3>1. \A k, l \in Nat : p + 2 <= k /\ k <= l
               => i \in 1 .. k /\ i \in 1 .. l /\ i + 1 \in 1 .. l /\ i \in Nat
        OBVIOUS
      <3>2. Len(accepted) <= Len(b)
        BY <1>6
      <3> HIDE DEF i
      <3> QED  BY <1>4, <1>5, <1>7, <3>1, <3>2
    <2>2. b[i] = accepted[i]
      BY <1>6, <2>1
    <2> QED  BY <1>2, <2>1, <2>2
  <1>9. W \in Nat /\ W # 1 /\ b[i] \in WRITEWIDE
    BY <1>1, <1>8, WideWidths
  <1>10. f[i] = IF i + (2 + W) - 1 <= Len(b)
                THEN WriteCall(b[i + 1], SubSeq(b, i + 2, i + 1 + W)) \o f[i + (2 + W)]
                ELSE << >>
    <2>1. f[i] = Command(b, f, i) /\ CommandTable(b, f, i)
      BY <1>7, <1>8, FromIs DEF f
    <2> QED  BY <1>9, <2>1 DEF CommandTable
  <1>11. i + (2 + W) - 1 <= Len(b)
    <2> SUFFICES ASSUME ~(i + (2 + W) - 1 <= Len(b)) PROVE FALSE
      OBVIOUS
    <2>1. m = calls
      BY <1>4, <1>6, <1>10, Joined
    <2>2. Len(m) \in 1 .. Len(calls)
      BY <1>3, <2>1
    <2> QED  BY <1>3, <2>1, <2>2 DEF ResetWhenAsked
  <1> DEFINE d == SubSeq(b, i + 2, i + 1 + W)
             w == WriteCall(b[i + 1], d)
             t == f[i + (2 + W)]
  <1>12. d \in Bytes /\ Len(d) = W
    <2>1. /\ i + 2 \in Int /\ i + 2 >= 1 /\ i + 1 + W \in Int /\ i + 1 + W <= Len(b)
          /\ (i + 1 + W) - (i + 2) + 1 = W
      <3>1. \A k, l, n2 \in Nat : k + (2 + n2) - 1 <= l
               => /\ k + 2 \in Int /\ k + 2 >= 1 /\ k + 1 + n2 \in Int /\ k + 1 + n2 <= l
                  /\ (k + 1 + n2) - (k + 2) + 1 = n2
        OBVIOUS
      <3> HIDE DEF i, W
      <3> QED  BY <1>7, <1>8, <1>9, <1>11, <3>1
    <2>2. d \in Bytes /\ Len(d) = IF i + 2 <= i + 1 + W THEN (i + 1 + W) - (i + 2) + 1 ELSE 0
      BY <1>7, <2>1, PartOf
    <2> HIDE DEF d, W
    <2> QED  BY <1>8, <1>9, <2>1, <2>2
  <1>13. t \in Calls
    <2>1. i + (2 + W) \in 1 .. Len(b) + 1
      <3>1. \A k, l, n2 \in Nat : k + (2 + n2) - 1 <= l => k + (2 + n2) \in 1 .. l + 1
        OBVIOUS
      <3> HIDE DEF i, W
      <3> QED  BY <1>7, <1>8, <1>9, <1>11, <3>1
    <2> QED  BY <1>7, <2>1, FromTyped DEF f
  <1>14. w \in Calls /\ Len(w) = 1 /\ w[1].to = "handleWrite" /\ w[1].data = d
    <2>1. b[i + 1] \in 0 .. 255
      <3>1. i + 1 \in Int /\ i + 1 >= 1 /\ i + 1 <= Len(b)
        BY <1>7, <1>8
      <3> QED  BY <1>7, <3>1, ByteOf
    <2>2. w \in Calls
      BY <1>12, <2>1, CallTypes, Zenon
    <2> HIDE DEF d
    <2> QED  BY <2>2 DEF WriteCall
  <1>15. m = calls \o (w \o t)
    BY <1>6, <1>10, <1>11
  <1> HIDE DEF d, w, t, W, i
  <1>16. /\ Len(calls) \in Nat /\ Len(calls) + 1 \in 1 .. Len(m)
         /\ m[Len(calls) + 1] = w[1]
    BY <1>4, <1>13, <1>14, <1>15, Places
  <1>17. Len(calls) + 1 = 1 \/ Len(calls) + 1 = Len(m)
    BY <1>3, <1>14, <1>16
  <1>18. Len(calls) + 1 # Len(m)
    <2> SUFFICES ASSUME Len(calls) + 1 = Len(m) PROVE FALSE
      OBVIOUS
    <2>1. <<w[1]>>[1] = RebootCall[1]
      BY <1>3, <1>16
    <2>2. RebootCall[1].data = <<\h5e>> /\ Len(<<\h5e>>) = 1
      BY DEF RebootCall, WriteCall
    <2>3. d = <<\h5e>>
      BY <1>14, <2>1, <2>2
    <2> QED  BY <1>9, <1>12, <2>2, <2>3
  <1>19. Len(calls) = 0
    BY <1>16, <1>17, <1>18
  <1> QED  BY <1>4, <1>19, EmptySeq DEF Calls

\* The address register has been written, by the first of the calls.
Begun == calls # << >> /\ calls[1].to = "handleWrite"

\* What the address is after a register write.
LEMMA WritesOfUpload ==
    ASSUME RingTypes, RingHolds, ParserTypes, ParserHolds, Uploading, WriteLast,
           accepted = SubSeq(stream.bytes, 1, arrived)
    PROVE  \/ calls = << >> /\ FlashWriteStart(registers') = UserFlash
           \/ Begun /\ FlashWriteStart(registers') = FlashWriteStart(registers)
  <1> DEFINE b == stream.bytes
             m == Meaning(b)
             f == From(b)
  <1>1. PICK first : first = IF cmdOpcode = WRITE THEN cmdAddress ELSE cmdStartAddress
    OBVIOUS
  <1>2. PICK W : W = Width(cmdOpcode)
    OBVIOUS
  <1>3. PICK v : v = RegBytes(registers', first, W)
    OBVIOUS
  <1>4. PICK w : w = WriteCall(first, v)
    OBVIOUS
  <1>5. /\ AtPhase(2) /\ cmdOpcode \in {WRITE} \cup WRITEWIDE
        /\ registers' = SetReg(registers, cmdAddress, c) /\ cmdPhase' = 0
        /\ calls' = calls \o w /\ accepted' = accepted
        /\ writeFIFOBytesLeft' = writeFIFOBytesLeft
    BY <1>1, <1>2, <1>3, <1>4 DEF WriteLast, Take, host
  <1>6. W \in 1 .. 8 /\ first \in 0 .. 255 /\ (W = 1 => cmdOpcode = WRITE)
    <2>1. W \in 1 .. 8 /\ first \in 0 .. 255
      BY <1>1, <1>2, <1>5, Widths DEF ParserTypes
    <2>2. cmdOpcode \in WRITEWIDE => W # 1
      BY <1>2, WideWidths
    <2> QED  BY <1>5, <2>1, <2>2
  <1>7. writeFIFOBytesLeft = 0
    BY <1>5, InPhase2
  <1>8. ParserHolds' /\ RingHolds' /\ RegistersHold(registers') /\ RingTypes'
    <2>1. ParserTypes' /\ ParserHolds'
      BY WriteLastStep
    <2>2. Round /\ RegistersHold(registers')
      BY <2>1 DEF Round, ParserTypes
    <2> QED  BY <2>1, <2>2, RoundRing
  <1>9. PICK p \in Nat, pre \in Calls : Framed(accepted', p, pre) /\ AtCommand(p, pre)'
    BY <1>8 DEF ParserHolds
  <1>10. p = consumed' /\ calls' = pre
    BY <1>5, <1>7, <1>9 DEF AtCommand, Between, HasOpcode, HasAddress, InFIFO
  <1>11. p <= Len(accepted) /\ Framed(accepted, p, calls')
    BY <1>5, <1>8, <1>9, <1>10 DEF RingHolds
  <1>12. /\ stream.paced /\ Len(m) \in Nat /\ Len(m) > 1 /\ m \in Calls
         /\ <<m[1]>> = StartCall /\ <<m[Len(m)]>> = RebootCall
         /\ \A k \in 1 .. Len(m) : m[k].to = "handleWrite" => k = 1 \/ k = Len(m)
         /\ Fits(UserFlash + Len(b))
    BY Uploads
  <1>13. m = calls' \o f[p + 1] /\ f[p + 1] \in Calls
    BY <1>11, <1>12, MeaningFrom
  <1>14. v \in Bytes /\ Len(v) = W /\ v = [k \in 1 .. W |-> Reg(registers', Byte(first + k - 1))]
    <2>1. \A k \in 1 .. W : Reg(registers', Byte(first + k - 1)) \in 0 .. 255
      BY <1>8 DEF RegistersHold, Reg
    <2>2. v = [k \in 1 .. W |-> Reg(registers', Byte(first + k - 1))] /\ W \in Nat
      BY <1>3, <1>6 DEF RegBytes
    <2> QED  BY <2>1, <2>2, IsASeq DEF Bytes
  <1>15. w \in Calls /\ Len(w) = 1 /\ w = <<w[1]>>
         /\ w[1] = [to |-> "handleWrite", address |-> first, data |-> v]
    <2>1. w \in Calls
      BY <1>4, <1>6, <1>14, CallTypes, Zenon
    <2> QED  BY <1>4, <2>1 DEF WriteCall
  <1>16. calls \in Calls
    BY CallsMean
  <1>17. PICK t \in Calls : t = f[p + 1]
    BY <1>13
  <1> HIDE DEF b, m, f
  <1>18. m = calls \o (w \o t)
    <2>1. m = (calls \o w) \o t
      BY <1>5, <1>13, <1>17
    <2> QED  BY <1>15, <1>16, <2>1, Joined
  <1>19. /\ Len(calls) \in Nat /\ Len(calls) + 1 \in 1 .. Len(m)
         /\ m[Len(calls) + 1] = w[1]
         /\ \A k \in 1 .. Len(calls) : m[k] = calls[k]
    BY <1>15, <1>16, <1>18, Places
  <1>20. w[1].to = "handleWrite"
    BY <1>15
  <1>21. Len(calls) + 1 = 1 \/ Len(calls) + 1 = Len(m)
    BY <1>12, <1>19, <1>20
  <1>22. CASE Len(calls) + 1 = 1
    <2>1. calls = << >>
      <3>1. Len(calls) = 0
        BY <1>19, <1>22
      <3> QED  BY <1>16, <3>1, EmptySeq DEF Calls
    <2>2. w = StartCall
      <3>1. m[1] = w[1]
        BY <1>19, <1>22
      <3> QED  BY <1>12, <1>15, <3>1
    <2>3. w[1] = [to |-> "handleWrite", address |-> FLASHSTART, data |-> Uint32Bytes(UserFlash)]
      BY <2>2 DEF StartCall, WriteCall
    <2>4. first = FLASHSTART /\ v = Uint32Bytes(UserFlash)
      <3>1. w[1].address = FLASHSTART /\ w[1].data = Uint32Bytes(UserFlash)
        BY <2>3
      <3>2. w[1].address = first /\ w[1].data = v
        BY <1>15
      <3> QED  BY <3>1, <3>2
    <2>5. W = 4
      <3>1. Len(Uint32Bytes(UserFlash)) = 4
        BY DEF Uint32Bytes
      <3> QED  BY <1>14, <2>4, <3>1
    <2>6. FlashWriteStart(registers') = Uint32(Uint32Bytes(UserFlash))
      BY <1>3, <2>4, <2>5 DEF FlashWriteStart
    <2>7. UserFlash \in Nat /\ Fits(UserFlash)
      <3>1. UserFlash \in Nat /\ Len(b) \in Nat
        BY BootloaderAssumption, HostBytes DEF b
      <3>2. Fits(UserFlash + Len(b))
        BY <1>12
      <3> QED  BY <3>1, <3>2, SMT DEF Fits
    <2> QED  BY <2>1, <2>6, <2>7, StartIs
  <1>23. CASE Len(calls) + 1 = Len(m)
    <2>1. w = RebootCall
      BY <1>12, <1>15, <1>19, <1>23
    <2>2. w[1] = [to |-> "handleWrite", address |-> REBOOT, data |-> <<\h5e>>]
      BY <2>1 DEF RebootCall, WriteCall
    <2>3. first = REBOOT /\ v = <<\h5e>>
      <3>1. w[1].address = REBOOT /\ w[1].data = <<\h5e>>
        BY <2>2
      <3>2. w[1].address = first /\ w[1].data = v
        BY <1>15
      <3> QED  BY <3>1, <3>2
    <2>4. cmdAddress = REBOOT
      <3>1. Len(<<\h5e>>) = 1
        OBVIOUS
      <3>2. W = 1
        BY <1>14, <2>3, <3>1
      <3> QED  BY <1>1, <1>6, <2>3, <3>2
    <2>5. ASSUME NEW k \in 1 .. 4
          PROVE  Reg(registers', Byte(FLASHSTART + k - 1))
                   = Reg(registers, Byte(FLASHSTART + k - 1))
      <3>1. Byte(FLASHSTART + k - 1) # REBOOT
        BY DEF Byte, FLASHSTART, REBOOT
      <3>2. registers' = SetReg(registers, REBOOT, c)
        BY <1>5, <2>4
      <3> QED  BY <3>1, <3>2 DEF SetReg, Reg
    <2>6. RegBytes(registers', FLASHSTART, 4) = RegBytes(registers, FLASHSTART, 4)
      BY <2>5 DEF RegBytes
    <2>7. Begun
      <3>1. 1 \in 1 .. Len(calls)
        BY <1>12, <1>19, <1>23
      <3>2. calls # << >>
        BY <3>1
      <3>3. calls[1] = m[1]
        BY <1>19, <3>1
      <3>4. m[1] = [to |-> "handleWrite", address |-> FLASHSTART,
                    data |-> Uint32Bytes(UserFlash)]
        BY <1>12 DEF StartCall, WriteCall
      <3> QED  BY <3>2, <3>3, <3>4 DEF Begun
    <2> QED  BY <2>6, <2>7 DEF FlashWriteStart
  <1> QED  BY <1>21, <1>22, <1>23
-------------------------------------------------------------------------------
(* The flash and the word buffer hold what has been handed over.           *)

\* More bytes are handed over; the whole words there were stay what they are.
LEMMA HoldsMore ==
    ASSUME NEW f, NEW h \in Bytes, NEW d \in Bytes, NEW q \in Nat, 4 * q <= Len(h),
           Holds(f, h, UserFlash + 4 * q)
    PROVE  Holds(f, h \o d, UserFlash + 4 * q)
  <1> DEFINE n == UserFlash + 4 * q
             g == h \o d
  <1>1. PICK u \in Nat : UserFlash = 4 * u
    BY UserFlashIs
  <1>2. Len(h) \in Nat /\ Len(d) \in Nat
    BY DEF Bytes
  <1>3. /\ g \in Bytes /\ Len(g) = Len(h) + Len(d)
        /\ \A k \in 1 .. Len(h) : g[k] = h[k]
    <2>1. 0 \in 0 .. 255
      OBVIOUS
    <2> QED  BY <2>1, FIFOJoin
  <1> HIDE DEF g
  <1> SUFFICES ASSUME NEW a \in Words, a < n
               PROVE  SubSeq(h, a - UserFlash + 1, a - UserFlash + WordSize)
                        = SubSeq(g, a - UserFlash + 1, a - UserFlash + WordSize)
    BY DEF Holds, g
  <1>4. PICK x, p \in Int : a = 4 * x /\ Page(a) = 4 * p /\ p <= x /\ UserFlash <= a
    BY WordIs
  <1>5. PICK i \in Int : i = a - UserFlash + 1
    BY <1>1, <1>4
  <1>6. PICK j \in Int : j = a - UserFlash + WordSize
    BY <1>1, <1>4 DEF WordSize
  <1>7. i >= 1 /\ j <= Len(h) /\ j - i + 1 = 4 /\ i <= j
    BY <1>1, <1>2, <1>4, <1>5, <1>6 DEF WordSize
  <1> DEFINE t == SubSeq(h, i, j)
  <1>8. t \in Bytes /\ Len(t) = 4 /\ \A k \in 1 .. 4 : t[k] = h[i + k - 1]
    <2>1. i >= 1 /\ j <= Len(h)
      BY <1>7
    <2>2. /\ t \in Bytes /\ Len(t) = IF i <= j THEN j - i + 1 ELSE 0
          /\ \A k \in 1 .. j - i + 1 : t[k] = h[i + k - 1]
      BY <2>1, PartOf, ZenonT(30)
    <2> HIDE DEF t
    <2>3. (IF i <= j THEN j - i + 1 ELSE 0) = 4 /\ j - i + 1 = 4
      BY <1>7
    <2> QED  BY <2>2, <2>3
  <1> HIDE DEF t
  <1>9. \A k \in 1 .. Len(t) : t[k] = g[i + k - 1]
    <2> SUFFICES ASSUME NEW k \in 1 .. 4 PROVE t[k] = g[i + k - 1]
      BY <1>8
    <2>1. i + k - 1 \in 1 .. Len(h)
      BY <1>2, <1>7
    <2> QED  BY <1>3, <1>8, <2>1
  <1>10. Len(t) = j - i + 1 /\ j <= Len(g)
    BY <1>2, <1>3, <1>7, <1>8
  <1>11. SubSeq(g, i, j) = t
    BY <1>3, <1>7, <1>8, <1>9, <1>10, PartIs, ZenonT(30)
  <1> QED  BY <1>5, <1>6, <1>11 DEF t

\* The word buffer b holds what of h comes after q words.
Buffers(b, h, q) ==
    /\ Len(h) = 4 * q + Len(b) /\ Len(b) <= 4
    /\ \A i \in 1 .. Len(b) : b[i] = h[4 * q + i]

\* More data, before any of it is written.
LEMMA BuffersMore ==
    ASSUME NEW b \in Bytes, NEW h \in Bytes, NEW d \in Bytes, NEW q \in Nat,
           Buffers(b, h, q)
    PROVE  /\ b \o d \in Bytes /\ h \o d \in Bytes
           /\ Len(b \o d) = Len(b) + Len(d) /\ Len(h \o d) = Len(h) + Len(d)
           /\ Len(h \o d) = 4 * q + Len(b \o d)
           /\ \A i \in 1 .. Len(b \o d) : (b \o d)[i] = (h \o d)[4 * q + i]
  <1> DEFINE x == b \o d
             y == h \o d
  <1>1. Len(b) \in Nat /\ Len(h) \in Nat /\ Len(d) \in Nat
    BY DEF Bytes
  <1>2. 0 \in 0 .. 255
    OBVIOUS
  <1>3. /\ x \in Bytes /\ Len(x) = Len(b) + Len(d)
        /\ \A k \in 1 .. Len(b) : x[k] = b[k]
        /\ \A k \in 1 .. Len(d) : x[Len(b) + k] = d[k]
    BY <1>2, FIFOJoin
  <1>4. /\ y \in Bytes /\ Len(y) = Len(h) + Len(d)
        /\ \A k \in 1 .. Len(h) : y[k] = h[k]
        /\ \A k \in 1 .. Len(d) : y[Len(h) + k] = d[k]
    BY <1>2, FIFOJoin
  <1> HIDE DEF x, y
  <1>5. /\ Len(h) = 4 * q + Len(b)
        /\ \A i \in 1 .. Len(b) : b[i] = h[4 * q + i]
    BY DEF Buffers
  <1>6. Len(y) = 4 * q + Len(x)
    <2>1. Len(h) = 4 * q + Len(b)
      BY <1>5
    <2> QED  BY <1>1, <1>3, <1>4, <2>1
  <1>7. \A i \in 1 .. Len(x) : x[i] = y[4 * q + i]
    <2> SUFFICES ASSUME NEW i \in 1 .. Len(b) + Len(d) PROVE x[i] = y[4 * q + i]
      BY <1>3
    <2>1. CASE i <= Len(b)
      <3>1. Len(h) = 4 * q + Len(b)
        BY <1>5
      <3>2. i \in 1 .. Len(b) /\ 4 * q + i \in 1 .. Len(h)
        BY <1>1, <2>1, <3>1
      <3>3. x[i] = b[i] /\ y[4 * q + i] = h[4 * q + i]
        BY <1>3, <1>4, <3>2
      <3> QED  BY <1>5, <3>2, <3>3
    <2>2. CASE ~(i <= Len(b))
      <3>1. Len(h) = 4 * q + Len(b)
        BY <1>5
      <3>2. PICK k \in 1 .. Len(d) : k = i - Len(b)
        <4>1. \A l, m \in Nat : i \in 1 .. l + m /\ ~(i <= l) => i - l \in 1 .. m
          OBVIOUS
        <4>2. i - Len(b) \in 1 .. Len(d)
          BY <1>1, <2>2, <4>1
        <4> QED  BY <4>2
      <3>3. Len(b) + k = i /\ Len(h) + k = 4 * q + i
        BY <1>1, <3>1, <3>2
      <3>4. x[Len(b) + k] = d[k] /\ y[Len(h) + k] = d[k]
        BY <1>3, <1>4
      <3> QED  BY <3>3, <3>4
    <2> QED  BY <2>1, <2>2
  <1> QED  BY <1>3, <1>4, <1>6, <1>7 DEF x, y

\* The words of the buffer are those of h at their places, and what is left over
\* is what h ends in.
LEMMA WordsHanded ==
    ASSUME NEW b \in Bytes, NEW h \in Bytes, NEW q \in Nat, Len(h) = 4 * q + Len(b),
           \A i \in 1 .. Len(b) : b[i] = h[4 * q + i]
    PROVE  /\ \A i \in 1 .. Len(WordsOf(b)) :
                 WordsOf(b)[i] = SubSeq(h, 4 * (q + i - 1) + 1, 4 * (q + i))
           /\ Buffers(Leftover(b), h, q + Len(WordsOf(b)))
           /\ Len(WordsOf(b)) \in Nat /\ 4 * (q + Len(WordsOf(b))) <= Len(h)
  <1> DEFINE w == Len(WordsOf(b))
             e == Leftover(b)
  <1>1. /\ w \in Nat /\ 4 * w <= Len(b) /\ Len(b) < 4 * w + 4
        /\ e \in Bytes /\ Len(e) = Len(b) - 4 * w
        /\ \A k \in 1 .. Len(b) - 4 * w : e[k] = b[4 * w + k]
        /\ \A i \in 1 .. w : WordsOf(b)[i] = SubSeq(b, 4 * (i - 1) + 1, 4 * i)
    BY WordCount
  <1>2. Len(b) \in Nat /\ Len(h) \in Nat
    BY DEF Bytes
  <1> HIDE DEF w, e
  <1>3. ASSUME NEW i \in 1 .. w
        PROVE  SubSeq(b, 4 * (i - 1) + 1, 4 * i) = SubSeq(h, 4 * (q + i - 1) + 1, 4 * (q + i))
    <2> DEFINE t == SubSeq(b, 4 * (i - 1) + 1, 4 * i)
    <2>1. /\ 4 * (i - 1) + 1 \in Int /\ 4 * (i - 1) + 1 >= 1 /\ 4 * i \in Int
          /\ 4 * i <= Len(b) /\ 4 * i - (4 * (i - 1) + 1) + 1 = 4
          /\ 4 * (i - 1) + 1 <= 4 * i
      <3>1. 4 * w <= Len(b)
        BY <1>1
      <3> QED  BY <1>1, <1>2, <3>1
    <2>2. /\ t \in Bytes /\ Len(t) = 4
          /\ \A k \in 1 .. 4 : t[k] = b[(4 * (i - 1) + 1) + k - 1]
      BY <2>1, PartOf
    <2> HIDE DEF t
    <2>3. PICK x \in Int : x = 4 * (q + i - 1) + 1
      OBVIOUS
    <2>4. PICK y \in Int : y = 4 * (q + i)
      OBVIOUS
    <2>5. x >= 1 /\ y <= Len(h) /\ Len(t) = y - x + 1
      <3>1. y - x + 1 = 4 /\ x >= 1
        BY <2>3, <2>4
      <3>2. y <= Len(h)
        BY <1>2, <2>1, <2>4
      <3> QED  BY <2>2, <3>1, <3>2
    <2>6. \A k \in 1 .. Len(t) : t[k] = h[x + k - 1]
      <3> SUFFICES ASSUME NEW k \in 1 .. 4 PROVE t[k] = h[x + k - 1]
        BY <2>2
      <3>1. (4 * (i - 1) + 1) + k - 1 \in 1 .. Len(b)
        BY <1>2, <2>1
      <3>2. 4 * q + ((4 * (i - 1) + 1) + k - 1) = x + k - 1
        BY <2>3
      <3> QED  BY <2>2, <3>1, <3>2
    <2>7. SubSeq(h, x, y) = t
      BY <2>2, <2>5, <2>6, PartIs
    <2> QED  BY <2>3, <2>4, <2>7 DEF t
  <1>4. 4 * (q + w) <= Len(h) /\ Len(h) = 4 * (q + w) + Len(e) /\ Len(e) <= 4
    <2>1. 4 * w <= Len(b) /\ Len(b) < 4 * w + 4 /\ Len(e) = Len(b) - 4 * w /\ w \in Nat
      BY <1>1
    <2>2. Len(h) = 4 * q + Len(b)
      OBVIOUS
    <2> QED  BY <1>2, <2>1, <2>2
  <1>5. \A k \in 1 .. Len(e) : e[k] = h[4 * (q + w) + k]
    <2> SUFFICES ASSUME NEW k \in 1 .. Len(b) - 4 * w PROVE e[k] = h[4 * (q + w) + k]
      BY <1>1
    <2>1. e[k] = b[4 * w + k]
      BY <1>1
    <2>2. 4 * w + k \in 1 .. Len(b) /\ 4 * q + (4 * w + k) = 4 * (q + w) + k
      <3>1. w \in Nat
        BY <1>1
      <3> QED  BY <1>2, <3>1
    <2> QED  BY <2>1, <2>2
  <1> QED  BY <1>1, <1>3, <1>4, <1>5 DEF Buffers, w, e

\* q words have been programmed.
FlashAt(q) ==
    /\ Buffers(wordBuffer, handed, q)
    /\ Holds(flash, handed, UserFlash + 4 * q)
    /\ Begun => FlashWriteStart(registers) = UserFlash + 4 * q

LEMMA HandlerFlash ==
    ASSUME NEW a, NEW d \in Bytes, wordBuffer \in Bytes, handed \in Bytes,
           NEW q \in Nat, FlashAt(q), Begun, Fits(UserFlash + (Len(handed) + Len(d))),
           HandleWriteFIFO(a, d)
    PROVE  /\ handed' \in Bytes /\ Len(handed') <= Len(handed) + Len(d)
           /\ \E q2 \in Nat : FlashAt(q2)'
  <1> DEFINE b == wordBuffer \o d
             h == handed \o d
  <1>1. /\ Buffers(wordBuffer, handed, q) /\ Holds(flash, handed, UserFlash + 4 * q)
        /\ FlashWriteStart(registers) = UserFlash + 4 * q
    BY DEF FlashAt
  <1>2. Len(handed) \in Nat /\ Len(d) \in Nat /\ UserFlash \in Nat /\ Len(wordBuffer) \in Nat
    BY BootloaderAssumption DEF Bytes
  <1>3. /\ b \in Bytes /\ h \in Bytes
        /\ Len(b) = Len(wordBuffer) + Len(d) /\ Len(h) = Len(handed) + Len(d)
        /\ Len(h) = 4 * q + Len(b) /\ \A i \in 1 .. Len(b) : b[i] = h[4 * q + i]
    BY <1>1, BuffersMore
  <1> HIDE DEF b, h
  <1>4. Holds(flash, h, UserFlash + 4 * q)
    <2>1. 4 * q <= Len(handed)
      <3>1. Len(handed) = 4 * q + Len(wordBuffer)
        BY <1>1 DEF Buffers
      <3> QED  BY <1>2, <3>1
    <2> QED  BY <1>1, <2>1, HoldsMore DEF h
  <1>5. CASE a # FLASHFIFO
    <2>1. UNCHANGED <<wordBuffer, flash, registers, handed>>
      BY <1>5 DEF HandleWriteFIFO
    <2>2. FlashAt(q)'
      BY <1>1, <2>1 DEF FlashAt
    <2> QED  BY <1>2, <2>1, <2>2
  <1>6. CASE a = FLASHFIFO /\ HeldBack(wordBuffer, d)
    <2>1. wordBuffer' = b /\ handed' = h /\ UNCHANGED <<flash, registers>>
      BY <1>6 DEF HandleWriteFIFO, b, h
    <2>2. Buffers(b, h, q)
      <3>1. Len(b) <= 4
        BY <1>3, <1>6 DEF HeldBack, WordSize
      <3> QED  BY <1>3, <3>1 DEF Buffers
    <2>3. FlashAt(q)'
      BY <1>1, <1>4, <2>1, <2>2 DEF FlashAt
    <2> QED  BY <1>2, <1>3, <2>1, <2>3
  <1>7. CASE a = FLASHFIFO /\ ~HeldBack(wordBuffer, d)
    <2>1. PICK words : words = WordsOf(b)
      OBVIOUS
    <2>2. PICK n : n = StartAfter(UserFlash + 4 * q, words)
      OBVIOUS
    <2>3. /\ flash' = Programmed(flash, UserFlash + 4 * q, words)
          /\ wordBuffer' = Leftover(b) /\ registers' = SetFlashWriteStart(registers, n)
          /\ handed' = h
      BY <1>1, <1>7, <2>1, <2>2 DEF HandleWriteFIFO, b, h
    <2>4. /\ \A i \in 1 .. Len(words) :
                words[i] = SubSeq(h, 4 * (q + i - 1) + 1, 4 * (q + i))
          /\ Buffers(Leftover(b), h, q + Len(words))
          /\ Len(words) \in Nat /\ 4 * (q + Len(words)) <= Len(h)
      <3>1. b \in Bytes /\ h \in Bytes /\ Len(h) = 4 * q + Len(b)
        BY <1>3
      <3>2. \A i \in 1 .. Len(b) : b[i] = h[4 * q + i]
        BY <1>3
      <3>3. /\ \A i \in 1 .. Len(WordsOf(b)) :
                  WordsOf(b)[i] = SubSeq(h, 4 * (q + i - 1) + 1, 4 * (q + i))
            /\ Buffers(Leftover(b), h, q + Len(WordsOf(b)))
            /\ Len(WordsOf(b)) \in Nat /\ 4 * (q + Len(WordsOf(b))) <= Len(h)
        BY <3>1, <3>2, WordsHanded, Zenon
      <3> QED  BY <2>1, <3>3, Zenon
    <2>5. PICK r \in Nat : r = q + Len(words)
      BY <2>4
    <2>6. Holds(flash', h, UserFlash + 4 * r)
      <3>1. Holds(Programmed(flash, UserFlash + 4 * q, words), h,
                  UserFlash + 4 * (q + Len(words)))
        BY <1>4, <2>4, Programming
      <3> QED  BY <2>3, <2>5, <3>1
    <2>7. n = UserFlash + 4 * r
      BY <1>2, <2>2, <2>4, <2>5 DEF StartAfter, WordSize
    <2>8. Fits(n) /\ n \in Nat
      <3>1. n <= UserFlash + (Len(handed) + Len(d)) /\ n \in Nat
        BY <1>2, <1>3, <2>4, <2>5, <2>7
      <3> QED  BY <1>2, <3>1, SMT DEF Fits
    <2>9. FlashWriteStart(registers') = UserFlash + 4 * r
      BY <2>3, <2>7, <2>8, StartIs
    <2>10. Buffers(wordBuffer', handed', r)
      BY <2>3, <2>4, <2>5
    <2>11. FlashAt(r)'
      BY <2>3, <2>6, <2>9, <2>10 DEF FlashAt
    <2> QED  BY <1>2, <1>3, <2>3, <2>11
  <1> QED  BY <1>5, <1>6, <1>7

(***************************************************************************)
(* The invariant: the words programmed are those handed over, the word     *)
(* buffer has the rest, and once the address has been set it is that of    *)
(* the next word.                                                          *)
(***************************************************************************)
FlashInv ==
    /\ ResetWhenAsked
    /\ Uploading =>
          /\ handed \in Bytes /\ Len(handed) <= consumed
          /\ calls = << >> => handed = << >>
          /\ \E q \in Nat : FlashAt(q)

LEMMA HoldsAtFirst == Holds([a \in Words |-> Old], << >>, UserFlash)
  <1> SUFFICES ASSUME NEW a \in Words
               PROVE  ~(a < UserFlash) /\ ~(Page(a) < UserFlash)
    BY DEF Holds
  <1>1. PICK x, p \in Int : a = 4 * x /\ Page(a) = 4 * p /\ p <= x /\ UserFlash <= a
    BY WordIs
  <1>2. ~(a < UserFlash)
    <2>1. UserFlash \in Nat
      BY BootloaderAssumption
    <2> QED  BY <1>1, <2>1
  <1>3. ~(Page(a) < UserFlash)
    <2> DEFINE m == PageSize
               u == UserFlash
    <2>1. m \in Nat \ {0} /\ u \in Nat /\ u % m = 0 /\ a \in Int
      BY <1>1, BootloaderAssumption
    <2>2. PICK k, r \in Int : a = m * k + r /\ r = a % m /\ 0 <= r /\ r < m
      <3>1. a = m * (a \div m) + (a % m) /\ a \div m \in Int /\ a % m \in 0 .. m - 1
        BY <2>1, DivMod
      <3>2. PICK k, r \in Int : k = a \div m /\ r = a % m
        BY <3>1
      <3>3. a = m * k + r /\ r \in 0 .. m - 1
        BY <3>1, <3>2
      <3>4. 0 <= r /\ r < m
        BY <2>1, <3>3
      <3> QED  BY <3>2, <3>3, <3>4
    <2>3. PICK l \in Int : u = m * l
      <3>1. u = m * (u \div m) + (u % m) /\ u \div m \in Int
        BY <2>1, DivMod
      <3> QED  BY <2>1, <3>1
    <2>4. Page(a) = m * k
      BY <2>1, <2>2 DEF Page
    <2>5. l <= k
      <3>1. m * l <= m * k + r
        BY <1>1, <2>2, <2>3
      <3>2. ~(l - k >= 1)
        <4> SUFFICES ASSUME l - k >= 1 PROVE FALSE
          OBVIOUS
        <4>1. m * (l - k) >= m
          BY <2>1, MultipleAtLeast
        <4>2. m * (l - k) = m * l - m * k
          BY <2>1
        <4> QED  BY <2>1, <2>2, <3>1, <4>1, <4>2
      <3> QED  BY <3>2
    <2>6. m * l <= m * k
      <3>1. m * (k - l) >= 0
        BY <2>1, <2>5, MultipleAtLeast
      <3>2. m * (k - l) = m * k - m * l
        BY <2>1
      <3> QED  BY <2>1, <3>1, <3>2
    <2> QED  BY <2>3, <2>4, <2>6, <1>1
  <1> QED  BY <1>2, <1>3

-------------------------------------------------------------------------------
(* The steps: no call asks for the reset but the one that causes it.       *)

LEMMA QuietRound ==
    ASSUME LinkInv, RegistersHold(registers'),
           Opcode \/ Address \/ Parameter \/ WriteMore \/ StartWriteFIFO \/ ResumeWriteFIFO
    PROVE  \E n \in Nat : \E made : Quiet(made) /\ Take(n, made)
  <1> USE DEF LinkInv
  <1>1. ~WriteLast
    <2>1. CASE Opcode \/ Address
      <3>1. cmdPhase # 2
        BY <2>1 DEF Opcode, Address, AtPhase
      <3> QED  BY <3>1 DEF WriteLast, AtPhase
    <2>2. CASE Parameter
      BY <2>2 DEF Parameter, WriteLast
    <2>3. CASE WriteMore
      BY <2>3, Distinct DEF WriteMore, WriteLast
    <2>4. CASE StartWriteFIFO
      BY <2>4, Distinct DEF StartWriteFIFO, WriteLast
    <2>5. CASE ResumeWriteFIFO
      BY <2>5 DEF ResumeWriteFIFO, WriteLast, AtPhase
    <2> QED  BY <2>1, <2>2, <2>3, <2>4, <2>5
  <1>2. Round
    BY DEF Round
  <1>3. PICK n, made : Makes(made) /\ Take(n, made) /\ NoWrites(made)
    BY <1>1, <1>2, RoundMakes
  <1>4. PICK k \in Nat : \E more : Take(k, more)
    BY <1>2, RoundTakes
  <1>5. consumed' = consumed + k /\ consumed' = consumed + n /\ s' = s + n /\ s' = s + k
    BY <1>3, <1>4 DEF Take
  <1>6. Take(k, made)
    BY <1>3, <1>5 DEF Take
  <1> QED  BY <1>3, <1>6 DEF Quiet

\* Calls are added.
LEMMA Added ==
    ASSUME NEW x \in Calls, NEW y \in Calls
    PROVE  /\ Len(x) \in Nat /\ Len(y) \in Nat /\ Len(x \o y) = Len(x) + Len(y)
           /\ \A i \in 1 .. Len(x) : (x \o y)[i] = x[i]
           /\ \A i \in 1 .. Len(x \o y) :
                 i \in 1 .. Len(x) \/ \E j \in 1 .. Len(y) : (x \o y)[i] = y[j]
           /\ x # << >> => x \o y # << >> /\ (x \o y)[1] = x[1]
           /\ y # << >> => x \o y # << >>
           /\ x = << >> => x \o y = y
  <1> DEFINE z == x \o y
  <1>1. Len(x) \in Nat /\ Len(y) \in Nat
    BY DEF Calls
  <1>2. /\ Len(z) = Len(x) + Len(y)
        /\ \A i \in 1 .. Len(x) + Len(y) : z[i] = IF i <= Len(x) THEN x[i] ELSE y[i - Len(x)]
    BY ConcatProperties DEF Calls
  <1>3. /\ \A i \in 1 .. Len(x) : i \in 1 .. Len(x) + Len(y) /\ i <= Len(x)
        /\ \A i \in 1 .. Len(x) + Len(y) :
              i \in 1 .. Len(x) \/ (~(i <= Len(x)) /\ i - Len(x) \in 1 .. Len(y))
    BY <1>1
  <1>4. x = << >> => z = y
    BY Joined
  <1>5. (x # << >> => Len(x) >= 1) /\ (y # << >> => Len(y) >= 1)
    BY <1>1, EmptySeq DEF Calls
  <1> HIDE DEF z
  <1>6. Len(z) >= 1 => z # << >>
    OBVIOUS
  <1>7. x # << >> => z # << >> /\ z[1] = x[1]
    <2> SUFFICES ASSUME x # << >> PROVE z # << >> /\ z[1] = x[1]
      OBVIOUS
    <2>1. 1 \in 1 .. Len(x) /\ Len(z) >= 1
      BY <1>1, <1>2, <1>5
    <2> QED  BY <1>2, <1>3, <1>6, <2>1
  <1>8. y # << >> => z # << >>
    <2> SUFFICES ASSUME y # << >> PROVE Len(z) >= 1
      BY <1>6
    <2> QED  BY <1>1, <1>2, <1>5
  <1>9. \A i \in 1 .. Len(z) : i \in 1 .. Len(x) \/ \E j \in 1 .. Len(y) : z[i] = y[j]
    <2> SUFFICES ASSUME NEW i \in 1 .. Len(x) + Len(y), i \notin 1 .. Len(x)
                 PROVE  \E j \in 1 .. Len(y) : z[i] = y[j]
      BY <1>2
    <2> QED  BY <1>2, <1>3
  <1>10. \A i \in 1 .. Len(x) : z[i] = x[i]
    BY <1>2, <1>3
  <1> QED  BY <1>1, <1>2, <1>4, <1>7, <1>8, <1>9, <1>10 DEF z

LEMMA NoneAsked ==
    ASSUME calls \in Calls, NEW made \in Calls, calls' = calls \o made, ~Reset,
           ResetWhenAsked,
           \A j \in 1 .. Len(made) : <<made[j]>> = RebootCall => Reset'
    PROVE  ResetWhenAsked'
  <1>1. \A i \in 1 .. Len(calls) : <<calls[i]>> # RebootCall
    BY DEF ResetWhenAsked
  <1> SUFFICES ASSUME NEW i \in 1 .. Len(calls \o made),
                      <<(calls \o made)[i]>> = RebootCall
               PROVE  Reset'
    BY DEF ResetWhenAsked, RebootCall, WriteCall, REBOOT
  <1>2. CASE i \in 1 .. Len(calls)
    <2>1. (calls \o made)[i] = calls[i]
      BY <1>2, Added
    <2> QED  BY <1>1, <1>2, <2>1
  <1>3. CASE i \notin 1 .. Len(calls)
    <2>1. PICK j \in 1 .. Len(made) : (calls \o made)[i] = made[j]
      BY <1>3, Added
    <2> QED  BY <2>1
  <1> QED  BY <1>2, <1>3

\* A quiet round does not ask for the reset, nor does it write the address.
LEMMA QuietCalls ==
    ASSUME LinkInv, RegistersHold(registers'), ~Reset, ResetWhenAsked,
           Opcode \/ Address \/ Parameter \/ WriteMore \/ StartWriteFIFO \/ ResumeWriteFIFO
    PROVE  /\ ResetWhenAsked' /\ consumed' >= consumed
           /\ calls' = << >> => calls = << >>
           /\ Begun' <=> Begun
  <1>1. PICK n \in Nat : \E more : Quiet(more) /\ Take(n, more)
    BY QuietRound
  <1>2. PICK made : Quiet(made) /\ Take(n, made)
    BY <1>1
  <1>3. made \in Calls /\ NoWrites(made)
    BY <1>2 DEF Quiet, Makes
  <1>4. calls' = calls \o made /\ consumed' = consumed + n
    BY <1>2 DEF Take
  <1>5. calls \in Calls /\ consumed \in Nat
    BY CallsMean, HostBytes DEF LinkInv
  <1>6. \A j \in 1 .. Len(made) : <<made[j]>> # RebootCall
    <2> SUFFICES ASSUME NEW j \in 1 .. Len(made), <<made[j]>> = RebootCall PROVE FALSE
      OBVIOUS
    <2>1. made[j] = [to |-> "handleWrite", address |-> REBOOT, data |-> <<\h5e>>]
      BY DEF RebootCall, WriteCall
    <2> QED  BY <1>3, <2>1 DEF NoWrites
  <1>7. ResetWhenAsked'
    BY <1>3, <1>4, <1>5, <1>6, NoneAsked
  <1>8. calls' = << >> => calls = << >>
    BY <1>3, <1>4, <1>5, Added
  <1>9. Begun' <=> Begun
    <2>1. CASE calls # << >>
      <3>1. calls' # << >> /\ calls'[1] = calls[1]
        BY <1>3, <1>4, <1>5, <2>1, Added
      <3> QED  BY <2>1, <3>1 DEF Begun
    <2>2. CASE calls = << >>
      <3>1. calls' = made
        BY <1>3, <1>4, <1>5, <2>2, Added
      <3>2. made # << >> => made[1].to # "handleWrite"
        <4>1. made # << >> => 1 \in 1 .. Len(made)
          BY <1>3, EmptySeq DEF Calls
        <4> QED  BY <1>3, <4>1 DEF NoWrites
      <3> QED  BY <2>2, <3>1, <3>2 DEF Begun
    <2> QED  BY <2>1, <2>2
  <1> QED  BY <1>4, <1>5, <1>7, <1>8, <1>9

\* The register write that asks for the reset causes it.
LEMMA WriteResets ==
    ASSUME LinkInv, ResetWhenAsked, ~Reset, WriteLast,
           HandleWrite(IF cmdOpcode = WRITE THEN cmdAddress ELSE cmdStartAddress)
    PROVE  /\ ResetWhenAsked' /\ calls' # << >> /\ consumed' >= consumed
           /\ Begun => Begun'
  <1> USE DEF LinkInv
  <1>1. PICK first : first = IF cmdOpcode = WRITE THEN cmdAddress ELSE cmdStartAddress
    OBVIOUS
  <1>2. PICK W : W = Width(cmdOpcode)
    OBVIOUS
  <1>3. PICK v : v = RegBytes(registers', first, W)
    OBVIOUS
  <1>4. PICK w : w = WriteCall(first, v)
    OBVIOUS
  <1>5. calls' = calls \o w /\ consumed' = consumed + 1
    BY <1>1, <1>2, <1>3, <1>4 DEF WriteLast, Take
  <1>6. W \in 1 .. 8 /\ first \in 0 .. 255
    BY <1>1, <1>2, Widths DEF ParserTypes, WriteLast
  <1>7. v \in Bytes /\ v = [k \in 1 .. W |-> Reg(registers', Byte(first + k - 1))]
    <2>1. RegistersHold(registers')
      BY WriteLastStep DEF ParserTypes
    <2>2. \A k \in 1 .. W : Reg(registers', Byte(first + k - 1)) \in 0 .. 255
      BY <2>1 DEF RegistersHold, Reg
    <2>3. v = [k \in 1 .. W |-> Reg(registers', Byte(first + k - 1))] /\ W \in Nat
      BY <1>3, <1>6 DEF RegBytes
    <2> QED  BY <2>2, <2>3, IsASeq DEF Bytes
  <1>8. w \in Calls /\ Len(w) = 1 /\ w # << >>
        /\ w[1] = [to |-> "handleWrite", address |-> first, data |-> v]
    <2>1. w \in Calls
      BY <1>4, <1>6, <1>7, CallTypes, Zenon
    <2> QED  BY <1>4, <2>1 DEF WriteCall
  <1>9. calls \in Calls /\ consumed \in Nat
    BY CallsMean, HostBytes
  <1>10. \A j \in 1 .. Len(w) : <<w[j]>> = RebootCall => Reset'
    <2> SUFFICES ASSUME <<w[1]>> = RebootCall PROVE Reset'
      BY <1>8
    <2>1. w[1] = [to |-> "handleWrite", address |-> REBOOT, data |-> <<\h5e>>]
      BY DEF RebootCall, WriteCall
    <2>2. first = REBOOT /\ v = <<\h5e>>
      <3>1. w[1].address = REBOOT /\ w[1].data = <<\h5e>>
        BY <2>1
      <3>2. w[1].address = first /\ w[1].data = v
        BY <1>8
      <3> QED  BY <3>1, <3>2
    <2>3. Reg(registers', REBOOT) = \h5e
      <3>1. v[1] = \h5e /\ 1 \in 1 .. W
        BY <1>6, <2>2
      <3>2. Byte(REBOOT + 1 - 1) = REBOOT
        BY DEF Byte, REBOOT
      <3>3. v[1] = Reg(registers', Byte(first + 1 - 1))
        BY <1>7, <3>1
      <3> QED  BY <2>2, <3>1, <3>2, <3>3
    <2>4. bootIndicator' = RegBytes(registers', USERARG, 4)
      BY <1>1, <2>2, <2>3 DEF HandleWrite
    <2>5. Len(RegBytes(registers', USERARG, 4)) = 4
      BY DEF RegBytes
    <2>6. bootIndicator' # << >>
      BY <2>4, <2>5
    <2> QED  BY <2>6 DEF Reset, NotReset
  <1>11. ResetWhenAsked'
    BY <1>5, <1>8, <1>9, <1>10, NoneAsked
  <1>12. calls' # << >>
    BY <1>5, <1>8, <1>9, Added
  <1>13. Begun => Begun'
    BY <1>5, <1>8, <1>9, Added DEF Begun
  <1> QED  BY <1>5, <1>9, <1>11, <1>12, <1>13

-------------------------------------------------------------------------------
(* The steps: the flash.                                                   *)

\* What the invariant says of an upload, and what the pacing adds.
LEMMA UploadHas ==
    ASSUME LinkInv, Paced, FlashInv, Uploading
    PROVE  /\ handed \in Bytes /\ Len(handed) <= consumed
           /\ calls = << >> => handed = << >>
           /\ \E q \in Nat : FlashAt(q)
           /\ accepted = SubSeq(stream.bytes, 1, arrived)
           /\ Len(accepted) <= Len(stream.bytes)
           /\ \A n \in Nat : n <= Len(accepted) => Fits(UserFlash + n)
  <1>1. stream.paced /\ Fits(UserFlash + Len(stream.bytes))
    BY Uploads DEF LinkInv
  <1>2. accepted = SubSeq(stream.bytes, 1, arrived)
    BY <1>1 DEF Paced
  <1>3. /\ stream.bytes \in Bytes /\ Len(stream.bytes) \in Nat /\ arrived \in Nat
        /\ arrived <= Len(stream.bytes)
    BY HostBytes DEF LinkInv
  <1>4. Len(accepted) = IF 1 <= arrived THEN arrived - 1 + 1 ELSE 0
    BY <1>2, <1>3, PartOf
  <1>5. Len(accepted) \in Nat /\ Len(accepted) <= Len(stream.bytes)
    BY <1>3, <1>4
  <1>6. \A n \in Nat : n <= Len(accepted) => Fits(UserFlash + n)
    <2> SUFFICES ASSUME NEW n \in Nat, n <= Len(accepted) PROVE Fits(UserFlash + n)
      OBVIOUS
    <2> DEFINE l == Len(stream.bytes)
    <2>1. n <= l /\ l \in Nat /\ UserFlash \in Nat
      BY <1>3, <1>5, BootloaderAssumption
    <2>2. Fits(UserFlash + l)
      BY <1>1
    <2> HIDE DEF l
    <2> QED  BY <2>1, <2>2, SMT DEF Fits
  <1> QED  BY <1>2, <1>5, <1>6 DEF FlashInv

\* Rounds that call no handler that keeps anything.
LEMMA FlashParsing ==
    ASSUME LinkInv, Paced, FlashInv, ~Reset, RegistersHold(registers'),
           Opcode \/ Address \/ Parameter \/ WriteMore, UNCHANGED boot
    PROVE  FlashInv'
  <1>1. /\ ResetWhenAsked' /\ consumed' >= consumed
        /\ calls' = << >> => calls = << >>
        /\ Begun' <=> Begun
    BY QuietCalls DEF FlashInv
  <1>2. UNCHANGED <<stream, flash, wordBuffer, handed>>
    BY DEF Opcode, Address, Parameter, WriteMore, Take, host, boot
  <1> SUFFICES ASSUME Uploading
               PROVE  /\ handed' \in Bytes /\ Len(handed') <= consumed'
                      /\ calls' = << >> => handed' = << >>
                      /\ \E q \in Nat : FlashAt(q)'
    BY <1>1, <1>2 DEF FlashInv, Uploading
  <1>3. /\ handed \in Bytes /\ Len(handed) <= consumed /\ calls = << >> => handed = << >>
        /\ accepted = SubSeq(stream.bytes, 1, arrived)
    BY UploadHas
  <1>4. Len(handed') <= consumed' /\ handed' \in Bytes
    <2>1. Len(handed) \in Nat /\ consumed \in Nat /\ consumed' \in Int
      <3>1. RingTypes'
        BY RoundRing DEF LinkInv, Round
      <3> QED  BY <1>3, HostBytes, <3>1 DEF LinkInv, Bytes, RingTypes
    <2>2. Len(handed) <= consumed
      BY UploadHas
    <2>3. Len(handed) <= consumed'
      BY <1>1, <2>1, <2>2
    <2> QED  BY <1>2, <2>3, UploadHas
  <1>5. calls' = << >> => handed' = << >>
    BY <1>1, <1>2, UploadHas
  <1>6. PICK q \in Nat : FlashAt(q)
    BY UploadHas
  <1>7. Begun' => FlashWriteStart(registers') = FlashWriteStart(registers)
    <2>1. CASE WriteMore
      <3>1. calls = << >>
        BY <2>1, UploadHas, WideIsFirst DEF LinkInv, FlashInv
      <3> QED  BY <1>1, <3>1 DEF Begun
    <2>2. CASE ~WriteMore
      <3>1. registers' = registers
        BY <2>2 DEF Opcode, Address, Parameter
      <3> QED  BY <3>1
    <2> QED  BY <2>1, <2>2
  <1>8. Begun' => FlashWriteStart(registers') = UserFlash + 4 * q
    BY <1>1, <1>6, <1>7 DEF FlashAt
  <1>9. FlashAt(q)'
    BY <1>2, <1>6, <1>8 DEF FlashAt
  <1> QED  BY <1>4, <1>5, <1>9

\* A register write: the first of an upload is that of the address.
LEMMA FlashWritten ==
    ASSUME LinkInv, Paced, FlashInv, ~Reset, WriteLast,
           HandleWrite(IF cmdOpcode = WRITE THEN cmdAddress ELSE cmdStartAddress)
    PROVE  FlashInv'
  <1>1. /\ ResetWhenAsked' /\ calls' # << >> /\ consumed' >= consumed
        /\ Begun => Begun'
    BY WriteResets DEF FlashInv
  <1>2. UNCHANGED <<stream, flash, wordBuffer, handed>> /\ consumed' = consumed + 1
    BY DEF WriteLast, Take, host, HandleWrite
  <1> SUFFICES ASSUME Uploading
               PROVE  /\ handed' \in Bytes /\ Len(handed') <= consumed'
                      /\ calls' = << >> => handed' = << >>
                      /\ \E q \in Nat : FlashAt(q)'
    BY <1>1, <1>2 DEF FlashInv, Uploading
  <1>3. Len(handed') <= consumed' /\ handed' \in Bytes
    <2>1. Len(handed) \in Nat /\ consumed \in Nat /\ Len(handed) <= consumed
      BY UploadHas, HostBytes DEF LinkInv, Bytes
    <2>2. Len(handed) <= consumed + 1
      BY <2>1
    <2> QED  BY <1>2, <2>2, UploadHas
  <1>4. PICK q \in Nat : FlashAt(q)
    BY UploadHas
  <1>5. Buffers(wordBuffer, handed, q) /\ Holds(flash, handed, UserFlash + 4 * q)
    BY <1>4 DEF FlashAt
  <1>6. \/ calls = << >> /\ FlashWriteStart(registers') = UserFlash
        \/ Begun /\ FlashWriteStart(registers') = FlashWriteStart(registers)
    BY UploadHas, WritesOfUpload DEF LinkInv
  <1>7. FlashWriteStart(registers') = UserFlash + 4 * q
    <2>1. CASE calls = << >> /\ FlashWriteStart(registers') = UserFlash
      <3>1. handed = << >>
        BY <2>1, UploadHas
      <3>2. Len(handed) = 0
        BY <3>1
      <3>3. Len(handed) = 4 * q + Len(wordBuffer)
        BY <1>5 DEF Buffers
      <3>4. Len(wordBuffer) \in Nat
        BY DEF LinkInv, Bytes
      <3>5. q = 0
        BY <3>2, <3>3, <3>4
      <3>6. UserFlash + 4 * 0 = UserFlash
        BY BootloaderAssumption
      <3> QED  BY <2>1, <3>5, <3>6
    <2>2. CASE Begun /\ FlashWriteStart(registers') = FlashWriteStart(registers)
      BY <1>4, <2>2 DEF FlashAt
    <2> QED  BY <1>6, <2>1, <2>2
  <1>8. FlashAt(q)'
    BY <1>2, <1>5, <1>7 DEF FlashAt
  <1> QED  BY <1>1, <1>3, <1>8

\* Data for a FIFO, in whichever round it comes.
LEMMA FlashData ==
    ASSUME LinkInv, Paced, FlashInv, ~Reset, RegistersHold(registers'),
           StartWriteFIFO \/ ResumeWriteFIFO, Uploading => Begun,
           NEW a, NEW d \in Bytes, HandleWriteFIFO(a, d), consumed' >= consumed + Len(d),
           stream' = stream
    PROVE  FlashInv'
  <1>1. Begun' <=> Begun
    BY QuietCalls DEF FlashInv
  <1> SUFFICES ASSUME Uploading
               PROVE  /\ handed' \in Bytes /\ Len(handed') <= consumed'
                      /\ calls' = << >> => handed' = << >>
                      /\ \E q \in Nat : FlashAt(q)'
    BY QuietCalls DEF FlashInv, Uploading
  <1>2. PICK q \in Nat : FlashAt(q)
    BY UploadHas
  <1>3. /\ handed \in Bytes /\ Len(handed) \in Nat /\ Len(d) \in Nat /\ consumed \in Nat
        /\ Len(handed) <= consumed
    BY UploadHas, HostBytes DEF LinkInv, Bytes
  <1>4. consumed' \in Nat /\ consumed' <= Len(accepted)
    <2>1. RingTypes' /\ RingHolds'
      BY RoundRing DEF LinkInv, Round
    <2>2. accepted' = accepted
      BY DEF StartWriteFIFO, ResumeWriteFIFO, Take, host
    <2> QED  BY <2>1, <2>2 DEF RingTypes, RingHolds
  <1>5. Fits(UserFlash + (Len(handed) + Len(d))) /\ Len(handed) + Len(d) <= consumed'
    <2>1. Len(accepted) \in Nat
      BY DEF LinkInv, RingTypes, Bytes
    <2>2. Len(handed) + Len(d) \in Nat /\ Len(handed) + Len(d) <= Len(accepted)
          /\ Len(handed) + Len(d) <= consumed'
      BY <1>3, <1>4, <2>1
    <2> QED  BY <2>2, UploadHas
  <1>6. /\ handed' \in Bytes /\ Len(handed') <= Len(handed) + Len(d)
        /\ \E q2 \in Nat : FlashAt(q2)'
    <2>1. wordBuffer \in Bytes
      BY DEF LinkInv
    <2> QED  BY <1>2, <1>3, <1>5, <2>1, HandlerFlash
  <1>7. Len(handed') <= consumed'
    <2>1. Len(handed') \in Nat
      BY <1>6 DEF Bytes
    <2> QED  BY <1>3, <1>4, <1>5, <1>6, <2>1
  <1>8. calls' # << >>
    BY <1>1 DEF Begun
  <1> QED  BY <1>6, <1>7, <1>8

LEMMA FlashStart ==
    ASSUME LinkInv, Paced, FlashInv, ~Reset, StartWriteFIFO,
           HandleWriteFIFO(cmdAddress, FirstBytes)
    PROVE  FlashInv'
  <1> USE DEF LinkInv
  <1>1. pc = "parse" /\ s < end /\ AtPhase(2) /\ cmdOpcode = WRITEFIFO
    BY DEF StartWriteFIFO, AtPhase
  <1>2. PICK d \in Bytes : d = FirstBytes
    BY <1>1, FirstBytesAre
  <1>3. consumed' = consumed + (1 + Len(d)) /\ stream' = stream /\ accepted' = accepted
    BY <1>2 DEF StartWriteFIFO, Take, host
  <1>4. consumed \in Nat /\ Len(d) \in Nat
    BY HostBytes DEF Bytes
  <1>5. RegistersHold(registers')
    BY <1>2, HandlerTyped DEF ParserTypes
  <1>6. consumed' <= Len(accepted) /\ Len(accepted) \in Nat
    <2>1. RingHolds'
      BY <1>5, RoundRing DEF Round
    <2>2. consumed' <= Len(accepted)
      BY <1>3, <2>1 DEF RingHolds
    <2> QED  BY <2>2 DEF RingTypes, Bytes
  <1>7. Uploading => Begun
    <2> SUFFICES ASSUME Uploading PROVE Begun
      OBVIOUS
    <2>1. PICK p \in Nat, pre \in Calls, n \in Nat :
              /\ Framed(accepted, p, pre) /\ HasAddress(p, pre, n)
              /\ c = accepted[p + 3 + n] /\ accepted[p + 2] = cmdStartAddress
              /\ accepted[p + 1] = cmdOpcode /\ calls = pre
              /\ consumed = p + 2 + n /\ writeFIFOBytesLeft = 0
      BY <1>1, InPhase2
    <2>2. p + 3 <= Len(accepted)
      <3>1. consumed = p + 2 + n
        BY <2>1
      <3> QED  BY <1>3, <1>4, <1>6, <3>1
    <2>3. Framed(accepted, p, pre) /\ accepted[p + 1] = WRITEFIFO /\ calls = pre
      BY <1>1, <2>1
    <2>4. accepted = SubSeq(stream.bytes, 1, arrived)
      BY UploadHas
    <2> QED  BY <2>2, <2>3, <2>4, StartBeforeData DEF Begun
  <1>8. consumed' >= consumed + Len(d)
    BY <1>3, <1>4
  <1>9. HandleWriteFIFO(cmdAddress, d)
    BY <1>2
  <1> HIDE DEF LinkInv
  <1> QED  BY <1>3, <1>5, <1>7, <1>8, <1>9, FlashData

LEMMA FlashResume ==
    ASSUME LinkInv, Paced, FlashInv, ~Reset, ResumeWriteFIFO,
           HandleWriteFIFO(cmdAddress, ResumedBytes)
    PROVE  FlashInv'
  <1> USE DEF LinkInv
  <1>1. pc = "resume" /\ writeFIFOBytesLeft > 0
    BY DEF ResumeWriteFIFO, ParserHolds
  <1>2. PICK d \in Bytes : d = ResumedBytes
    BY <1>1, ResumedBytesAre
  <1>3. consumed' = consumed + Len(d) /\ stream' = stream
    BY <1>2 DEF ResumeWriteFIFO, Take, host
  <1>4. consumed \in Nat /\ Len(d) \in Nat
    BY HostBytes DEF Bytes
  <1>5. RegistersHold(registers')
    BY <1>2, HandlerTyped DEF ParserTypes
  <1>6. Uploading => Begun
    <2> SUFFICES ASSUME Uploading PROVE Begun
      OBVIOUS
    <2>1. PICK p \in Nat, pre \in Calls : Framed(accepted, p, pre) /\ AtCommand(p, pre)
      BY DEF ParserHolds
    <2>2. writeFIFOBytesLeft # 0
      BY <1>1
    <2>3. PICK v \in Bytes : InFIFO(p, pre, v)
      BY <2>1, <2>2 DEF AtCommand, Between, HasOpcode, HasAddress
    <2>4. /\ consumed = p + 3 + Len(v) /\ accepted[p + 1] = WRITEFIFO
          /\ calls = pre \o (WriteFIFOCall(cmdAddress, accepted[p + 3])
                                \o FIFOBytes(cmdAddress, v))
      BY <2>3 DEF InFIFO
    <2>5. p + 3 <= Len(accepted)
      <3>1. Len(v) \in Nat /\ Len(accepted) \in Nat /\ consumed <= Len(accepted)
        BY DEF RingHolds, RingTypes, Bytes
      <3>2. consumed = p + 3 + Len(v)
        BY <2>4
      <3> QED  BY <3>1, <3>2
    <2>6. accepted = SubSeq(stream.bytes, 1, arrived)
      BY UploadHas
    <2>7. pre # << >> /\ pre[1].to = "handleWrite"
      BY <2>1, <2>4, <2>5, <2>6, StartBeforeData
    <2>8. WriteFIFOCall(cmdAddress, accepted[p + 3]) \o FIFOBytes(cmdAddress, v) \in Calls
      <3>1. cmdAddress \in 0 .. 255
        BY DEF ParserTypes
      <3>2. accepted[p + 3] \in 0 .. 255
        BY <2>5, ByteOf DEF RingTypes
      <3>3. Quiet(WriteFIFOCall(cmdAddress, accepted[p + 3]) \o FIFOBytes(cmdAddress, v))
        BY <3>1, <3>2, SilentCalls, Zenon
      <3> QED  BY <3>3 DEF Quiet, Makes
    <2>9. PICK more \in Calls :
              more = WriteFIFOCall(cmdAddress, accepted[p + 3]) \o FIFOBytes(cmdAddress, v)
      BY <2>8
    <2>10. calls = pre \o more
      BY <2>4, <2>9
    <2> QED  BY <2>7, <2>10, Added DEF Begun
  <1>7. consumed' >= consumed + Len(d)
    BY <1>3, <1>4
  <1>8. HandleWriteFIFO(cmdAddress, d)
    BY <1>2
  <1> HIDE DEF LinkInv
  <1> QED  BY <1>3, <1>5, <1>6, <1>7, <1>8, FlashData

LEMMA FlashInit == Init => FlashInv
  <1> SUFFICES ASSUME Init PROVE FlashInv
    OBVIOUS
  <1>1. /\ flash = [a \in Words |-> Old] /\ wordBuffer = << >> /\ handed = << >>
        /\ calls = << >> /\ consumed = 0
    BY DEF Init, LinkInit
  <1>2. ResetWhenAsked
    <2>1. 1 .. Len(calls) = {}
      <3>1. Len(calls) = 0 /\ 1 .. 0 = {}
        BY <1>1
      <3> QED  BY <3>1
    <2> QED  BY <2>1 DEF ResetWhenAsked
  <1>3. handed \in Bytes /\ Len(handed) = 0
    BY <1>1, EmptySeq DEF Bytes
  <1>4. Buffers(wordBuffer, handed, 0)
    <2>1. Len(wordBuffer) = 0 /\ 1 .. 0 = {}
      BY <1>1
    <2> QED  BY <1>3, <2>1 DEF Buffers
  <1>5. UserFlash + 4 * 0 = UserFlash
    BY BootloaderAssumption
  <1>6. FlashAt(0)
    BY <1>1, <1>4, <1>5, HoldsAtFirst DEF FlashAt, Begun
  <1>7. 0 \in Nat /\ Len(handed) <= consumed
    BY <1>1, <1>3
  <1> QED  BY <1>1, <1>2, <1>3, <1>6, <1>7 DEF FlashInv

\* Nothing of what the invariant is about changes.
LEMMA FlashSame ==
    ASSUME FlashInv, UNCHANGED <<boot, registers, stream, calls, consumed>>
    PROVE  FlashInv'
  <1>1. UNCHANGED <<flash, wordBuffer, bootIndicator, handed>>
    BY DEF boot
  <1>2. ResetWhenAsked'
    BY <1>1 DEF FlashInv, ResetWhenAsked, Reset, NotReset, RebootCall, WriteCall, REBOOT
  <1>3. FlashWriteStart(registers') = FlashWriteStart(registers) /\ (Begun' <=> Begun)
    BY DEF Begun
  <1>4. \A q \in Nat : FlashAt(q) => FlashAt(q)'
    BY <1>1, <1>3 DEF FlashAt
  <1> QED  BY <1>1, <1>2, <1>4 DEF FlashInv, Uploading

LEMMA FlashStep == LinkInv /\ Paced /\ FlashInv /\ [Next]_bootVars => FlashInv'
  <1> SUFFICES ASSUME LinkInv, Paced, FlashInv, [Next]_bootVars PROVE FlashInv'
    OBVIOUS
  <1>1. CASE Receive
    <2>1. PICK n \in 1 .. PacketMax : Input(n) /\ UNCHANGED boot
      BY <1>1 DEF Receive
    <2> QED  BY <2>1, FlashSame DEF Input
  <1>2. CASE ~Reset /\ Parsing /\ UNCHANGED boot
    <2>1. CASE BeginDrain \/ NextChunk \/ EndDrain
      <3>1. UNCHANGED <<registers, stream, calls, consumed>>
        BY <2>1 DEF BeginDrain, NextChunk, EndDrain, host
      <3> QED  BY <1>2, <3>1, FlashSame
    <2>2. CASE Opcode \/ Address \/ Parameter \/ WriteMore
      <3>1. RegistersHold(registers')
        <4>1. ParserTypes'
          BY <2>2, OpcodeStep, AddressStep, ParameterStep, WriteMoreStep DEF LinkInv
        <4> QED  BY <4>1 DEF ParserTypes
      <3> QED  BY <1>2, <2>2, <3>1, FlashParsing
    <2> QED  BY <1>2, <2>1, <2>2 DEF Parsing
  <1>3. CASE /\ ~Reset /\ WriteLast
             /\ HandleWrite(IF cmdOpcode = WRITE THEN cmdAddress ELSE cmdStartAddress)
    BY <1>3, FlashWritten
  <1>4. CASE ~Reset /\ StartWriteFIFO /\ HandleWriteFIFO(cmdAddress, FirstBytes)
    BY <1>4, FlashStart
  <1>5. CASE ~Reset /\ ResumeWriteFIFO /\ HandleWriteFIFO(cmdAddress, ResumedBytes)
    BY <1>5, FlashResume
  <1>6. CASE UNCHANGED bootVars
    <2>1. UNCHANGED <<boot, registers, stream, calls, consumed>>
      BY <1>6 DEF bootVars, linkVars, host
    <2> QED  BY <2>1, FlashSame
  <1> QED  BY <1>1, <1>2, <1>3, <1>4, <1>5, <1>6 DEF Next, MainLoop

(***************************************************************************)
(* However the image is cut into FIFO writes, packets and chunks, the      *)
(* words in flash followed by the bytes in the word buffer are at all      *)
(* times what has been handed over, in place and in order, and the rest    *)
(* of the flash is old or blank (bootloader.cpp:335-385).                  *)
(***************************************************************************)
THEOREM FlashIsHanded == Spec => []FlashHoldsHanded
  <1>1. LinkInv /\ Paced /\ FlashInv => FlashHoldsHanded
    <2> SUFFICES ASSUME LinkInv, Paced, FlashInv, Uploading
                 PROVE  LET whole(a) == SubSeq(handed, a - UserFlash + 1,
                                                       a - UserFlash + WordSize)
                            ahead    == Len(handed) - Len(wordBuffer)
                        IN  /\ ahead >= 0
                            /\ wordBuffer = SubSeq(handed, ahead + 1, Len(handed))
                            /\ \A a \in Words :
                                  IF a - UserFlash < ahead THEN flash[a] = whole(a)
                                                           ELSE flash[a] \in {Old, Blank}
      BY DEF FlashHoldsHanded
    <2>1. PICK q \in Nat : FlashAt(q)
      BY UploadHas
    <2>2. Buffers(wordBuffer, handed, q) /\ Holds(flash, handed, UserFlash + 4 * q)
      BY <2>1 DEF FlashAt
    <2>3. /\ handed \in Bytes /\ Len(handed) \in Nat /\ UserFlash \in Nat
          /\ wordBuffer \in Bytes /\ Len(wordBuffer) \in Nat
      BY UploadHas, BootloaderAssumption DEF LinkInv, Bytes
    <2>4. PICK ahead \in Nat : ahead = 4 * q
      OBVIOUS
    <2>5. Len(handed) - Len(wordBuffer) = ahead /\ Len(handed) = ahead + Len(wordBuffer)
      <3>1. Len(handed) = 4 * q + Len(wordBuffer)
        BY <2>2 DEF Buffers
      <3> QED  BY <2>3, <2>4, <3>1
    <2>6. wordBuffer = SubSeq(handed, ahead + 1, Len(handed))
      <3>1. Len(wordBuffer) = Len(handed) - (ahead + 1) + 1 /\ ahead + 1 >= 1
            /\ ahead + 1 \in Int /\ Len(handed) \in Int /\ Len(handed) <= Len(handed)
        BY <2>3, <2>4, <2>5
      <3>2. \A k \in 1 .. Len(wordBuffer) : wordBuffer[k] = handed[(ahead + 1) + k - 1]
        <4> SUFFICES ASSUME NEW k \in 1 .. Len(wordBuffer)
                     PROVE  wordBuffer[k] = handed[(ahead + 1) + k - 1]
          OBVIOUS
        <4>1. (ahead + 1) + k - 1 = 4 * q + k
          BY <2>4
        <4> QED  BY <2>2, <4>1 DEF Buffers
      <3> QED  BY <2>3, <3>1, <3>2, PartIs
    <2>7. ASSUME NEW a \in Words
          PROVE  IF a - UserFlash < ahead
                 THEN flash[a] = SubSeq(handed, a - UserFlash + 1, a - UserFlash + WordSize)
                 ELSE flash[a] \in {Old, Blank}
      <3>1. a \in Int
        BY <2>3, BootloaderAssumption DEF Words
      <3>2. a - UserFlash < ahead <=> a < UserFlash + 4 * q
        BY <2>3, <2>4, <3>1
      <3> QED  BY <2>2, <3>2 DEF Holds
    <2>8. ahead >= 0
      BY <2>4
    <2> QED  BY <2>5, <2>6, <2>7, <2>8
  <1> QED  BY <1>1, PacedInit, PacedStep, FlashInit, FlashStep, LinkInvariance, PTL DEF Spec
-------------------------------------------------------------------------------
(* The host program's streams: what is put together of parts.              *)

\* Two parts put together.
LEMMA BytesJoin ==
    ASSUME NEW x \in Bytes, NEW y \in Bytes
    PROVE  /\ x \o y \in Bytes /\ Len(x) \in Nat /\ Len(y) \in Nat
           /\ Len(x \o y) = Len(x) + Len(y)
           /\ \A k \in 1 .. Len(x) : (x \o y)[k] = x[k]
           /\ \A k \in 1 .. Len(y) : (x \o y)[Len(x) + k] = y[k]
  <1>1. 0 \in 0 .. 255 /\ Len(x) \in Nat /\ Len(y) \in Nat
    BY DEF Bytes
  <1> QED  BY <1>1, FIFOJoin

\* The function FlattenSeq picks the last value of.
Joins(t) == CHOOSE f : f = [i \in 1 .. Len(t) |-> IF i = 1 THEN t[i] ELSE f[i - 1] \o t[i]]

\* FlattenSeq, part by part.
LEMMA JoinsIs ==
    ASSUME NEW K \in Nat \ {0}, NEW t, Len(t) = K
    PROVE  /\ FlattenSeq(t) = Joins(t)[K]
           /\ \A i \in 1 .. K : Joins(t)[i] = IF i = 1 THEN t[i] ELSE Joins(t)[i - 1] \o t[i]
  <1> DEFINE Next1(f, i) == IF i = 1 THEN t[i] ELSE f[i - 1] \o t[i]
             Built(f, n) == /\ f = [i \in 1 .. K |-> f[i]]
                            /\ \A i \in 1 .. K : i <= n => f[i] = Next1(f, i)
             S == {n \in Nat : n <= K => \E f : Built(f, n)}
  <1>1. 0 \in S
    <2> DEFINE f == [i \in 1 .. K |-> << >>]
    <2>1. f = [i \in 1 .. K |-> f[i]]
      OBVIOUS
    <2>2. \A i \in 1 .. K : ~(i <= 0)
      OBVIOUS
    <2>3. Built(f, 0)
      BY <2>1, <2>2
    <2> HIDE DEF Built
    <2> QED  BY <2>3
  <1>2. ASSUME NEW n \in Nat, n \in S PROVE n + 1 \in S
    <2> SUFFICES ASSUME n + 1 <= K PROVE \E g : Built(g, n + 1)
      OBVIOUS
    <2>1. PICK f : Built(f, n)
      BY <1>2
    <2> DEFINE j == n + 1
               g == [i \in 1 .. K |-> IF i = j THEN Next1(f, j) ELSE f[i]]
    <2>2. g = [i \in 1 .. K |-> g[i]]
      OBVIOUS
    <2>3. \A i \in 1 .. K : i # j => g[i] = f[i]
      OBVIOUS
    <2>4. g[j] = Next1(f, j)
      OBVIOUS
    <2> HIDE DEF g
    <2>5. \A i \in 1 .. K : i <= j /\ i # 1 => i - 1 \in 1 .. K /\ i - 1 # j
      OBVIOUS
    <2>6. \A i \in 1 .. K : i <= j => Next1(g, i) = Next1(f, i)
      BY <2>3, <2>5
    <2>7. \A i \in 1 .. K : i <= j => g[i] = Next1(g, i)
      <3> TAKE i \in 1 .. K
      <3> HAVE i <= j
      <3>1. Next1(g, i) = Next1(f, i)
        BY <2>6
      <3>2. CASE i = j
        BY <2>4, <3>1, <3>2
      <3>3. CASE i # j
        <4>1. i <= n
          BY <3>3
        <4>2. f[i] = Next1(f, i)
          BY <2>1, <4>1
        <4> HIDE DEF Next1
        <4> QED  BY <2>3, <3>1, <3>3, <4>2
      <3> QED  BY <3>2, <3>3
    <2>8. Built(g, n + 1)
      BY <2>2, <2>7
    <2> HIDE DEF Built
    <2> QED  BY <2>8
  <1>3. K \in S
    <2> HIDE DEF S
    <2> QED  BY <1>1, <1>2, SetInduction
  <1>4. PICK f : Built(f, K)
    BY <1>3
  <1>5. f = [i \in 1 .. K |-> Next1(f, i)]
    <2> HIDE DEF Next1
    <2>0. \A i \in 1 .. K : i <= K
      OBVIOUS
    <2>1. f = [i \in 1 .. K |-> f[i]] /\ \A i \in 1 .. K : f[i] = Next1(f, i)
      BY <1>4, <2>0
    <2> QED  BY <2>1
  <1>6. Joins(t) = [i \in 1 .. K |-> Next1(Joins(t), i)]
    BY <1>5, Zenon DEF Joins
  <1>7. \A i \in 1 .. K : Joins(t)[i] = Next1(Joins(t), i)
    <2> DEFINE g == Joins(t)
    <2>1. g = [i \in 1 .. K |-> Next1(g, i)]
      BY <1>6
    <2> HIDE DEF g, Next1
    <2>2. \A i \in 1 .. K : g[i] = Next1(g, i)
      BY <2>1
    <2> QED  BY <2>2 DEF g
  <1>8. FlattenSeq(t) = Joins(t)[K]
    BY DEF FlattenSeq, Joins
  <1> QED  BY <1>7, <1>8

\* The first k of the parts g, put together.
Together(g, k) == FlattenSeq([i \in 1 .. k |-> g[i]])

\* One part more.
LEMMA TogetherIs ==
    ASSUME NEW g, NEW K \in Nat, \A i \in 1 .. K : g[i] \in Bytes
    PROVE  /\ Together(g, 0) = << >>
           /\ \A k \in 0 .. K - 1 : Together(g, k + 1) = Together(g, k) \o g[k + 1]
  <1> DEFINE t(k) == [i \in 1 .. k |-> g[i]]
  <1>1. \A k \in Nat : Len(t(k)) = k /\ \A i \in 1 .. k : t(k)[i] = g[i]
    OBVIOUS
  <1>2. t(0) = << >>
    OBVIOUS
  <1> HIDE DEF t
  <1>3. Together(g, 0) = << >>
    <2>1. FlattenSeq(t(0)) = << >>
      BY <1>1, <1>2 DEF FlattenSeq
    <2> QED  BY <2>1 DEF Together, t
  <1>4. \A k \in Nat : k >= 1 => /\ FlattenSeq(t(k)) = Joins(t(k))[k]
                                 /\ Joins(t(k))[1] = g[1]
                                 /\ \A i \in 1 .. k : i # 1 =>
                                       Joins(t(k))[i] = Joins(t(k))[i - 1] \o g[i]
    <2> TAKE k \in Nat
    <2> HAVE k >= 1
    <2> DEFINE u == t(k)
               f == Joins(u)
    <2>1. k \in Nat \ {0} /\ Len(u) = k /\ 1 \in 1 .. k /\ \A i \in 1 .. k : u[i] = g[i]
      BY <1>1
    <2> HIDE DEF u
    <2>2. /\ FlattenSeq(u) = f[k]
          /\ \A i \in 1 .. k : f[i] = IF i = 1 THEN u[i] ELSE f[i - 1] \o u[i]
      BY <2>1, JoinsIs
    <2> HIDE DEF f
    <2>3. f[1] = g[1] /\ \A i \in 1 .. k : i # 1 => f[i] = f[i - 1] \o g[i]
      BY <2>1, <2>2
    <2> QED  BY <2>2, <2>3 DEF f, u
  <1>5. ASSUME NEW k \in 0 .. K - 1 PROVE Together(g, k + 1) = Together(g, k) \o g[k + 1]
    <2>1. CASE k = 0
      <3>0. 1 \in Nat /\ 1 >= 1 /\ k + 1 = 1
        BY <2>1
      <3>1. FlattenSeq(t(1)) = g[1]
        BY <1>4, <3>0
      <3>2. g[1] \in Bytes
        BY <2>1
      <3>3. << >> \o g[1] = g[1]
        BY <3>2, ConcatEmptySeq DEF Bytes
      <3>4. Together(g, 1) = g[1]
        BY <3>1 DEF Together, t
      <3> QED  BY <1>3, <2>1, <3>0, <3>3, <3>4
    <2>2. CASE k # 0
      <3> DEFINE f == Joins(t(k))
                 h == Joins(t(k + 1))
                 S == {n \in Nat : n + 1 <= k => h[n + 1] = f[n + 1]}
      <3>1. k \in Nat /\ k >= 1 /\ k + 1 \in Nat /\ k + 1 >= 1
        BY <2>2
      <3>2. /\ FlattenSeq(t(k)) = f[k] /\ f[1] = g[1]
            /\ \A i \in 1 .. k : i # 1 => f[i] = f[i - 1] \o g[i]
        BY <1>4, <3>1
      <3>3. /\ FlattenSeq(t(k + 1)) = h[k + 1] /\ h[1] = g[1]
            /\ \A i \in 1 .. k + 1 : i # 1 => h[i] = h[i - 1] \o g[i]
        BY <1>4, <3>1
      <3> HIDE DEF f, h
      <3>4. 0 \in S
        BY <3>2, <3>3
      <3>5. ASSUME NEW n \in Nat, n \in S PROVE n + 1 \in S
        <4> SUFFICES ASSUME (n + 1) + 1 <= k PROVE h[(n + 1) + 1] = f[(n + 1) + 1]
          OBVIOUS
        <4>1. /\ (n + 1) + 1 \in 1 .. k /\ (n + 1) + 1 \in 1 .. k + 1 /\ (n + 1) + 1 # 1
              /\ ((n + 1) + 1) - 1 = n + 1 /\ n + 1 <= k
          BY <3>1
        <4>2. h[n + 1] = f[n + 1]
          BY <3>5, <4>1
        <4> QED  BY <3>2, <3>3, <4>1, <4>2
      <3>6. k - 1 \in S
        <4>1. k - 1 \in Nat
          BY <3>1
        <4> HIDE DEF S
        <4> QED  BY <3>4, <3>5, <4>1, SetInduction
      <3>7. h[k] = f[k]
        <4>1. (k - 1) + 1 = k
          BY <3>1
        <4> QED  BY <3>6, <4>1
      <3>8. k + 1 \in 1 .. k + 1 /\ k + 1 # 1 /\ (k + 1) - 1 = k
        BY <3>1
      <3>9. h[k + 1] = f[k] \o g[k + 1]
        BY <3>3, <3>7, <3>8
      <3> QED  BY <3>2, <3>3, <3>9 DEF Together, t
    <2> QED  BY <2>1, <2>2
  <1> QED  BY <1>3, <1>5

\* Pieces of at most n.
PieceCount(l, n) == (l + n - 1) \div n

\* As many pieces as are needed, and no more.
LEMMA CountIs ==
    ASSUME NEW l \in Nat, NEW n \in Nat \ {0}
    PROVE  /\ PieceCount(l, n) \in Nat
           /\ n * PieceCount(l, n) <= l + n - 1
           /\ l <= n * PieceCount(l, n)
  <1> DEFINE m == l + n - 1
             k == m \div n
  <1>1. m \in Nat
    OBVIOUS
  <1>2. m = n * k + (m % n) /\ k \in Int /\ m % n \in 0 .. n - 1
    <2> HIDE DEF m
    <2> QED  BY <1>1, DivMod
  <1>3. PICK r \in Int : r = m % n
    BY <1>2
  <1>4. m = n * k + r /\ 0 <= r /\ r <= n - 1 /\ k \in Int
    BY <1>2, <1>3
  <1>5. n * k <= l + n - 1 /\ l <= n * k
    <2> HIDE DEF k
    <2> QED  BY <1>4
  <1>6. k >= 0
    <2> SUFFICES ASSUME ~(k >= 0) PROVE FALSE
      OBVIOUS
    <2>1. 0 - k \in Int /\ 0 - k >= 1
      BY <1>4
    <2>2. n * (0 - k) >= n
      <3> HIDE DEF k
      <3> QED  BY <2>1, MultipleAtLeast
    <2>3. n * (0 - k) = 0 - n * k
      <3> HIDE DEF k
      <3> QED  BY <1>4
    <2>4. PICK z \in Int : z = n * k
      BY <1>4
    <2>5. l <= z /\ 0 - z >= n
      BY <1>5, <2>2, <2>3, <2>4
    <2> QED  BY <2>5
  <1> QED  BY <1>4, <1>5, <1>6 DEF PieceCount

\* More bytes make no fewer pieces.
LEMMA CountMore ==
    ASSUME NEW n \in Nat \ {0}, NEW l \in Nat, NEW r \in Nat, l <= r
    PROVE  PieceCount(l, n) <= PieceCount(r, n)
  <1> DEFINE x == PieceCount(l, n)
             y == PieceCount(r, n)
  <1>1. /\ x \in Nat /\ y \in Nat /\ n * x <= l + n - 1 /\ r <= n * y
    BY CountIs
  <1> HIDE DEF x, y
  <1> SUFFICES ASSUME ~(x <= y) PROVE FALSE
    BY DEF x, y
  <1>2. x - y \in Int /\ x - y >= 1
    BY <1>1
  <1>3. n * (x - y) >= n /\ n * (x - y) = n * x - n * y
    BY <1>1, <1>2, MultipleAtLeast
  <1> QED  BY <1>1, <1>3

\* What the pieces are: all of them full but the last.
WellCut(b, n) ==
    LET K == PieceCount(Len(b), n)
    IN  /\ K \in Nat /\ Len(Pieces(b, n)) = K
        /\ \A i \in 1 .. K :
              /\ Pieces(b, n)[i] \in Bytes
              /\ n * (i - 1) < Len(b)
              /\ Len(Pieces(b, n)[i]) =
                    (IF n * i < Len(b) THEN n * i ELSE Len(b)) - n * (i - 1)
              /\ Len(Pieces(b, n)[i]) <= n

LEMMA PiecesAre ==
    ASSUME NEW b \in Bytes, NEW n \in Nat \ {0}
    PROVE  WellCut(b, n)
  <1> DEFINE K == PieceCount(Len(b), n)
             l == Len(b)
             hi(i) == IF n * i < l THEN n * i ELSE l
  <1>1. l \in Nat /\ K \in Nat /\ n * K <= l + n - 1
    BY CountIs DEF Bytes
  <1>2. Pieces(b, n) = [i \in 1 .. K |-> SubSeq(b, n * (i - 1) + 1, hi(i))]
    BY DEF Pieces, PieceCount
  <1> HIDE DEF K, l
  <1>3. Len(Pieces(b, n)) = K
    BY <1>1, <1>2
  <1>4. ASSUME NEW i \in 1 .. K
        PROVE  /\ SubSeq(b, n * (i - 1) + 1, hi(i)) \in Bytes
               /\ n * (i - 1) < l
               /\ Len(SubSeq(b, n * (i - 1) + 1, hi(i))) = hi(i) - n * (i - 1)
               /\ hi(i) - n * (i - 1) <= n
    <2>1. n * (K - i) \in Int /\ n * (K - i) >= 0 /\ n * (K - i) = n * K - n * i
      BY <1>1
    <2>2. PICK a, z \in Int : a = n * i /\ z = n * K
      BY <1>1
    <2>3. n * (i - 1) = a - n
      BY <2>2
    <2>4. n * (i - 1) \in Int /\ i - 1 >= 0 /\ n * (i - 1) >= 0
      OBVIOUS
    <2>5. a <= z /\ z <= l + n - 1 /\ a - n >= 0
      BY <1>1, <2>1, <2>2, <2>3, <2>4
    <2> DEFINE j == hi(i)
    <2>6. j = IF a < l THEN a ELSE l
      BY <2>2
    <2> HIDE DEF hi, j
    <2> HIDE DEF K
    <2>9. a - n < l /\ l \in Nat
      BY <1>1, <2>2, <2>5
    <2>10. j \in Int /\ j <= l /\ j <= a /\ a - n < j
      BY <2>2, <2>6, <2>9
    <2>7. /\ (a - n) + 1 \in Int /\ (a - n) + 1 >= 1 /\ j \in Int /\ j <= l
          /\ a - n < l /\ (a - n) + 1 <= j /\ j - (a - n) <= n
          /\ j - ((a - n) + 1) + 1 = j - (a - n)
      BY <2>2, <2>5, <2>9, <2>10
    <2>8. /\ SubSeq(b, (a - n) + 1, j) \in Bytes
          /\ Len(SubSeq(b, (a - n) + 1, j)) = j - ((a - n) + 1) + 1
      BY <2>7, PartOf DEF l
    <2> QED  BY <2>3, <2>7, <2>8 DEF j
  <1>5. \A i \in 1 .. K : Pieces(b, n)[i] = SubSeq(b, n * (i - 1) + 1, hi(i))
    <2> HIDE DEF hi
    <2> QED  BY <1>2
  <1>6. \A i \in 1 .. K : /\ Pieces(b, n)[i] \in Bytes /\ n * (i - 1) < l
                          /\ Len(Pieces(b, n)[i]) = hi(i) - n * (i - 1)
                          /\ Len(Pieces(b, n)[i]) <= n
    <2> HIDE DEF hi
    <2> QED  BY <1>4, <1>5
  <1> QED  BY <1>1, <1>3, <1>6 DEF K, l, WellCut
-------------------------------------------------------------------------------
(* What parts of a stream mean, whole and cut off.                         *)

\* None of the calls is one of kinds.
Without(k, kinds) == \A i \in 1 .. Len(k) : k[i].to \notin kinds

\* The bytes x stand in d after the first p.
At(d, p, x) == \A k \in 1 .. Len(x) : d[p + k] = x[k]

\* The bytes x are whole commands wherever they stand, and neither they nor the
\* first of them cause calls of the kinds.
Lacks(x, kinds) ==
    /\ x \in Bytes
    /\ \A d \in Bytes, p \in Nat : At(d, p, x) =>
          /\ \E made \in Calls : /\ Without(made, kinds)
                                 /\ Completes(d, p, p + Len(x), made)
          /\ \A b \in Bytes :
                p <= Len(b) /\ Len(b) < p + Len(x) /\ Agrees(b, d, Len(b))
                   => Without(From(b)[p + 1], kinds)

LEMMA WithoutJoin ==
    ASSUME NEW x \in Calls, NEW y \in Calls, NEW kinds, Without(x, kinds), Without(y, kinds)
    PROVE  Without(x \o y, kinds)
  <1>1. Len(x) \in Nat /\ Len(y) \in Nat
    BY DEF Calls
  <1>2. /\ Len(x \o y) = Len(x) + Len(y)
        /\ \A i \in 1 .. Len(x) + Len(y) :
              (x \o y)[i] = IF i <= Len(x) THEN x[i] ELSE y[i - Len(x)]
    BY ConcatProperties DEF Calls
  <1> SUFFICES ASSUME NEW i \in 1 .. Len(x) + Len(y) PROVE (x \o y)[i].to \notin kinds
    BY <1>2 DEF Without
  <1>3. CASE i <= Len(x)
    <2>1. i \in 1 .. Len(x)
      BY <1>1, <1>3
    <2> QED  BY <1>2, <1>3, <2>1 DEF Without
  <1>4. CASE ~(i <= Len(x))
    <2>1. i - Len(x) \in 1 .. Len(y)
      BY <1>1, <1>4
    <2> QED  BY <1>2, <1>4, <2>1 DEF Without
  <1> QED  BY <1>3, <1>4

\* Whole commands after whole commands.
LEMMA CompletesJoin ==
    ASSUME NEW d, NEW p \in Nat, NEW q \in Nat, NEW r \in Nat, p <= q, q <= r,
           NEW x \in Calls, NEW y \in Calls, Completes(d, p, q, x), Completes(d, q, r, y)
    PROVE  Completes(d, p, r, x \o y)
  <1> SUFFICES ASSUME NEW b \in Bytes, Agrees(b, d, r)
               PROVE  From(b)[p + 1] = (x \o y) \o From(b)[r + 1]
    BY DEF Completes
  <1>1. Len(b) \in Nat /\ r <= Len(b)
    BY DEF Agrees, Bytes
  <1>2. Agrees(b, d, q)
    <2>1. q <= Len(b) /\ \A k \in 1 .. q : k \in 1 .. r
      BY <1>1
    <2> QED  BY <2>1 DEF Agrees
  <1>3. From(b)[p + 1] = x \o From(b)[q + 1]
    BY <1>2 DEF Completes
  <1>4. From(b)[q + 1] = y \o From(b)[r + 1]
    BY DEF Completes
  <1>5. From(b)[r + 1] \in Calls
    <2>1. r + 1 \in 1 .. Len(b) + 1
      BY <1>1
    <2> QED  BY <2>1, FromTyped
  <1> DEFINE t == From(b)[r + 1]
  <1>6. x \o (y \o t) = (x \o y) \o t
    <2> HIDE DEF t
    <2> QED  BY <1>5, Joined DEF t
  <1> QED  BY <1>3, <1>4, <1>6

\* Where what is put together stands, its parts do.
LEMMA AtJoin ==
    ASSUME NEW x \in Bytes, NEW y \in Bytes, NEW d, NEW p \in Nat, At(d, p, x \o y)
    PROVE  At(d, p, x) /\ At(d, p + Len(x), y)
  <1>1. /\ Len(x) \in Nat /\ Len(y) \in Nat /\ Len(x \o y) = Len(x) + Len(y)
        /\ \A k \in 1 .. Len(x) : (x \o y)[k] = x[k]
        /\ \A k \in 1 .. Len(y) : (x \o y)[Len(x) + k] = y[k]
    BY BytesJoin
  <1>2. At(d, p, x)
    <2>1. \A k \in 1 .. Len(x) : k \in 1 .. Len(x \o y)
      BY <1>1
    <2> QED  BY <1>1, <2>1 DEF At
  <1>3. At(d, p + Len(x), y)
    <2> SUFFICES ASSUME NEW k \in 1 .. Len(y) PROVE d[(p + Len(x)) + k] = y[k]
      BY DEF At
    <2>1. Len(x) + k \in 1 .. Len(x \o y) /\ (p + Len(x)) + k = p + (Len(x) + k)
      BY <1>1
    <2> QED  BY <1>1, <2>1 DEF At
  <1> QED  BY <1>2, <1>3

\* Parts that lack calls of some kinds, put together, lack them.
LEMMA LacksJoin ==
    ASSUME NEW x, NEW y, NEW kinds, Lacks(x, kinds), Lacks(y, kinds)
    PROVE  Lacks(x \o y, kinds)
  <1>1. /\ x \in Bytes /\ y \in Bytes /\ x \o y \in Bytes
        /\ Len(x) \in Nat /\ Len(y) \in Nat /\ Len(x \o y) = Len(x) + Len(y)
    BY BytesJoin DEF Lacks
  <1> SUFFICES ASSUME NEW d \in Bytes, NEW p \in Nat, At(d, p, x \o y)
               PROVE  /\ \E made \in Calls : /\ Without(made, kinds)
                                             /\ Completes(d, p, p + Len(x \o y), made)
                      /\ \A b \in Bytes :
                            p <= Len(b) /\ Len(b) < p + Len(x \o y) /\ Agrees(b, d, Len(b))
                               => Without(From(b)[p + 1], kinds)
    BY <1>1 DEF Lacks
  <1> DEFINE q == p + Len(x)
             r == p + Len(x \o y)
  <1>2. q \in Nat /\ r \in Nat /\ p <= q /\ q <= r /\ r = q + Len(y)
    BY <1>1
  <1>3. At(d, p, x) /\ At(d, q, y)
    BY <1>1, AtJoin
  <1> HIDE DEF q
  <1>4. PICK mx \in Calls : Without(mx, kinds) /\ Completes(d, p, q, mx)
    BY <1>3 DEF Lacks, q
  <1>5. PICK my \in Calls : Without(my, kinds) /\ Completes(d, q, q + Len(y), my)
    BY <1>2, <1>3 DEF Lacks
  <1> HIDE DEF r
  <1>6. \E made \in Calls : Without(made, kinds) /\ Completes(d, p, r, made)
    <2>1. mx \o my \in Calls
      BY Joined
    <2>2. Without(mx \o my, kinds)
      BY <1>4, <1>5, WithoutJoin
    <2>3. Completes(d, p, r, mx \o my)
      BY <1>2, <1>4, <1>5, CompletesJoin
    <2> QED  BY <2>1, <2>2, <2>3
  <1>7. ASSUME NEW b \in Bytes, p <= Len(b), Len(b) < r, Agrees(b, d, Len(b))
        PROVE  Without(From(b)[p + 1], kinds)
    <2>1. Len(b) \in Nat
      BY DEF Bytes
    <2>2. CASE Len(b) < q
      BY <1>3, <1>7, <2>2 DEF Lacks, q
    <2>3. CASE ~(Len(b) < q)
      <3>1. q <= Len(b) /\ Len(b) < q + Len(y)
        BY <1>2, <1>7, <2>1, <2>3
      <3>2. Without(From(b)[q + 1], kinds)
        BY <1>2, <1>3, <1>7, <3>1 DEF Lacks
      <3>3. Agrees(b, d, q)
        <4>1. \A k \in 1 .. q : k \in 1 .. Len(b)
          BY <1>2, <2>1, <3>1
        <4> QED  BY <1>7, <3>1, <4>1 DEF Agrees
      <3>4. From(b)[p + 1] = mx \o From(b)[q + 1]
        BY <1>4, <3>3 DEF Completes
      <3>5. From(b)[q + 1] \in Calls
        <4>1. q + 1 \in 1 .. Len(b) + 1
          BY <1>2, <2>1, <3>1
        <4> QED  BY <4>1, FromTyped
      <3> DEFINE t == From(b)[q + 1]
      <3> HIDE DEF t
      <3>6. Without(mx \o t, kinds)
        BY <1>4, <3>2, <3>5, WithoutJoin DEF t
      <3> QED  BY <3>4, <3>6 DEF t
    <2> QED  BY <2>2, <2>3
  <1> QED  BY <1>6, <1>7 DEF r

LEMMA LacksNone == \A kinds : Lacks(<< >>, kinds)
  <1> TAKE kinds
  <1>1. << >> \in Bytes /\ Len(<< >>) = 0
    BY EmptySeq DEF Bytes
  <1> SUFFICES ASSUME NEW d \in Bytes, NEW p \in Nat
               PROVE  /\ \E made \in Calls : /\ Without(made, kinds)
                                             /\ Completes(d, p, p + 0, made)
                      /\ \A b \in Bytes : ~(p <= Len(b) /\ Len(b) < p + 0)
    BY <1>1 DEF Lacks
  <1>2. << >> \in Calls /\ Without(<< >>, kinds)
    BY Joined DEF Without
  <1>3. p + 0 = p
    OBVIOUS
  <1>4. Completes(d, p, p, << >>)
    <2> SUFFICES ASSUME NEW b \in Bytes, Agrees(b, d, p)
                 PROVE  From(b)[p + 1] = << >> \o From(b)[p + 1]
      BY DEF Completes
    <2>1. p + 1 \in 1 .. Len(b) + 1
      BY DEF Agrees, Bytes
    <2>2. From(b)[p + 1] \in Calls
      BY <2>1, FromTyped
    <2> QED  BY <2>2, Joined
  <1>5. \A b \in Bytes : ~(p <= Len(b) /\ Len(b) < p)
    BY DEF Bytes
  <1> QED  BY <1>2, <1>3, <1>4, <1>5

LEMMA LacksTogether ==
    ASSUME NEW g, NEW K \in Nat, NEW kinds, \A i \in 1 .. K : Lacks(g[i], kinds)
    PROVE  \A k \in 0 .. K : Lacks(Together(g, k), kinds)
  <1> DEFINE S == {k \in Nat : k <= K => Lacks(Together(g, k), kinds)}
  <1>1. \A i \in 1 .. K : g[i] \in Bytes
    BY DEF Lacks
  <1>2. /\ Together(g, 0) = << >>
        /\ \A k \in 0 .. K - 1 : Together(g, k + 1) = Together(g, k) \o g[k + 1]
    BY <1>1, TogetherIs
  <1>3. 0 \in S
    BY <1>2, LacksNone
  <1>4. ASSUME NEW k \in Nat, k \in S PROVE k + 1 \in S
    <2> SUFFICES ASSUME k + 1 <= K PROVE Lacks(Together(g, k + 1), kinds)
      OBVIOUS
    <2>1. k \in 0 .. K - 1 /\ k + 1 \in 1 .. K /\ k <= K
      OBVIOUS
    <2>2. Lacks(Together(g, k), kinds) /\ Lacks(g[k + 1], kinds)
      BY <1>4, <2>1
    <2> QED  BY <1>2, <2>1, <2>2, LacksJoin
  <1>5. \A k \in Nat : k \in S
    <2> HIDE DEF S
    <2> QED  BY <1>3, <1>4, SetInduction
  <1> QED  BY <1>5
-------------------------------------------------------------------------------
(* A register write and a FIFO write.                                      *)

DataKinds == {"reply", "handleWrite"}

LEMMA QuietIsWithout ==
    ASSUME NEW k
    PROVE  /\ NoReplies(k) /\ NoWrites(k) => Without(k, DataKinds)
           /\ Without(k, DataKinds) => NoReplies(k) /\ NoWrites(k)
           /\ NoReplies(k) <=> Without(k, {"reply"})
  BY DEF NoReplies, NoWrites, Without, DataKinds

\* What is left of a command that has been cut off.
LEMMA CutOff ==
    ASSUME NEW d, NEW p \in Nat, NEW b \in Bytes, p <= Len(b), Agrees(b, d, Len(b))
    PROVE  /\ Len(b) = p => From(b)[p + 1] = << >>
           /\ p + 1 <= Len(b) => /\ From(b)[p + 1] = Command(b, From(b), p + 1)
                                 /\ CommandTable(b, From(b), p + 1)
                                 /\ b[p + 1] = d[p + 1]
           /\ p + 3 <= Len(b) => b[p + 2] = d[p + 2] /\ b[p + 3] = d[p + 3]
  <1>1. Len(b) \in Nat
    BY DEF Bytes
  <1>2. Len(b) = p => From(b)[p + 1] = << >>
    BY FromIs
  <1>3. ASSUME p + 1 <= Len(b)
        PROVE  /\ From(b)[p + 1] = Command(b, From(b), p + 1)
               /\ CommandTable(b, From(b), p + 1) /\ b[p + 1] = d[p + 1]
    <2>1. p + 1 \in 1 .. Len(b)
      BY <1>1, <1>3
    <2> QED  BY <2>1, FromIs DEF Agrees
  <1>4. ASSUME p + 3 <= Len(b) PROVE b[p + 2] = d[p + 2] /\ b[p + 3] = d[p + 3]
    <2>1. p + 2 \in 1 .. Len(b) /\ p + 3 \in 1 .. Len(b)
      BY <1>1, <1>4
    <2> QED  BY <2>1 DEF Agrees
  <1> QED  BY <1>2, <1>3, <1>4

\* A register write that has been cut off means nothing.
LEMMA CutOffWrite ==
    ASSUME NEW d, NEW p \in Nat, d[p + 1] \in {WRITE} \cup WRITEWIDE,
           NEW b \in Bytes, p <= Len(b), Len(b) < p + 2 + Width(d[p + 1]),
           Agrees(b, d, Len(b))
    PROVE  From(b)[p + 1] = << >>
  <1> DEFINE i == p + 1
             f == From(b)
             w == Width(d[i])
  <1>1. Len(b) \in Nat /\ w \in 1 .. 8
    BY Widths DEF Bytes
  <1>2. CASE Len(b) = p
    BY <1>2, CutOff
  <1>3. CASE Len(b) # p
    <2>1. p + 1 <= Len(b)
      BY <1>1, <1>3
    <2>2. f[i] = Command(b, f, i) /\ CommandTable(b, f, i) /\ b[i] = d[i]
      BY <2>1, CutOff
    <2> HIDE DEF f, w
    <2>3. ~(i + (2 + w) - 1 <= Len(b))
      BY <1>1 DEF w
    <2> HIDE DEF i
    <2>4. b[i] \in {WRITE} \cup WRITEWIDE /\ ~(i + (2 + Width(b[i])) - 1 <= Len(b))
      BY <2>2, <2>3 DEF w, i
    <2>5. f[i] = << >>
      BY <2>2, <2>4 DEF CommandTable
    <2> QED  BY <2>5 DEF f, i
  <1> QED  BY <1>2, <1>3

\* A FIFO write that has been cut off means the data that came.
LEMMA CutOffFIFO ==
    ASSUME NEW d, NEW p \in Nat, d[p + 1] = WRITEFIFO, d[p + 2] \in 0 .. 255,
           d[p + 3] \in 0 .. 255,
           NEW b \in Bytes, p <= Len(b), Len(b) < p + 3 + d[p + 3], Agrees(b, d, Len(b))
    PROVE  Without(From(b)[p + 1], DataKinds)
  <1> DEFINE i == p + 1
             f == From(b)
             a == d[p + 2]
             w == d[p + 3]
             v == SubSeq(b, i + 3, Len(b))
  <1>1. Len(b) \in Nat /\ w \in 0 .. 255 /\ a \in 0 .. 255
    BY DEF Bytes
  <1>2. CASE Len(b) = p
    BY <1>2, CutOff DEF Without
  <1>3. CASE Len(b) # p
    <2>1. p + 1 <= Len(b)
      BY <1>1, <1>3
    <2>2. f[i] = Command(b, f, i) /\ CommandTable(b, f, i) /\ b[i] = d[i]
      BY <2>1, CutOff
    <2> HIDE DEF f
    <2>3. CASE ~(i + 3 - 1 <= Len(b))
      <3>1. f[i] = << >>
        BY <2>2, <2>3 DEF CommandTable
      <3> QED  BY <3>1 DEF Without, f
    <2>4. CASE i + 3 - 1 <= Len(b)
      <3>1. b[i + 1] = a /\ b[i + 2] = w
        <4>1. p + 3 <= Len(b) /\ i + 1 = p + 2 /\ i + 2 = p + 3
          BY <1>1, <2>4
        <4> QED  BY <4>1, CutOff
      <3>2. v \in Bytes
        <4>1. i + 3 \in Int /\ i + 3 >= 1 /\ Len(b) \in Int
          BY <1>1
        <4> QED  BY <4>1, PartOf
      <3> HIDE DEF a, w, v
      <3>3. ~(i + (3 + w) - 1 <= Len(b))
        <4>1. Len(b) < p + 3 + w
          BY DEF w
        <4>2. w \in 0 .. 255
          BY <1>1
        <4> QED  BY <1>1, <4>1, <4>2
      <3>4. f[i] = WriteFIFOCall(a, w) \o FIFOBytes(a, v)
        BY <2>2, <2>4, <3>1, <3>3 DEF CommandTable, v
      <3>5. Quiet(WriteFIFOCall(a, w) \o FIFOBytes(a, v))
        BY <1>1, <3>2, SilentCalls, ZenonT(30)
      <3>6. NoReplies(WriteFIFOCall(a, w) \o FIFOBytes(a, v))
            /\ NoWrites(WriteFIFOCall(a, w) \o FIFOBytes(a, v))
        <4> DEFINE m == WriteFIFOCall(a, w) \o FIFOBytes(a, v)
        <4>0. m # ReplyCall
          <5>1. Len(m) >= 1 /\ m[1].to = "handleWriteFIFO"
            <6>1. FIFOBytes(a, v) \in Calls /\ WriteFIFOCall(a, w) \in Calls
              BY <1>1, <3>2, CallTypes, ZenonT(30)
            <6>2. Len(WriteFIFOCall(a, w)) = 1 /\ WriteFIFOCall(a, w)[1].to = "handleWriteFIFO"
              BY DEF WriteFIFOCall
            <6> QED  BY <6>1, <6>2, FirstOf
          <5>2. ReplyCall[1].to = "reply"
            BY DEF ReplyCall
          <5> HIDE DEF m
          <5> QED  BY <5>1, <5>2
        <4> HIDE DEF m
        <4>1. Quiet(m)
          BY <3>5 DEF m
        <4>2. NoReplies(m) /\ NoWrites(m)
          BY <4>0, <4>1 DEF Quiet, Makes
        <4> QED  BY <4>2 DEF m
      <3>7. Without(f[i], DataKinds)
        BY <3>4, <3>6, QuietIsWithout
      <3> QED  BY <3>7 DEF f
    <2> QED  BY <2>3, <2>4
  <1> QED  BY <1>2, <1>3

\* The bytes of one FIFO write of the host program.
WriteOf(v) == <<WRITEFIFO, FLASHFIFO, Len(v)>> \o v

LEMMA WriteOfIs ==
    ASSUME NEW v \in Bytes, Len(v) <= 255
    PROVE  /\ WriteOf(v) \in Bytes /\ Len(v) \in 0 .. 255 /\ Len(WriteOf(v)) = 3 + Len(v)
           /\ WriteOf(v)[1] = WRITEFIFO /\ WriteOf(v)[2] = FLASHFIFO
           /\ WriteOf(v)[3] = Len(v)
           /\ \A k \in 1 .. Len(v) : WriteOf(v)[3 + k] = v[k]
  <1> DEFINE n == Len(v)
             x == <<WRITEFIFO, FLASHFIFO, n>>
  <1>1. n \in 0 .. 255
    <2>1. n \in Nat /\ n <= 255
      BY DEF Bytes
    <2> HIDE DEF n, x
    <2> QED  BY <2>1
  <1>2. x \in Bytes /\ Len(x) = 3 /\ x[1] = WRITEFIFO /\ x[2] = FLASHFIFO /\ x[3] = n
    <2>1. WRITEFIFO \in 0 .. 255 /\ FLASHFIFO \in 0 .. 255
      BY DEF WRITEFIFO, FLASHFIFO
    <2> HIDE DEF n
    <2> QED  BY <1>1, <2>1 DEF Bytes
  <1> HIDE DEF x, n
  <1>3. /\ x \o v \in Bytes /\ Len(x \o v) = 3 + Len(v)
        /\ \A k \in 1 .. 3 : (x \o v)[k] = x[k]
        /\ \A k \in 1 .. Len(v) : (x \o v)[3 + k] = v[k]
    <2>1. /\ x \o v \in Bytes /\ Len(x \o v) = Len(x) + Len(v)
          /\ \A k \in 1 .. Len(x) : (x \o v)[k] = x[k]
          /\ \A k \in 1 .. Len(v) : (x \o v)[Len(x) + k] = v[k]
      BY <1>2, BytesJoin
    <2>2. Len(x) = 3
      BY <1>2
    <2> QED  BY <2>1, <2>2
  <1>4. WriteOf(v) = x \o v
    BY DEF WriteOf, x, n
  <1>5. 1 \in 1 .. 3 /\ 2 \in 1 .. 3 /\ 3 \in 1 .. 3
    OBVIOUS
  <1>6. \A k \in 1 .. 3 : WriteOf(v)[k] = x[k]
    BY <1>3, <1>4
  <1>7. WriteOf(v)[1] = WRITEFIFO /\ WriteOf(v)[2] = FLASHFIFO /\ WriteOf(v)[3] = Len(v)
    BY <1>2, <1>5, <1>6 DEF n
  <1>8. Len(v) \in 0 .. 255
    BY <1>1 DEF n
  <1> QED  BY <1>3, <1>4, <1>7, <1>8

\* It causes neither replies nor calls of handleWrite().
LEMMA LacksWriteOf ==
    ASSUME NEW v \in Bytes, Len(v) <= 255
    PROVE  Lacks(WriteOf(v), DataKinds)
  <1> DEFINE x == WriteOf(v)
             w == Len(v)
             a == FLASHFIFO
             made == WriteFIFOCall(a, w) \o FIFOBytes(a, v)
  <1>1. /\ x \in Bytes /\ w \in 0 .. 255 /\ Len(x) = 3 + w
        /\ x[1] = WRITEFIFO /\ x[2] = a /\ x[3] = w
        /\ \A k \in 1 .. w : x[3 + k] = v[k]
    BY WriteOfIs
  <1>2. a \in 0 .. 255
    BY DEF FLASHFIFO
  <1>3. /\ made \in Calls /\ NoReplies(made) /\ NoWrites(made)
    <2>1. FIFOBytes(a, v) \in Calls /\ WriteFIFOCall(a, w) \in Calls
      <3> HIDE DEF a, w
      <3> QED  BY <1>1, <1>2, CallTypes, ZenonT(30)
    <2>2. Len(WriteFIFOCall(a, w)) = 1 /\ WriteFIFOCall(a, w)[1].to = "handleWriteFIFO"
      BY DEF WriteFIFOCall
    <2>3. made[1] = WriteFIFOCall(a, w)[1] /\ Len(made) >= 1
      <3> HIDE DEF a, w
      <3> QED  BY <2>1, <2>2, FirstOf
    <2>4. ReplyCall[1].to = "reply"
      BY DEF ReplyCall
    <2>5. Quiet(made)
      <3> HIDE DEF a, w
      <3> QED  BY <1>1, <1>2, SilentCalls, Zenon
    <2>6. made # ReplyCall
      <3>1. made[1].to = "handleWriteFIFO"
        <4> HIDE DEF made
        <4> QED  BY <2>2, <2>3
      <3> HIDE DEF made
      <3> QED  BY <2>4, <3>1
    <2> HIDE DEF made
    <2> QED  BY <2>5, <2>6 DEF Quiet, Makes
  <1> HIDE DEF x, w, a, made
  <1>4. Without(made, DataKinds)
    BY <1>3, QuietIsWithout
  <1> SUFFICES ASSUME NEW d \in Bytes, NEW p \in Nat, At(d, p, x)
               PROVE  /\ Completes(d, p, p + Len(x), made)
                      /\ \A b \in Bytes :
                            p <= Len(b) /\ Len(b) < p + Len(x) /\ Agrees(b, d, Len(b))
                               => Without(From(b)[p + 1], DataKinds)
    BY <1>1, <1>3, <1>4 DEF Lacks, x
  <1>5. /\ d[p + 1] = WRITEFIFO /\ d[p + 2] = a /\ d[p + 3] = w
        /\ \A k \in 1 .. w : v[k] = d[p + 3 + k]
    <2>1. 1 \in 1 .. Len(x) /\ 2 \in 1 .. Len(x) /\ 3 \in 1 .. Len(x)
      BY <1>1
    <2>2. \A k \in 1 .. w : 3 + k \in 1 .. Len(x) /\ p + (3 + k) = p + 3 + k
      BY <1>1
    <2>3. \A k \in 1 .. w : d[p + 3 + k] = x[3 + k]
      BY <2>2 DEF At
    <2> QED  BY <1>1, <2>1, <2>3 DEF At
  <1>6. p + Len(x) = p + 3 + w
    BY <1>1
  <1>7. Completes(d, p, p + 3 + w, made)
    <2>1. Completes(d, p, p + 3 + Len(v),
                    WriteFIFOCall(d[p + 2], Len(v)) \o FIFOBytes(d[p + 2], v))
      BY <1>1, <1>2, <1>5, WholeFIFO DEF w
    <2> QED  BY <1>5, <2>1 DEF made, w
  <1>8. ASSUME NEW b \in Bytes, p <= Len(b), Len(b) < p + 3 + w, Agrees(b, d, Len(b))
        PROVE  Without(From(b)[p + 1], DataKinds)
    <2>1. Len(b) < p + 3 + d[p + 3] /\ d[p + 2] \in 0 .. 255 /\ d[p + 3] \in 0 .. 255
      BY <1>1, <1>2, <1>5, <1>8
    <2> QED  BY <1>5, <1>8, <2>1, CutOffFIFO
  <1> QED  BY <1>6, <1>7, <1>8

\* A register write causes no reply, and one call.
LEMMA RegisterWrite ==
    ASSUME NEW op \in {WRITE} \cup WRITEWIDE, NEW a \in 0 .. 255,
           NEW v \in Bytes, Len(v) = Width(op)
    PROVE  LET x == <<op, a>> \o v
           IN  /\ Lacks(x, {"reply"}) /\ Len(x) = 2 + Len(v)
               /\ \A d \in Bytes, p \in Nat :
                     At(d, p, x) => Completes(d, p, p + Len(x), WriteCall(a, v))
  <1> DEFINE h == <<op, a>>
             x == h \o v
             w == Len(v)
  <1>1. w \in 1 .. 8 /\ op \in 0 .. 255
    BY Widths
  <1>2. h \in Bytes /\ Len(h) = 2 /\ h[1] = op /\ h[2] = a
    BY <1>1 DEF Bytes
  <1> HIDE DEF h
  <1>3. /\ x \in Bytes /\ Len(x) = 2 + Len(v)
        /\ \A k \in 1 .. 2 : x[k] = h[k]
        /\ \A k \in 1 .. Len(v) : x[2 + k] = v[k]
    <2>1. /\ x \in Bytes /\ Len(x) = Len(h) + Len(v)
          /\ \A k \in 1 .. Len(h) : x[k] = h[k]
          /\ \A k \in 1 .. Len(v) : x[Len(h) + k] = v[k]
      BY <1>2, BytesJoin
    <2>2. Len(h) = 2
      BY <1>2
    <2> HIDE DEF x
    <2> QED  BY <2>1, <2>2
  <1> HIDE DEF x, w
  <1>4. Without(WriteCall(a, v), {"reply"}) /\ WriteCall(a, v) \in Calls
    <2>1. WriteCall(a, v) \in Calls
      BY CallTypes, Zenon
    <2>2. NoReplies(WriteCall(a, v))
      BY DEF NoReplies, WriteCall
    <2> QED  BY <2>1, <2>2, QuietIsWithout
  <1>5. ASSUME NEW d \in Bytes, NEW p \in Nat, At(d, p, x)
        PROVE  /\ Completes(d, p, p + Len(x), WriteCall(a, v))
               /\ \A b \in Bytes :
                     p <= Len(b) /\ Len(b) < p + Len(x) /\ Agrees(b, d, Len(b))
                        => Without(From(b)[p + 1], {"reply"})
    <2>1. 1 \in 1 .. 2 /\ 2 \in 1 .. 2 /\ 1 \in 1 .. Len(x) /\ 2 \in 1 .. Len(x)
      <3>1. Len(v) \in Nat
        BY DEF Bytes
      <3> QED  BY <1>3, <3>1
    <2>2. d[p + 1] = op /\ d[p + 2] = a
      BY <1>2, <1>3, <1>5, <2>1 DEF At
    <2>3. \A k \in 1 .. Len(v) : v[k] = d[p + 2 + k]
      <3> TAKE k \in 1 .. Len(v)
      <3>1. Len(v) \in Nat
        BY DEF Bytes
      <3>2. 2 + k \in 1 .. Len(x) /\ p + (2 + k) = p + 2 + k
        BY <1>3, <3>1
      <3> QED  BY <1>3, <1>5, <3>2 DEF At
    <2>4. Completes(d, p, p + 2 + Len(v), WriteCall(a, v))
      BY <2>2, <2>3, WholeWrite
    <2>5. p + Len(x) = p + 2 + Len(v)
      BY <1>1, <1>3 DEF w
    <2>6. ASSUME NEW b \in Bytes, p <= Len(b), Len(b) < p + Len(x), Agrees(b, d, Len(b))
          PROVE  Without(From(b)[p + 1], {"reply"})
      <3>1. Len(b) < p + 2 + Width(d[p + 1])
        BY <2>2, <2>5, <2>6
      <3>2. From(b)[p + 1] = << >>
        BY <2>2, <2>6, <3>1, CutOffWrite
      <3> QED  BY <3>2 DEF Without
    <2> QED  BY <2>4, <2>5, <2>6
  <1>6. Lacks(x, {"reply"})
    BY <1>3, <1>4, <1>5 DEF Lacks
  <1> QED  BY <1>3, <1>5, <1>6 DEF x, h

LEMMA HostConstants ==
    /\ SendBlock \in Nat \ {0} /\ SendBlock <= 255
    /\ ReadBlock \in Nat \ {0} /\ UserFlash \in Nat
  BY BootloaderAssumption

\* The FIFO writes of a block.
WritesOf(data) ==
    LET pieces == Pieces(data, SendBlock)
    IN  FlattenSeq([i \in 1 .. Len(pieces) |-> WriteOf(pieces[i])])

\* They are as long as their data and 3 bytes for each.
LEMMA WritesAre ==
    ASSUME NEW data \in Bytes
    PROVE  /\ Lacks(WritesOf(data), DataKinds)
           /\ Len(WritesOf(data)) = Len(data) + 3 * PieceCount(Len(data), SendBlock)
  <1> DEFINE n == SendBlock
             b == Pieces(data, n)
             K == PieceCount(Len(data), n)
             g == [i \in 1 .. K |-> WriteOf(b[i])]
             l == Len(data)
             hi(i) == IF n * i < l THEN n * i ELSE l
  <1>1. n \in Nat \ {0} /\ n <= 255
    BY HostConstants
  <1>2. l \in Nat
    BY DEF Bytes
  <1>3. /\ K \in Nat /\ Len(b) = K
        /\ \A i \in 1 .. K : /\ b[i] \in Bytes /\ n * (i - 1) < l
                             /\ Len(b[i]) = hi(i) - n * (i - 1) /\ Len(b[i]) <= n
    <2> HIDE DEF n
    <2>1. WellCut(data, n)
      BY <1>1, PiecesAre
    <2> QED  BY <2>1 DEF WellCut
  <1>4. l <= n * K
    <2> HIDE DEF n
    <2> QED  BY <1>1, <1>2, CountIs
  <1> HIDE DEF n, b, K, l
  <1>5. \A i \in 1 .. K : b[i] \in Bytes /\ Len(b[i]) \in Nat /\ Len(b[i]) <= 255
    <2> TAKE i \in 1 .. K
    <2>1. b[i] \in Bytes /\ Len(b[i]) <= n
      BY <1>3
    <2>2. Len(b[i]) \in Nat
      BY <2>1 DEF Bytes
    <2> QED  BY <1>1, <2>1, <2>2
  <1>6. \A i \in 1 .. K : /\ Lacks(g[i], DataKinds) /\ g[i] \in Bytes
                          /\ Len(g[i]) = 3 + (hi(i) - n * (i - 1))
    <2> TAKE i \in 1 .. K
    <2>1. g[i] = WriteOf(b[i])
      OBVIOUS
    <2>2. Lacks(WriteOf(b[i]), DataKinds) /\ WriteOf(b[i]) \in Bytes
          /\ Len(WriteOf(b[i])) = 3 + Len(b[i])
      BY <1>5, LacksWriteOf, WriteOfIs
    <2>3. Len(b[i]) = hi(i) - n * (i - 1)
      BY <1>3
    <2> HIDE DEF g, hi
    <2> QED  BY <2>1, <2>2, <2>3
  <1>7. WritesOf(data) = Together(g, K)
    <2>1. [i \in 1 .. K |-> WriteOf(b[i])] = [i \in 1 .. K |-> g[i]]
      OBVIOUS
    <2> HIDE DEF g
    <2> QED  BY <1>3, <2>1 DEF WritesOf, Together, b, n
  <1> HIDE DEF g
  <1>8. /\ Together(g, 0) = << >>
        /\ \A k \in 0 .. K - 1 : Together(g, k + 1) = Together(g, k) \o g[k + 1]
    BY <1>3, <1>6, TogetherIs
  <1>9. \A k \in 0 .. K : Lacks(Together(g, k), DataKinds)
    BY <1>3, <1>6, LacksTogether
  <1> DEFINE S == {k \in Nat : k <= K => Len(Together(g, k)) = hi(k) + 3 * k}
  <1>10. 0 \in S
    <2>1. Len(Together(g, 0)) = 0
      BY <1>8
    <2>2. hi(0) = 0
      BY <1>1, <1>2
    <2> HIDE DEF hi
    <2> QED  BY <2>1, <2>2
  <1>11. ASSUME NEW k \in Nat, k \in S PROVE k + 1 \in S
    <2> SUFFICES ASSUME k + 1 <= K PROVE Len(Together(g, k + 1)) = hi(k + 1) + 3 * (k + 1)
      OBVIOUS
    <2>1. k \in 0 .. K - 1 /\ k \in 0 .. K /\ k + 1 \in 1 .. K /\ k <= K /\ (k + 1) - 1 = k
      BY <1>3
    <2>2. Together(g, k) \in Bytes /\ g[k + 1] \in Bytes
      BY <1>6, <1>9, <2>1 DEF Lacks
    <2>3. Len(Together(g, k + 1)) = Len(Together(g, k)) + Len(g[k + 1])
      BY <1>8, <2>1, <2>2, BytesJoin
    <2>4. Len(Together(g, k)) = hi(k) + 3 * k
      BY <1>11, <2>1
    <2>5. Len(g[k + 1]) = 3 + (hi(k + 1) - n * k)
      BY <1>6, <2>1
    <2>6. n * k < l
      BY <1>3, <2>1
    <2>7. hi(k) = n * k
      BY <2>6
    <2>8. PICK z \in Int : z = n * k
      BY <1>1
    <2>9. PICK e \in Int : e = hi(k + 1)
      BY <1>1, <1>2
    <2> HIDE DEF hi
    <2>10. Len(Together(g, k + 1)) = (z + 3 * k) + (3 + (e - z))
      BY <2>3, <2>4, <2>5, <2>7, <2>8, <2>9
    <2> QED  BY <2>9, <2>10
  <1>12. \A k \in Nat : k \in S
    <2> HIDE DEF S
    <2> QED  BY <1>10, <1>11, SetInduction
  <1>13. Len(Together(g, K)) = hi(K) + 3 * K
    BY <1>3, <1>12
  <1>14. hi(K) = l
    <2>1. PICK z \in Int : z = n * K
      BY <1>1, <1>3
    <2>2. l <= z
      BY <1>4, <2>1
    <2> QED  BY <1>2, <2>1, <2>2
  <1>15. Lacks(Together(g, K), DataKinds)
    BY <1>3, <1>9
  <1> HIDE DEF hi
  <1> QED  BY <1>7, <1>13, <1>14, <1>15 DEF l, K, n

LEMMA SendBytesIs ==
    ASSUME NEW data \in Bytes
    PROVE  SendBytes(data) = WritesOf(data) \o <<INDICATE>>
  BY DEF SendBytes, WritesOf, WriteOf

\* The most bytes the host program sends between two waits.
BlockBytes == ReadBlock + 3 * PieceCount(ReadBlock, SendBlock) + 1

\* No block is longer than a full one.
LEMMA BlockSize ==
    ASSUME NEW data \in Bytes, Len(data) <= ReadBlock
    PROVE  /\ Len(WritesOf(data)) \in Nat /\ Len(WritesOf(data)) + 1 <= BlockBytes
           /\ BlockBytes \in Nat /\ BlockBytes >= 4
  <1>1. Len(data) \in Nat
    BY DEF Bytes
  <1> DEFINE x == PieceCount(Len(data), SendBlock)
             y == PieceCount(ReadBlock, SendBlock)
  <1>2. x \in Nat /\ y \in Nat /\ x <= y /\ ReadBlock <= SendBlock * y
    BY <1>1, HostConstants, CountIs, CountMore
  <1>3. Len(WritesOf(data)) = Len(data) + 3 * x
    BY WritesAre
  <1> HIDE DEF x, y
  <1>4. BlockBytes = ReadBlock + 3 * y + 1
    BY DEF BlockBytes, y
  <1>5. y >= 1
    <2> SUFFICES ASSUME ~(y >= 1) PROVE FALSE
      OBVIOUS
    <2>1. y = 0
      BY <1>2
    <2>2. SendBlock * 0 = 0
      BY HostConstants
    <2> QED  BY <1>2, <2>1, <2>2, HostConstants
  <1>6. ReadBlock \in Nat
    BY HostConstants
  <1> QED  BY <1>1, <1>2, <1>3, <1>4, <1>5, <1>6
-------------------------------------------------------------------------------
(* A stream in blocks: the address, K times FIFO writes with an INDICATE   *)
(* after them, the reset.                                                  *)

HeadBytes == SendWriteAddr(UserFlash)
TailBytes == <<WRITE, REBOOT, \h5e>>

\* Block k of the stream d ends after e[k] bytes.
InBlocks(d, K, e) ==
    /\ d \in Bytes /\ K \in Nat /\ e \in [0 .. K -> Nat]
    /\ e[0] = 6 /\ Len(d) = e[K] + 3
    /\ At(d, 0, HeadBytes) /\ At(d, e[K], TailBytes)
    /\ \A k \in 0 .. K - 1 :
          /\ e[k] < e[k + 1] /\ e[k + 1] <= e[k] + BlockBytes
          /\ \E x : /\ Lacks(x, DataKinds) /\ At(d, e[k], x)
                    /\ e[k + 1] = e[k] + Len(x) + 1 /\ d[e[k + 1]] = INDICATE

LEMMA LacksLess == \A x : Lacks(x, DataKinds) => Lacks(x, {"reply"})
  <1>1. \A k : Without(k, DataKinds) => Without(k, {"reply"})
    BY DEF Without, DataKinds
  <1> QED  BY <1>1 DEF Lacks

\* What the address and the reset mean.
LEMMA HeadIs ==
    /\ HeadBytes \in Bytes /\ Len(HeadBytes) = 6 /\ Lacks(HeadBytes, {"reply"})
    /\ StartCall \in Calls
    /\ \A d \in Bytes : At(d, 0, HeadBytes) => Completes(d, 0, 6, StartCall)
  <1> DEFINE v  == Uint32Bytes(UserFlash)
             op == \h22
             x  == <<op, FLASHSTART>> \o v
  <1>1. v \in Bytes /\ Len(v) = 4
    <2>1. UserFlash \in Int
      BY HostConstants
    <2>2. \A n \in Int : n % 256 \in 0 .. 255 /\ n \div 256 \in Int
             /\ n \div 65536 \in Int /\ n \div 16777216 \in Int
      OBVIOUS
    <2> DEFINE i == UserFlash % 256
               j == (UserFlash \div 256) % 256
               k == (UserFlash \div 65536) % 256
               l == (UserFlash \div 16777216) % 256
    <2>3. i \in 0 .. 255 /\ j \in 0 .. 255 /\ k \in 0 .. 255 /\ l \in 0 .. 255
      BY <2>1, <2>2
    <2>4. v = <<i, j, k, l>>
      BY DEF Uint32Bytes
    <2> HIDE DEF i, j, k, l, v
    <2> QED  BY <2>3, <2>4 DEF Bytes
  <1>2. op \in {WRITE} \cup WRITEWIDE /\ Width(op) = 4 /\ FLASHSTART \in 0 .. 255
    BY DEF WRITEWIDE, Width, FLASHSTART
  <1>3. StartCall = WriteCall(FLASHSTART, v) /\ HeadBytes = x
    BY DEF StartCall, HeadBytes, SendWriteAddr
  <1> HIDE DEF v, op
  <1>4. x \in Bytes
    <2>1. <<op, FLASHSTART>> \in Bytes
      BY <1>2, Widths DEF Bytes
    <2> QED  BY <1>1, <2>1, BytesJoin
  <1>5. /\ Lacks(x, {"reply"}) /\ Len(x) = 2 + Len(v)
        /\ \A d \in Bytes, p \in Nat :
              At(d, p, x) => Completes(d, p, p + Len(x), WriteCall(FLASHSTART, v))
    BY <1>1, <1>2, RegisterWrite, ZenonT(30)
  <1>6. WriteCall(FLASHSTART, v) \in Calls
    BY <1>1, <1>2, CallTypes, ZenonT(30)
  <1> HIDE DEF x
  <1>7. Len(x) = 6 /\ 0 + Len(x) = 6
    BY <1>1, <1>5
  <1> QED  BY <1>3, <1>4, <1>5, <1>6, <1>7

LEMMA TailIs ==
    /\ TailBytes \in Bytes /\ Len(TailBytes) = 3 /\ Lacks(TailBytes, {"reply"})
    /\ RebootCall \in Calls
    /\ \A d \in Bytes, p \in Nat :
          At(d, p, TailBytes) => Completes(d, p, p + 3, RebootCall)
  <1> DEFINE v == <<\h5e>>
             x == <<WRITE, REBOOT>> \o v
  <1>1. v \in Bytes /\ Len(v) = 1
    BY DEF Bytes
  <1>2. WRITE \in {WRITE} \cup WRITEWIDE /\ Width(WRITE) = 1 /\ REBOOT \in 0 .. 255
    BY Widths DEF REBOOT
  <1>3. RebootCall = WriteCall(REBOOT, v) /\ TailBytes = x
    BY DEF RebootCall, TailBytes
  <1>4. TailBytes \in Bytes /\ Len(TailBytes) = 3
    <2>1. WRITE \in 0 .. 255 /\ \h5e \in 0 .. 255
      BY DEF WRITE
    <2> QED  BY <1>2, <2>1 DEF TailBytes, Bytes
  <1> HIDE DEF v
  <1>5. /\ Lacks(x, {"reply"})
        /\ \A d \in Bytes, p \in Nat :
              At(d, p, x) => Completes(d, p, p + Len(x), WriteCall(REBOOT, v))
    BY <1>1, <1>2, RegisterWrite, ZenonT(30)
  <1>6. WriteCall(REBOOT, v) \in Calls
    BY <1>1, <1>2, CallTypes, Zenon
  <1> HIDE DEF x
  <1> QED  BY <1>3, <1>4, <1>5, <1>6

\* Up to a place within a part that causes no reply, there are the replies to
\* what comes before.
LEMMA RepliesWithin ==
    ASSUME NEW d \in Bytes, NEW p \in Nat, NEW pre \in Calls, Framed(d, p, pre),
           NEW x, Lacks(x, {"reply"}), At(d, p, x),
           NEW n \in 0 .. Len(d), p <= n, n <= p + Len(x)
    PROVE  RepliesTo(d, n) = RepliesIn(pre)
  <1> DEFINE b == SubSeq(d, 1, n)
  <1>1. Len(d) \in Nat /\ n \in Nat /\ n <= Len(d) /\ x \in Bytes /\ Len(x) \in Nat
    BY DEF Bytes, Lacks
  <1>2. /\ b \in Bytes /\ Len(b) = (IF 1 <= n THEN n - 1 + 1 ELSE 0)
        /\ \A k \in 1 .. n - 1 + 1 : b[k] = d[1 + k - 1]
    BY <1>1, PartOf
  <1> HIDE DEF b
  <1>3. Len(b) = n /\ \A k \in 1 .. n : b[k] = d[k]
    <2>1. Len(b) = n /\ n - 1 + 1 = n
      BY <1>1, <1>2
    <2>2. \A k \in 1 .. n : 1 + k - 1 = k
      OBVIOUS
    <2> QED  BY <1>2, <2>1, <2>2
  <1>4. Agrees(b, d, n) /\ Agrees(b, d, Len(b))
    BY <1>1, <1>2, <1>3 DEF Agrees
  <1>5. Agrees(b, d, p)
    <2>1. p <= Len(b) /\ \A k \in 1 .. p : k \in 1 .. n
      BY <1>1, <1>3
    <2> QED  BY <1>2, <1>3, <2>1 DEF Agrees
  <1>6. Meaning(b) = pre \o From(b)[p + 1]
    <2>1. From(b)[1] = pre \o From(b)[p + 1]
      BY <1>2, <1>5 DEF Framed
    <2> QED  BY <1>2, <2>1, FromExists
  <1> DEFINE t == From(b)[p + 1]
  <1>7. t \in Calls
    <2>1. p + 1 \in 1 .. Len(b) + 1
      BY <1>1, <1>3
    <2> QED  BY <1>2, <2>1, FromTyped
  <1>8. Without(t, {"reply"})
    <2>1. CASE n < p + Len(x)
      BY <1>2, <1>3, <1>4, <2>1 DEF Lacks
    <2>2. CASE n = p + Len(x)
      <3>1. PICK made \in Calls : Without(made, {"reply"}) /\ Completes(d, p, p + Len(x), made)
        BY DEF Lacks
      <3>2. t = made \o From(b)[n + 1]
        BY <1>2, <1>4, <2>2, <3>1 DEF Completes
      <3>3. From(b)[n + 1] = << >>
        BY <1>2, <1>3, FromIs
      <3>4. t = made
        BY <3>1, <3>2, <3>3, Joined
      <3> QED  BY <3>1, <3>4
    <2> QED  BY <1>1, <2>1, <2>2
  <1> HIDE DEF t
  <1>9. NoReplies(t) /\ Makes(t)
    BY <1>7, <1>8, QuietIsWithout DEF Makes
  <1>10. RepliesIn(pre \o t) = RepliesIn(pre) + 0
    <2>1. t # ReplyCall
      <3> SUFFICES ASSUME t = ReplyCall PROVE FALSE
        OBVIOUS
      <3>1. Len(t) = 1 /\ t[1].to = "reply"
        BY DEF ReplyCall
      <3> QED  BY <1>9, <3>1 DEF NoReplies
    <2> QED  BY <1>9, <2>1, RepliesJoin
  <1>11. RepliesIn(pre) \in Nat
    <2>1. Len(pre) \in Nat
      BY DEF Calls
    <2>2. IsFiniteSet(1 .. Len(pre))
      BY <2>1, FS_Interval
    <2>3. {i \in 1 .. Len(pre) : pre[i].to = "reply"} \subseteq 1 .. Len(pre)
      OBVIOUS
    <2> QED  BY <2>2, <2>3, FS_Subset, FS_CardinalityType DEF RepliesIn
  <1>12. RepliesTo(d, n) = RepliesIn(pre \o t)
    BY <1>6 DEF RepliesTo, b, t
  <1> QED  BY <1>10, <1>11, <1>12

\* What begins the stream, up to the end of block k, means.
BlockCalls(d, e, k, mid) ==
    /\ mid \in Calls /\ NoWrites(mid) /\ StartCall \o mid \in Calls
    /\ Framed(d, e[k], StartCall \o mid)
    /\ RepliesIn(StartCall \o mid) = k

SameJoined(w, x, y, z) == w \o ((x \o y) \o z) = ((w \o x) \o y) \o z

LEMMA FourJoined ==
    ASSUME NEW w \in Calls, NEW x \in Calls, NEW y \in Calls, NEW z \in Calls
    PROVE  SameJoined(w, x, y, z)
  <1> DEFINE t == x \o y
  <1>1. t \in Calls
    BY Joined
  <1>2. w \o t = (w \o x) \o y
    BY Joined
  <1> HIDE DEF t
  <1>3. w \o (t \o z) = (w \o t) \o z
    BY <1>1, Joined
  <1> QED  BY <1>2, <1>3 DEF t, SameJoined

LEMMA FirstBlock ==
    ASSUME NEW d, NEW K, NEW e, InBlocks(d, K, e)
    PROVE  BlockCalls(d, e, 0, << >>) /\ Framed(d, 0, << >>)
  <1>1. d \in Bytes /\ At(d, 0, HeadBytes) /\ e[0] = 6
    BY DEF InBlocks
  <1>2. Completes(d, 0, 6, StartCall) /\ StartCall \in Calls
    BY <1>1, HeadIs
  <1>3. Framed(d, 0, << >>)
    <2> SUFFICES ASSUME NEW b \in Bytes PROVE From(b)[1] = << >> \o From(b)[0 + 1]
      BY DEF Framed
    <2>1. 1 \in 1 .. Len(b) + 1 /\ 0 + 1 = 1
      BY DEF Bytes
    <2>2. From(b)[1] \in Calls
      BY <2>1, FromTyped
    <2> QED  BY <2>1, <2>2, Joined
  <1>4. Framed(d, 6, << >> \o StartCall)
    <2>1. 0 \in Nat /\ 6 \in Nat /\ 0 <= 6 /\ << >> \in Calls
      BY Joined
    <2> QED  BY <1>2, <1>3, <2>1, FramedStep
  <1>5. << >> \o StartCall = StartCall /\ StartCall \o << >> = StartCall
    BY <1>2, Joined
  <1>6. NoWrites(<< >>) /\ << >> \in Calls
    BY Joined DEF NoWrites
  <1>7. RepliesIn(StartCall) = 0
    <2>1. \A i \in 1 .. Len(StartCall) : StartCall[i].to # "reply"
      BY DEF StartCall, WriteCall
    <2>2. {i \in 1 .. Len(StartCall) : StartCall[i].to = "reply"} = {}
      BY <2>1
    <2> QED  BY <2>2, FS_EmptySet DEF RepliesIn
  <1> QED  BY <1>1, <1>2, <1>3, <1>4, <1>5, <1>6, <1>7 DEF BlockCalls

\* Another block: its data, its INDICATE, one reply more.
LEMMA NextBlock ==
    ASSUME NEW d, NEW K, NEW e, InBlocks(d, K, e), NEW k \in 0 .. K - 1,
           NEW mid, BlockCalls(d, e, k, mid)
    PROVE  \E m : BlockCalls(d, e, k + 1, m)
  <1>1. /\ d \in Bytes /\ K \in Nat /\ e[k] \in Nat /\ e[k + 1] \in Nat
        /\ \E x : /\ Lacks(x, DataKinds) /\ At(d, e[k], x)
                  /\ e[k + 1] = e[k] + Len(x) + 1 /\ d[e[k + 1]] = INDICATE
    <2>1. k \in 0 .. K /\ k + 1 \in 0 .. K
      BY DEF InBlocks
    <2> QED  BY <2>1 DEF InBlocks
  <1>2. PICK x : /\ Lacks(x, DataKinds) /\ At(d, e[k], x)
                 /\ e[k + 1] = e[k] + Len(x) + 1 /\ d[e[k + 1]] = INDICATE
    BY <1>1
  <1>3. PICK p \in Nat : p = e[k]
    BY <1>1
  <1>4. PICK q \in Nat : q = p + Len(x)
    BY <1>2, <1>3 DEF Lacks, Bytes
  <1>5. p <= q /\ q <= q + 1 /\ q + 1 \in Nat /\ e[k + 1] = q + 1
    <2>1. Len(x) \in Nat
      BY <1>2 DEF Lacks, Bytes
    <2> QED  BY <1>2, <1>3, <1>4, <2>1
  <1>6. PICK made \in Calls : Without(made, DataKinds) /\ Completes(d, p, q, made)
    BY <1>1, <1>2, <1>3, <1>4 DEF Lacks
  <1>7. Completes(d, q, q + 1, ReplyCall)
    BY <1>2, <1>5, Whole
  <1>8. NoReplies(made) /\ NoWrites(made) /\ Makes(made)
    BY <1>6, QuietIsWithout DEF Makes
  <1>9. ReplyCall \in Calls /\ NoWrites(ReplyCall) /\ Makes(ReplyCall)
    <2>1. 0 \in 0 .. 255
      OBVIOUS
    <2>2. ReplyCall \in Calls
      BY <2>1, CallTypes, Zenon
    <2> QED  BY <2>2 DEF Makes, NoWrites, ReplyCall
  <1> DEFINE pre == StartCall \o mid
             m   == (mid \o made) \o ReplyCall
  <1>10. /\ pre \in Calls /\ mid \in Calls /\ NoWrites(mid) /\ Framed(d, p, pre)
         /\ RepliesIn(pre) = k
    BY <1>3 DEF BlockCalls
  <1>11. Framed(d, q, pre \o made)
    <2> HIDE DEF pre
    <2> QED  BY <1>5, <1>6, <1>10, FramedStep
  <1>12. pre \o made \in Calls /\ mid \o made \in Calls /\ m \in Calls
    <2> HIDE DEF pre
    <2> QED  BY <1>6, <1>9, <1>10, Joined
  <1>13. Framed(d, q + 1, (pre \o made) \o ReplyCall)
    <2> DEFINE y == pre \o made
    <2> HIDE DEF y
    <2> SUFFICES Framed(d, q + 1, y \o ReplyCall)
      BY DEF y
    <2>1. y \in Calls /\ Framed(d, q, y)
      BY <1>11, <1>12 DEF y
    <2> QED  BY <1>5, <1>7, <1>9, <2>1, FramedStep
  <1>14. StartCall \o m = (pre \o made) \o ReplyCall
    <2>1. PICK w \in Calls : w = StartCall
      BY HeadIs
    <2>2. PICK y \in Calls : y = ReplyCall
      BY <1>9
    <2>3. made \in Calls /\ mid \in Calls
      BY <1>6, <1>10
    <2>4. SameJoined(w, mid, made, y)
      BY <2>3, FourJoined
    <2> QED  BY <2>1, <2>2, <2>4 DEF SameJoined
  <1>15. NoWrites(m)
    <2>1. Without(mid, {"handleWrite"}) /\ Without(made, {"handleWrite"})
          /\ Without(ReplyCall, {"handleWrite"})
      BY <1>8, <1>9, <1>10 DEF Without, NoWrites
    <2>2. Without(mid \o made, {"handleWrite"})
      BY <1>6, <1>10, <2>1, WithoutJoin
    <2>3. Without(m, {"handleWrite"})
      BY <1>9, <1>12, <2>1, <2>2, WithoutJoin
    <2> QED  BY <2>3 DEF Without, NoWrites
  <1>16. RepliesIn(pre \o made) = k
    <2>1. made # ReplyCall
      <3> SUFFICES ASSUME made = ReplyCall PROVE FALSE
        OBVIOUS
      <3>1. Len(made) = 1 /\ made[1].to = "reply"
        BY DEF ReplyCall
      <3> QED  BY <1>8, <3>1 DEF NoReplies
    <2> HIDE DEF pre
    <2>2. RepliesIn(pre \o made) = RepliesIn(pre) + 0
      BY <1>8, <1>10, <2>1, RepliesJoin
    <2> QED  BY <1>10, <2>2
  <1>17. RepliesIn((pre \o made) \o ReplyCall) = k + 1
    <2> DEFINE y == pre \o made
    <2>1. y \in Calls /\ RepliesIn(y) = k
      BY <1>12, <1>16
    <2> HIDE DEF y
    <2>2. RepliesIn(y \o ReplyCall) = RepliesIn(y) + 1
      BY <1>9, <2>1, RepliesJoin
    <2> QED  BY <2>1, <2>2 DEF y
  <1> DEFINE z == (pre \o made) \o ReplyCall
  <1>18. z \in Calls
    <2> HIDE DEF pre
    <2> QED  BY <1>9, <1>12, Joined
  <1> HIDE DEF m, z
  <1>19. /\ m \in Calls /\ NoWrites(m) /\ StartCall \o m = z /\ z \in Calls
         /\ Framed(d, e[k + 1], z) /\ RepliesIn(z) = k + 1
    BY <1>5, <1>12, <1>13, <1>14, <1>15, <1>17, <1>18 DEF m, z
  <1>20. BlockCalls(d, e, k + 1, m)
    BY <1>19 DEF BlockCalls
  <1> QED  BY <1>20

LEMMA BlocksMean ==
    ASSUME NEW d, NEW K, NEW e, InBlocks(d, K, e)
    PROVE  \A k \in 0 .. K : \E mid : BlockCalls(d, e, k, mid)
  <1> DEFINE S == {k \in Nat : k <= K => \E mid : BlockCalls(d, e, k, mid)}
  <1>1. K \in Nat
    BY DEF InBlocks
  <1>2. 0 \in S
    BY FirstBlock
  <1>3. ASSUME NEW k \in Nat, k \in S PROVE k + 1 \in S
    <2> SUFFICES ASSUME k + 1 <= K PROVE \E mid : BlockCalls(d, e, k + 1, mid)
      OBVIOUS
    <2>1. k \in 0 .. K - 1 /\ k <= K
      BY <1>1
    <2>2. PICK mid : BlockCalls(d, e, k, mid)
      BY <1>3, <2>1
    <2> QED  BY <2>1, <2>2, NextBlock
  <1>4. \A k \in Nat : k \in S
    <2> HIDE DEF S
    <2> QED  BY <1>2, <1>3, SetInduction
  <1> QED  BY <1>1, <1>4

\* The ends of the blocks are in order.
LEMMA EndsGrow ==
    ASSUME NEW d, NEW K, NEW e, InBlocks(d, K, e)
    PROVE  \A j, k \in 0 .. K : j < k => e[j] < e[k]
  <1> DEFINE S == {k \in Nat : k <= K => \A j \in 0 .. k - 1 : e[j] < e[k]}
  <1>1. /\ K \in Nat /\ \A k \in 0 .. K : e[k] \in Nat
        /\ \A k \in 0 .. K - 1 : e[k] < e[k + 1]
    BY DEF InBlocks
  <1>2. 0 \in S
    OBVIOUS
  <1>3. ASSUME NEW k \in Nat, k \in S PROVE k + 1 \in S
    <2> SUFFICES ASSUME k + 1 <= K, NEW j \in 0 .. (k + 1) - 1 PROVE e[j] < e[k + 1]
      OBVIOUS
    <2>1. k \in 0 .. K - 1 /\ k <= K /\ k \in 0 .. K /\ k + 1 \in 0 .. K /\ j \in 0 .. K
      BY <1>1
    <2>2. e[k] < e[k + 1] /\ e[k] \in Nat /\ e[k + 1] \in Nat /\ e[j] \in Nat
      BY <1>1, <2>1
    <2>3. CASE j = k
      BY <2>2, <2>3
    <2>4. CASE j # k
      <3>1. j \in 0 .. k - 1
        BY <2>4
      <3>2. e[j] < e[k]
        BY <1>3, <2>1, <3>1
      <3> QED  BY <2>2, <3>2
    <2> QED  BY <2>3, <2>4
  <1>4. \A k \in Nat : k \in S
    <2> HIDE DEF S
    <2> QED  BY <1>2, <1>3, SetInduction
  <1> SUFFICES ASSUME NEW j \in 0 .. K, NEW k \in 0 .. K, j < k PROVE e[j] < e[k]
    OBVIOUS
  <1>5. k \in S /\ k <= K /\ j \in 0 .. k - 1
    BY <1>1, <1>4
  <1> QED  BY <1>5

\* In which block a byte is.
LEMMA BlockOf ==
    ASSUME NEW d, NEW K, NEW e, InBlocks(d, K, e),
           NEW n \in Nat, e[0] <= n, n < e[K]
    PROVE  \E k \in 0 .. K - 1 : e[k] <= n /\ n < e[k + 1]
  <1> DEFINE S == {k \in Nat : k <= K /\ n < e[k]
                                  => \E j \in 0 .. K - 1 : e[j] <= n /\ n < e[j + 1]}
  <1>1. K \in Nat /\ \A k \in 0 .. K : e[k] \in Nat
    BY DEF InBlocks
  <1>2. 0 \in S
    <2>1. e[0] \in Nat
      BY <1>1
    <2> QED  BY <2>1
  <1>3. ASSUME NEW k \in Nat, k \in S PROVE k + 1 \in S
    <2> SUFFICES ASSUME k + 1 <= K, n < e[k + 1]
                 PROVE  \E j \in 0 .. K - 1 : e[j] <= n /\ n < e[j + 1]
      OBVIOUS
    <2>1. k \in 0 .. K - 1 /\ k <= K /\ e[k] \in Nat
      BY <1>1
    <2>2. CASE n < e[k]
      BY <1>3, <2>1, <2>2
    <2>3. CASE e[k] <= n
      BY <2>1, <2>3
    <2> QED  BY <2>1, <2>2, <2>3
  <1>4. \A k \in Nat : k \in S
    <2> HIDE DEF S
    <2> QED  BY <1>2, <1>3, SetInduction
  <1>5. K \in S
    BY <1>1, <1>4
  <1> QED  BY <1>1, <1>5

\* Block k has been answered when its last byte has been parsed.
LEMMA Answered ==
    ASSUME NEW d, NEW K, NEW e, InBlocks(d, K, e), NEW n \in 0 .. Len(d)
    PROVE  \E k \in 0 .. K : /\ RepliesTo(d, n) = k
                             /\ k # 0 => e[k] <= n
                             /\ k # K => n < e[k + 1]
  <1>1. /\ d \in Bytes /\ K \in Nat /\ e[0] = 6 /\ Len(d) = e[K] + 3 /\ n \in Nat
        /\ At(d, 0, HeadBytes) /\ At(d, e[K], TailBytes) /\ Len(d) \in Nat
    BY DEF InBlocks, Bytes
  <1>2. \A k \in 0 .. K : e[k] \in Nat
    BY DEF InBlocks
  <1>3. \A k \in 0 .. K : \E pre \in Calls : Framed(d, e[k], pre) /\ RepliesIn(pre) = k
    <2> TAKE k \in 0 .. K
    <2>1. PICK mid : BlockCalls(d, e, k, mid)
      BY BlocksMean
    <2> QED  BY <2>1 DEF BlockCalls
  <1>4. CASE n < e[0]
    <2>1. << >> \in Calls /\ Framed(d, 0, << >>)
      BY FirstBlock, Joined
    <2>2. Lacks(HeadBytes, {"reply"}) /\ Len(HeadBytes) = 6
      BY HeadIs
    <2>3. 0 \in Nat /\ 0 <= n /\ n <= 0 + Len(HeadBytes)
      BY <1>1, <1>4, <2>2
    <2>4. RepliesTo(d, n) = RepliesIn(<< >>)
      BY <1>1, <2>1, <2>2, <2>3, RepliesWithin
    <2>5. RepliesIn(<< >>) = 0
      <3>1. {i \in 1 .. Len(<< >>) : << >>[i].to = "reply"} = {}
        OBVIOUS
      <3> QED  BY <3>1, FS_EmptySet DEF RepliesIn
    <2>6. 0 # K => n < e[0 + 1]
      <3> SUFFICES ASSUME 0 # K PROVE n < e[1]
        OBVIOUS
      <3>1. 0 \in 0 .. K /\ 1 \in 0 .. K /\ 0 < 1
        BY <1>1
      <3>2. e[0] < e[1] /\ e[0] \in Nat /\ e[1] \in Nat
        BY <1>2, <3>1, EndsGrow
      <3> QED  BY <1>1, <1>4, <3>2
    <2>7. 0 \in 0 .. K
      BY <1>1
    <2> QED  BY <2>4, <2>5, <2>6, <2>7
  <1>5. CASE e[K] <= n
    <2>1. K \in 0 .. K /\ e[K] \in Nat
      BY <1>1, <1>2
    <2>2. PICK pre \in Calls : Framed(d, e[K], pre) /\ RepliesIn(pre) = K
      BY <1>3, <2>1
    <2>3. Lacks(TailBytes, {"reply"}) /\ Len(TailBytes) = 3
      BY TailIs
    <2>4. n <= e[K] + Len(TailBytes)
      BY <1>1, <2>3
    <2>5. RepliesTo(d, n) = RepliesIn(pre)
      BY <1>1, <1>5, <2>1, <2>2, <2>3, <2>4, RepliesWithin
    <2> QED  BY <1>5, <2>1, <2>2, <2>5
  <1>6. CASE e[0] <= n /\ n < e[K]
    <2>1. PICK k \in 0 .. K - 1 : e[k] <= n /\ n < e[k + 1]
      BY <1>1, <1>6, BlockOf
    <2>2. k \in 0 .. K /\ k # K /\ e[k] \in Nat
      BY <1>1, <1>2
    <2>3. PICK pre \in Calls : Framed(d, e[k], pre) /\ RepliesIn(pre) = k
      BY <1>3, <2>2
    <2>4. PICK x : Lacks(x, DataKinds) /\ At(d, e[k], x) /\ e[k + 1] = e[k] + Len(x) + 1
      BY DEF InBlocks
    <2>5. Lacks(x, {"reply"})
      BY <2>4, LacksLess
    <2>6. n <= e[k] + Len(x)
      <3>1. Len(x) \in Nat
        BY <2>4 DEF Lacks, Bytes
      <3> QED  BY <1>1, <2>1, <2>2, <2>4, <3>1
    <2>7. RepliesTo(d, n) = RepliesIn(pre)
      BY <1>1, <2>1, <2>2, <2>3, <2>4, <2>5, <2>6, RepliesWithin
    <2> QED  BY <2>1, <2>2, <2>3, <2>7
  <1>7. e[0] \in Nat /\ e[K] \in Nat
    BY <1>1, <1>2
  <1> QED  BY <1>1, <1>4, <1>5, <1>6, <1>7

\* A host that sends K blocks and waits for the reply after each.
SendsBlocks(h, K, e) ==
    /\ InBlocks(h.bytes, K, e)
    /\ h.waits = [k \in 1 .. K |-> e[k]]

\* What such a host has sent when it has had k - 1 replies.
LEMMA BlockEnds ==
    ASSUME NEW h, NEW K, NEW e, SendsBlocks(h, K, e)
    PROVE  \A k \in Nat : EndOf(h, k) = IF k = 0 THEN 0
                                        ELSE IF k <= K THEN e[k] ELSE Len(h.bytes)
  <1>1. K \in Nat /\ h.waits = [k \in 1 .. K |-> e[k]]
    BY DEF SendsBlocks, InBlocks
  <1>2. Len(h.waits) = K /\ \A k \in 1 .. K : h.waits[k] = e[k]
    BY <1>1
  <1> TAKE k \in Nat
  <1>3. CASE k = 0
    BY <1>3 DEF EndOf
  <1>4. CASE k # 0 /\ k <= K
    <2>1. k - 1 < Len(h.waits) /\ (k - 1) + 1 = k /\ k \in 1 .. K
      BY <1>1, <1>2, <1>4
    <2>2. ReleasedAfter(h, k - 1) = h.waits[k]
      BY <2>1 DEF ReleasedAfter
    <2> QED  BY <1>2, <1>4, <2>1, <2>2 DEF EndOf
  <1>5. CASE k # 0 /\ ~(k <= K)
    <2>1. ~(k - 1 < Len(h.waits))
      BY <1>1, <1>2, <1>5
    <2>2. ReleasedAfter(h, k - 1) = Len(h.bytes)
      BY <2>1 DEF ReleasedAfter
    <2> QED  BY <1>5, <2>2 DEF EndOf
  <1> QED  BY <1>3, <1>4, <1>5

\* It waits within its stream, and for one block after the other.
LEMMA SendsWhole ==
    ASSUME NEW h, NEW K, NEW e, SendsBlocks(h, K, e), h.paced \in BOOLEAN
    PROVE  IsHost(h)
  <1> DEFINE d == h.bytes
             w == h.waits
  <1>1. /\ d \in Bytes /\ K \in Nat /\ Len(d) = e[K] + 3 /\ Len(d) \in Nat /\ e[0] = 6
        /\ \A k \in 0 .. K : e[k] \in Nat
    BY DEF SendsBlocks, InBlocks, Bytes
  <1>2. \A j, k \in 0 .. K : j < k => e[j] < e[k]
    BY EndsGrow DEF SendsBlocks
  <1>3. Len(w) = K /\ w = [k \in 1 .. K |-> e[k]] /\ \A k \in 1 .. K : w[k] = e[k]
    BY <1>1 DEF SendsBlocks
  <1>4. d \in Seq(0 .. 255)
    BY <1>1 DEF Bytes
  <1> HIDE DEF d, w
  <1>5. \A k \in 1 .. K : e[k] \in 1 .. Len(d)
    <2> TAKE k \in 1 .. K
    <2>1. k \in 0 .. K /\ 0 \in 0 .. K /\ K \in 0 .. K /\ 0 < k
      BY <1>1
    <2>2. e[0] < e[k] /\ e[k] \in Nat /\ e[K] \in Nat
      BY <1>1, <1>2, <2>1
    <2>3. e[k] <= e[K]
      <3>1. CASE k = K
        BY <2>2, <3>1
      <3>2. CASE k < K
        BY <1>2, <2>1, <2>2, <3>2
      <3> QED  BY <1>1, <3>1, <3>2
    <2> QED  BY <1>1, <2>2, <2>3
  <1>6. w \in Seq(1 .. Len(d))
    BY <1>1, <1>3, <1>5
  <1>7. \A j, k \in 1 .. Len(w) : j <= k => w[j] <= w[k]
    <2> SUFFICES ASSUME NEW j \in 1 .. K, NEW k \in 1 .. K, j <= k PROVE e[j] <= e[k]
      BY <1>3
    <2>1. j \in 0 .. K /\ k \in 0 .. K /\ e[j] \in Nat /\ e[k] \in Nat
      BY <1>1
    <2>2. CASE j = k
      BY <2>1, <2>2
    <2>3. CASE j < k
      BY <1>2, <2>1, <2>3
    <2> QED  BY <2>2, <2>3
  <1> QED  BY <1>4, <1>6, <1>7 DEF IsHost, d, w

\* Two blocks that follow each other fit in the ring.
LEMMA TwoFit ==
    ASSUME NEW h, NEW K, NEW e, SendsBlocks(h, K, e), 2 * BlockBytes + 6 < BufferSize,
           BlockBytes \in Nat, BlockBytes >= 4, NEW k \in Nat
    PROVE  EndOf(h, k + 2) - EndOf(h, k) < BufferSize
  <1> DEFINE L == Len(h.bytes)
             B == BlockBytes
  <1>1. /\ K \in Nat /\ L = e[K] + 3 /\ e[0] = 6 /\ \A i \in 0 .. K : e[i] \in Nat
        /\ \A i \in 0 .. K - 1 : e[i + 1] <= e[i] + B
    BY DEF SendsBlocks, InBlocks
  <1>2. \A i \in Nat : EndOf(h, i) = IF i = 0 THEN 0 ELSE IF i <= K THEN e[i] ELSE L
    BY BlockEnds
  <1>3. B \in Nat /\ B >= 4 /\ 2 * B + 6 < BufferSize /\ BufferSize \in Nat
    BY LinkAssumption
  <1> HIDE DEF L, B
  <1>4. CASE k + 2 <= K
    <2>1. k \in 0 .. K - 1 /\ k + 1 \in 0 .. K - 1 /\ (k + 1) + 1 = k + 2
          /\ k \in 0 .. K /\ k + 1 \in 0 .. K /\ k + 2 \in 0 .. K /\ k + 2 # 0 /\ k + 2 \in Nat
      BY <1>1, <1>4
    <2>2. /\ e[k + 1] <= e[k] + B /\ e[k + 2] <= e[k + 1] + B
          /\ e[k] \in Nat /\ e[k + 1] \in Nat /\ e[k + 2] \in Nat
      BY <1>1, <2>1
    <2>3. EndOf(h, k + 2) = e[k + 2]
      BY <1>2, <1>4, <2>1
    <2>4. CASE k = 0
      BY <1>1, <1>2, <1>3, <2>2, <2>3, <2>4
    <2>5. CASE k # 0
      <3>1. EndOf(h, k) = e[k]
        BY <1>2, <1>4, <2>1, <2>5
      <3> QED  BY <1>3, <2>2, <2>3, <3>1
    <2> QED  BY <2>4, <2>5
  <1>5. CASE ~(k + 2 <= K)
    <2>1. EndOf(h, k + 2) = L
      BY <1>2, <1>5
    <2>2. CASE k + 1 = K
      <3>1. k \in 0 .. K - 1 /\ k \in 0 .. K /\ K \in 0 .. K
        BY <1>1, <2>2
      <3>2. e[K] <= e[k] + B /\ e[k] \in Nat /\ e[K] \in Nat
        BY <1>1, <2>2, <3>1
      <3>3. EndOf(h, k) = IF k = 0 THEN 0 ELSE e[k]
        BY <1>1, <1>2, <2>2
      <3>4. CASE k = 0
        BY <1>1, <1>3, <2>1, <3>2, <3>3, <3>4
      <3>5. CASE k # 0
        BY <1>1, <1>3, <2>1, <3>2, <3>3, <3>5
      <3> QED  BY <3>4, <3>5
    <2>3. CASE k = K
      <3>1. e[K] \in Nat
        BY <1>1
      <3>2. CASE k = 0
        <4>1. EndOf(h, k) = 0 /\ L = 9
          BY <1>1, <1>2, <2>3, <3>2
        <4> QED  BY <1>3, <2>1, <4>1
      <3>3. CASE k # 0
        <4>1. EndOf(h, k) = e[K]
          BY <1>1, <1>2, <2>3, <3>3
        <4> QED  BY <1>1, <1>3, <2>1, <3>1, <4>1
      <3> QED  BY <3>2, <3>3
    <2>4. CASE k > K
      <3>1. EndOf(h, k) = L /\ L \in Nat
        BY <1>1, <1>2, <2>4
      <3> QED  BY <1>3, <2>1, <3>1
    <2> QED  BY <1>1, <1>5, <2>2, <2>3, <2>4
  <1> QED  BY <1>4, <1>5

\* A host that sends blocks that fit keeps pace.
LEMMA BlocksKeepPace ==
    ASSUME NEW h, NEW K, NEW e, SendsBlocks(h, K, e), h.paced \in BOOLEAN,
           2 * BlockBytes + 6 < BufferSize, BlockBytes \in Nat, BlockBytes >= 4
    PROVE  KeepsPace(h)
  <1> DEFINE d == h.bytes
  <1>1. InBlocks(d, K, e) /\ d \in Bytes /\ K \in Nat /\ Len(d) \in Nat
    BY DEF SendsBlocks, InBlocks, Bytes
  <1>2. \A k \in 0 .. K : e[k] \in Nat
    BY DEF SendsBlocks, InBlocks
  <1>3. \A i, j \in 0 .. K : i < j => e[i] < e[j]
    BY EndsGrow DEF SendsBlocks
  <1>4. \A k \in Nat : EndOf(h, k) = IF k = 0 THEN 0 ELSE IF k <= K THEN e[k] ELSE Len(d)
    BY BlockEnds
  <1> HIDE DEF d
  <1>5. ASSUME NEW n \in 0 .. Len(d)
        PROVE  /\ EndOf(h, RepliesTo(d, n)) <= n
               /\ \A k \in Nat : n <= EndOf(h, k) => RepliesTo(d, n) <= k
    <2>1. PICK j \in 0 .. K : /\ RepliesTo(d, n) = j
                              /\ j # 0 => e[j] <= n
                              /\ j # K => n < e[j + 1]
      BY <1>1, Answered
    <2>2. n \in Nat /\ j \in Nat /\ j <= K
      BY <1>1
    <2>3. EndOf(h, j) <= n
      <3>1. CASE j = 0
        BY <1>4, <2>2, <3>1
      <3>2. CASE j # 0
        BY <1>4, <2>1, <2>2, <3>2
      <3> QED  BY <3>1, <3>2
    <2>4. ASSUME NEW k \in Nat, n <= EndOf(h, k) PROVE j <= k
      <3> SUFFICES ASSUME k < j PROVE FALSE
        BY <2>2
      <3>1. k \in 0 .. K /\ k <= K /\ j # 0 /\ e[j] <= n /\ e[k] \in Nat /\ e[j] \in Nat
        BY <1>1, <1>2, <2>1, <2>2
      <3>2. e[k] < e[j]
        BY <1>3, <3>1
      <3>3. CASE k = 0
        <4>1. n <= 0 /\ e[j] > 0
          BY <1>4, <2>4, <3>1, <3>2, <3>3
        <4> QED  BY <2>2, <3>1, <4>1
      <3>4. CASE k # 0
        <4>1. n <= e[k]
          BY <1>4, <2>4, <3>1, <3>4
        <4> QED  BY <2>2, <3>1, <3>2, <4>1
      <3> QED  BY <3>3, <3>4
    <2> QED  BY <2>1, <2>3, <2>4
  <1>6. IsHost(h)
    BY SendsWhole
  <1>7. \A k \in Nat : EndOf(h, k + 2) - EndOf(h, k) < BufferSize
    BY TwoFit
  <1>8. \A n \in 0 .. Len(h.bytes) :
           /\ EndOf(h, RepliesTo(h.bytes, n)) <= n
           /\ \A k \in Nat : n <= EndOf(h, k) => RepliesTo(h.bytes, n) <= k
    BY <1>5 DEF d
  <1> QED  BY <1>6, <1>7, <1>8, BlocksFit

\* The first and the last of calls, and what is between.
LEMMA ThreeCalls ==
    ASSUME NEW x \in Calls, NEW y \in Calls, NEW z \in Calls,
           Len(x) = 1, Len(z) = 1, NoWrites(y)
    PROVE  LET m == (x \o y) \o z
           IN  /\ Len(m) \in Nat /\ Len(m) > 1 /\ m[1] = x[1] /\ m[Len(m)] = z[1]
               /\ \A i \in 2 .. Len(m) - 1 : m[i].to # "handleWrite"
  <1> DEFINE t == x \o y
             m == t \o z
  <1>1. Len(y) \in Nat
    BY DEF Calls
  <1>2. /\ t \in Calls /\ Len(t) = Len(x) + Len(y)
        /\ \A i \in 1 .. Len(x) + Len(y) : t[i] = IF i <= Len(x) THEN x[i] ELSE y[i - Len(x)]
    BY ConcatProperties DEF Calls
  <1> HIDE DEF t
  <1>3. Len(t) = 1 + Len(y) /\ t[1] = x[1] /\ \A i \in 2 .. 1 + Len(y) : t[i] = y[i - 1]
    <2>1. \A i \in 1 .. 1 + Len(y) : t[i] = IF i <= 1 THEN x[i] ELSE y[i - 1]
      BY <1>2
    <2>2. 1 \in 1 .. 1 + Len(y) /\ \A i \in 2 .. 1 + Len(y) : i \in 1 .. 1 + Len(y) /\ ~(i <= 1)
      BY <1>1
    <2> QED  BY <1>2, <2>1, <2>2
  <1>4. /\ Len(m) = Len(t) + Len(z)
        /\ \A i \in 1 .. Len(t) + Len(z) : m[i] = IF i <= Len(t) THEN t[i] ELSE z[i - Len(t)]
    <2>1. t \in Seq(Call) /\ z \in Seq(Call)
      BY <1>2 DEF Calls
    <2> QED  BY <2>1, ConcatProperties, Zenon
  <1> HIDE DEF m
  <1>5. Len(m) = Len(y) + 2
    BY <1>1, <1>3, <1>4
  <1>6. \A i \in 1 .. Len(y) + 1 : m[i] = t[i]
    <2> TAKE i \in 1 .. Len(y) + 1
    <2>1. i \in 1 .. Len(t) + Len(z) /\ i <= Len(t)
      BY <1>1, <1>3
    <2> QED  BY <1>4, <2>1
  <1>7. m[Len(m)] = z[1]
    <2>1. Len(m) \in 1 .. Len(t) + Len(z) /\ ~(Len(m) <= Len(t)) /\ Len(m) - Len(t) = 1
      BY <1>1, <1>3, <1>5
    <2> QED  BY <1>4, <2>1
  <1>8. m[1] = x[1]
    <2>1. 1 \in 1 .. Len(y) + 1
      BY <1>1
    <2> QED  BY <1>3, <1>6, <2>1
  <1>9. ASSUME NEW i \in 2 .. Len(m) - 1 PROVE m[i].to # "handleWrite"
    <2>1. i \in 1 .. Len(y) + 1 /\ i \in 2 .. 1 + Len(y) /\ i - 1 \in 1 .. Len(y)
      BY <1>1, <1>5
    <2>2. m[i] = y[i - 1]
      BY <1>3, <1>6, <2>1
    <2> QED  BY <2>1, <2>2 DEF NoWrites
  <1>10. Len(m) \in Nat /\ Len(m) > 1
    BY <1>1, <1>5
  <1> QED  BY <1>7, <1>8, <1>9, <1>10 DEF m, t

\* No address of the upload is too big for a uint32_t.
AddressesFit(h) == (UserFlash + Len(h.bytes)) \div 16777216 < 256

\* What it sends means an address, data and a reset.
LEMMA BlocksAreUpload ==
    ASSUME NEW h, NEW K, NEW e, SendsBlocks(h, K, e), h.paced,
           AddressesFit(h)
    PROVE  IsUpload(h)
  <1> DEFINE d == h.bytes
  <1>1. /\ d \in Bytes /\ K \in Nat /\ Len(d) = e[K] + 3 /\ Len(d) \in Nat /\ e[K] \in Nat
        /\ At(d, e[K], TailBytes) /\ InBlocks(d, K, e)
    BY DEF SendsBlocks, InBlocks, Bytes
  <1> HIDE DEF d
  <1>2. PICK mid : BlockCalls(d, e, K, mid)
    <2>1. K \in 0 .. K
      BY <1>1
    <2> QED  BY <1>1, <2>1, BlocksMean
  <1>3. Completes(d, e[K], Len(d), RebootCall) /\ RebootCall \in Calls
    BY <1>1, TailIs
  <1> DEFINE pre == StartCall \o mid
  <1>4. pre \in Calls /\ mid \in Calls /\ NoWrites(mid) /\ Framed(d, e[K], pre)
    BY <1>2 DEF BlockCalls
  <1>5. Framed(d, Len(d), pre \o RebootCall) /\ pre \o RebootCall \in Calls
    <2>1. e[K] <= Len(d)
      BY <1>1
    <2> HIDE DEF pre
    <2> QED  BY <1>1, <1>3, <1>4, <2>1, FramedStep, Joined
  <1>6. Meaning(d) = pre \o RebootCall
    <2> DEFINE m == pre \o RebootCall
    <2> HIDE DEF m
    <2> SUFFICES Meaning(d) = m
      BY DEF m
    <2>1. Agrees(d, d, Len(d))
      BY <1>1 DEF Agrees
    <2>2. m \in Calls /\ Framed(d, Len(d), m)
      BY <1>5 DEF m
    <2>3. From(d)[1] = m \o From(d)[Len(d) + 1]
      BY <1>1, <2>1, <2>2 DEF Framed
    <2>4. From(d)[Len(d) + 1] = << >>
      BY <1>1, FromIs
    <2>5. From(d)[1] = m
      BY <2>2, <2>3, <2>4, Joined
    <2> QED  BY <1>1, <2>5, FromExists
  <1>7. StartCall \in Calls /\ Len(StartCall) = 1 /\ Len(RebootCall) = 1
    BY HeadIs DEF StartCall, RebootCall, WriteCall
  <1>8. <<StartCall[1]>> = StartCall /\ <<RebootCall[1]>> = RebootCall
    BY DEF StartCall, RebootCall, WriteCall
  <1> DEFINE m == (StartCall \o mid) \o RebootCall
  <1>9. /\ Len(m) \in Nat /\ Len(m) > 1 /\ m[1] = StartCall[1] /\ m[Len(m)] = RebootCall[1]
        /\ \A i \in 2 .. Len(m) - 1 : m[i].to # "handleWrite"
    BY <1>3, <1>4, <1>7, ThreeCalls
  <1>10. Meaning(d) = m
    BY <1>6
  <1> HIDE DEF m, pre
  <1>11. /\ Len(m) > 1 /\ <<m[1]>> = StartCall /\ <<m[Len(m)]>> = RebootCall
         /\ \A i \in 2 .. Len(m) - 1 : m[i].to # "handleWrite"
    BY <1>8, <1>9
  <1> QED  BY <1>10, <1>11 DEF IsUpload, AddressesFit, StartCall, RebootCall, d
-------------------------------------------------------------------------------
(* The upload of an image.                                                 *)

BlocksOf(image) == Pieces(image, ReadBlock)
Sent(image)     == [i \in 1 .. PieceCount(Len(image), ReadBlock) |->
                       SendBytes(BlocksOf(image)[i])]
UpTo(image, k)  == HeadBytes \o Together(Sent(image), k)
Ends(image)     == [k \in 0 .. PieceCount(Len(image), ReadBlock) |-> Len(UpTo(image, k))]

\* Upload(), in these terms.
LEMMA UploadIs ==
    ASSUME NEW image \in Bytes
    PROVE  LET K == PieceCount(Len(image), ReadBlock)
           IN  /\ Upload(image).bytes = UpTo(image, K) \o TailBytes
               /\ Upload(image).waits = [k \in 1 .. K |-> Ends(image)[k]]
               /\ Upload(image).paced = TRUE
               /\ K \in Nat
  <1> DEFINE K == PieceCount(Len(image), ReadBlock)
             B == BlocksOf(image)
             G == Sent(image)
  <1>1. K \in Nat /\ Len(B) = K
    <2>1. ReadBlock \in Nat \ {0}
      BY HostConstants
    <2>2. WellCut(image, ReadBlock)
      BY <2>1, PiecesAre
    <2> QED  BY <2>2 DEF WellCut, BlocksOf
  <1>2. G = [i \in 1 .. K |-> SendBytes(B[i])]
    BY DEF Sent
  <1> DEFINE upTo(k) == HeadBytes \o FlattenSeq([i \in 1 .. k |-> SendBytes(B[i])])
  <1>3. Upload(image) = [bytes |-> upTo(Len(B)) \o TailBytes,
                         waits |-> [k \in 1 .. Len(B) |-> Len(upTo(k))],
                         paced |-> TRUE, image |-> image]
    BY DEF Upload, HeadBytes, TailBytes, BlocksOf
  <1>4. \A k \in 0 .. K : upTo(k) = UpTo(image, k)
    <2> TAKE k \in 0 .. K
    <2> HIDE DEF B, G, K
    <2>1. [i \in 1 .. k |-> SendBytes(B[i])] = [i \in 1 .. k |-> G[i]]
      <3>1. \A i \in 1 .. k : i \in 1 .. K
        BY <1>1
      <3> QED  BY <1>2, <3>1
    <2> QED  BY <2>1 DEF UpTo, Together, G
  <1> HIDE DEF B, G, upTo
  <1>5. K \in 0 .. K
    BY <1>1
  <1>6. Upload(image).bytes = UpTo(image, K) \o TailBytes
    <2>1. Upload(image).bytes = upTo(Len(B)) \o TailBytes
      BY <1>3
    <2> HIDE DEF K
    <2>2. upTo(Len(B)) = UpTo(image, K)
      BY <1>1, <1>4, <1>5
    <2> QED  BY <2>1, <2>2
  <1>7. Upload(image).waits = [k \in 1 .. K |-> Ends(image)[k]]
    <2>1. \A k \in 1 .. K : k \in 0 .. K
      BY <1>1
    <2>2. \A k \in 1 .. K : Ends(image)[k] = Len(upTo(k))
      BY <1>4, <2>1 DEF Ends
    <2>3. Upload(image).waits = [k \in 1 .. K |-> Len(upTo(k))]
      BY <1>1, <1>3
    <2> HIDE DEF K
    <2> QED  BY <2>2, <2>3
  <1>8. Upload(image).paced = TRUE
    BY <1>3
  <1> HIDE DEF K
  <1> QED  BY <1>1, <1>6, <1>7, <1>8 DEF K

\* A block is FIFO writes and an INDICATE, and at most a full block long.
LEMMA SentIs ==
    ASSUME NEW image \in Bytes, NEW k \in 1 .. PieceCount(Len(image), ReadBlock)
    PROVE  \E w : /\ Lacks(w, DataKinds) /\ w \in Bytes /\ Len(w) \in Nat
                  /\ Sent(image)[k] = w \o <<INDICATE>>
                  /\ <<INDICATE>> \in Bytes /\ Sent(image)[k] \in Bytes
                  /\ Len(Sent(image)[k]) = Len(w) + 1 /\ Len(w) + 1 <= BlockBytes
  <1> DEFINE data == BlocksOf(image)[k]
             w    == WritesOf(data)
             x    == <<INDICATE>>
  <1>1. data \in Bytes /\ Len(data) <= ReadBlock
    <2>1. ReadBlock \in Nat \ {0}
      BY HostConstants
    <2>2. WellCut(image, ReadBlock)
      BY <2>1, PiecesAre
    <2> QED  BY <2>2 DEF WellCut, BlocksOf
  <1>2. Sent(image)[k] = SendBytes(data)
    BY DEF Sent
  <1> HIDE DEF data
  <1>3. Lacks(w, DataKinds)
    BY <1>1, WritesAre
  <1>4. Len(w) + 1 <= BlockBytes
    BY <1>1, BlockSize
  <1>5. Sent(image)[k] = w \o x
    BY <1>1, <1>2, SendBytesIs
  <1>6. x \in Bytes /\ Len(x) = 1
    BY DEF INDICATE, Bytes
  <1> HIDE DEF w, x
  <1>7. w \in Bytes /\ Len(w) \in Nat /\ w \o x \in Bytes /\ Len(w \o x) = Len(w) + Len(x)
    <2>1. w \in Bytes
      BY <1>3 DEF Lacks
    <2> QED  BY <1>6, <2>1, BytesJoin
  <1>8. Len(w \o x) = Len(w) + 1
    BY <1>6, <1>7
  <1> QED  BY <1>3, <1>4, <1>5, <1>6, <1>7, <1>8 DEF x

LEMMA BytesThree ==
    ASSUME NEW x \in Bytes, NEW y \in Bytes, NEW z \in Bytes
    PROVE  x \o (y \o z) = (x \o y) \o z
  BY ConcatAssociative DEF Bytes

\* The stream grows block by block.
LEMMA UpToIs ==
    ASSUME NEW image \in Bytes
    PROVE  LET K == PieceCount(Len(image), ReadBlock)
           IN  /\ UpTo(image, 0) = HeadBytes
               /\ \A k \in 0 .. K : UpTo(image, k) \in Bytes
               /\ \A k \in 0 .. K - 1 :
                     UpTo(image, k + 1) = UpTo(image, k) \o Sent(image)[k + 1]
  <1> DEFINE K == PieceCount(Len(image), ReadBlock)
             G == Sent(image)
  <1>1. K \in Nat
    BY UploadIs
  <1>2. \A k \in 1 .. K : G[k] \in Bytes
    <2> TAKE k \in 1 .. K
    <2> QED  BY SentIs
  <1>3. HeadBytes \in Bytes
    BY HeadIs
  <1> HIDE DEF K, G
  <1>4. /\ Together(G, 0) = << >>
        /\ \A k \in 0 .. K - 1 : Together(G, k + 1) = Together(G, k) \o G[k + 1]
    BY <1>1, <1>2, TogetherIs
  <1> DEFINE S == {k \in Nat : k <= K => Together(G, k) \in Bytes}
  <1>5. 0 \in S
    <2>1. << >> \in Bytes
      BY DEF Bytes
    <2> QED  BY <1>4, <2>1
  <1>6. ASSUME NEW k \in Nat, k \in S PROVE k + 1 \in S
    <2> SUFFICES ASSUME k + 1 <= K PROVE Together(G, k + 1) \in Bytes
      OBVIOUS
    <2>1. k <= K /\ k \in 0 .. K - 1 /\ k + 1 \in 1 .. K
      BY <1>1
    <2>2. Together(G, k) \in Bytes /\ G[k + 1] \in Bytes
      BY <1>2, <1>6, <2>1
    <2>3. Together(G, k) \o G[k + 1] \in Bytes
      BY <2>2, BytesJoin
    <2> QED  BY <1>4, <2>1, <2>3
  <1>7. \A k \in Nat : k \in S
    <2> HIDE DEF S
    <2> QED  BY <1>5, <1>6, SetInduction
  <1>8. \A k \in 0 .. K : Together(G, k) \in Bytes
    BY <1>1, <1>7
  <1>9. \A k \in 0 .. K : UpTo(image, k) = HeadBytes \o Together(G, k)
    BY DEF UpTo, G
  <1>10. UpTo(image, 0) = HeadBytes
    <2>1. 0 \in 0 .. K
      BY <1>1
    <2>2. UpTo(image, 0) = HeadBytes \o << >>
      BY <1>4, <1>9, <2>1
    <2> QED  BY <1>3, <2>2, ConcatEmptySeq DEF Bytes
  <1>11. \A k \in 0 .. K : UpTo(image, k) \in Bytes
    <2> TAKE k \in 0 .. K
    <2>1. HeadBytes \o Together(G, k) \in Bytes
      BY <1>3, <1>8, BytesJoin
    <2> QED  BY <1>9, <2>1
  <1>12. ASSUME NEW k \in 0 .. K - 1 PROVE UpTo(image, k + 1) = UpTo(image, k) \o G[k + 1]
    <2>1. k \in 0 .. K /\ k + 1 \in 0 .. K /\ k + 1 \in 1 .. K
      BY <1>1
    <2> DEFINE t == Together(G, k)
               y == G[k + 1]
    <2>2. t \in Bytes /\ y \in Bytes /\ HeadBytes \in Bytes
      BY <1>2, <1>3, <1>8, <2>1
    <2>4. UpTo(image, k) = HeadBytes \o t
      BY <1>9, <2>1
    <2>6. Together(G, k + 1) = t \o y /\ UpTo(image, k + 1) = HeadBytes \o Together(G, k + 1)
      BY <1>4, <1>9, <2>1, Zenon
    <2> HIDE DEF t, y
    <2>5. HeadBytes \o (t \o y) = (HeadBytes \o t) \o y
      BY <2>2, BytesThree
    <2> QED  BY <2>4, <2>5, <2>6 DEF y
  <1> QED  BY <1>10, <1>11, <1>12 DEF K, G

\* The upload of any image is a stream in blocks.
LEMMA UploadInBlocks ==
    ASSUME NEW image \in Bytes
    PROVE  InBlocks(Upload(image).bytes, PieceCount(Len(image), ReadBlock), Ends(image))
  <1> DEFINE K == PieceCount(Len(image), ReadBlock)
             G == Sent(image)
             U(k) == UpTo(image, k)
             e == Ends(image)
             d == Upload(image).bytes
  <1>1. K \in Nat /\ d = U(K) \o TailBytes
    BY UploadIs
  <1>2. /\ U(0) = HeadBytes /\ \A k \in 0 .. K : U(k) \in Bytes
        /\ \A k \in 0 .. K - 1 : U(k + 1) = U(k) \o G[k + 1]
    BY UpToIs
  <1>3. e \in [0 .. K -> Nat] /\ \A k \in 0 .. K : e[k] = Len(U(k))
    <2>1. e = [k \in 0 .. K |-> Len(U(k))]
      BY DEF Ends
    <2>2. \A k \in 0 .. K : Len(U(k)) \in Nat
      BY <1>2 DEF Bytes
    <2> HIDE DEF e, K, U
    <2> QED  BY <2>1, <2>2
  <1>4. ASSUME NEW k \in 1 .. K
        PROVE  \E w : /\ Lacks(w, DataKinds) /\ w \in Bytes /\ Len(w) \in Nat
                      /\ G[k] = w \o <<INDICATE>>
                      /\ <<INDICATE>> \in Bytes /\ G[k] \in Bytes
                      /\ Len(G[k]) = Len(w) + 1 /\ Len(w) + 1 <= BlockBytes
    BY SentIs
  <1> HIDE DEF K, G, U, e, d
  <1>5. /\ d \in Bytes /\ Len(d) = Len(U(K)) + 3 /\ Len(U(K)) \in Nat
        /\ At(d, 0, U(K)) /\ At(d, Len(U(K)), TailBytes)
    <2>1. U(K) \in Bytes /\ TailBytes \in Bytes /\ Len(TailBytes) = 3
      BY <1>1, <1>2, TailIs
    <2>2. /\ d \in Bytes /\ Len(d) = Len(U(K)) + Len(TailBytes) /\ Len(U(K)) \in Nat
          /\ \A k \in 1 .. Len(U(K)) : d[k] = U(K)[k]
          /\ \A k \in 1 .. Len(TailBytes) : d[Len(U(K)) + k] = TailBytes[k]
      BY <1>1, <2>1, BytesJoin
    <2>3. At(d, Len(U(K)), TailBytes)
      BY <2>2 DEF At
    <2>4. At(d, 0, U(K))
      <3>1. \A k \in 1 .. Len(U(K)) : 0 + k = k
        OBVIOUS
      <3> QED  BY <2>2, <3>1 DEF At
    <2> QED  BY <2>1, <2>2, <2>3, <2>4
  <1> DEFINE S == {j \in Nat : j <= K => At(d, 0, U(K - j))}
  <1>6. 0 \in S
    <2>1. K - 0 = K
      BY <1>1
    <2> QED  BY <1>5, <2>1
  <1>7. ASSUME NEW j \in Nat, j \in S PROVE j + 1 \in S
    <2> SUFFICES ASSUME j + 1 <= K PROVE At(d, 0, U(K - (j + 1)))
      OBVIOUS
    <2>1. PICK k \in 0 .. K - 1 : k = K - (j + 1) /\ k + 1 = K - j
      BY <1>1
    <2>2. j <= K
      BY <1>1
    <2>3. At(d, 0, U(k) \o G[k + 1])
      <3>1. At(d, 0, U(k + 1))
        BY <1>7, <2>1, <2>2
      <3> QED  BY <1>2, <3>1
    <2>4. U(k) \in Bytes /\ G[k + 1] \in Bytes
      <3>1. k \in 0 .. K /\ k + 1 \in 1 .. K
        BY <1>1
      <3> QED  BY <1>2, <1>4, <3>1
    <2>5. At(d, 0, U(k))
      BY <2>3, <2>4, AtJoin
    <2> QED  BY <2>1, <2>5
  <1>8. \A j \in Nat : j \in S
    <2> HIDE DEF S
    <2> QED  BY <1>6, <1>7, SetInduction
  <1>9. \A k \in 0 .. K : At(d, 0, U(k))
    <2> TAKE k \in 0 .. K
    <2>1. K - k \in Nat /\ K - k <= K /\ K - (K - k) = k
      BY <1>1
    <2> QED  BY <1>8, <2>1
  <1>10. ASSUME NEW k \in 0 .. K - 1
         PROVE  /\ e[k] < e[k + 1] /\ e[k + 1] <= e[k] + BlockBytes
                /\ \E x : /\ Lacks(x, DataKinds) /\ At(d, e[k], x)
                          /\ e[k + 1] = e[k] + Len(x) + 1 /\ d[e[k + 1]] = INDICATE
    <2>1. k \in 0 .. K /\ k + 1 \in 0 .. K /\ k + 1 \in 1 .. K
      BY <1>1
    <2>2. PICK w : /\ Lacks(w, DataKinds) /\ w \in Bytes /\ Len(w) \in Nat
                   /\ G[k + 1] = w \o <<INDICATE>>
                   /\ <<INDICATE>> \in Bytes /\ G[k + 1] \in Bytes
                   /\ Len(G[k + 1]) = Len(w) + 1 /\ Len(w) + 1 <= BlockBytes
      BY <1>4, <2>1
    <2>3. PICK p \in Nat : p = e[k] /\ p = Len(U(k))
      BY <1>3, <2>1
    <2>4. U(k) \in Bytes /\ At(d, 0, U(k) \o G[k + 1])
      BY <1>2, <1>9, <2>1
    <2>5. At(d, p, G[k + 1])
      <3>1. At(d, 0 + Len(U(k)), G[k + 1])
        BY <2>2, <2>4, AtJoin
      <3>2. 0 + Len(U(k)) = p
        BY <2>3
      <3> QED  BY <3>1, <3>2
    <2> DEFINE x == <<INDICATE>>
    <2>6. x \in Bytes /\ Len(x) = 1 /\ x[1] = INDICATE
      BY <2>2
    <2>7. At(d, p, w \o x)
      BY <2>2, <2>5
    <2> HIDE DEF x
    <2>8. At(d, p, w) /\ At(d, p + Len(w), x)
      BY <2>2, <2>6, <2>7, AtJoin
    <2>9. d[p + Len(w) + 1] = INDICATE
      <3>1. 1 \in 1 .. Len(x)
        BY <2>6
      <3> QED  BY <2>6, <2>8, <3>1 DEF At
    <2>10. e[k + 1] = p + Len(w) + 1
      <3>1. Len(U(k) \o G[k + 1]) = Len(U(k)) + Len(G[k + 1])
        BY <2>2, <2>4, BytesJoin
      <3>2. e[k + 1] = Len(U(k + 1)) /\ U(k + 1) = U(k) \o G[k + 1]
        BY <1>2, <1>3, <2>1
      <3> QED  BY <2>2, <2>3, <3>1, <3>2
    <2>11. BlockBytes \in Nat
      <3>1. << >> \in Bytes /\ Len(<< >>) <= ReadBlock
        BY HostConstants DEF Bytes
      <3> QED  BY <3>1, BlockSize
    <2>12. e[k] < e[k + 1] /\ e[k + 1] <= e[k] + BlockBytes
      BY <2>2, <2>3, <2>10, <2>11
    <2> QED  BY <2>2, <2>3, <2>8, <2>9, <2>10, <2>12
  <1>11. e[0] = 6
    <2>1. 0 \in 0 .. K
      BY <1>1
    <2> QED  BY <1>2, <1>3, <2>1, HeadIs
  <1>12. At(d, 0, HeadBytes)
    <2>1. 0 \in 0 .. K
      BY <1>1
    <2> QED  BY <1>2, <1>9, <2>1
  <1>13. e[K] = Len(U(K))
    <2>1. K \in 0 .. K
      BY <1>1
    <2> QED  BY <1>3, <2>1
  <1>14. InBlocks(d, K, e)
    BY <1>1, <1>3, <1>5, <1>10, <1>11, <1>12, <1>13 DEF InBlocks
  <1> QED  BY <1>14 DEF d, K, e

(***************************************************************************)
(* Whatever image the host program uploads, it keeps pace with the device  *)
(* and means an address, data and a reset, if two blocks of it fit in the  *)
(* ring and the addresses in a uint32_t (bootload_firmware.py:149-219).    *)
(***************************************************************************)
THEOREM UploadsKeepPace ==
    ASSUME NEW image \in Bytes, 2 * BlockBytes + 6 < BufferSize,
           AddressesFit(Upload(image))
    PROVE  /\ IsHost(Upload(image)) /\ KeepsPace(Upload(image))
           /\ IsUpload(Upload(image))
  <1> DEFINE h == Upload(image)
             K == PieceCount(Len(image), ReadBlock)
             e == Ends(image)
  <1>1. h.paced = TRUE /\ h.waits = [k \in 1 .. K |-> e[k]]
    BY UploadIs
  <1>2. InBlocks(h.bytes, K, e)
    BY UploadInBlocks
  <1>3. BlockBytes \in Nat /\ BlockBytes >= 4
    <2>1. << >> \in Bytes /\ Len(<< >>) <= ReadBlock
      BY HostConstants DEF Bytes
    <2> QED  BY <2>1, BlockSize
  <1> HIDE DEF h, K, e
  <1>4. SendsBlocks(h, K, e)
    BY <1>1, <1>2 DEF SendsBlocks
  <1>5. h.paced /\ h.paced \in BOOLEAN
    BY <1>1
  <1>6. IsHost(h)
    BY <1>4, <1>5, SendsWhole
  <1>7. KeepsPace(h)
    BY <1>3, <1>4, <1>5, BlocksKeepPace
  <1>8. IsUpload(h)
    <2>1. AddressesFit(h)
      BY DEF h
    <2> QED  BY <1>4, <1>5, <2>1, BlocksAreUpload
  <1> QED  BY <1>6, <1>7, <1>8 DEF h
=================================================================================
