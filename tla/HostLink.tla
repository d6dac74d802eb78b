------------------------------- MODULE HostLink -------------------------------
(***************************************************************************)
(* The byte stream from the USB host to the device, as used by the         *)
(* application (main2.cpp:903-926) and by the bootloader                   *)
(* (bootloader.cpp:387-424): StreamFIFO, a ring filled by the USB          *)
(* interrupt and drained by the main loop, and CommandParser, which cuts   *)
(* the stream into commands and calls a handler for each.                  *)
(*                                                                         *)
(* One step of the interrupt is a whole packet; the main loop takes one    *)
(* round of the parser's loop at a time, so a packet may arrive between    *)
(* any two.  Handlers belong to the modules that extend this one: they     *)
(* join their effect to the actions below, which record each call.         *)
(***************************************************************************)
EXTENDS Integers, Sequences, FiniteSets, SequencesExt

CONSTANTS
    BufferSize,     \* cmdInputFIFO.bufferSize, a power of 2
    PacketMax,      \* bytes of one USB packet
    Streams         \* what hosts may send: [bytes, waits, paced]

(***************************************************************************)
(* A host writes "bytes".  After the first waits[k] of them it goes on     *)
(* only when it has received its k-th reply to INDICATE.  A paced host     *)
(* never has more than the ring holds under way (see KeepsPace).           *)
(***************************************************************************)
IsHost(h) ==
    /\ h.bytes \in Seq(0 .. 255) /\ h.paced \in BOOLEAN
    /\ h.waits \in Seq(1 .. Len(h.bytes))
    /\ \A j, k \in 1 .. Len(h.waits) : j <= k => h.waits[j] <= h.waits[k]

ASSUME LinkAssumption ==
    /\ BufferSize \in Nat /\ BufferSize > 1
    /\ PacketMax \in Nat \ {0}
    /\ \A h \in Streams : IsHost(h)

VARIABLES
    buffer, wpos, rpos,     \* StreamFIFO
    rdWPos,                 \* drain(): the snapshot of wpos
    pc,                     \* "idle", or in handleInput(): "resume", "parse"
    s, end,                 \* handleInput(): the rest of the chunk in the buffer
    rest,                   \* drain(): bytes of the second chunk, from 0 on
    cmdPhase, cmdOpcode, cmdAddress, cmdStartAddress, cmdEndAddress,
    writeFIFOBytesLeft,     \* CommandParser
    registers,              \* the registers written so far; others are 0
    stream,                 \* the host's bytes; never changes
    arrived,                \* how many of them have been received
    accepted,               \* history: the received bytes that were stored
    consumed,               \* history: how many of those have been parsed
    replies,                \* history: replies to INDICATE
    calls                   \* history: what the handlers were called with

ring     == <<buffer, wpos, rpos>>
draining == <<rdWPos, pc, s, end, rest>>
command  == <<cmdPhase, cmdOpcode, cmdAddress, cmdStartAddress, cmdEndAddress>>
parser   == <<command, writeFIFOBytesLeft>>
host     == <<stream, arrived, accepted>>
linkVars == <<ring, draining, parser, registers, host, consumed, replies, calls>>

-------------------------------------------------------------------------------
(* The opcodes of command_parser.hpp:5-20.                                 *)

NOP       == \h00
INDICATE  == \h0d
READS     == \h10 .. \h13
READFIFO  == \h18
WRITE     == \h20
WRITEWIDE == \h21 .. \h23
WRITEFIFO == \h28

\* Bytes of the register read or written by an opcode.
Width(op) == CASE op \in {\h10, \h20} -> 1
               [] op \in {\h11, \h21} -> 2
               [] op \in {\h12, \h22} -> 4
               [] op \in {\h13, \h23} -> 8

\* A uint8_t.
Byte(n) == n % 256

Reg(r, a) == IF a \in DOMAIN r THEN r[a] ELSE 0

SetReg(r, a, v) == [x \in DOMAIN r \cup {a} |-> IF x = a THEN v ELSE r[x]]

\* The registers a write of n bytes at address has set.
RegBytes(r, a, n) == [i \in 1 .. n |-> Reg(r, Byte(a + i - 1))]

-------------------------------------------------------------------------------
(* The calls of the handlers.  Data written to a FIFO is recorded byte by  *)
(* byte: in how many calls it comes is the parser's own affair.            *)

SendCall(a, n)        == <<[to |-> "send", address |-> a, data |-> <<n>>]>>
ReplyCall             == <<[to |-> "reply", address |-> 0, data |-> <<>>]>>
ReadFIFOCall(a, n)    == <<[to |-> "handleReadFIFO", address |-> a, data |-> <<n>>]>>
WriteCall(a, d)       == <<[to |-> "handleWrite", address |-> a, data |-> d]>>
WriteFIFOCall(a, n)   == <<[to |-> "handleWriteFIFO", address |-> a, data |-> <<n>>]>>
FIFOBytes(a, d) ==
    [i \in 1 .. Len(d) |-> [to |-> "fifo", address |-> a, data |-> <<d[i]>>]]

(***************************************************************************)
(* What a stream of bytes means, read off the table in                     *)
(* command_parser.hpp:5-20 without regard to buffers: the calls it should  *)
(* cause.  A command that is not complete causes none, except that the     *)
(* bytes written to a FIFO are passed on as they come.  Command has those  *)
(* of the command at place i and, from[j], of what begins at place j.      *)
(***************************************************************************)
Command(b, from, i) ==
    LET Has(n)   == i + n - 1 <= Len(b)
        Then(n)  == from[i + n]
        op       == b[i]
        Param(n) == b[i + n]
    IN  IF i > Len(b) THEN <<>>
        ELSE CASE op = NOP -> Then(1)
               [] op = INDICATE -> ReplyCall \o Then(1)
               [] op \in READS ->
                     IF Has(2)
                     THEN SendCall(Param(1), Width(op)) \o Then(2)
                     ELSE <<>>
               [] op = READFIFO ->
                     IF Has(3)
                     THEN ReadFIFOCall(Param(1), Param(2)) \o Then(3)
                     ELSE <<>>
               [] op \in {WRITE} \cup WRITEWIDE ->
                     IF Has(2 + Width(op))
                     THEN WriteCall(Param(1),
                                    SubSeq(b, i + 2, i + 1 + Width(op)))
                              \o Then(2 + Width(op))
                     ELSE <<>>
               [] op = WRITEFIFO ->
                     IF Has(3)
                     THEN WriteFIFOCall(Param(1), Param(2))
                          \o (IF Has(3 + Param(2))
                              THEN FIFOBytes(Param(1), SubSeq(b, i + 3,
                                                      i + 2 + Param(2)))
                                       \o Then(3 + Param(2))
                              ELSE FIFOBytes(Param(1),
                                             SubSeq(b, i + 3, Len(b))))
                     ELSE <<>>
               [] OTHER -> IF Has(3) THEN Then(3) ELSE <<>>

Meaning(b) ==
    LET From[i \in 1 .. Len(b) + 1] == Command(b, From, i) IN From[1]

\* The replies to INDICATE among the calls k, and in what n bytes of b mean.
RepliesIn(k)    == Cardinality({i \in 1 .. Len(k) : k[i].to = "reply"})
RepliesTo(b, n) == RepliesIn(Meaning(SubSeq(b, 1, n)))

-------------------------------------------------------------------------------
(* Plausible mistakes in the operators below; the project's mutants.       *)

SpaceLeftReversed(r, w)    == (w - r - 1) % BufferSize
HasBytesAhead(r, w)        == w > r
ReleasedByNow(snapshot, w) == w

-------------------------------------------------------------------------------
(* The host and the USB interrupt.                                         *)

\* How many bytes a host has sent after n replies: all up to the one it is
\* waiting for.
ReleasedAfter(h, n) == IF n < Len(h.waits) THEN h.waits[n + 1] ELSE Len(h.bytes)

Released == ReleasedAfter(stream, replies)

(***************************************************************************)
(* A paced host: once drain() has released the first d bytes, the main     *)
(* loop may be up to byte a of what could be sent on the replies to those, *)
(* and what it can be sent on the replies to a has to fit next to what is  *)
(* not released.                                                           *)
(***************************************************************************)
KeepsPace(h) ==
    \A d \in 0 .. Len(h.bytes) :
        \A a \in d .. ReleasedAfter(h, RepliesTo(h.bytes, d)) :
            ReleasedAfter(h, RepliesTo(h.bytes, a)) - d < BufferSize

ASSUME PacedAssumption == \A h \in Streams : h.paced => KeepsPace(h)

\* (wrRPos - wrWPos - 1) & bufferSizeMask
SpaceLeft(r, w) == (r - w - 1) % BufferSize

\* A packet of n bytes is received: StreamFIFO::input().  What does not fit is
\* dropped.
Input(n) ==
    LET len    == IF n > SpaceLeft(rpos, wpos) THEN SpaceLeft(rpos, wpos) ELSE n
        stored == SubSeq(stream.bytes, arrived + 1, arrived + len)
    IN  /\ arrived + n <= Released
        /\ buffer' = [i \in 0 .. BufferSize - 1 |->
                          LET k == (i - wpos) % BufferSize
                          IN  IF k < len THEN stored[k + 1] ELSE buffer[i]]
        /\ wpos' = (wpos + len) % BufferSize
        /\ arrived' = arrived + n
        /\ accepted' = accepted \o stored
        /\ UNCHANGED <<rpos, draining, parser, registers, stream, consumed,
                       replies, calls>>

-------------------------------------------------------------------------------
(* StreamFIFO::drain(), in the main loop.                                  *)

\* Where handleInput() begins: with what is left of a FIFO write, if anything.
EntryPoint == IF writeFIFOBytesLeft > 0 THEN "resume" ELSE "parse"

\* rdRPos == rdWPos: the ring is empty.
HasBytes(r, w) == r # w

\* drain() finds bytes and hands the first or only chunk to handleInput().
BeginDrain ==
    /\ pc = "idle" /\ HasBytes(rpos, wpos)
    /\ rdWPos' = wpos
    /\ s' = rpos
    /\ IF wpos > rpos THEN end' = wpos /\ rest' = 0
                      ELSE end' = BufferSize /\ rest' = wpos
    /\ pc' = EntryPoint
    /\ UNCHANGED <<ring, parser, registers, host, consumed, replies, calls>>

\* handleInput() is at the end of the first chunk: the second, from the start
\* of the buffer.
NextChunk ==
    /\ pc = "parse" /\ s = end /\ rest > 0
    /\ s' = 0 /\ end' = rest /\ rest' = 0
    /\ pc' = EntryPoint
    /\ UNCHANGED <<ring, rdWPos, parser, registers, host, consumed, replies,
                   calls>>

\* rpos = rdWPos, in terms of the snapshot and the present wpos.
RPosAfter(snapshot, w) == snapshot

\* drain() releases what it has handed over.
EndDrain ==
    /\ pc = "parse" /\ s = end /\ rest = 0
    /\ rpos' = RPosAfter(rdWPos, wpos)
    /\ pc' = "idle"
    /\ UNCHANGED <<buffer, wpos, rdWPos, s, end, rest, parser, registers, host,
                   consumed, replies, calls>>

-------------------------------------------------------------------------------
(* CommandParser::handleInput(): one action per way through its loop.      *)

\* handleInput() moves past n bytes and makes the calls made.
Take(n, made) ==
    /\ s' = s + n /\ consumed' = consumed + n
    /\ calls' = calls \o made
    /\ replies' = replies + (IF made = ReplyCall THEN 1 ELSE 0)
    /\ UNCHANGED <<ring, rdWPos, end, rest, host>>

\* n bytes of the chunk, k bytes ahead.
Ahead(k, n) == [i \in 1 .. n |-> buffer[s + k + i - 1]]

AtPhase(n) == pc = "parse" /\ s < end /\ cmdPhase = n

c == buffer[s]

\* The first byte of a command.  NOP and INDICATE are complete.
Opcode ==
    /\ AtPhase(0)
    /\ cmdOpcode' = c
    /\ cmdPhase' = IF c \in {NOP, INDICATE} THEN 0 ELSE 1
    /\ Take(1, IF c = INDICATE THEN ReplyCall ELSE <<>>)
    /\ UNCHANGED <<pc, cmdAddress, cmdStartAddress, cmdEndAddress,
                   writeFIFOBytesLeft, registers>>

\* cmdEndAddress, a uint8_t: address n bytes on.
EndAddress(a, n) == Byte(a + n)

\* The second byte, an address.  Reads are complete.
Address ==
    /\ AtPhase(1)
    /\ cmdStartAddress' = c /\ cmdAddress' = c
    /\ cmdEndAddress' = IF cmdOpcode \in WRITEWIDE
                        THEN EndAddress(c, Width(cmdOpcode))
                        ELSE cmdEndAddress
    /\ cmdPhase' = IF cmdOpcode \in READS THEN 0 ELSE 2
    /\ Take(1, IF cmdOpcode \in READS THEN SendCall(c, Width(cmdOpcode))
                                      ELSE <<>>)
    /\ UNCHANGED <<pc, cmdOpcode, writeFIFOBytesLeft, registers>>

\* The third byte of READFIFO, and of an opcode unknown to the parser.
Parameter ==
    /\ AtPhase(2)
    /\ cmdOpcode \notin {WRITE, WRITEFIFO} \cup WRITEWIDE
    /\ cmdPhase' = 0
    /\ Take(1, IF cmdOpcode = READFIFO THEN ReadFIFOCall(cmdAddress, c)
                                       ELSE <<>>)
    /\ UNCHANGED <<pc, cmdOpcode, cmdAddress, cmdStartAddress, cmdEndAddress,
                   writeFIFOBytesLeft, registers>>

\* A value byte of a register write that needs more.
WriteMore ==
    /\ AtPhase(2) /\ cmdOpcode \in WRITEWIDE
    /\ Byte(cmdAddress + 1) # cmdEndAddress
    /\ registers' = SetReg(registers, cmdAddress, c)
    /\ cmdAddress' = Byte(cmdAddress + 1)
    /\ Take(1, <<>>)
    /\ UNCHANGED <<pc, cmdPhase, cmdOpcode, cmdStartAddress, cmdEndAddress,
                   writeFIFOBytesLeft>>

\* The last value byte of a register write.
WriteLast ==
    /\ AtPhase(2) /\ cmdOpcode \in {WRITE} \cup WRITEWIDE
    /\ cmdOpcode \in WRITEWIDE => Byte(cmdAddress + 1) = cmdEndAddress
    /\ registers' = SetReg(registers, cmdAddress, c)
    /\ cmdAddress' = IF cmdOpcode = WRITE THEN cmdAddress ELSE Byte(cmdAddress + 1)
    /\ cmdPhase' = 0
    /\ Take(1, LET first == IF cmdOpcode = WRITE THEN cmdAddress
                                                 ELSE cmdStartAddress
               IN  WriteCall(first, RegBytes(registers', first, Width(cmdOpcode))))
    /\ UNCHANGED <<pc, cmdOpcode, cmdStartAddress, cmdEndAddress,
                   writeFIFOBytesLeft>>

\* What remains when n of total bytes are in the chunk.
LeftAfter(total, n) == total - n

\* The size byte of a FIFO write: all its data in this chunk, or the first part.
FirstBytes == Ahead(1, IF c <= end - s - 1 THEN c ELSE end - s - 1)

StartWriteFIFO ==
    /\ AtPhase(2) /\ cmdOpcode = WRITEFIFO
    /\ cmdPhase' = 0
    /\ writeFIFOBytesLeft' = IF Len(FirstBytes) = c THEN writeFIFOBytesLeft
                             ELSE LeftAfter(c, Len(FirstBytes))
    /\ Take(1 + Len(FirstBytes),
            WriteFIFOCall(cmdAddress, c) \o FIFOBytes(cmdAddress, FirstBytes))
    /\ UNCHANGED <<pc, cmdOpcode, cmdAddress, cmdStartAddress, cmdEndAddress>>

\* A chunk that begins with the data of an earlier FIFO write.
ResumedBytes ==
    Ahead(0, IF writeFIFOBytesLeft <= end - s THEN writeFIFOBytesLeft ELSE end - s)

ResumeWriteFIFO ==
    /\ pc = "resume"
    /\ writeFIFOBytesLeft' = LeftAfter(writeFIFOBytesLeft, Len(ResumedBytes))
    /\ Take(Len(ResumedBytes), FIFOBytes(cmdAddress, ResumedBytes))
    /\ pc' = "parse"
    /\ UNCHANGED command

-------------------------------------------------------------------------------
LinkInit ==
    /\ buffer = [i \in 0 .. BufferSize - 1 |-> 0] /\ wpos = 0 /\ rpos = 0
    /\ rdWPos = 0 /\ pc = "idle" /\ s = 0 /\ end = 0 /\ rest = 0
    /\ cmdPhase = 0 /\ cmdOpcode = 0
    /\ cmdAddress = 255 /\ cmdEndAddress = 255 /\ cmdStartAddress = 0
    /\ writeFIFOBytesLeft = 0
    /\ registers = <<>>
    /\ stream \in Streams /\ arrived = 0
    /\ accepted = <<>> /\ consumed = 0 /\ replies = 0 /\ calls = <<>>

\* The steps of the main loop in which no FIFO data is handed over and no
\* register has been written.
Parsing == BeginDrain \/ NextChunk \/ EndDrain \/ Opcode \/ Address \/ Parameter
               \/ WriteMore

-------------------------------------------------------------------------------
(***************************************************************************)
(* The ring's positions and the parser's variables stay in their ranges,   *)
(* and while data of a FIFO write is owed the parser is between commands.  *)
(***************************************************************************)
LinkTypeOK ==
    /\ buffer \in [0 .. BufferSize - 1 -> 0 .. 255]
    /\ {wpos, rpos, rdWPos, rest} \subseteq 0 .. BufferSize - 1
    /\ pc \in {"idle", "resume", "parse"}
    /\ s \in 0 .. end /\ end \in 0 .. BufferSize
    /\ cmdPhase \in 0 .. 2
    /\ {cmdOpcode, cmdAddress, cmdStartAddress, cmdEndAddress} \subseteq 0 .. 255
    /\ writeFIFOBytesLeft \in 0 .. 255
    /\ writeFIFOBytesLeft > 0 => cmdPhase = 0
    /\ consumed <= Len(accepted) /\ Len(accepted) <= arrived

(***************************************************************************)
(* Whatever packets the stream comes in, wherever the ring wraps and       *)
(* whenever the interrupt adds to it, the handlers have been called with   *)
(* exactly what the bytes parsed so far mean (command_parser.hpp:5-20):    *)
(* framing is never lost, no byte is skipped, repeated or overwritten      *)
(* before it is read.                                                      *)
(***************************************************************************)
CallsAreMeaning == calls = Meaning(SubSeq(accepted, 1, consumed))

(***************************************************************************)
(* A host that waits for the reply to INDICATE after each block, as        *)
(* bootload_firmware.py:203-208 does, loses nothing although input() drops *)
(* what does not fit.  The reply leaves before drain() has released the    *)
(* block's bytes, so two blocks have to fit.                               *)
(***************************************************************************)
NothingLost == stream.paced => Len(accepted) = arrived

(***************************************************************************)
(* Bytes are dropped only when the ring is left full to its last usable    *)
(* slot (stream_fifo.cpp:8-9).                                             *)
(***************************************************************************)
DroppedOnlyWhenFull ==
    [][Len(accepted') - Len(accepted) < arrived' - arrived
         => (wpos' + 1) % BufferSize = rpos]_linkVars
===============================================================================
