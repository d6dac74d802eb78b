------------------------------ MODULE Bootloader ------------------------------
(***************************************************************************)
(* The bootloader (bootloader.cpp): the handlers behind the command parser *)
(* that write firmware into flash and reset the device, and the host       *)
(* program that sends it an image (bootload_firmware.py).                  *)
(***************************************************************************)
EXTENDS HostLink

CONSTANTS
    UserFlash, UserFlashEnd,    \* USER_CODE_FLASH, USER_CODE_FLASH_END
    PageSize,                   \* FLASH_PAGESIZE, a power of 2
    SendBlock,                  \* bytes of one FIFO write of the host (255)
    ReadBlock                   \* bytes between two waits of the host (1200)

WordSize == 4

Words == {a \in UserFlash .. UserFlashEnd - 1 : a % WordSize = 0}

ASSUME BootloaderAssumption ==
    /\ {UserFlash, UserFlashEnd, PageSize} \subseteq Nat
    /\ UserFlash % PageSize = 0 /\ PageSize % WordSize = 0 /\ PageSize > 0
    /\ {SendBlock, ReadBlock} \subseteq Nat \ {0} /\ SendBlock <= 255

Old   == <<"old">>    \* a word of the firmware that was there
Blank == <<>>       \* an erased word

VARIABLES
    flash,              \* the words of the user's flash
    wordBuffer,         \* wordBuffer[0 .. wordBufferLength-1]
    bootIndicator,      \* bootloaderBootloadIndicator, once the reset is asked for
    handed              \* history: the bytes handleFlashWrite() was called with

boot     == <<flash, wordBuffer, bootIndicator, handed>>
bootVars == <<linkVars, boot>>

NotReset == <<>>
Reset    == bootIndicator # NotReset

-------------------------------------------------------------------------------
(* The registers 0xe0 and 0xe8 as uint32_t.                                *)

FLASHSTART == \he0
FLASHFIFO  == \he4
USERARG    == \he8
REBOOT     == \hef

Uint32(b) == b[1] + 256 * b[2] + 65536 * b[3] + 16777216 * b[4]

Uint32Bytes(n) == <<n % 256, (n \div 256) % 256, (n \div 65536) % 256,
                    (n \div 16777216) % 256>>

FlashWriteStart(r) == Uint32(RegBytes(r, FLASHSTART, 4))

SetFlashWriteStart(r, n) ==
    [a \in DOMAIN r \cup FLASHSTART .. FLASHSTART + 3 |->
        IF a \in FLASHSTART .. FLASHSTART + 3 THEN Uint32Bytes(n)[a - FLASHSTART + 1]
                                              ELSE r[a]]

-------------------------------------------------------------------------------
(* Plausible mistakes in the operators below; the project's mutants.       *)

PageErasedAfter(a, w)   == \E x \in w : x = a - (a % PageSize) + WordSize
StartAfterOne(n, words) == n + WordSize

-------------------------------------------------------------------------------
(* handleFlashWrite(), handleFlashWriteWord().                             *)

\* The words and the leftover bytes of a sequence of bytes.
WordsOf(b) ==
    [i \in 1 .. Len(b) \div WordSize |-> SubSeq(b, WordSize * (i - 1) + 1, WordSize * i)]
Leftover(b) == SubSeq(b, WordSize * (Len(b) \div WordSize) + 1, Len(b))

\* "if(data >= end) return": the data goes into a word buffer that was not
\* empty, and at most fills it.
HeldBack(b, d) == b # <<>> /\ Len(b) + Len(d) <= WordSize

\* The page of address a is erased when its first word is among those written.
PageErased(a, written) == \E x \in written : x = a - (a % PageSize)

StartAfter(n, words) == n + WordSize * Len(words)

\* The flash after words were written from address n on.  A word that is not
\* blank cannot be programmed.
Programmed(f, n, words) ==
    LET written == {n + WordSize * (i - 1) : i \in 1 .. Len(words)}
    IN  [a \in Words |->
            LET before == IF PageErased(a, written) THEN Blank ELSE f[a]
            IN  IF a \in written /\ before = Blank
                THEN words[((a - n) \div WordSize) + 1]
                ELSE before]

\* The handler of a FIFO write: data for the flash, or nothing of interest.
HandleWriteFIFO(address, data) ==
    /\ IF address # FLASHFIFO \/ HeldBack(wordBuffer, data)
       THEN /\ wordBuffer' = IF address = FLASHFIFO THEN wordBuffer \o data
                                                    ELSE wordBuffer
            /\ UNCHANGED <<flash, registers>>
       ELSE LET words == WordsOf(wordBuffer \o data)
                n     == FlashWriteStart(registers)
            IN  /\ flash' = Programmed(flash, n, words)
                /\ wordBuffer' = Leftover(wordBuffer \o data)
                /\ registers' = SetFlashWriteStart(registers, StartAfter(n, words))
    /\ handed' = IF address = FLASHFIFO THEN handed \o data ELSE handed
    /\ UNCHANGED bootIndicator

\* The handler of a register write: 0x5e in register 0xef resets the device.
HandleWrite(address) ==
    /\ bootIndicator' = IF address = REBOOT /\ Reg(registers', REBOOT) = \h5e
                        THEN RegBytes(registers', USERARG, 4) ELSE bootIndicator
    /\ UNCHANGED <<flash, wordBuffer, handed>>

-------------------------------------------------------------------------------
(* The host program: bootload_firmware.py, without a user argument, and    *)
(* with replies that come within its time-out of two seconds.              *)

\* The pieces of at most n elements that a sequence is cut into.
Pieces(b, n) ==
    [i \in 1 .. (Len(b) + n - 1) \div n |->
        SubSeq(b, n * (i - 1) + 1, IF n * i < Len(b) THEN n * i ELSE Len(b))]

\* send_write_addr()
SendWriteAddr(n) == <<\h22, FLASHSTART>> \o Uint32Bytes(n)

\* send_bytes()
SendBytes(data) ==
    LET pieces == Pieces(data, SendBlock)
    IN  FlattenSeq([i \in 1 .. Len(pieces) |->
                       <<WRITEFIFO, FLASHFIFO, Len(pieces[i])>> \o pieces[i]])
            \o <<INDICATE>>

\* main(): the address, the image block by block with a wait after each, the
\* reset.
Upload(image) ==
    LET blocks  == Pieces(image, ReadBlock)
        upTo(k) == SendWriteAddr(UserFlash)
                       \o FlattenSeq([i \in 1 .. k |-> SendBytes(blocks[i])])
    IN  [bytes |-> upTo(Len(blocks)) \o <<WRITE, REBOOT, \h5e>>,
         waits |-> [k \in 1 .. Len(blocks) |-> Len(upTo(k))],
         paced |-> TRUE, image |-> image]

(***************************************************************************)
(* What an upload means: the address comes first and is written only once, *)
(* the reset is asked for last, no other register is written, and the      *)
(* addresses fit a uint32_t.                                               *)
(***************************************************************************)
IsUpload(h) ==
    LET m == Meaning(h.bytes)
    IN  /\ h.paced /\ (UserFlash + Len(h.bytes)) \div 16777216 < 256
        /\ Len(m) > 1
        /\ <<m[1]>> = WriteCall(FLASHSTART, Uint32Bytes(UserFlash))
        /\ <<m[Len(m)]>> = WriteCall(REBOOT, <<\h5e>>)
        /\ \A i \in 2 .. Len(m) - 1 : m[i].to # "handleWrite"

ASSUME UploadAssumption == \A h \in Streams : "image" \in DOMAIN h => IsUpload(h)

-------------------------------------------------------------------------------
Init ==
    /\ LinkInit
    /\ flash = [a \in Words |-> Old] /\ wordBuffer = <<>>
    /\ bootIndicator = NotReset /\ handed = <<>>

Receive == /\ ~Reset
           /\ \E n \in 1 .. PacketMax : Input(n)
           /\ UNCHANGED boot

\* The main loop; after the reset is asked for it executes nothing (delay(300)).
MainLoop ==
    /\ ~Reset
    /\ \/ Parsing /\ UNCHANGED boot
       \/ WriteLast /\ HandleWrite(IF cmdOpcode = WRITE THEN cmdAddress
                                                        ELSE cmdStartAddress)
       \/ StartWriteFIFO /\ HandleWriteFIFO(cmdAddress, FirstBytes)
       \/ ResumeWriteFIFO /\ HandleWriteFIFO(cmdAddress, ResumedBytes)

Next == Receive \/ MainLoop

Spec == Init /\ [][Next]_bootVars

\* Packets that were sent arrive and the main loop runs.
Fairness == WF_bootVars(Receive) /\ WF_bootVars(MainLoop)
FairSpec == Spec /\ Fairness

-------------------------------------------------------------------------------
TypeOK ==
    /\ LinkTypeOK
    /\ \A a \in Words : flash[a] \in {Old, Blank} \/ Len(flash[a]) = WordSize
    /\ Len(wordBuffer) \in 0 .. WordSize

Uploading == "image" \in DOMAIN stream

(***************************************************************************)
(* However the image is cut into FIFO writes, packets and chunks, the      *)
(* words in flash followed by the bytes in the word buffer are at all      *)
(* times what has been handed over, in place and in order, and the rest    *)
(* of the flash is old or blank (bootloader.cpp:335-385).                  *)
(***************************************************************************)
FlashHoldsHanded ==
    Uploading =>
        LET whole(a) == SubSeq(handed, a - UserFlash + 1, a - UserFlash + WordSize)
            ahead    == Len(handed) - Len(wordBuffer)
        IN  /\ ahead >= 0 /\ wordBuffer = SubSeq(handed, ahead + 1, Len(handed))
            /\ \A a \in Words : IF a - UserFlash < ahead THEN flash[a] = whole(a)
                                                         ELSE flash[a] \in {Old, Blank}

(***************************************************************************)
(* When the host has sent everything, the device is reset, with all of the *)
(* image handed to the flash: no packet and no reply is waited for for     *)
(* ever (bootload_firmware.py:199-219).                                    *)
(***************************************************************************)
UploadEnds == Uploading ~> Reset /\ handed = stream.image

(***************************************************************************)
(* A host that has had the reply after a block, for which it "waits for    *)
(* block write to complete" (bootload_firmware.py:208), finds the whole    *)
(* words of the image in flash when the device is reset.                   *)
(***************************************************************************)
ImageAtReset ==
    Uploading /\ Reset =>
        \A i \in 1 .. Len(stream.image) \div WordSize :
            flash[UserFlash + WordSize * (i - 1)] = WordsOf(stream.image)[i]

(***************************************************************************)
(* "reset protocol to known state" (bootload_firmware.py:50, 68): after    *)
(* the eight zeros a host begins with, whatever an earlier host left       *)
(* behind, the parser is between commands.                                 *)
(***************************************************************************)
KnownStateAfterZeros ==
    "zeros" \in DOMAIN stream /\ consumed = stream.zeros
        => cmdPhase = 0 /\ writeFIFOBytesLeft = 0
===============================================================================
