---------------------------- MODULE MCBootloader ----------------------------
(***************************************************************************)
(* Bootloader with a ring of 32 bytes, pages of two words, blocks of three *)
(* and four bytes; hosts that upload an image, that use every command, and *)
(* that begin after another host stopped in the middle of a command.       *)
(***************************************************************************)
EXTENDS Bootloader

\* Data that would be opcodes were the framing lost.
Image(n) == SubSeq(<<13, 40, 0, 32, 228, 5, 6, 13, 0, 40, 1, 12>>, 1, n)

Uploads == {Upload(Image(n)) : n \in {9, 12}}
OneWord == {Upload(Image(n)) : n \in {5, 8}}

\* Every kind of command; the last register of the wide write is 0x01.
Commands ==
    {<< <<NOP>>, <<\h23, 250, 1, 2, 3, 4, 5, 6, 7, 8>>, <<\h10, 1>>,
        <<WRITE, 9, 40>> >>,
     << <<WRITEFIFO, 7, 0>>, <<\h13, 1>>, <<READFIFO, \h30, 5>>, <<INDICATE>>,
        <<\h21, 9, 40, 7>> >>,
     << <<\h30, 13, 0>>, <<WRITEFIFO, 7, 3, 13, 0, 40>>, <<\h12, 9>>,
        <<WRITEFIFO, 7, 5, 0, 13, 32, 9, 1>> >>}

Mixed == {[bytes |-> FlattenSeq(k), waits |-> <<>>, paced |-> TRUE] : k \in Commands}

\* More than the ring holds, and no waiting.
Flood == {[bytes |-> <<WRITEFIFO, 7, 30>> \o [i \in 1 .. 30 |-> i] \o <<NOP, INDICATE>>,
           waits |-> <<>>, paced |-> FALSE]}

\* The host began with eight zeros after one that stopped k bytes into a command.
AfterStop(cmd, k) ==
    [bytes |-> SubSeq(cmd, 1, k) \o <<0, 0, 0, 0, 0, 0, 0, 0>> \o <<\h10, 240>>,
     waits |-> <<>>, paced |-> TRUE, zeros |-> k + 8]

Stopped == {AfterStop(<<WRITEFIFO, FLASHFIFO, 10, 1, 2>>, k) : k \in 0 .. 5}
               \cup {AfterStop(<<\h23, 16, 1>>, k) : k \in 0 .. 3}

Everything == Uploads \cup Mixed \cup Flood
=============================================================================
