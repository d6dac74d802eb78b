------------------------------ MODULE EventQueue ------------------------------
(***************************************************************************)
(* FIFO<T, size> of fifo.hpp, the queue through which the interrupt        *)
(* handlers hand callbacks to the main thread (eventQueue, main2.cpp:111)  *)
(* and through which the gain calibration receives data points.  One       *)
(* reader, several writers, no lock: a writer claims a position with a     *)
(* compare-and-swap, fills the slot and then commits it, and may be        *)
(* interrupted between any two of these memory accesses.                   *)
(*                                                                         *)
(* Every access to a shared variable is one action.  A value is named by   *)
(* the call of enqueue() that brings it: <<writer, number of the call>>.   *)
(***************************************************************************)
EXTENDS Integers, Sequences

CONSTANTS Writers,      \* the contexts that call enqueue()
          Reader,       \* the context that calls readable(), read(), dequeue()
          Size,         \* the template parameter "size"
          Wraps,        \* Size * Wraps values of _wpos2 (2^32 in the code)
          MaxCalls,     \* bound: calls of enqueue() by one writer
          CallsOf,      \* bound: calls of enqueue() by each writer
          Disciplines   \* the ways the contexts may be scheduled, see MayRun

PosRange == Size * Wraps
Slots    == 0 .. Size - 1
Actors   == Writers \cup {Reader}

ASSUME QueueAssumption ==
    /\ Reader \notin Writers
    /\ Size \in Nat /\ Size > 1
    /\ Wraps \in Nat \ {0}
    /\ MaxCalls \in Nat /\ CallsOf \in [Writers -> 0 .. MaxCalls]
    /\ Disciplines \subseteq [Actors -> Nat]

Calls  == 0 .. MaxCalls
Values == Writers \X Calls
NoValue == <<>>

VARIABLES
    elements,       \* elements[], the slots
    elementStatus,  \* elementStatus[]: 1 when the slot is committed
    rpos,           \* _rpos
    wpos2,          \* _wpos2
    wpc,            \* where each writer is in enqueue()
    myWPos2,        \* the writer's local myWPos2
    call,           \* the number of the writer's current or last call
    rpc,            \* where the reader is in its read(), dequeue() sequence
    callback,       \* the copy the reader has taken of the head element
    priority,       \* scheduling priority of each context; never changes
    claims,         \* history: the values in the order of their claims
    delivered,      \* history: the values the reader has taken out
    snap,           \* history: claims made when the writer read _wpos2
    sawFull         \* history: the FIFO was full at a moment of the call

ring    == <<elements, elementStatus, rpos, wpos2>>
writing == <<wpc, myWPos2, call>>
reading == <<rpc, callback>>
history == <<claims, delivered, snap, sawFull>>
vars    == <<ring, writing, reading, priority, history>>

WriterSteps == {"idle", "snapshot", "check", "cas", "write", "commit"}
ReaderSteps == {"idle", "readable", "copied", "cleared", "aborted"}

-------------------------------------------------------------------------------
(* Index arithmetic. *)

\* x & sizeMask, for a position x.
Slot(x) == x % Size

\* The elements claimed and not yet dequeued.
Held == Len(claims) - Len(delivered)

\* A writer whose claim has succeeded and whose element is not committed.
Owns(w) == wpc[w] \in {"write", "commit"}

\* A writer that will compare its copy of _wpos2 with the shared one.
Comparing(w) == wpc[w] \in {"check", "cas"}

Value(w) == <<w, call[w]>>

-------------------------------------------------------------------------------
(***************************************************************************)
(* Scheduling.  A context runs unless one of strictly higher priority is   *)
(* inside enqueue().  With all priorities equal the contexts are threads,  *)
(* interleaved at will; with distinct ones they are nested interrupt       *)
(* handlers over a main thread, as in main2.cpp:256-266, where a handler   *)
(* runs to its end before what it interrupted goes on.                     *)
(***************************************************************************)
MayRun(a) == \A w \in Writers : wpc[w] # "idle" => priority[a] >= priority[w]

\* The reader is the lowest context and the writers are above it.
Nested == \A w \in Writers : priority[Reader] < priority[w]

-------------------------------------------------------------------------------
(* Plausible mistakes in the operators below; the project's mutants.       *)

FullAtUnmasked(w, r)     == w + 1 = r
FullAtEarly(w, r)        == Slot(w + 1) = r \/ Slot(w + 2) = r
SamePositionMasked(a, b) == Slot(a) = Slot(b)
CommittedIgnored(s)      == TRUE
CommitForgotten(w)       == UNCHANGED elementStatus
NextRPosUnmasked(r)      == r + 1

-------------------------------------------------------------------------------
(* The tests and assignments of fifo.hpp.                                  *)

\* ((myWPos2+1) & sizeMask) == myRPos
FullAt(w, r) == Slot(w + 1) = r

\* The comparison of the compare-and-swap: all 32 bits of the position.
SamePosition(a, b) == a = b

\* (_rpos+1) & sizeMask
NextRPos(r) == Slot(r + 1)

\* elementStatus[s] != 0
Committed(s) == elementStatus[s] = 1

\* readable().  Its two reads are one step: only the reader moves _rpos, so
\* that a nonempty queue stays so, and only the reader clears a status.
Readable == Slot(wpos2) # rpos /\ Committed(rpos)

\* endEnqueue(index)
SetStatus(w) == elementStatus' = [elementStatus EXCEPT ![Slot(myWPos2[w])] = 1]

-------------------------------------------------------------------------------
(* A writer: enqueue() with beginEnqueue() and endEnqueue().               *)

StartEnqueue(w) ==
    /\ wpc[w] = "idle" /\ MayRun(w)
    /\ call[w] < CallsOf[w]
    /\ call' = [call EXCEPT ![w] = @ + 1]
    /\ wpc' = [wpc EXCEPT ![w] = "snapshot"]
    /\ sawFull' = [sawFull EXCEPT ![w] = (Held = Size - 1)]
    /\ UNCHANGED <<ring, myWPos2, reading, priority, claims, delivered, snap>>

\* myWPos2 = _wpos2
SnapshotWPos(w) ==
    /\ wpc[w] = "snapshot" /\ MayRun(w)
    /\ myWPos2' = [myWPos2 EXCEPT ![w] = wpos2]
    /\ snap' = [snap EXCEPT ![w] = Len(claims)]
    /\ wpc' = [wpc EXCEPT ![w] = "check"]
    /\ UNCHANGED <<ring, call, reading, priority, claims, delivered, sawFull>>

\* myRPos = _rpos; the FIFO looks full and the call returns without effect.
RefuseFull(w) ==
    /\ wpc[w] = "check" /\ MayRun(w)
    /\ FullAt(myWPos2[w], rpos)
    /\ wpc' = [wpc EXCEPT ![w] = "idle"]
    /\ UNCHANGED <<ring, myWPos2, call, reading, priority, history>>

\* myRPos = _rpos; there is room.
FindRoom(w) ==
    /\ wpc[w] = "check" /\ MayRun(w)
    /\ ~FullAt(myWPos2[w], rpos)
    /\ wpc' = [wpc EXCEPT ![w] = "cas"]
    /\ UNCHANGED <<ring, myWPos2, call, reading, priority, history>>

\* Bound: no writer sleeps between its snapshot and its compare-and-swap while
\* the others claim PosRange positions (2^32 enqueues during one interrupt).
WithinOneTurn(w) ==
    \A v \in Writers \ {w} :
        Comparing(v) => Len(claims) + 1 - snap[v] < PosRange

\* The compare-and-swap succeeds: the position belongs to the writer.
ClaimSlot(w) ==
    /\ wpc[w] = "cas" /\ MayRun(w)
    /\ SamePosition(wpos2, myWPos2[w])
    /\ WithinOneTurn(w)
    /\ wpos2' = (myWPos2[w] + 1) % PosRange
    /\ claims' = Append(claims, Value(w))
    /\ snap' = [snap EXCEPT ![w] = Len(claims)]
    /\ sawFull' = [v \in Writers |->
                       sawFull[v] \/ (wpc[v] # "idle" /\ Held + 1 = Size - 1)]
    /\ wpc' = [wpc EXCEPT ![w] = "write"]
    /\ UNCHANGED <<elements, elementStatus, rpos, myWPos2, call, reading,
                   priority, delivered>>

\* The compare-and-swap fails: goto retry1.
RetryClaim(w) ==
    /\ wpc[w] = "cas" /\ MayRun(w)
    /\ ~SamePosition(wpos2, myWPos2[w])
    /\ wpc' = [wpc EXCEPT ![w] = "snapshot"]
    /\ UNCHANGED <<ring, myWPos2, call, reading, priority, history>>

\* at(i) = value
WriteElement(w) ==
    /\ wpc[w] = "write" /\ MayRun(w)
    /\ elements' = [elements EXCEPT ![Slot(myWPos2[w])] = Value(w)]
    /\ wpc' = [wpc EXCEPT ![w] = "commit"]
    /\ UNCHANGED <<elementStatus, rpos, wpos2, myWPos2, call, reading,
                   priority, history>>

EndEnqueue(w) ==
    /\ wpc[w] = "commit" /\ MayRun(w)
    /\ SetStatus(w)
    /\ wpc' = [wpc EXCEPT ![w] = "idle"]
    /\ UNCHANGED <<elements, rpos, wpos2, myWPos2, call, reading, priority,
                   history>>

Writer(w) ==
    \/ StartEnqueue(w) \/ SnapshotWPos(w) \/ RefuseFull(w) \/ FindRoom(w)
    \/ ClaimSlot(w) \/ RetryClaim(w) \/ WriteElement(w) \/ EndEnqueue(w)

-------------------------------------------------------------------------------
(* The reader: readable(), read() and dequeue() as application_doEvents     *)
(* and the main loop call them.                                            *)

SeeReadable ==
    /\ rpc = "idle" /\ MayRun(Reader)
    /\ Readable
    /\ rpc' = "readable"
    /\ UNCHANGED <<ring, writing, callback, priority, history>>

\* auto callback = eventQueue.read()
CopyHead ==
    /\ rpc = "readable" /\ MayRun(Reader)
    /\ callback' = elements[rpos]
    /\ rpc' = "copied"
    /\ UNCHANGED <<ring, writing, priority, history>>

\* dequeue(): if(!readable()) abort(), else elementStatus[_rpos] = 0.
ClearStatus ==
    /\ rpc = "copied" /\ MayRun(Reader)
    /\ IF Readable
       THEN /\ elementStatus' = [elementStatus EXCEPT ![rpos] = 0]
            /\ rpc' = "cleared"
       ELSE /\ rpc' = "aborted"
            /\ UNCHANGED elementStatus
    /\ UNCHANGED <<elements, rpos, wpos2, writing, callback, priority, history>>

\* dequeue(): _rpos = (_rpos+1) & sizeMask; the callback is then run.
AdvanceRPos ==
    /\ rpc = "cleared" /\ MayRun(Reader)
    /\ rpos' = NextRPos(rpos)
    /\ delivered' = Append(delivered, callback)
    /\ rpc' = "idle"
    /\ UNCHANGED <<elements, elementStatus, wpos2, writing, callback, priority,
                   claims, snap, sawFull>>

ReaderStep == SeeReadable \/ CopyHead \/ ClearStatus \/ AdvanceRPos

-------------------------------------------------------------------------------
Init ==
    /\ elements = [s \in Slots |-> NoValue]
    /\ elementStatus = [s \in Slots |-> 0]
    /\ rpos = 0 /\ wpos2 = 0
    /\ wpc = [w \in Writers |-> "idle"]
    /\ myWPos2 = [w \in Writers |-> 0]
    /\ call = [w \in Writers |-> 0]
    /\ rpc = "idle" /\ callback = NoValue
    /\ priority \in Disciplines
    /\ claims = <<>> /\ delivered = <<>>
    /\ snap = [w \in Writers |-> 0]
    /\ sawFull = [w \in Writers |-> FALSE]

Next == ReaderStep \/ \E w \in Writers : Writer(w)

\* An interrupt handler always runs on and the main loop always comes back to
\* its queue (main2.cpp:1724); nobody has to start another enqueue().
Fairness ==
    /\ WF_vars(ReaderStep)
    /\ \A w \in Writers : WF_vars(Writer(w) /\ ~StartEnqueue(w))

Spec == Init /\ [][Next]_vars
FairSpec == Spec /\ Fairness

-------------------------------------------------------------------------------
(* Properties.                                                             *)

TypeOK ==
    /\ elements \in [Slots -> Values \cup {NoValue}]
    /\ elementStatus \in [Slots -> {0, 1}]
    /\ rpos \in Slots
    /\ wpos2 \in 0 .. PosRange - 1
    /\ wpc \in [Writers -> WriterSteps]
    /\ myWPos2 \in [Writers -> 0 .. PosRange - 1]
    /\ call \in [Writers -> Calls]
    /\ rpc \in ReaderSteps
    /\ callback \in Values \cup {NoValue}
    /\ priority \in [Actors -> Nat]
    /\ claims \in Seq(Values)
    /\ delivered \in Seq(Values \cup {NoValue})
    /\ snap \in [Writers -> Nat]
    /\ sawFull \in [Writers -> BOOLEAN]

\* What the reader receives is what was enqueued, each value once and in the
\* order in which the positions were claimed: no value is lost, repeated,
\* overtaken or read before its writer has filled the slot (fifo.hpp:21-42,
\* 50-89).
DeliveredInOrder ==
    /\ Len(delivered) <= Len(claims)
    /\ \A n \in 1 .. Len(delivered) : delivered[n] = claims[n]

\* A slot has one user at a time: a slot a writer has claimed is claimed by no
\* other writer, holds no committed element and is not the one the reader is
\* working on (fifo.hpp:64-74).
SlotsExclusive ==
    \A w \in Writers : Owns(w) =>
        LET s == Slot(myWPos2[w]) IN
        /\ \A v \in Writers \ {w} : Owns(v) => Slot(myWPos2[v]) # s
        /\ elementStatus[s] = 0
        /\ rpc # "idle" => rpos # s

\* The test in dequeue() never fails after a successful readable(): the abort()
\* of fifo.hpp:39 is unreachable for a reader that asks first.
NeverAborts == rpc # "aborted"

\* enqueue() turns a value away only if the FIFO was full at some moment of that
\* call, as fifo.hpp:48 says ("returns (uint32_t)-1 if there is no space in the
\* FIFO"), for contexts scheduled as the firmware schedules them: the reader is
\* the main thread and the writers interrupt it.  For contexts that are threads
\* it does not hold: the write position is read before the read position.
NestedRefusalsJustified ==
    [][Nested => \A w \in Writers :
          wpc[w] = "check" /\ wpc'[w] = "idle" => sawFull[w]]_vars

\* A burst of enqueue() calls, the number of which is bounded here, is always
\* followed by a moment at which every claimed value has been delivered: no
\* element is stuck behind a slot that is never committed (main.hpp:60-63, the
\* callback will be called from the main thread).
QueueDrains == Held # 0 ~> Held = 0

-------------------------------------------------------------------------------
(***************************************************************************)
(* The inductive invariant of the proofs.  Claims are numbered from 0; the *)
(* claims Len(delivered) .. Len(claims) - 1 are in the ring.               *)
(***************************************************************************)

InRing == Len(delivered) .. Len(claims) - 1

\* Claim n is still owned by its writer.
Open(n) == \E w \in Writers : Owns(w) /\ snap[w] = n

\* The two shared indices are the two counts, reduced.
PositionsInv ==
    /\ 0 <= Held /\ Held <= Size - 1
    /\ wpos2 = Len(claims) % PosRange
    /\ rpos = Slot(Len(delivered))

\* A snapshot is less than one turn old, and one that is current and has passed
\* the check still has room.
ComparingInv ==
    \A w \in Writers : Comparing(w) =>
        /\ snap[w] <= Len(claims) /\ Len(claims) - snap[w] < PosRange
        /\ myWPos2[w] = snap[w] % PosRange
        /\ wpc[w] = "cas" /\ snap[w] = Len(claims) => Held < Size - 1

\* An owner owns a claim of its own that is in the ring.
OwnerInv ==
    \A w \in Writers : Owns(w) =>
        /\ snap[w] \in InRing
        /\ myWPos2[w] = snap[w] % PosRange
        /\ claims[snap[w] + 1] = Value(w)
        /\ wpc[w] = "commit" => elements[Slot(snap[w])] = Value(w)

DistinctInv ==
    \A v, w \in Writers : Owns(v) /\ Owns(w) /\ snap[v] = snap[w] => v = w

\* A claim in the ring that nobody owns is committed and holds its value, unless
\* the reader has just cleared it; an owned one is not committed.
EntryInv ==
    \A n \in InRing :
        IF Open(n) \/ (n = Len(delivered) /\ rpc = "cleared")
        THEN elementStatus[Slot(n)] = 0
        ELSE elementStatus[Slot(n)] = 1 /\ elements[Slot(n)] = claims[n + 1]

\* Slots outside the ring are not committed.
FreeInv ==
    \A s \in Slots : (\A n \in InRing : Slot(n) # s) => elementStatus[s] = 0

ReaderInv ==
    /\ rpc # "aborted"
    /\ rpc # "idle" => Held > 0 /\ ~Open(Len(delivered))
    /\ rpc \in {"copied", "cleared"} => callback = claims[Len(delivered) + 1]

\* A full queue has been seen by every call in progress.
FullSeenInv ==
    \A w \in Writers : wpc[w] # "idle" /\ Held = Size - 1 => sawFull[w]

\* Under nested interrupts nothing is dequeued while a call is in progress.
NestedInv ==
    Nested => \A w \in Writers : Comparing(w) => Len(delivered) <= snap[w]

IInv ==
    /\ TypeOK /\ PositionsInv /\ ComparingInv /\ OwnerInv /\ DistinctInv
    /\ EntryInv /\ FreeInv /\ ReaderInv /\ DeliveredInOrder
    /\ FullSeenInv /\ NestedInv

-------------------------------------------------------------------------------
(* The ring implements the bounded queue.                                  *)

\* The claimed and not yet dequeued entries; an entry is ready unless a writer
\* still owns it.
QueueView ==
    [i \in 1 .. Held |->
        [value |-> claims[Len(delivered) + i],
         ready |-> \A w \in Writers :
                      Owns(w) => snap[w] # Len(delivered) + i - 1]]

Abstract == INSTANCE BoundedQueue
                WITH Capacity <- Size - 1, Values <- Values,
                     queue <- QueueView, taken <- delivered

\* Every step of the ring is a step of the bounded queue or leaves it alone.
ImplementsBoundedQueue == Abstract!Spec
===============================================================================
