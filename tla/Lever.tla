-------------------------------- MODULE Lever --------------------------------
(***************************************************************************)
(* The lever and the touch contact as the 20 Hz timer interrupt sees them  *)
(* (uihw.cpp, debouncer.hpp).  Every run of checkButtons() samples each    *)
(* contact once, debounces it, and turns what it sees into events that are *)
(* handed to the main thread.  A contact is TRUE while it is closed: the   *)
(* polarity of the pins is abstracted.                                     *)
(*                                                                         *)
(* What the user does is a level per contact and check.  "since" is not in *)
(* the code: for each contact it says what has been emitted since it was   *)
(* last reported to be closed, for the properties.                         *)
(***************************************************************************)
EXTENDS Integers, Sequences

CONSTANTS
    Jogs,                 \* the contacts that tick: lever left, lever right
    Centers,              \* the contact that reports a long press
    Touches,              \* the touch contact, which only goes down and up
    TransitionThreshold,  \* further checks a new level must last
    TickDelay,            \* checks until a lever counts as held
    TickInterval          \* tickInterval of the code

Levers   == Jogs \cup Centers
Contacts == Levers \cup Touches

ASSUME ContactsAssumption ==
    /\ Jogs \cap Centers = {}
    /\ Touches \cap Levers = {}

ASSUME TimesAssumption ==
    /\ TransitionThreshold \in Nat
    /\ TickDelay \in Nat \ {0}
    /\ TickInterval \in Nat \ {0}

VARIABLES
    state,        \* Debouncer.state of each contact
    cnt,          \* Debouncer.cnt of each contact
    tickCounter,  \* of each lever: checks held, or negative once held long
    emitted,      \* of each contact: the events of the last check, in order
    since         \* of each contact: its press so far (for the properties)

leverVars == <<state, cnt, tickCounter, emitted, since>>

EventTypes == {"Down", "Up", "Click", "LongPress", "Tick"}

-----------------------------------------------------------------------------
(* Plausible mistakes in the operators below; the project's mutants.       *)

ClickAlways(l, level) == IF level # state[l] /\ ~level THEN <<"Click">> ELSE << >>
JogStuck(l, level) ==
    LET t == tickCounter[l]
    IN  IF level = FALSE THEN 0 ELSE IF t < 0 THEN t ELSE IF t + 1 >= TickDelay THEN -1 ELSE t + 1

-----------------------------------------------------------------------------
(***************************************************************************)
(* Debouncer::checkChanged() with the level just read.                     *)
(***************************************************************************)
Changed(c, level) ==
    /\ level # state[c]
    /\ cnt[c] + 1 > TransitionThreshold

StateAfter(c, level) == IF Changed(c, level) THEN level ELSE state[c]

CntAfter(c, level) ==
    IF level = state[c] \/ Changed(c, level) THEN 0 ELSE cnt[c] + 1

(***************************************************************************)
(* The counter of a lever: it counts up to the delay, then is negative.    *)
(* Going up again the jogs start from -1, so that one step is already made *)
(* of the interval.                                                        *)
(***************************************************************************)
TickDue(l) == tickCounter[l] - 1 <= -TickInterval

TickCounterAfter(l, level) ==
    LET t == tickCounter[l]
    IN  IF ~StateAfter(l, level) THEN 0
        ELSE IF t >= 0 THEN IF t + 1 >= TickDelay THEN -1 ELSE t + 1
        ELSE IF l \in Jogs THEN IF TickDue(l) THEN -1 ELSE t - 1
        ELSE -2

(***************************************************************************)
(* The events of one contact in one check, in the order they are emitted.  *)
(***************************************************************************)
Edge(c, level) ==
    IF ~Changed(c, level) THEN << >>
    ELSE IF level THEN <<"Down">> ELSE <<"Up">>

Click(l, level) ==
    IF Changed(l, level) /\ ~level /\ tickCounter[l] >= 0
    THEN <<"Click">> ELSE << >>

Held(l, level) ==
    IF ~StateAfter(l, level) \/ tickCounter[l] >= 0 THEN << >>
    ELSE IF l \in Jogs THEN IF TickDue(l) THEN <<"Tick">> ELSE << >>
    ELSE IF tickCounter[l] = -1 THEN <<"LongPress">> ELSE << >>

EventsOf(c, level) ==
    IF c \in Touches THEN Edge(c, level)
    ELSE Edge(c, level) \o Click(c, level) \o Held(c, level)

(***************************************************************************)
(* The press of a contact so far: whether a Down opened it, for how many   *)
(* checks it has been closed, how many ticks and long presses it gave, and *)
(* how many checks ago the last one was.  The counts stop at MaxCount.     *)
(***************************************************************************)
MaxCount == TickDelay + TickInterval + 1

NoPress == [down |-> FALSE, held |-> 0, marks |-> 0, ago |-> 0]

Capped(n) == IF n > MaxCount THEN MaxCount ELSE n

IsMark(e) == e \in {"Tick", "LongPress"}

Emits(c, e) == \E i \in DOMAIN emitted'[c] : emitted'[c][i] = e

Marks(c) == \E e \in EventTypes : IsMark(e) /\ Emits(c, e)

SinceAfter(c) ==
    IF ~state'[c] THEN NoPress
    ELSE [down  |-> since[c].down \/ Emits(c, "Down"),
          held  |-> Capped(since[c].held + 1),
          marks |-> Capped(since[c].marks + (IF Marks(c) THEN 1 ELSE 0)),
          ago   |-> IF Marks(c) THEN 0 ELSE Capped(since[c].ago + 1)]

-----------------------------------------------------------------------------
(***************************************************************************)
(* init() takes the level it finds for the debounced state: a lever that   *)
(* is held when the device starts has never gone down.                     *)
(***************************************************************************)
LeverInit ==
    /\ state \in [Contacts -> BOOLEAN]
    /\ cnt = [c \in Contacts |-> 0]
    /\ tickCounter = [l \in Levers |-> 0]
    /\ emitted = [c \in Contacts |-> << >>]
    /\ since = [c \in Contacts |-> NoPress]

(***************************************************************************)
(* checkButtons(), run by the timer with whatever levels the pins have.    *)
(***************************************************************************)
CheckButtons ==
    \E level \in [Contacts -> BOOLEAN] :
        /\ state' = [c \in Contacts |-> StateAfter(c, level[c])]
        /\ cnt' = [c \in Contacts |-> CntAfter(c, level[c])]
        /\ tickCounter' = [l \in Levers |-> TickCounterAfter(l, level[l])]
        /\ emitted' = [c \in Contacts |-> EventsOf(c, level[c])]
        /\ since' = [c \in Contacts |-> SinceAfter(c)]

LeverNext == CheckButtons

LeverSpec == LeverInit /\ [][LeverNext]_leverVars

(***************************************************************************)
(* The timer keeps running.                                                *)
(***************************************************************************)
LeverFairSpec == LeverSpec /\ WF_leverVars(CheckButtons)

-----------------------------------------------------------------------------
(***************************************************************************)
(* Types: the counters stay within their tables of meanings, and a press   *)
(* is remembered exactly while the contact is closed.                      *)
(***************************************************************************)
LeverTypeOK ==
    /\ state \in [Contacts -> BOOLEAN]
    /\ cnt \in [Contacts -> 0..TransitionThreshold]
    /\ tickCounter \in [Levers -> Int]
    /\ \A l \in Jogs :
          tickCounter[l] \in (IF TickInterval = 1 THEN -1 ELSE 1 - TickInterval)..(TickDelay - 1)
    /\ \A l \in Centers : tickCounter[l] \in -2..(TickDelay - 1)
    /\ emitted \in [Contacts -> Seq(EventTypes)]
    /\ since \in [Contacts -> [down : BOOLEAN, held : 0..MaxCount,
                               marks : 0..MaxCount, ago : 0..MaxCount]]
    /\ \A c \in Contacts : ~state[c] => since[c] = NoPress

(***************************************************************************)
(* What ui.cpp and the comments of uihw.hpp take for granted of a press    *)
(* that began with Down: Down and Up take turns; a Click comes with an Up  *)
(* and only of a press with no tick or long press in it (uihw.hpp:23); a   *)
(* press that ends with neither was released in the few checks between the *)
(* end of the delay and the first tick or the long press; ticks keep one   *)
(* distance; there is at most one long press.                              *)
(***************************************************************************)
TickDistance == IF TickInterval = 1 THEN 1 ELSE TickInterval - 1

FirstMark(c) == TickDelay + (IF c \in Jogs THEN TickDistance ELSE 1)

PressStep(c) ==
    /\ Emits(c, "Down") => ~since[c].down /\ state'[c]
    /\ Emits(c, "Up") => state[c]
    /\ Emits(c, "Click") => emitted'[c] = <<"Up", "Click">> /\ since[c].marks = 0
    /\ c \in Levers /\ since[c].down /\ Emits(c, "Up") /\ ~Emits(c, "Click")
          => \/ since[c].marks > 0
             \/ since[c].held \in TickDelay..(FirstMark(c) - 1)
    /\ since[c].down /\ Marks(c)
          => IF since[c].marks = 0 THEN since[c].held + 1 = FirstMark(c)
             ELSE c \in Jogs /\ since[c].ago + 1 = TickDistance
    /\ Emits(c, "LongPress") => since[c].marks = 0

PressesWellFormed == [][\A c \in Contacts : PressStep(c)]_leverVars

(***************************************************************************)
(* A lever that is held for good is noticed: the long press that leaves    *)
(* the USB mode comes, and a jog goes on ticking.                          *)
(***************************************************************************)
HeldIsNoticed ==
    /\ \A l \in Centers : <>[](state[l]) => <>[](since[l].marks > 0)
    /\ \A l \in Jogs : <>[](state[l]) => []<>(emitted[l] = <<"Tick">>)
==============================================================================
