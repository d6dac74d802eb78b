----------------------------- MODULE SettingsStore -----------------------------
(***************************************************************************)
(* Settings and calibration data in flash memory (flash.cpp), with what    *)
(* the user does to them meanwhile.                                        *)
(*                                                                         *)
(* A set is saved by erasing the pages of its area and programming its     *)
(* words one by one, a magic number first and a checksum last; an erased   *)
(* word reads as -1.  Power may be lost at any time, and a page or a word  *)
(* may fail.  Which areas have been checked is remembered (crc_cache), and *)
(* the area last saved or recalled is the reference from which calibration *)
(* data is interpolated.                                                   *)
(*                                                                         *)
(* Words: the magic number, the settings (the calibration data among them) *)
(* and the checksum, which is the list of the others: two lists do not     *)
(* have the same.  The padding after the checksum is left out.             *)
(***************************************************************************)
EXTENDS SweepSettings, Sequences

CONSTANTS
    SAVEAREA_MAX,
    Pages,         \* of an area: sequences of words, in order
    MaxSaves,      \* bound: saves begun
    MaxSettings    \* bound: changes by the user

VARIABLES
    flash,         \* the words of each area
    crc_cache,     \* the areas that are taken as checked
    lastsaveid,
    saving,        \* what the main thread is at, in saving a set: Idle, or the
                   \* area with the next page to erase or word to program
    whole,         \* the set last saved whole in an area and not touched since,
                   \* and whether it was torn in turn; or None
    failed,        \* the areas whose last save has failed, since power came
    saves, changes

vars == <<current_props, torn, flash, crc_cache, lastsaveid, saving, whole,
          failed, saves, changes>>

Ids   == 0..(SAVEAREA_MAX - 1)
Idle  == [id |-> -1, step |-> "idle", at |-> 0]
None  == [none |-> TRUE]
InUse == [props |-> current_props, torn |-> torn]
Magic == 1

NWords == 6

\* What word w reads as when erased, and when it was programmed wrongly.
Erased(w) == IF w = NWords THEN <<-1>> ELSE -1
Bad(w)    == IF w = NWords THEN <<0>> ELSE 0

Blank == [w \in 1..NWords |-> Erased(w)]

ASSUME StoreAssumption ==
    /\ SAVEAREA_MAX \in Nat \ {0}
    /\ Pages \in Seq(SUBSET (1..NWords)) /\ Len(Pages) > 0
    /\ 1 \in Pages[1]
    /\ \A w \in 1..NWords : \E g \in 1..Len(Pages) : w \in Pages[g]
    /\ MaxSaves \in Nat /\ MaxSettings \in Nat

-------------------------------------------------------------------------------
(* Sets as words.                                                          *)

Body(p) == <<Magic, p.frequency0, p.frequency1, p.sweep_points, p.measurement_mode>>

Checksum(words) == [w \in 1..(NWords - 1) |-> words[w]]

\* magic and checksum are stored in current_props before
WordsOf(p) == [w \in 1..NWords |-> IF w < NWords THEN Body(p)[w] ELSE Checksum(Body(p))]

PropsOf(words) == [frequency0 |-> words[2], frequency1 |-> words[3],
                   sweep_points |-> words[4], measurement_mode |-> words[5]]

-------------------------------------------------------------------------------
(* Plausible mistakes in the operators below; the project's mutants.       *)

MagicOnly(words) == words[1] = Magic

-------------------------------------------------------------------------------

\* magic and checksum, the latter of whatever the words are
Intact(words) == words[1] = Magic /\ words[NWords] = Checksum(words)

\* An area is good if it is known to be, or found to be.
Trusted(id) == id \in crc_cache \/ Intact(flash[id])

\* caldata_reference()
Reference == IF Trusted(lastsaveid) THEN PropsOf(flash[lastsaveid]) ELSE None

TornIn(id) == whole[id] = None \/ whole[id].torn

Checked == IF Trusted(lastsaveid) THEN crc_cache \cup {lastsaveid} ELSE crc_cache

-------------------------------------------------------------------------------
(* The user's settings.                                                    *)

Free == saving = Idle

Change ==
    /\ Free /\ changes < MaxSettings
    /\ changes' = changes + 1
    /\ UNCHANGED <<flash, lastsaveid, saving, whole, failed, saves>>

\* set_sweep_frequency() and set_sweep_points() end in cal_interpolate().
ChangeSweep ==
    /\ Change
    /\ SetFrequency \/ SetPoints
    /\ crc_cache' = Checked
    /\ UNCHANGED torn

ChangeMode == Change /\ SetMode /\ UNCHANGED <<torn, crc_cache>>

ChangeAll == Change /\ ResetAll /\ torn' = FALSE /\ UNCHANGED crc_cache

-------------------------------------------------------------------------------
(* flash_caldata_save() and flash_program_data().                          *)

Settings == <<current_props, torn, changes>>

BeginSave(id) ==
    /\ Free /\ saves < MaxSaves
    /\ saves' = saves + 1
    /\ saving' = [id |-> id, step |-> "erase", at |-> 1]
    /\ UNCHANGED <<Settings, flash, crc_cache, lastsaveid, whole, failed>>

ErasePage ==
    /\ saving.step = "erase"
    /\ flash' = [flash EXCEPT ![saving.id] =
                    [w \in 1..NWords |-> IF w \in Pages[saving.at] THEN Erased(w) ELSE @[w]]]
    /\ saving' = IF saving.at = Len(Pages) THEN [saving EXCEPT !.step = "program", !.at = 1]
                 ELSE [saving EXCEPT !.at = @ + 1]
    /\ whole' = [whole EXCEPT ![saving.id] = None]
    /\ UNCHANGED <<Settings, crc_cache, lastsaveid, failed, saves>>

ProgramWord ==
    /\ saving.step = "program" /\ saving.at <= NWords
    /\ flash' = [flash EXCEPT ![saving.id][saving.at] = WordsOf(current_props)[saving.at]]
    /\ saving' = [saving EXCEPT !.at = @ + 1]
    /\ whole' = IF saving.at = NWords THEN [whole EXCEPT ![saving.id] = InUse]
                ELSE whole
    /\ UNCHANGED <<Settings, crc_cache, lastsaveid, failed, saves>>

\* The area counts as the last one and as checked, whatever has become of it.
Saved ==
    /\ lastsaveid' = saving.id
    /\ crc_cache' = crc_cache \cup {saving.id}
    /\ saving' = Idle
    /\ UNCHANGED <<Settings, saves>>

EndSave ==
    /\ saving.step = "program" /\ saving.at = NWords + 1
    /\ Saved
    /\ failed' = failed \ {saving.id}
    /\ UNCHANGED <<flash, whole>>

\* A page is not erased, or a word is not programmed or not as it should be: the
\* rest is left alone.
FailSave ==
    /\ \/ /\ saving.step = "erase"
          /\ UNCHANGED flash
       \/ /\ saving.step = "program" /\ saving.at <= NWords
          /\ \E word \in {Erased(saving.at), Bad(saving.at)} :
                /\ word # WordsOf(current_props)[saving.at]
                /\ flash' = [flash EXCEPT ![saving.id][saving.at] = word]
    /\ Saved
    /\ failed' = failed \cup {saving.id}
    /\ UNCHANGED whole

-------------------------------------------------------------------------------
(* flash_caldata_recall(), and power.                                      *)

\* From the user's menu; a set that is refused changes nothing.
Recall(id) ==
    /\ Free
    /\ Trusted(id)
    /\ current_props' = PropsOf(flash[id])
    /\ torn' = TornIn(id)
    /\ lastsaveid' = id
    /\ crc_cache' = crc_cache \cup {id}
    /\ UNCHANGED <<flash, saving, whole, failed, saves, changes>>

\* Power is lost, at any time, and comes back: the defaults, then set 0 if it is
\* found to be good.
PowerCycle ==
    /\ current_props' = IF Intact(flash[0]) THEN PropsOf(flash[0]) ELSE Default
    /\ torn' = (Intact(flash[0]) /\ TornIn(0))
    /\ crc_cache' = IF Intact(flash[0]) THEN {0} ELSE {}
    /\ lastsaveid' = 0
    /\ saving' = Idle
    /\ failed' = {}
    /\ UNCHANGED <<flash, whole, saves, changes>>

-------------------------------------------------------------------------------
Init ==
    /\ SettingsInit
    /\ flash = [id \in Ids |-> Blank]
    /\ crc_cache = {} /\ lastsaveid = 0
    /\ saving = Idle
    /\ whole = [id \in Ids |-> None]
    /\ failed = {}
    /\ saves = 0 /\ changes = 0

Next ==
    \/ ChangeSweep \/ ChangeMode \/ ChangeAll
    \/ \E id \in Ids : BeginSave(id) \/ Recall(id)
    \/ ErasePage \/ ProgramWord \/ EndSave \/ FailSave
    \/ PowerCycle

Spec == Init /\ [][Next]_vars

-------------------------------------------------------------------------------
(***************************************************************************)
(* What is recalled is what was last saved whole in that area, wherever    *)
(* power was lost in saves before; an area whose save has failed is the    *)
(* exception, until power is lost.                                         *)
(***************************************************************************)
SavedIn(id, props) == whole[id] # None /\ props = whole[id].props

RecallsWhatWasSaved ==
    [][ /\ \A id \in Ids :
              Recall(id) => SavedIn(id, current_props') \/ id \in failed
        /\ PowerCycle => current_props' = Default \/ SavedIn(0, current_props') ]_vars

(***************************************************************************)
(* Calibration data comes from the right points: within the sweep of the   *)
(* reference from the points next to the new one on either side, outside   *)
(* of it from the first or the last.  Only beyond the last may it be left  *)
(* as it was.                                                              *)
(***************************************************************************)
CalFromNeighbours ==
    Reference # None /\ ~torn /\ ~TornIn(lastsaveid)
        => FromNeighbours(Reference, current_props)

\* Every point of a new sweep gets data of the reference: "fill cal_data at tail
\* of src" (main2.cpp).  It does not hold: a sweep with a step wider than that of
\* the reference may jump over its last step, and then the points beyond keep what
\* they had.
TailFilled ==
    Reference # None /\ ~torn /\ ~TornIn(lastsaveid)
        => \A i \in Points(current_props) :
              Interpolated(Reference, current_props)[i] # {Kept}
===============================================================================
