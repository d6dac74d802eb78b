----------------------------- MODULE ScreenProofs -----------------------------
(***************************************************************************)
(* Proofs about Screen: no ghosts and an undisturbed keypad, for every     *)
(* division into cells, every trace and icon, and drawings nested as deep  *)
(* as may be.                                                              *)
(***************************************************************************)
EXTENDS Screen, SequenceTheorems, TLAPS

-------------------------------------------------------------------------------
(* The inductive invariant.  That everything out of date is remembered is  *)
(* not inductive: a drawing forgets one of the maps when it ends.  What it *)
(* has passed must be right, or be in the other map, which it keeps.       *)

Frames == [kind : Kinds, at : 0 .. Touched]

\* The map that gathers changes.
Gathering == markmap[current_mappage]

\* The cells the next plot marks, wherever the trace and the icon go.
Replotted == Trace[shape] \cup UpperCells

\* The cells that have to be drawn, and are accounted for.
Owed == (stale \cap Visible) \ raced

AllRemembered == \A c \in Owed : c \in Marked \cup Replotted

\* What a drawing has passed is gathered for the next one.
Passed ==
    \A i \in 1 .. Len(frames) :
        frames[i].at # Touched =>
            \A c \in Owed : c > frames[i].at \/ c \in Gathering \cup Replotted

\* What has changed is still before every drawing in progress but one: the ones
\* inside that one will draw it, or the ones around it.
PassedOnce ==
    \A i, j \in 1 .. Len(frames) :
        i < j /\ frames[j].at # Touched =>
            \A c \in Owed : c > frames[i].at \/ c > frames[j].at \/ c \in Replotted

\* No drawing is between its first cell and its end.
Between == ~Drawing \/ (Len(frames) = 1 /\ Top.at = Touched)

\* A cell that is up to date shows the icon only where the icon is.
Shown == icons \ stale \subseteq IconOf(shape, marker)

\* The icon is where a drawing still comes to, should it move away.
IconKept ==
    ~unkept =>
        IconOf(shape, marker) \subseteq IF Between THEN Marked ELSE Gathering

\* So are the cells the menu is drawn over although the user has closed it.
MenuKept ==
    \A i \in 1 .. Len(frames) :
        frames[i].kind \in {"menu", "flip"} /\ ui_mode = "NORMAL" /\ ~unkept
            => MenuCells \subseteq Gathering

Kept == AllRemembered /\ Passed /\ PassedOnce /\ Shown /\ IconKept /\ MenuKept

\* Interrupted drawings have drawn a cell, and the keypad has canceled them.
Interrupted ==
    /\ \A i \in 1 .. Len(frames) - 1 : frames[i].at \in Cells
    /\ ui_mode = "KEYPAD" =>
          /\ ~plot_redraw_enable /\ plot_canceled
          /\ Drawing /\ Top.kind # "drag" => Top.at \in Cells

IInv == TypeOK /\ Kept /\ Interrupted

-------------------------------------------------------------------------------
(* What the operators do to the maps and to the drawings in progress.      *)

LEMMA Constants ==
    /\ NCells \in Nat /\ Touched = NCells + 1 /\ Cells = 1 .. NCells
    /\ MenuCells \subseteq Cells /\ UpperCells \subseteq Cells
    /\ \A s \in Shapes : Trace[s] \subseteq Cells
    /\ \A t \in Shapes, m \in Positions \cup {Off} : IconOf(t, m) \subseteq Cells
  <1>1. /\ NCells \in Nat /\ Touched = NCells + 1 /\ Cells = 1 .. NCells
        /\ MenuCells \subseteq Cells /\ UpperCells \subseteq Cells
        /\ \A s \in Shapes : Trace[s] \subseteq Cells
    BY ScreenAssumption DEF Touched, Cells
  <1>2. ASSUME NEW t \in Shapes, NEW m \in Positions \cup {Off}
        PROVE  IconOf(t, m) \subseteq Cells
    <2>1. CASE m = Off
      BY <2>1 DEF IconOf
    <2>2. CASE m # Off
      BY <2>2, ScreenAssumption DEF IconOf
    <2> QED
      BY <2>1, <2>2
  <1> QED
    BY <1>1, <1>2

Maps == [0 .. 1 -> SUBSET Cells]

\* What is marked is gathered, and drawn.
LEMMA MarkDoes ==
    ASSUME markmap \in Maps, current_mappage \in 0 .. 1, NEW cs \in SUBSET Cells,
           Mark(cs), current_mappage' = current_mappage
    PROVE  /\ markmap' \in Maps
           /\ Gathering' = Gathering \cup cs
           /\ Marked' = Marked \cup cs
           /\ Gathering \subseteq Marked
  <1> DEFINE p == current_mappage
  <1>1. /\ markmap'[p] = markmap[p] \cup cs
        /\ \A q \in 0 .. 1 : q # p => markmap'[q] = markmap[q]
        /\ markmap' \in Maps
    BY DEF Mark, Maps
  <1>2. p = 0 \/ p = 1
    OBVIOUS
  <1>3. Marked' = Marked \cup cs /\ Gathering \subseteq Marked
    BY <1>1, <1>2 DEF Marked, Gathering
  <1> QED
    BY <1>1, <1>3 DEF Gathering

\* At the end of a drawing, what was gathered during it is kept to be drawn.
LEMMA FlushDoes ==
    ASSUME markmap \in Maps, current_mappage \in 0 .. 1, Flush
    PROVE  /\ markmap' \in Maps /\ current_mappage' \in 0 .. 1
           /\ Gathering' = {}
           /\ Marked' = Gathering
  <1> DEFINE p == current_mappage
  <1>1. p = 0 \/ p = 1
    OBVIOUS
  <1>2. current_mappage' = 1 - p /\ 1 - p \in 0 .. 1 /\ 1 - p # p
    BY <1>1 DEF Flush
  <1>3. /\ markmap'[1 - p] = {}
        /\ markmap'[p] = markmap[p]
        /\ markmap' \in Maps
    BY <1>2 DEF Flush, Swapped, Maps
  <1>4. Marked' = Gathering
    BY <1>1, <1>3 DEF Marked, Gathering
  <1> QED
    BY <1>2, <1>3, <1>4 DEF Gathering

\* A drawing begins.
LEMMA PushDoes ==
    ASSUME frames \in Seq(Frames), NEW kind \in Kinds, Push(kind)
    PROVE  /\ frames' \in Seq(Frames)
           /\ Len(frames') = Len(frames) + 1
           /\ frames'[Len(frames')].kind = kind /\ frames'[Len(frames')].at = 0
           /\ \A i \in 1 .. Len(frames) : frames'[i] = frames[i]
           /\ Drawing'
  <1> DEFINE f == [kind |-> kind, at |-> 0]
  <1>1. f \in Frames
    BY Constants DEF Frames
  <1>2. f.kind = kind /\ f.at = 0
    OBVIOUS
  <1> HIDE DEF f
  <1>3. frames' = Append(frames, f)
    BY DEF Push, f
  <1>4. /\ frames' \in Seq(Frames)
        /\ Len(frames') = Len(frames) + 1
        /\ frames'[Len(frames) + 1] = f
        /\ \A i \in 1 .. Len(frames) : frames'[i] = frames[i]
    BY <1>1, <1>3
  <1>5. frames' # << >>
    BY <1>4
  <1> QED
    BY <1>2, <1>4, <1>5 DEF Drawing

\* The innermost drawing comes to another place.
LEMMA TopDoes ==
    ASSUME frames \in Seq(Frames), Drawing, NEW a \in 0 .. Touched,
           frames' = [frames EXCEPT ![Len(frames)].at = a]
    PROVE  /\ frames' \in Seq(Frames)
           /\ Len(frames') = Len(frames) /\ Len(frames) \in Nat \ {0}
           /\ Top'.at = a /\ Top'.kind = Top.kind
           /\ \A i \in 1 .. Len(frames) - 1 : frames'[i] = frames[i]
           /\ \A i \in 1 .. Len(frames) : frames'[i].kind = frames[i].kind
           /\ Drawing'
  <1> DEFINE n == Len(frames)
             f == [Top EXCEPT !.at = a]
  <1>1. n \in Nat \ {0} /\ n \in 1 .. n /\ DOMAIN frames = 1 .. n
    BY DEF Drawing
  <1>2. Top \in Frames
    BY <1>1 DEF Top
  <1>3. f \in Frames /\ f.at = a /\ f.kind = Top.kind
    BY <1>2 DEF Frames
  <1>4. frames' = [frames EXCEPT ![n] = f]
    BY DEF Top
  <1> HIDE DEF f
  <1>5. /\ frames' \in Seq(Frames) /\ Len(frames') = n
        /\ frames'[n] = f
        /\ \A i \in 1 .. n - 1 : frames'[i] = frames[i]
    BY <1>1, <1>3, <1>4
  <1>6. Top' = f
    BY <1>5 DEF Top
  <1>7. \A i \in 1 .. n : frames'[i].kind = frames[i].kind
    <2> SUFFICES ASSUME NEW i \in 1 .. n PROVE frames'[i].kind = frames[i].kind
      OBVIOUS
    <2>1. CASE i = n
      BY <1>3, <1>5, <2>1 DEF Top
    <2>2. CASE i # n
      BY <1>1, <1>5, <2>2
    <2> QED
      BY <2>1, <2>2
  <1>8. frames' # << >>
    BY <1>1, <1>5
  <1> QED
    BY <1>1, <1>3, <1>5, <1>6, <1>7, <1>8 DEF Drawing

\* The innermost drawing is over.
LEMMA PopDoes ==
    ASSUME frames \in Seq(Frames), Drawing, frames' = Front(frames)
    PROVE  /\ frames' \in Seq(Frames)
           /\ Len(frames') = Len(frames) - 1 /\ Len(frames) \in Nat \ {0}
           /\ \A i \in 1 .. Len(frames') : frames'[i] = frames[i]
           /\ Drawing' => Len(frames') >= 1 /\ Top' = frames[Len(frames')]
  <1> DEFINE n == Len(frames)
  <1>1. n \in Nat \ {0}
    BY DEF Drawing
  <1>2. frames' = SubSeq(frames, 1, n - 1)
    BY DEF Front
  <1>3. \A i \in 1 .. n - 1 : frames[i] \in Frames
    BY <1>1
  <1>4. frames' = [i \in 1 .. n - 1 |-> frames[i]]
    BY <1>1, <1>2
  <1>5. n - 1 \in Nat
    BY <1>1
  <1> HIDE DEF n
  <1>6. Len(frames') = n - 1 /\ \A i \in 1 .. n - 1 : frames'[i] = frames[i]
    BY <1>4, <1>5
  <1>7. frames' \in Seq(Frames)
    BY <1>3, <1>4, <1>5
  <1>8. Drawing' => n - 1 >= 1 /\ Top' = frames[n - 1]
    BY <1>5, <1>6, <1>7 DEF Drawing, Top
  <1> QED
    BY <1>1, <1>6, <1>7, <1>8 DEF n

-------------------------------------------------------------------------------
(* What is remembered.                                                     *)

LEMMA Owing ==
    ASSUME TypeOK
    PROVE  /\ Owed \subseteq Cells
           /\ ui_mode = "KEYPAD" => Owed = {}
           /\ Owed \subseteq Area
           /\ MenuCells \cap Visible # {} => ui_mode = "NORMAL"
           /\ frames \in Seq(Frames) /\ markmap \in Maps /\ current_mappage \in 0 .. 1
           /\ 0 \in 0 .. Touched /\ Touched \in 0 .. Touched
           /\ Cells \subseteq 0 .. Touched /\ Touched \notin Cells
           /\ \A c \in Cells : c > 0
  <1>1. Owed \subseteq Cells
    BY DEF TypeOK, Owed
  <1>2. /\ ui_mode = "KEYPAD" => Owed = {}
        /\ Owed \subseteq Area
        /\ MenuCells \cap Visible # {} => ui_mode = "NORMAL"
    <2>1. CASE ui_mode = "NORMAL"
      BY <1>1, <2>1 DEF Owed, Visible, Area
    <2>2. CASE ui_mode = "MENU"
      BY <2>2 DEF Owed, Visible, Area
    <2>3. CASE ui_mode = "KEYPAD"
      BY <2>3 DEF Owed, Visible, Area
    <2> QED
      BY <2>1, <2>2, <2>3 DEF TypeOK
  <1>3. frames \in Seq(Frames) /\ markmap \in Maps /\ current_mappage \in 0 .. 1
    BY DEF TypeOK, Frames, Maps
  <1>4. /\ 0 \in 0 .. Touched /\ Touched \in 0 .. Touched
        /\ Cells \subseteq 0 .. Touched /\ Touched \notin Cells
        /\ \A c \in Cells : c > 0
    BY Constants
  <1> QED
    BY <1>1, <1>2, <1>3, <1>4

LEMMA OneOrMore ==
    \A n \in Nat \ {0} : n = 1 \/ n > 1
  OBVIOUS

\* What a change owes: it is marked, unless the kept map can be relied on, and
\* no two drawings have passed it.
LEMMA ChangeDoes ==
    ASSUME IInv, NEW cs \in SUBSET Cells, NEW ms \in SUBSET Cells, Change(cs, ms)
    PROVE  /\ stale' = stale \cup cs
           /\ stale' \in SUBSET Cells /\ raced' \in SUBSET Cells
           /\ raced \subseteq raced'
           /\ \A c \in cs \ raced' : c \in ms \/ ~unkept
           /\ \A c \in cs \ raced' : \A i, j \in 1 .. Len(frames) :
                 i < j /\ frames[j].at # Touched => c > frames[i].at \/ c > frames[j].at
  <1> USE DEF IInv
  <1>1. /\ stale' = stale \cup cs
        /\ raced' = raced \cup (cs \cap PassedTwice) \cup (IF unkept THEN cs \ ms ELSE {})
    BY DEF Change
  <1>2. stale' \in SUBSET Cells /\ raced' \in SUBSET Cells
    BY <1>1 DEF TypeOK
  <1>3. \A c \in cs \ raced' : c \in ms \/ ~unkept
    BY <1>1
  <1>4. ASSUME NEW c \in cs \ raced', NEW i \in 1 .. Len(frames), NEW j \in 1 .. Len(frames),
               i < j, frames[j].at # Touched, ~(c > frames[i].at), ~(c > frames[j].at)
        PROVE  FALSE
    <2>1. frames \in Seq(Frames) /\ Len(frames) \in Nat
      BY DEF TypeOK, Frames
    <2>2. frames[j] \in Frames /\ frames[i] \in Frames /\ i \in 1 .. Len(frames) - 1
      BY <1>4, <2>1
    <2>3. frames[j].at \in 0 .. Touched /\ frames[i].at \in Cells
      BY <2>2 DEF Frames, Interrupted
    <2>4. frames[i].at \in c .. NCells /\ frames[j].at \in c .. NCells
      BY Constants, <1>4, <2>3
    <2>5. i \in DOMAIN frames /\ j \in DOMAIN frames
      BY <2>1
    <2>6. c \in PassedTwice
      BY <1>4, <2>4, <2>5 DEF PassedTwice
    <2> QED
      BY <1>1, <2>6
  <1> QED
    BY <1>1, <1>2, <1>3, <1>4

\* An event that marks what it changes, other than what the next plot marks and
\* the icon that moves away, forgets nothing: the icon has been kept for it.
LEMMA EventKeeps ==
    ASSUME IInv, NEW cs \in SUBSET Cells, NEW ms \in SUBSET cs,
           Mark(ms), Change(cs, ms),
           UNCHANGED <<shape, current_mappage, unkept, icons>>,
           TypeOK',
           \A i \in 1 .. Len(frames') :
               \/ frames'[i].at = 0
               \/ i \in 1 .. Len(frames) /\ frames'[i].at = frames[i].at,
           cs \subseteq ms \cup UpperCells \cup icons \cup IconOf(shape, marker),
           Visible' \subseteq Visible \cup ms,
           \/ IconOf(shape, marker') \subseteq ms /\ icons \subseteq cs
           \/ marker' = marker /\ frames' = frames,
           \A i \in 1 .. Len(frames') :
               frames'[i].kind \in {"menu", "flip"} /\ ui_mode' = "NORMAL" =>
                   \/ MenuCells \subseteq ms
                   \/ /\ i \in 1 .. Len(frames) /\ frames'[i].kind = frames[i].kind
                      /\ ui_mode = "NORMAL"
    PROVE  Kept'
  <1> USE DEF IInv
  <1>1. AllRemembered /\ Passed /\ PassedOnce /\ Shown /\ IconKept /\ MenuKept
    BY DEF Kept
  <1>2. /\ stale' = stale \cup cs
        /\ raced \subseteq raced'
        /\ \A c \in cs \ raced' : c \in ms \/ ~unkept
        /\ \A c \in cs \ raced' : \A i, j \in 1 .. Len(frames) :
              i < j /\ frames[j].at # Touched => c > frames[i].at \/ c > frames[j].at
    BY ChangeDoes
  <1>3. /\ Gathering' = Gathering \cup ms
        /\ Marked' = Marked \cup ms
        /\ Gathering \subseteq Marked
    BY Owing, MarkDoes
  <1>4. /\ frames \in Seq(Frames) /\ Len(frames) \in Nat
        /\ Len(frames') \in Nat
        /\ Replotted' = Replotted /\ Touched' = Touched
    BY Owing DEF TypeOK, Frames, Touched, Replotted
  <1>5. ~unkept => /\ IconOf(shape, marker) \subseteq Marked
                   /\ ~Between => IconOf(shape, marker) \subseteq Gathering
    BY <1>1, <1>3 DEF IconKept
  <1>6. ASSUME NEW c \in Owed'
        PROVE  /\ \/ c \in Owed
                  \/ c \in ms
                  \/ c \in Replotted
                  \/ ~unkept /\ c \in IconOf(shape, marker)
               /\ c \in Owed \/ c \in cs \ raced'
    <2>1. c \in stale' /\ c \in Visible' /\ c \notin raced'
      BY DEF Owed
    <2>2. CASE c \in stale /\ c \in Visible
      BY <1>2, <2>1, <2>2 DEF Owed
    <2>3. CASE c \notin Visible
      BY <2>1, <2>3
    <2>4. CASE c \notin stale
      <3>1. c \in cs \ raced'
        BY <1>2, <2>1, <2>4
      <3>2. c \in icons => c \in IconOf(shape, marker)
        BY <1>1, <2>4 DEF Shown
      <3> QED
        BY <1>2, <3>1, <3>2 DEF Replotted
    <2> QED
      BY <2>2, <2>3, <2>4
  <1>7. AllRemembered'
    BY <1>1, <1>3, <1>4, <1>5, <1>6 DEF AllRemembered
  <1>8. \A c \in Owed' : c \in Cells /\ c > 0
    BY Constants DEF TypeOK, Owed, Cells
  <1>9. Passed'
    <2> SUFFICES ASSUME NEW i \in 1 .. Len(frames'), frames'[i].at # Touched,
                        NEW c \in Owed'
                 PROVE  c > frames'[i].at \/ c \in Gathering' \cup Replotted
      BY <1>4 DEF Passed
    <2>1. CASE frames'[i].at = 0
      BY <1>8, <2>1
    <2>2. CASE i \in 1 .. Len(frames) /\ frames'[i].at = frames[i].at
      <3>1. ~Between
        <4>1. Len(frames) >= 1 /\ Drawing
          BY <1>4, <2>2 DEF Drawing
        <4>2. ASSUME Len(frames) = 1 PROVE Top.at # Touched
          <5>1. i = 1
            BY <2>2, <4>2
          <5> QED
            BY <2>2, <4>2, <5>1 DEF Top
        <4> QED
          BY <4>1, <4>2 DEF Between
      <3>2. c \in Owed => c > frames[i].at \/ c \in Gathering \cup Replotted
        BY <1>1, <2>2 DEF Passed
      <3> QED
        BY <3>1, <3>2, <1>3, <1>5, <1>6, <2>2
    <2> QED
      BY <2>1, <2>2
  <1>10. PassedOnce'
    <2> SUFFICES ASSUME NEW i \in 1 .. Len(frames'), NEW j \in 1 .. Len(frames'),
                        i < j, frames'[j].at # Touched, NEW c \in Owed'
                 PROVE  c > frames'[i].at \/ c > frames'[j].at \/ c \in Replotted
      BY <1>4 DEF PassedOnce
    <2>1. CASE frames'[i].at = 0 \/ frames'[j].at = 0
      BY <1>8, <2>1
    <2>2. CASE /\ i \in 1 .. Len(frames) /\ frames'[i].at = frames[i].at
               /\ j \in 1 .. Len(frames) /\ frames'[j].at = frames[j].at
      <3>1. CASE c \in Owed
        BY <1>1, <2>2, <3>1 DEF PassedOnce
      <3>2. CASE c \in cs \ raced'
        BY <1>2, <2>2, <3>2
      <3> QED
        BY <1>6, <3>1, <3>2
    <2> QED
      BY <2>1, <2>2
  <1>11. Shown'
    BY <1>1, <1>2 DEF Shown
  <1>12. IconKept'
    <2>1. CASE IconOf(shape, marker') \subseteq ms
      BY <2>1, <1>3 DEF IconKept, IconOf
    <2>2. CASE marker' = marker /\ frames' = frames
      <3>1. Between' = Between /\ IconOf(shape, marker)' = IconOf(shape, marker)
        BY <2>2 DEF Between, Drawing, Top, IconOf, Touched
      <3> QED
        BY <3>1, <1>3, <1>5 DEF IconKept
    <2> QED
      BY <2>1, <2>2
  <1>13. MenuKept'
    BY <1>1, <1>3 DEF MenuKept
  <1> QED
    BY <1>7, <1>9, <1>10, <1>11, <1>12, <1>13 DEF Kept

\* Where nothing changes that should be seen, nothing is forgotten.
LEMMA QuietKeeps ==
    ASSUME IInv,
           UNCHANGED <<shape, marker, maps, frames, stale, icons, unkept, raced>>,
           Visible' \subseteq Visible, ui_mode' = "NORMAL" => ui_mode = "NORMAL"
    PROVE  Kept'
  <1> USE DEF maps
  <1>1. /\ Gathering' = Gathering /\ Marked' = Marked /\ Replotted' = Replotted
        /\ IconOf(shape, marker)' = IconOf(shape, marker)
        /\ Owed' \subseteq Owed
    BY DEF Gathering, Marked, Replotted, IconOf, Owed
  <1>2. Between' = Between
    BY DEF Between, Drawing, Top, Touched
  <1>3. AllRemembered => AllRemembered'
    BY <1>1 DEF AllRemembered
  <1>4. Passed => Passed'
    BY <1>1 DEF Passed, Touched
  <1>5. PassedOnce => PassedOnce'
    BY <1>1 DEF PassedOnce, Touched
  <1>6. (Shown => Shown') /\ (IconKept => IconKept')
    BY <1>1, <1>2 DEF Shown, IconKept
  <1>7. MenuKept => MenuKept'
    BY <1>1 DEF MenuKept
  <1> QED
    BY <1>3, <1>4, <1>5, <1>6, <1>7 DEF IInv, Kept

-------------------------------------------------------------------------------
(* The steps of a drawing.                                                 *)

LEMMA StepDrawCell == IInv /\ DrawCell => IInv'
  <1> SUFFICES ASSUME IInv, DrawCell PROVE IInv'
    OBVIOUS
  <1> USE DEF IInv
  <1>1. PICK c \in ToDraw :
            /\ \A d \in ToDraw : c <= d
            /\ stale' = stale \ {c}
            /\ raced' = raced \ {c}
            /\ icons' = IF c \in IconOf(shape, marker) THEN icons \cup {c}
                                                       ELSE icons \ {c}
            /\ frames' = [frames EXCEPT ![Len(frames)].at = c]
    BY DEF DrawCell
  <1>2. Drawing /\ Top.at # Touched
    BY DEF DrawCell, Dragging
  <1>3. c \in Cells /\ c \in 0 .. Touched
    BY Owing, <1>1 DEF ToDraw, Area
  <1>4. /\ frames' \in Seq(Frames)
        /\ Len(frames') = Len(frames) /\ Len(frames) \in Nat \ {0}
        /\ Top'.at = c /\ Top'.kind = Top.kind
        /\ \A i \in 1 .. Len(frames) - 1 : frames'[i] = frames[i]
        /\ \A i \in 1 .. Len(frames) : frames'[i].kind = frames[i].kind
        /\ Drawing'
    BY Owing, TopDoes, <1>1, <1>2, <1>3
  <1>5. Top = frames[Len(frames)] /\ Top' = frames'[Len(frames)]
    BY <1>4 DEF Top
  <1>6. /\ UNCHANGED <<shape, marker, markmap, current_mappage, redraw_request>>
        /\ UNCHANGED <<plot_redraw_enable, plot_canceled, domain_mode, sweep_enabled>>
        /\ UNCHANGED <<ui_mode, unkept, events>>
    BY DEF DrawCell, maps, control
  <1>7. TypeOK'
    <2>1. stale' \subseteq Cells /\ raced' \subseteq Cells /\ icons' \subseteq Cells
      BY <1>1, <1>3 DEF TypeOK
    <2> QED
      BY <1>4, <1>6, <2>1 DEF TypeOK, Frames, Touched, Cells
  <1>8. Kept'
    <2>1. AllRemembered /\ Passed /\ PassedOnce /\ Shown /\ IconKept /\ MenuKept
      BY DEF Kept
    <2>2. /\ Gathering' = Gathering /\ Marked' = Marked /\ Replotted' = Replotted
          /\ IconOf(shape, marker)' = IconOf(shape, marker)
          /\ Owed' = Owed \ {c}
      BY <1>1, <1>6 DEF Gathering, Marked, Replotted, IconOf, Owed, Visible, Cells
    <2>3. AllRemembered'
      BY <2>1, <2>2 DEF AllRemembered
    <2>4. \A d \in Owed : d > c \/ d = c \/ ~(d > Top.at) \/ d \in Replotted
      <3> SUFFICES ASSUME NEW d \in Owed, d > Top.at, d \notin Replotted
                   PROVE  d > c \/ d = c
        OBVIOUS
      <3>1. d \in Area /\ d \in Marked
        BY Owing, <2>1 DEF AllRemembered
      <3>2. d \in ToDraw
        BY <3>1 DEF ToDraw
      <3>3. c <= d
        BY <1>1, <3>2
      <3>4. d \in Int /\ c \in Int
        BY Owing, Constants, <1>3
      <3> QED
        BY <3>3, <3>4
    <2>5. Passed'
      <3> SUFFICES ASSUME NEW i \in 1 .. Len(frames), frames'[i].at # Touched,
                          NEW d \in Owed, d # c
                   PROVE  d > frames'[i].at \/ d \in Gathering \cup Replotted
        BY <1>4, <2>2 DEF Passed, Touched
      <3>1. CASE i = Len(frames)
        <4>1. frames'[i].at = c
          BY <1>4, <1>5, <3>1
        <4>2. d > Top.at \/ d \in Gathering \cup Replotted
          BY <1>2, <1>5, <2>1, <3>1 DEF Passed
        <4> QED
          BY <2>4, <4>1, <4>2
      <3>2. CASE i # Len(frames)
        <4>1. frames'[i] = frames[i]
          BY <1>4, <3>2
        <4> QED
          BY <2>1, <4>1 DEF Passed
      <3> QED
        BY <3>1, <3>2
    <2>6. PassedOnce'
      <3> SUFFICES ASSUME NEW i \in 1 .. Len(frames), NEW j \in 1 .. Len(frames),
                          i < j, frames'[j].at # Touched, NEW d \in Owed, d # c
                   PROVE  d > frames'[i].at \/ d > frames'[j].at \/ d \in Replotted
        BY <1>4, <2>2 DEF PassedOnce, Touched
      <3>0. frames'[i] = frames[i]
        BY <1>4
      <3>1. CASE j = Len(frames)
        <4>1. frames'[j].at = c
          BY <1>4, <1>5, <3>1
        <4>2. d > frames[i].at \/ d > Top.at \/ d \in Replotted
          BY <1>2, <1>5, <2>1, <3>1 DEF PassedOnce
        <4> QED
          BY <2>4, <3>0, <4>1, <4>2
      <3>2. CASE j # Len(frames)
        <4>1. frames'[j] = frames[j]
          BY <1>4, <3>2
        <4> QED
          BY <2>1, <3>0, <4>1 DEF PassedOnce
      <3> QED
        BY <3>1, <3>2
    <2>7. Shown'
      BY <1>1, <2>1, <2>2 DEF Shown
    <2>8. IconKept'
      <3>1. ~Between /\ ~Between'
        <4>1. Touched' = Touched /\ c # Touched
          BY Owing, <1>3 DEF Touched
        <4> QED
          BY <4>1, <1>2, <1>4 DEF Between
      <3> QED
        BY <3>1, <1>6, <2>1, <2>2 DEF IconKept
    <2>9. MenuKept'
      BY <1>4, <1>6, <2>1, <2>2 DEF MenuKept
    <2> QED
      BY <2>3, <2>5, <2>6, <2>7, <2>8, <2>9 DEF Kept
  <1>9. Interrupted'
    <2>1. \A i \in 1 .. Len(frames') - 1 : frames'[i].at \in Cells
      BY <1>4 DEF Interrupted
    <2>2. Cells' = Cells /\ Top'.at \in Cells
      BY <1>3, <1>4 DEF Cells
    <2> QED
      BY <1>6, <2>1, <2>2 DEF Interrupted
  <1> QED
    BY <1>7, <1>8, <1>9

\* When a drawing returns, it is over, or waits for the touch to move.
LEMMA ReturnDoes ==
    ASSUME IInv, Drawing, Top.at # Touched, Return
    PROVE  /\ frames' \in Seq(Frames)
           /\ Len(frames) \in Nat \ {0}
           /\ Len(frames') \in Nat /\ Len(frames') <= Len(frames)
           /\ \A i \in 1 .. Len(frames') :
                 /\ i \in 1 .. Len(frames) /\ frames'[i].kind = frames[i].kind
                 /\ \/ frames'[i].at = Touched
                    \/ i < Len(frames) /\ frames'[i] = frames[i]
           /\ Len(frames) = 1 =>
                 ~Drawing' \/ (Len(frames') = 1 /\ Top'.at = Touched)
           /\ Len(frames) = 1 /\ Top.kind \in {"menu", "flip"} => ~Drawing'
           /\ Interrupted'
  <1> USE DEF IInv
  <1> DEFINE n == Len(frames)
  <1>1. /\ UNCHANGED <<plot_redraw_enable, ui_mode>>
        /\ plot_canceled => plot_canceled'
        /\ Cells' = Cells
    BY DEF Return, Cells, TypeOK
  <1>2. CASE Top.kind = "drag"
    <2>1. frames' = [frames EXCEPT ![Len(frames)].at = Touched]
      BY <1>2 DEF Return
    <2>2. /\ frames' \in Seq(Frames)
          /\ Len(frames') = n /\ n \in Nat \ {0}
          /\ Top'.at = Touched /\ Top'.kind = Top.kind
          /\ \A i \in 1 .. n - 1 : frames'[i] = frames[i]
          /\ \A i \in 1 .. n : frames'[i].kind = frames[i].kind
          /\ Drawing'
      BY Owing, TopDoes, <2>1
    <2>3. Top' = frames'[n]
      BY <2>2 DEF Top
    <2>4. \A i \in 1 .. n : \/ frames'[i].at = Touched
                            \/ i < n /\ frames'[i] = frames[i]
      <3> SUFFICES ASSUME NEW i \in 1 .. n
                   PROVE  frames'[i].at = Touched \/ (i < n /\ frames'[i] = frames[i])
        OBVIOUS
      <3>1. CASE i = n
        BY <2>2, <2>3, <3>1
      <3>2. CASE i # n
        BY <2>2, <3>2
      <3> QED
        BY <3>1, <3>2
    <2>5. \A i \in 1 .. Len(frames') - 1 : frames'[i].at \in Cells
      BY <2>2 DEF Interrupted
    <2>6. Interrupted'
      BY <1>1, <1>2, <2>2, <2>5 DEF Interrupted
    <2> QED
      BY <1>2, <2>2, <2>4, <2>6
  <1>3. CASE Top.kind # "drag"
    <2>1. frames' = Front(frames)
      BY <1>3 DEF Return
    <2>2. /\ frames' \in Seq(Frames)
          /\ Len(frames') = n - 1 /\ n \in Nat \ {0}
          /\ \A i \in 1 .. Len(frames') : frames'[i] = frames[i]
          /\ Drawing' => Len(frames') >= 1 /\ Top' = frames[Len(frames')]
      BY Owing, PopDoes, <2>1
    <2>3. \A i \in 1 .. n - 1 : frames[i].at \in Cells
      BY DEF Interrupted
    <2>4. \A i \in 1 .. Len(frames') - 1 : frames'[i].at \in Cells
      BY <2>2, <2>3
    <2>5. Drawing' => Top'.at \in Cells
      BY <2>2, <2>3
    <2>6. Interrupted'
      BY <1>1, <2>4, <2>5 DEF Interrupted
    <2>7. n = 1 => ~Drawing'
      BY <2>2
    <2> QED
      BY <2>2, <2>6, <2>7
  <1> QED
    BY <1>2, <1>3

\* What is drawn over the plot then has been marked since.
LEMMA ReturnDraws ==
    ASSUME IInv, Drawing, Return
    PROVE  /\ \A c \in Owed' : \/ c \in Owed
                               \/ c \in Gathering /\ ui_mode = "NORMAL"
           /\ \A c \in Owed' : \A i, j \in 1 .. Len(frames) :
                 i < j /\ frames[j].at # Touched =>
                     c > frames[i].at \/ c > frames[j].at \/ c \in Replotted
           /\ Shown'
           /\ stale' \in SUBSET Cells /\ raced' \in SUBSET Cells
  <1> USE DEF IInv
  <1>1. /\ Visible' = Visible
        /\ icons' = icons /\ IconOf(shape, marker)' = IconOf(shape, marker)
    BY DEF Return, Visible, Cells, IconOf
  <1>2. PassedOnce /\ MenuKept /\ Shown
    BY DEF Kept
  <1>3. CASE DrawnOver = {}
    <2>1. Owed' = Owed /\ UNCHANGED <<stale, raced>>
      BY <1>1, <1>3 DEF Return, Owed
    <2> QED
      BY <1>1, <1>2, <2>1 DEF PassedOnce, Shown, TypeOK
  <1>4. CASE DrawnOver # {}
    <2>1. Change(MenuCells, {}) /\ Top.kind \in {"menu", "flip"} /\ ui_mode = "NORMAL"
      BY <1>4 DEF Return, DrawnOver
    <2>2. MenuCells \in SUBSET Cells /\ {} \in SUBSET Cells
      BY Constants
    <2>3. /\ stale' = stale \cup MenuCells
          /\ stale' \in SUBSET Cells /\ raced' \in SUBSET Cells
          /\ raced \subseteq raced'
          /\ \A c \in MenuCells \ raced' : ~unkept
          /\ \A c \in MenuCells \ raced' : \A i, j \in 1 .. Len(frames) :
                i < j /\ frames[j].at # Touched => c > frames[i].at \/ c > frames[j].at
      BY ChangeDoes, <2>1, <2>2
    <2>4. ~unkept => MenuCells \subseteq Gathering
      <3>1. Len(frames) \in 1 .. Len(frames) /\ Top = frames[Len(frames)]
        BY Owing DEF Drawing, Top
      <3> QED
        BY <1>2, <2>1, <3>1 DEF MenuKept
    <2>5. \A c \in Owed' : c \in Owed \/ c \in MenuCells \ raced'
      BY <1>1, <2>3 DEF Owed
    <2>6. \A c \in Owed' : \A i, j \in 1 .. Len(frames) :
              i < j /\ frames[j].at # Touched =>
                  c > frames[i].at \/ c > frames[j].at \/ c \in Replotted
      BY <1>2, <2>3, <2>5 DEF PassedOnce
    <2>7. Shown'
      BY <1>1, <1>2, <2>3 DEF Shown
    <2> QED
      BY <2>1, <2>3, <2>4, <2>5, <2>6, <2>7
  <1> QED
    BY <1>3, <1>4

\* The types of what a return does not decide alone.
LEMMA ReturnTypes ==
    ASSUME IInv, Drawing, Top.at # Touched, Return,
           markmap' \in Maps, current_mappage' \in 0 .. 1, unkept' \in BOOLEAN
    PROVE  TypeOK'
  <1> USE DEF IInv
  <1>1. frames' \in Seq([kind : Kinds, at : 0 .. Touched])'
    BY ReturnDoes DEF Frames, Touched
  <1>2. stale' \in SUBSET Cells /\ raced' \in SUBSET Cells
    BY ReturnDraws
  <1>3. /\ redraw_request' \subseteq Requests
        /\ plot_canceled' \in BOOLEAN
        /\ UNCHANGED <<shape, marker, plot_redraw_enable, domain_mode>>
        /\ UNCHANGED <<sweep_enabled, ui_mode, icons, events>>
    BY DEF Return, TypeOK
  <1> QED
    BY <1>1, <1>2, <1>3 DEF TypeOK, Maps, Cells

LEMMA StepFinish == IInv /\ Finish => IInv'
  <1> SUFFICES ASSUME IInv, Finish PROVE IInv'
    OBVIOUS
  <1> USE DEF IInv
  <1>1. Drawing /\ Top.at # Touched /\ ToDraw = {} /\ Flush /\ Return
    BY DEF Finish, Dragging
  <1>2. /\ markmap' \in Maps /\ current_mappage' \in 0 .. 1
        /\ Gathering' = {}
        /\ Marked' = Gathering
    BY Owing, FlushDoes, <1>1
  <1>3. unkept' = (unkept \/ Len(frames) > 1) /\ unkept' \in BOOLEAN
    BY DEF Finish, TypeOK
  <1>4. TypeOK'
    BY ReturnTypes, <1>1, <1>2, <1>3
  <1>5. /\ frames' \in Seq(Frames)
        /\ Len(frames) \in Nat \ {0}
        /\ Len(frames') \in Nat /\ Len(frames') <= Len(frames)
        /\ \A i \in 1 .. Len(frames') :
              /\ i \in 1 .. Len(frames) /\ frames'[i].kind = frames[i].kind
              /\ \/ frames'[i].at = Touched
                 \/ i < Len(frames) /\ frames'[i] = frames[i]
        /\ Len(frames) = 1 =>
              ~Drawing' \/ (Len(frames') = 1 /\ Top'.at = Touched)
        /\ Len(frames) = 1 /\ Top.kind \in {"menu", "flip"} => ~Drawing'
        /\ Interrupted'
    BY ReturnDoes, <1>1
  <1>6. /\ \A c \in Owed' : \/ c \in Owed
                            \/ c \in Gathering /\ ui_mode = "NORMAL"
        /\ \A c \in Owed' : \A i, j \in 1 .. Len(frames) :
              i < j /\ frames[j].at # Touched =>
                  c > frames[i].at \/ c > frames[j].at \/ c \in Replotted
        /\ Shown'
    BY ReturnDraws, <1>1
  <1>7. Kept'
    <2>1. AllRemembered /\ Passed /\ PassedOnce /\ Shown /\ IconKept /\ MenuKept
      BY DEF Kept
    <2>2. /\ Replotted' = Replotted /\ Touched' = Touched
          /\ IconOf(shape, marker)' = IconOf(shape, marker)
      BY <1>1 DEF Return, Replotted, IconOf, Touched
    <2>3. /\ Len(frames) \in 1 .. Len(frames) /\ Top = frames[Len(frames)]
          /\ Gathering \subseteq Marked
      <3>1. current_mappage = 0 \/ current_mappage = 1
        BY Owing
      <3> QED
        BY <1>5, <3>1 DEF Top, Gathering, Marked
    <2>4. ASSUME NEW c \in Owed'
          PROVE  /\ ~(c > Top.at) \/ c \in Replotted
                 /\ c \in Gathering \cup Replotted
      <3>1. c \in Area /\ c \in Marked \cup Replotted
        <4>1. CASE c \in Owed
          BY Owing, <2>1, <4>1 DEF AllRemembered
        <4>2. CASE c \in Gathering /\ ui_mode = "NORMAL"
          <5>1. c \in Cells
            BY <1>4 DEF Owed, TypeOK, Cells
          <5> QED
            BY <2>3, <4>2, <5>1 DEF Area
        <4> QED
          BY <1>6, <4>1, <4>2
      <3>2. ~(c > Top.at) \/ c \in Replotted
        BY <1>1, <3>1 DEF ToDraw
      <3>3. c \in Gathering \cup Replotted
        <4>1. CASE c \in Owed
          BY <1>1, <2>1, <2>3, <3>2, <4>1 DEF Passed
        <4> QED
          BY <1>6, <4>1
      <3> QED
        BY <3>2, <3>3
    <2>5. AllRemembered'
      BY <1>2, <2>2, <2>4 DEF AllRemembered
    <2>6. ASSUME NEW c \in Owed', NEW i \in 1 .. Len(frames'), frames'[i].at # Touched
          PROVE  c > frames'[i].at \/ c \in Replotted
      <3>1. i \in 1 .. Len(frames) /\ i < Len(frames) /\ frames'[i] = frames[i]
        BY <1>5, <2>6
      <3>2. c > frames[i].at \/ c > Top.at \/ c \in Replotted
        BY <1>1, <1>6, <2>3, <3>1
      <3> QED
        BY <2>4, <3>1, <3>2
    <2>7. Passed'
      BY <2>2, <2>6 DEF Passed
    <2>8. PassedOnce'
      BY <2>2, <2>6 DEF PassedOnce
    <2>9. IconKept'
      <3> SUFFICES ASSUME ~unkept' PROVE IconOf(shape, marker) \subseteq Marked' /\ Between'
        BY <2>2 DEF IconKept
      <3>1. ~unkept /\ ~(Len(frames) > 1)
        BY <1>3
      <3>2. Len(frames) = 1
        BY OneOrMore, <1>5, <3>1
      <3>3. Between' /\ ~Between
        BY <1>1, <1>5, <2>2, <3>2 DEF Between
      <3> QED
        BY <1>2, <2>1, <3>1, <3>3 DEF IconKept
    <2>10. MenuKept'
      <3> SUFFICES ASSUME ~unkept', NEW i \in 1 .. Len(frames'),
                          frames'[i].kind \in {"menu", "flip"}
                   PROVE  FALSE
        BY DEF MenuKept
      <3>1. Len(frames) = 1
        BY OneOrMore, <1>3, <1>5
      <3>2. i = 1 /\ Top = frames[1] /\ frames[1].kind \in {"menu", "flip"}
        BY <1>5, <2>3, <3>1
      <3>3. Drawing'
        BY <1>5 DEF Drawing
      <3> QED
        BY <1>5, <3>1, <3>2, <3>3
    <2> QED
      BY <1>6, <2>5, <2>7, <2>8, <2>9, <2>10 DEF Kept
  <1> QED
    BY <1>4, <1>5, <1>7

LEMMA StepCancel == IInv /\ Cancel => IInv'
  <1> SUFFICES ASSUME IInv, Cancel PROVE IInv'
    OBVIOUS
  <1> USE DEF IInv
  <1>1. Drawing /\ Top.at # Touched /\ Return
    BY DEF Cancel, Dragging
  <1>2. UNCHANGED <<markmap, current_mappage, unkept>>
    BY DEF Cancel, maps
  <1>3. TypeOK'
    <2>1. /\ markmap' \in Maps /\ current_mappage' \in 0 .. 1
          /\ unkept' \in BOOLEAN
      BY <1>2 DEF TypeOK, Maps
    <2> QED
      BY ReturnTypes, <1>1, <2>1
  <1>4. /\ frames' \in Seq(Frames)
        /\ Len(frames) \in Nat \ {0}
        /\ Len(frames') \in Nat /\ Len(frames') <= Len(frames)
        /\ \A i \in 1 .. Len(frames') :
              /\ i \in 1 .. Len(frames) /\ frames'[i].kind = frames[i].kind
              /\ \/ frames'[i].at = Touched
                 \/ i < Len(frames) /\ frames'[i] = frames[i]
        /\ Interrupted'
    BY ReturnDoes, <1>1
  <1>5. /\ \A c \in Owed' : c \in Owed \/ c \in Gathering
        /\ \A c \in Owed' : \A i, j \in 1 .. Len(frames) :
              i < j /\ frames[j].at # Touched =>
                  c > frames[i].at \/ c > frames[j].at \/ c \in Replotted
        /\ Shown'
    BY ReturnDraws, <1>1
  <1>6. Kept'
    <2>1. AllRemembered /\ Passed /\ PassedOnce /\ Shown /\ IconKept /\ MenuKept
      BY DEF Kept
    <2>2. /\ Gathering' = Gathering /\ Marked' = Marked /\ Replotted' = Replotted
          /\ IconOf(shape, marker)' = IconOf(shape, marker) /\ Touched' = Touched
          /\ ui_mode' = ui_mode
      BY <1>1, <1>2 DEF Return, Gathering, Marked, Replotted, IconOf, Touched
    <2>3. Gathering \subseteq Marked
      <3>1. current_mappage = 0 \/ current_mappage = 1
        BY Owing
      <3> QED
        BY <3>1 DEF Gathering, Marked
    <2>4. AllRemembered'
      BY <1>5, <2>1, <2>2, <2>3 DEF AllRemembered
    <2>5. Passed'
      <3> SUFFICES ASSUME NEW i \in 1 .. Len(frames'), frames'[i].at # Touched,
                          NEW c \in Owed'
                   PROVE  c > frames'[i].at \/ c \in Gathering \cup Replotted
        BY <2>2 DEF Passed
      <3>1. frames'[i] = frames[i] /\ i \in 1 .. Len(frames)
        BY <1>4
      <3> QED
        BY <1>5, <2>1, <3>1 DEF Passed
    <2>6. PassedOnce'
      <3> SUFFICES ASSUME NEW i \in 1 .. Len(frames'), NEW j \in 1 .. Len(frames'),
                          i < j, frames'[j].at # Touched, NEW c \in Owed'
                   PROVE  c > frames'[i].at \/ c > frames'[j].at \/ c \in Replotted
        BY <2>2 DEF PassedOnce
      <3>1. /\ frames'[j] = frames[j] /\ j \in 1 .. Len(frames) /\ j < Len(frames)
            /\ i \in 1 .. Len(frames)
        BY <1>4
      <3>2. frames'[i].at # Touched
        <4>1. i \in 1 .. Len(frames') - 1
          BY <1>4
        <4>2. frames'[i].at \in Cells'
          BY <1>4, <4>1 DEF Interrupted
        <4> QED
          BY Owing, <4>2 DEF Cells
      <3>3. frames'[i] = frames[i]
        BY <1>4, <3>2
      <3> QED
        BY <1>5, <3>1, <3>3
    <2>7. IconKept'
      <3>1. ~Between
        BY <1>1 DEF Between
      <3> QED
        BY <1>2, <2>1, <2>2, <2>3, <3>1 DEF IconKept
    <2>8. MenuKept'
      BY <1>2, <1>4, <2>1, <2>2 DEF MenuKept
    <2> QED
      BY <1>5, <2>4, <2>5, <2>6, <2>7, <2>8 DEF Kept
  <1> QED
    BY <1>3, <1>4, <1>6

-------------------------------------------------------------------------------
(* The main loop's steps between drawings.                                 *)

\* With no drawing in progress there is none that could have passed a cell.
LEMMA NotDrawing ==
    ASSUME IInv, ~Drawing
    PROVE  /\ frames = << >> /\ Len(frames) = 0
           /\ Between
           /\ UNCHANGED frames => Passed' /\ PassedOnce' /\ MenuKept' /\ Between'
           /\ \A kind \in Kinds : Push(kind) =>
                 /\ frames' \in Seq(Frames) /\ Len(frames') = 1
                 /\ frames'[1].kind = kind /\ frames'[1].at = 0 /\ Drawing'
  <1>1. frames = << >> /\ Len(frames) = 0
    BY DEF Drawing
  <1>2. UNCHANGED frames => Passed' /\ PassedOnce' /\ MenuKept' /\ Between'
    BY <1>1 DEF Passed, PassedOnce, MenuKept, Between, Drawing
  <1>3. ASSUME NEW kind \in Kinds, Push(kind)
        PROVE  /\ frames' \in Seq(Frames) /\ Len(frames') = 1
               /\ frames'[1].kind = kind /\ frames'[1].at = 0 /\ Drawing'
    <2>1. /\ frames' \in Seq(Frames)
          /\ Len(frames') = Len(frames) + 1
          /\ frames'[Len(frames')].kind = kind /\ frames'[Len(frames')].at = 0
          /\ Drawing'
      BY Owing, PushDoes, <1>3 DEF IInv
    <2> QED
      BY <1>1, <2>1
  <1> QED
    BY <1>1, <1>2, <1>3 DEF Between

\* A drawing of the main loop has passed nothing yet.
LEMMA NothingPassed ==
    ASSUME TypeOK', frames' \in Seq(Frames), Len(frames') = 1,
           frames'[1].at = 0, frames'[1].kind \notin {"menu", "flip"}
    PROVE  Passed' /\ PassedOnce' /\ MenuKept'
  <1>1. \A c \in Owed' : c > 0
    BY Constants DEF TypeOK, Owed, Cells
  <1>2. \A i \in 1 .. Len(frames') :
            frames'[i].at = 0 /\ frames'[i].kind \notin {"menu", "flip"}
    <2> SUFFICES ASSUME NEW i \in 1 .. Len(frames') PROVE i = 1
      OBVIOUS
    <2> QED
      OBVIOUS
  <1>3. Passed'
    BY <1>1, <1>2 DEF Passed
  <1>4. PassedOnce'
    BY <1>1, <1>2 DEF PassedOnce
  <1>5. MenuKept'
    BY <1>2 DEF MenuKept
  <1> QED
    BY <1>3, <1>4, <1>5

\* A plot marks the trace and where it puts the icon; where it takes the icon
\* away from, the map that was kept has it, or the cell is given up (raced).
LEMMA PlotKeeps ==
    ASSUME IInv, Plot
    PROVE  /\ AllRemembered' /\ Shown' /\ IconKept'
           /\ shape' \in Shapes /\ marker' \in Positions \cup {Off}
           /\ markmap' \in Maps /\ unkept' \in BOOLEAN
           /\ stale' \in SUBSET Cells /\ raced' \in SUBSET Cells
           /\ ~Drawing
           /\ UNCHANGED <<current_mappage, plot_redraw_enable, domain_mode>>
           /\ UNCHANGED <<sweep_enabled, ui_mode, icons, events>>
  <1> USE DEF IInv
  <1>1. PICK s \in Shapes, m \in Positions \cup {Off} : PlotIntoIndex(s, m)
    BY DEF Plot, TypeOK
  <1> DEFINE ms == PlotMarks(s)
  <1>2. /\ UNCHANGED <<current_mappage, plot_redraw_enable, domain_mode>>
        /\ UNCHANGED <<sweep_enabled, ui_mode, icons, events>>
        /\ ~Drawing
    BY DEF Plot
  <1>3. /\ ms \in SUBSET Cells
        /\ shape \in Shapes /\ marker \in Positions \cup {Off}
        /\ icons \in SUBSET Cells /\ IconOf(s, m) \in SUBSET Cells
    BY Constants DEF PlotMarks, TypeOK
  <1>4. /\ Mark(ms) /\ shape' = s /\ marker' = m /\ unkept' = (m # marker)
        /\ stale' = stale \cup Trace[shape] \cup Trace[s] \cup UpperCells
                          \cup icons \cup IconOf(s, m)
        /\ raced' = raced \cup ((IF unkept THEN icons ELSE {}) \ ms)
                          \cup (IconOf(s, m) \ ms)
    BY <1>1 DEF PlotIntoIndex
  <1>5. stale' \in SUBSET Cells /\ raced' \in SUBSET Cells
    BY Constants, <1>3, <1>4 DEF TypeOK
  <1>6. ms = Trace[shape] \cup Trace[s] \cup IconOf(s, marker) \cup UpperCells
    BY DEF PlotMarks
  <1> HIDE DEF ms
  <1>7. /\ markmap' \in Maps
        /\ Gathering' = Gathering \cup ms
        /\ Marked' = Marked \cup ms
        /\ Gathering \subseteq Marked
    BY Owing, MarkDoes, <1>2, <1>3, <1>4
  <1>8. AllRemembered /\ Shown /\ IconKept
    BY DEF Kept
  <1>9. AllRemembered'
    <2> SUFFICES ASSUME NEW c \in Owed' PROVE c \in Marked \cup ms
      BY <1>7 DEF AllRemembered
    <2>1. c \in stale' /\ c \in Visible /\ c \notin raced'
      BY <1>2 DEF Owed, Visible, Cells
    <2>2. CASE c \in stale
      <3>1. c \in Owed
        BY <1>4, <2>1, <2>2 DEF Owed
      <3> QED
        BY <1>6, <1>8, <3>1 DEF AllRemembered, Replotted
    <2>3. CASE c \in icons \ stale
      <3>1. CASE unkept
        BY <1>4, <2>1, <2>3, <3>1
      <3>2. CASE ~unkept
        <4>1. Between
          BY NotDrawing, <1>2
        <4> QED
          BY <1>8, <2>3, <3>2, <4>1 DEF Shown, IconKept
      <3> QED
        BY <3>1, <3>2 DEF TypeOK
    <2>4. CASE c \in IconOf(s, m)
      BY <1>4, <2>1, <2>4
    <2>5. CASE c \in Trace[shape] \cup Trace[s] \cup UpperCells
      BY <1>6, <2>5
    <2> QED
      BY <1>4, <2>1, <2>2, <2>3, <2>4, <2>5
  <1>10. Shown'
    BY <1>2, <1>4 DEF Shown
  <1>11. IconKept'
    <2>1. ~unkept' => IconOf(shape, marker)' \subseteq ms
      BY <1>4, <1>6 DEF IconOf
    <2> QED
      BY <1>7, <2>1 DEF IconKept
  <1> QED
    BY <1>2, <1>4, <1>5, <1>7, <1>9, <1>10, <1>11

LEMMA StepPlotOnly == IInv /\ PlotOnly => IInv'
  <1> SUFFICES ASSUME IInv, PlotOnly PROVE IInv'
    OBVIOUS
  <1> USE DEF IInv
  <1>1. /\ AllRemembered' /\ Shown' /\ IconKept'
        /\ shape' \in Shapes /\ marker' \in Positions \cup {Off}
        /\ markmap' \in Maps /\ unkept' \in BOOLEAN
        /\ stale' \in SUBSET Cells /\ raced' \in SUBSET Cells
        /\ ~Drawing
        /\ UNCHANGED <<current_mappage, plot_redraw_enable, domain_mode>>
        /\ UNCHANGED <<sweep_enabled, ui_mode, icons, events>>
    BY PlotKeeps DEF PlotOnly
  <1>2. UNCHANGED <<plot_canceled, frames>> /\ redraw_request' \subseteq Requests
    BY DEF PlotOnly, TypeOK, Requests
  <1>3. TypeOK'
    BY <1>1, <1>2 DEF TypeOK, Maps, Cells, Touched
  <1>4. Kept'
    BY <1>1, <1>2, NotDrawing DEF Kept
  <1>5. Interrupted'
    BY <1>1, <1>2 DEF Interrupted, Drawing, Top, Cells
  <1> QED
    BY <1>3, <1>4, <1>5

LEMMA StepPlotAndDraw == IInv /\ PlotAndDraw => IInv'
  <1> SUFFICES ASSUME IInv, PlotAndDraw PROVE IInv'
    OBVIOUS
  <1> USE DEF IInv
  <1>1. /\ AllRemembered' /\ Shown' /\ IconKept'
        /\ shape' \in Shapes /\ marker' \in Positions \cup {Off}
        /\ markmap' \in Maps /\ unkept' \in BOOLEAN
        /\ stale' \in SUBSET Cells /\ raced' \in SUBSET Cells
        /\ ~Drawing
        /\ UNCHANGED <<current_mappage, plot_redraw_enable, domain_mode>>
        /\ UNCHANGED <<sweep_enabled, ui_mode, icons, events>>
    BY PlotKeeps DEF PlotAndDraw
  <1>2. plot_canceled' = FALSE /\ redraw_request' \subseteq Requests
    BY DEF PlotAndDraw, TypeOK, Requests
  <1>3. /\ frames' \in Seq(Frames) /\ Len(frames') = 1
        /\ frames'[1].kind = "all" /\ frames'[1].at = 0 /\ Drawing'
    BY NotDrawing, <1>1 DEF PlotAndDraw, Kinds
  <1>4. TypeOK'
    BY <1>1, <1>2, <1>3 DEF TypeOK, Maps, Cells, Touched, Frames
  <1>5. Kept'
    <2>1. Passed' /\ PassedOnce' /\ MenuKept'
      BY NothingPassed, <1>3, <1>4
    <2> QED
      BY <1>1, <2>1 DEF Kept
  <1>6. Interrupted'
    <2>1. plot_redraw_enable /\ ui_mode # "KEYPAD"
      BY DEF PlotAndDraw, Interrupted
    <2> QED
      BY <1>1, <1>3, <2>1 DEF Interrupted
  <1> QED
    BY <1>4, <1>5, <1>6

LEMMA StepDrawOnly == IInv /\ DrawOnly => IInv'
  <1> SUFFICES ASSUME IInv, DrawOnly PROVE IInv'
    OBVIOUS
  <1> USE DEF IInv
  <1>1. /\ UNCHANGED <<shape, marker, current_mappage, redraw_request>>
        /\ UNCHANGED <<plot_redraw_enable, domain_mode, sweep_enabled, ui_mode>>
        /\ UNCHANGED <<stale, icons, raced, events>>
        /\ plot_canceled' = FALSE /\ unkept' = TRUE /\ ~Drawing
    BY DEF DrawOnly
  <1>2. /\ frames' \in Seq(Frames) /\ Len(frames') = 1
        /\ frames'[1].kind = "all" /\ frames'[1].at = 0 /\ Drawing'
    BY NotDrawing, <1>1 DEF DrawOnly, Kinds
  <1>3. markmap' \in Maps /\ Marked \subseteq Marked'
    <2>1. CASE UNCHANGED markmap
      BY Owing, <2>1 DEF Marked
    <2>2. CASE Mark(UpperCells)
      BY Constants, Owing, MarkDoes, <1>1, <2>2
    <2> QED
      BY <2>1, <2>2 DEF DrawOnly
  <1>4. TypeOK'
    BY <1>1, <1>2, <1>3 DEF TypeOK, Maps, Cells, Touched, Frames
  <1>5. Kept'
    <2>1. Passed' /\ PassedOnce' /\ MenuKept'
      BY NothingPassed, <1>2, <1>4
    <2>2. Owed' = Owed /\ Replotted' = Replotted
      BY <1>1 DEF Owed, Visible, Cells, Replotted
    <2>3. AllRemembered => AllRemembered'
      BY <1>3, <2>2 DEF AllRemembered
    <2>4. Shown => Shown'
      BY <1>1 DEF Shown, IconOf
    <2>5. IconKept'
      BY <1>1 DEF IconKept
    <2> QED
      BY <2>1, <2>3, <2>4, <2>5 DEF Kept
  <1>6. Interrupted'
    <2>1. plot_redraw_enable /\ ui_mode # "KEYPAD"
      BY DEF DrawOnly, Interrupted
    <2> QED
      BY <1>1, <1>2, <2>1 DEF Interrupted
  <1> QED
    BY <1>4, <1>5, <1>6

-------------------------------------------------------------------------------
(* The user's events.                                                      *)

LEMMA Handled ==
    ASSUME IInv, Event
    PROVE  /\ events' \in 0 .. MaxEvents
           /\ \A i \in 1 .. Len(frames) : frames[i].at \in Cells
  <1> USE DEF IInv
  <1>1. events' \in 0 .. MaxEvents
    BY ScreenAssumption DEF Event, Handling, TypeOK
  <1>2. ASSUME NEW i \in 1 .. Len(frames)
        PROVE  frames[i].at \in Cells
    <2>1. Len(frames) \in Nat
      BY Owing
    <2>2. CASE i = Len(frames)
      <3>1. Drawing
        BY <2>1 DEF Drawing
      <3> QED
        BY <2>2, <3>1 DEF Event, Handling, Top
    <2>3. CASE i # Len(frames)
      <3>1. i \in 1 .. Len(frames) - 1
        BY <2>1, <2>3
      <3> QED
        BY <3>1 DEF Interrupted
    <2> QED
      BY <2>2, <2>3
  <1> QED
    BY <1>1, <1>2

\* An event begins a drawing inside those that have drawn a cell.
LEMMA EventPushes ==
    ASSUME IInv, Event, NEW kind \in Kinds, Push(kind)
    PROVE  /\ frames' \in Seq(Frames)
           /\ \A i \in 1 .. Len(frames') - 1 : frames'[i].at \in Cells
           /\ \A i \in 1 .. Len(frames') :
                 \/ frames'[i].at = 0
                 \/ i \in 1 .. Len(frames) /\ frames'[i].at = frames[i].at
           /\ \A i \in 1 .. Len(frames') :
                 \/ frames'[i].kind = kind
                 \/ i \in 1 .. Len(frames) /\ frames'[i].kind = frames[i].kind
  <1>1. /\ frames' \in Seq(Frames)
        /\ Len(frames') = Len(frames) + 1
        /\ frames'[Len(frames')].kind = kind /\ frames'[Len(frames')].at = 0
        /\ \A i \in 1 .. Len(frames) : frames'[i] = frames[i]
    BY Owing, PushDoes DEF IInv
  <1>2. Len(frames) \in Nat
    BY Owing DEF IInv
  <1>3. \A i \in 1 .. Len(frames') - 1 : frames'[i].at \in Cells
    BY Handled, <1>1, <1>2
  <1>4. ASSUME NEW i \in 1 .. Len(frames')
        PROVE  \/ frames'[i].at = 0 /\ frames'[i].kind = kind
               \/ i \in 1 .. Len(frames) /\ frames'[i] = frames[i]
    <2>1. i = Len(frames') \/ i \in 1 .. Len(frames)
      BY <1>1, <1>2
    <2> QED
      BY <1>1, <2>1
  <1> QED
    BY <1>1, <1>3, <1>4

\* The marker moves.
LEMMA MoveDoes ==
    ASSUME IInv, NEW m \in Positions \cup {Off}, MoveTo(m), UNCHANGED shape
    PROVE  LET ms == MarkerMarks(m)
               cs == icons \cup IconOf(shape, m) \cup UpperCells
           IN  /\ cs \in SUBSET Cells /\ ms \in SUBSET cs
               /\ Mark(ms) /\ Change(cs, ms)
               /\ marker' = m /\ IconOf(shape, marker') \subseteq ms /\ icons \subseteq cs
               /\ cs \subseteq ms \cup UpperCells \cup icons \cup IconOf(shape, marker)
               /\ UNCHANGED current_mappage => markmap' \in Maps
               /\ stale' \in SUBSET Cells /\ raced' \in SUBSET Cells
  <1> USE DEF IInv
  <1> DEFINE ms == MarkerMarks(m)
             cs == icons \cup IconOf(shape, m) \cup UpperCells
  <1>1. cs \in SUBSET Cells /\ ms \in SUBSET cs
    BY Constants DEF MarkerMarks, TypeOK
  <1>2. Mark(ms) /\ Change(cs, ms) /\ marker' = m
    BY DEF MoveTo
  <1>3. IconOf(shape, marker') \subseteq ms
    BY <1>2 DEF MarkerMarks, IconOf
  <1>4. icons \subseteq cs /\ cs \subseteq ms \cup UpperCells \cup icons
    BY <1>2, <1>3
  <1> HIDE DEF ms, cs
  <1>5. UNCHANGED current_mappage => markmap' \in Maps
    BY Owing, MarkDoes, <1>1, <1>2
  <1>6. stale' \in SUBSET Cells /\ raced' \in SUBSET Cells
    BY ChangeDoes, <1>1, <1>2
  <1> QED
    BY <1>1, <1>2, <1>3, <1>4, <1>5, <1>6 DEF ms, cs

LEMMA StepLeverMoveMarker == IInv /\ LeverMoveMarker => IInv'
  <1> SUFFICES ASSUME IInv, LeverMoveMarker PROVE IInv'
    OBVIOUS
  <1> USE DEF IInv
  <1>1. PICK m \in Positions : MoveTo(m)
    BY DEF LeverMoveMarker
  <1>2. /\ UNCHANGED <<shape, current_mappage, redraw_request, ui_mode, frames>>
        /\ UNCHANGED <<icons, unkept>>
        /\ UNCHANGED <<plot_redraw_enable, plot_canceled, domain_mode, sweep_enabled>>
        /\ ui_mode = "NORMAL" /\ Event
    BY DEF LeverMoveMarker, control
  <1> DEFINE ms == MarkerMarks(m)
             cs == icons \cup IconOf(shape, m) \cup UpperCells
  <1>3. /\ cs \in SUBSET Cells /\ ms \in SUBSET cs
        /\ Mark(ms) /\ Change(cs, ms)
        /\ marker' = m /\ IconOf(shape, marker') \subseteq ms /\ icons \subseteq cs
        /\ cs \subseteq ms \cup UpperCells \cup icons \cup IconOf(shape, marker)
        /\ markmap' \in Maps
        /\ stale' \in SUBSET Cells /\ raced' \in SUBSET Cells
        /\ Visible' \subseteq Visible \cup ms
    BY MoveDoes, <1>1, <1>2 DEF Visible, Cells
  <1> HIDE DEF ms, cs
  <1>4. TypeOK'
    BY <1>2, <1>3, Handled DEF TypeOK, Maps, Cells, Touched
  <1>5. Kept'
    BY EventKeeps, <1>2, <1>3, <1>4
  <1>6. Interrupted'
    BY <1>2 DEF Interrupted, Drawing, Top, Cells
  <1> QED
    BY <1>4, <1>5, <1>6

LEMMA StepDragMarker == IInv /\ DragMarker => IInv'
  <1> SUFFICES ASSUME IInv, DragMarker PROVE IInv'
    OBVIOUS
  <1> USE DEF IInv
  <1>1. PICK m \in Positions : MoveTo(m)
    BY DEF DragMarker
  <1>2. /\ UNCHANGED <<shape, current_mappage, redraw_request, ui_mode, icons, unkept>>
        /\ UNCHANGED <<plot_redraw_enable, plot_canceled, domain_mode, sweep_enabled>>
        /\ ui_mode = "NORMAL" /\ Event /\ Push("drag")
    BY DEF DragMarker, control
  <1> DEFINE ms == MarkerMarks(m)
             cs == icons \cup IconOf(shape, m) \cup UpperCells
  <1>3. /\ cs \in SUBSET Cells /\ ms \in SUBSET cs
        /\ Mark(ms) /\ Change(cs, ms)
        /\ marker' = m /\ IconOf(shape, marker') \subseteq ms /\ icons \subseteq cs
        /\ cs \subseteq ms \cup UpperCells \cup icons \cup IconOf(shape, marker)
        /\ markmap' \in Maps
        /\ stale' \in SUBSET Cells /\ raced' \in SUBSET Cells
        /\ Visible' \subseteq Visible \cup ms
    BY MoveDoes, <1>1, <1>2 DEF Visible, Cells
  <1> HIDE DEF ms, cs
  <1>4. /\ frames' \in Seq(Frames)
        /\ \A i \in 1 .. Len(frames') - 1 : frames'[i].at \in Cells
        /\ \A i \in 1 .. Len(frames') :
              \/ frames'[i].at = 0
              \/ i \in 1 .. Len(frames) /\ frames'[i].at = frames[i].at
        /\ \A i \in 1 .. Len(frames') :
              \/ frames'[i].kind = "drag"
              \/ i \in 1 .. Len(frames) /\ frames'[i].kind = frames[i].kind
    BY EventPushes, <1>2 DEF Kinds
  <1>5. TypeOK'
    BY <1>2, <1>3, <1>4, Handled DEF TypeOK, Maps, Cells, Touched, Frames
  <1>6. Kept'
    BY EventKeeps, <1>2, <1>3, <1>4, <1>5
  <1>7. Interrupted'
    BY <1>2, <1>4 DEF Interrupted, Cells
  <1> QED
    BY <1>5, <1>6, <1>7

LEMMA StepMenuMarker == IInv /\ MenuMarker => IInv'
  <1> SUFFICES ASSUME IInv, MenuMarker PROVE IInv'
    OBVIOUS
  <1> USE DEF IInv
  <1>1. PICK m \in Positions \cup {Off} : MoveTo(m)
    BY DEF MenuMarker
  <1>2. /\ UNCHANGED <<shape, current_mappage, redraw_request, ui_mode, icons, unkept>>
        /\ UNCHANGED <<plot_redraw_enable, plot_canceled, domain_mode, sweep_enabled>>
        /\ ui_mode = "MENU" /\ Event /\ Push("menu")
    BY DEF MenuMarker, control
  <1> DEFINE ms == MarkerMarks(m)
             cs == icons \cup IconOf(shape, m) \cup UpperCells
  <1>3. /\ cs \in SUBSET Cells /\ ms \in SUBSET cs
        /\ Mark(ms) /\ Change(cs, ms)
        /\ marker' = m /\ IconOf(shape, marker') \subseteq ms /\ icons \subseteq cs
        /\ cs \subseteq ms \cup UpperCells \cup icons \cup IconOf(shape, marker)
        /\ markmap' \in Maps
        /\ stale' \in SUBSET Cells /\ raced' \in SUBSET Cells
        /\ Visible' \subseteq Visible \cup ms
    BY MoveDoes, <1>1, <1>2 DEF Visible, Cells
  <1> HIDE DEF ms, cs
  <1>4. /\ frames' \in Seq(Frames)
        /\ \A i \in 1 .. Len(frames') - 1 : frames'[i].at \in Cells
        /\ \A i \in 1 .. Len(frames') :
              \/ frames'[i].at = 0
              \/ i \in 1 .. Len(frames) /\ frames'[i].at = frames[i].at
    BY EventPushes, <1>2 DEF Kinds
  <1>5. TypeOK'
    BY <1>2, <1>3, <1>4, Handled DEF TypeOK, Maps, Cells, Touched, Frames
  <1>6. Kept'
    BY EventKeeps, <1>2, <1>3, <1>4, <1>5
  <1>7. Interrupted'
    BY <1>2, <1>4 DEF Interrupted, Cells
  <1> QED
    BY <1>5, <1>6, <1>7

LEMMA StepDragOn == IInv /\ DragOn => IInv'
  <1> SUFFICES ASSUME IInv, DragOn PROVE IInv'
    OBVIOUS
  <1> USE DEF IInv
  <1>1. PICK m \in Positions : MoveTo(m)
    BY DEF DragOn
  <1>2. /\ UNCHANGED <<shape, current_mappage, redraw_request, ui_mode, icons, unkept>>
        /\ UNCHANGED <<plot_redraw_enable, plot_canceled, domain_mode, sweep_enabled>>
        /\ Drawing /\ Top.at = Touched
    BY DEF DragOn, control, Dragging
  <1> DEFINE ms == MarkerMarks(m)
             cs == icons \cup IconOf(shape, m) \cup UpperCells
  <1>3. /\ cs \in SUBSET Cells /\ ms \in SUBSET cs
        /\ Mark(ms) /\ Change(cs, ms)
        /\ marker' = m /\ IconOf(shape, marker') \subseteq ms /\ icons \subseteq cs
        /\ cs \subseteq ms \cup UpperCells \cup icons \cup IconOf(shape, marker)
        /\ markmap' \in Maps
        /\ stale' \in SUBSET Cells /\ raced' \in SUBSET Cells
        /\ Visible' \subseteq Visible \cup ms
    BY MoveDoes, <1>1, <1>2 DEF Visible, Cells
  <1> HIDE DEF ms, cs
  <1>4. events' \in 0 .. MaxEvents
    BY ScreenAssumption DEF DragOn, TypeOK
  <1>5. /\ frames' \in Seq(Frames)
        /\ Len(frames') = Len(frames) /\ Len(frames) \in Nat \ {0}
        /\ Top'.at = 0 /\ Top'.kind = Top.kind
        /\ \A i \in 1 .. Len(frames) - 1 : frames'[i] = frames[i]
        /\ \A i \in 1 .. Len(frames) : frames'[i].kind = frames[i].kind
    BY Owing, TopDoes, <1>2 DEF DragOn
  <1>6. \A i \in 1 .. Len(frames') :
            \/ frames'[i].at = 0
            \/ i \in 1 .. Len(frames) /\ frames'[i].at = frames[i].at
    <2> SUFFICES ASSUME NEW i \in 1 .. Len(frames)
                 PROVE  frames'[i].at = 0 \/ frames'[i] = frames[i]
      BY <1>5
    <2>1. CASE i = Len(frames)
      BY <1>5, <2>1 DEF Top
    <2>2. CASE i # Len(frames)
      BY <1>5, <2>2
    <2> QED
      BY <2>1, <2>2
  <1>7. TypeOK'
    BY <1>2, <1>3, <1>4, <1>5 DEF TypeOK, Maps, Cells, Touched, Frames
  <1>8. Kept'
    <2>1. \A i \in 1 .. Len(frames') :
              i \in 1 .. Len(frames) /\ frames'[i].kind = frames[i].kind
      BY <1>5
    <2> QED
      BY EventKeeps, <1>2, <1>3, <1>6, <1>7, <2>1
  <1>9. Interrupted'
    <2>1. \A i \in 1 .. Len(frames') - 1 : frames'[i].at \in Cells
      BY <1>5 DEF Interrupted
    <2>2. ui_mode = "KEYPAD" => Top.kind = "drag"
      BY Owing, <1>2 DEF Interrupted
    <2> QED
      BY <1>2, <1>5, <2>1, <2>2 DEF Interrupted, Cells
  <1> QED
    BY <1>7, <1>8, <1>9

LEMMA StepRelease == IInv /\ Release => IInv'
  <1> SUFFICES ASSUME IInv, Release PROVE IInv'
    OBVIOUS
  <1> USE DEF IInv
  <1>1. /\ UNCHANGED <<shape, marker, markmap, current_mappage, redraw_request>>
        /\ UNCHANGED <<plot_redraw_enable, plot_canceled, domain_mode, sweep_enabled>>
        /\ UNCHANGED <<ui_mode, stale, icons, unkept, raced, events>>
        /\ Drawing /\ Top.at = Touched /\ frames' = Front(frames)
    BY DEF Release, Dragging, maps, control
  <1>2. /\ frames' \in Seq(Frames)
        /\ Len(frames') = Len(frames) - 1 /\ Len(frames) \in Nat \ {0}
        /\ \A i \in 1 .. Len(frames') : frames'[i] = frames[i]
        /\ Drawing' => Len(frames') >= 1 /\ Top' = frames[Len(frames')]
    BY Owing, PopDoes, <1>1
  <1>3. TypeOK'
    BY <1>1, <1>2 DEF TypeOK, Cells, Touched, Frames
  <1>4. /\ Gathering' = Gathering /\ Marked' = Marked /\ Replotted' = Replotted
        /\ IconOf(shape, marker)' = IconOf(shape, marker) /\ Touched' = Touched
        /\ Owed' = Owed
    BY <1>1 DEF Gathering, Marked, Replotted, IconOf, Touched, Owed, Visible, Cells
  <1>5. (AllRemembered => AllRemembered') /\ (Shown => Shown')
    BY <1>1, <1>4 DEF AllRemembered, Shown
  <1>6. (Passed => Passed') /\ (PassedOnce => PassedOnce')
    <2>1. 1 .. Len(frames') \subseteq 1 .. Len(frames)
      BY <1>2
    <2>2. Passed => Passed'
      BY <1>2, <1>4, <2>1 DEF Passed
    <2>3. PassedOnce => PassedOnce'
      BY <1>2, <1>4, <2>1 DEF PassedOnce
    <2> QED
      BY <2>2, <2>3
  <1>7. IconKept => IconKept'
    <2>1. current_mappage = 0 \/ current_mappage = 1
      BY Owing
    <2>2. Gathering \subseteq Marked
      BY <2>1 DEF Gathering, Marked
    <2>3. CASE Drawing'
      <3>1. ~Between
        <4>1. Len(frames') >= 1
          BY <1>2, <2>3
        <4>2. Len(frames) # 1
          BY <1>2, <4>1
        <4> QED
          BY <1>1, <4>2 DEF Between
      <3> QED
        BY <1>1, <1>4, <2>2, <3>1 DEF IconKept
    <2>4. CASE ~Drawing'
      BY <1>1, <1>4, <2>2, <2>4 DEF IconKept, Between
    <2> QED
      BY <2>3, <2>4
  <1>8. MenuKept => MenuKept'
    <2>1. 1 .. Len(frames') \subseteq 1 .. Len(frames)
      BY <1>2
    <2> QED
      BY <1>1, <1>2, <1>4, <2>1 DEF MenuKept
  <1>9. Kept'
    BY <1>1, <1>5, <1>6, <1>7, <1>8 DEF Kept
  <1>10. Interrupted'
    <2>1. \A i \in 1 .. Len(frames') - 1 : frames'[i].at \in Cells
      BY <1>2 DEF Interrupted
    <2>2. Drawing' => Top'.at \in Cells
      BY <1>2 DEF Interrupted
    <2> QED
      BY <1>1, <2>1, <2>2 DEF Interrupted, Cells
  <1> QED
    BY <1>3, <1>9, <1>10

\* An event that marks what it changes and begins no drawing.
LEMMA EventMarks ==
    ASSUME IInv, Event, NEW cs \in SUBSET Cells, Mark(cs), Change(cs, cs),
           UNCHANGED <<shape, marker, current_mappage, frames, icons, unkept>>,
           redraw_request' \subseteq Requests, domain_mode' \in {"FREQ", "TIME"},
           plot_redraw_enable' \in BOOLEAN, plot_canceled' \in BOOLEAN,
           sweep_enabled' = sweep_enabled,
           ui_mode' \in {"MENU", "NORMAL"}, MenuCells \subseteq cs,
           Visible' \subseteq Visible \cup cs
    PROVE  IInv'
  <1> USE DEF IInv
  <1>1. markmap' \in Maps
    BY Owing, MarkDoes
  <1>2. stale' \in SUBSET Cells /\ raced' \in SUBSET Cells
    BY ChangeDoes
  <1>3. TypeOK'
    BY <1>1, <1>2, Handled DEF TypeOK, Maps, Cells, Touched
  <1>4. Kept'
    BY EventKeeps, <1>3
  <1>5. Interrupted'
    BY DEF Interrupted, Cells
  <1> QED
    BY <1>3, <1>4, <1>5

LEMMA StepCloseMenu == IInv /\ CloseMenu => IInv'
  <1> SUFFICES ASSUME IInv, CloseMenu PROVE IInv'
    OBVIOUS
  <1>1. Visible = Cells \ MenuCells /\ Visible' = Cells /\ MenuCells \in SUBSET Cells
    BY Constants DEF CloseMenu, Visible, Cells
  <1>2. redraw_request' \subseteq Requests
    BY DEF CloseMenu, IInv, TypeOK, Requests
  <1>3. /\ UNCHANGED <<shape, marker, current_mappage, frames, icons, unkept>>
        /\ UNCHANGED <<plot_redraw_enable, plot_canceled, domain_mode, sweep_enabled>>
        /\ Event /\ Mark(MenuCells) /\ Change(MenuCells, MenuCells) /\ ui_mode' = "NORMAL"
    BY DEF CloseMenu, control
  <1>4. /\ plot_redraw_enable \in BOOLEAN /\ plot_canceled \in BOOLEAN
        /\ domain_mode \in {"FREQ", "TIME"}
    BY DEF IInv, TypeOK
  <1> QED
    BY EventMarks, <1>1, <1>2, <1>3, <1>4

LEMMA StepToggleTransform == IInv /\ ToggleTransform => IInv'
  <1> SUFFICES ASSUME IInv, ToggleTransform PROVE IInv'
    OBVIOUS
  <1>1. Visible = Cells \ MenuCells /\ Visible' = Cells /\ MenuCells \in SUBSET Cells
    BY Constants DEF ToggleTransform, Visible, Cells
  <1>2. redraw_request' \subseteq Requests /\ domain_mode' \in {"FREQ", "TIME"}
    BY DEF ToggleTransform, IInv, TypeOK, Requests
  <1>3. /\ UNCHANGED <<shape, marker, current_mappage, frames, icons, unkept>>
        /\ UNCHANGED <<plot_redraw_enable, plot_canceled, sweep_enabled>>
        /\ Event /\ Mark(MenuCells) /\ Change(MenuCells, MenuCells) /\ ui_mode' = "NORMAL"
    BY DEF ToggleTransform
  <1>4. plot_redraw_enable \in BOOLEAN /\ plot_canceled \in BOOLEAN
    BY DEF IInv, TypeOK
  <1> QED
    BY EventMarks, <1>1, <1>2, <1>3, <1>4

LEMMA StepChangeLook == IInv /\ ChangeLook => IInv'
  <1> SUFFICES ASSUME IInv, ChangeLook PROVE IInv'
    OBVIOUS
  <1>1. MenuCells \subseteq Cells /\ Visible' \subseteq Visible \cup Cells
    BY Constants DEF ChangeLook, Visible, Cells
  <1>2. redraw_request' \subseteq Requests
    BY DEF ChangeLook, IInv, TypeOK, Requests
  <1>3. /\ UNCHANGED <<shape, marker, current_mappage, frames, icons, unkept>>
        /\ UNCHANGED <<plot_redraw_enable, plot_canceled, domain_mode, sweep_enabled>>
        /\ Event /\ Mark(Cells) /\ Change(Cells, Cells) /\ ui_mode' \in {"MENU", "NORMAL"}
    BY DEF ChangeLook, control
  <1>4. /\ plot_redraw_enable \in BOOLEAN /\ plot_canceled \in BOOLEAN
        /\ domain_mode \in {"FREQ", "TIME"}
    BY DEF IInv, TypeOK
  <1> QED
    BY EventMarks, <1>1, <1>2, <1>3, <1>4

LEMMA StepCloseKeypad == IInv /\ CloseKeypad => IInv'
  <1> SUFFICES ASSUME IInv, CloseKeypad PROVE IInv'
    OBVIOUS
  <1>1. MenuCells \subseteq Cells /\ Visible' \subseteq Visible \cup Cells
    BY Constants DEF CloseKeypad, Visible, Cells
  <1>2. redraw_request' \subseteq Requests
    BY DEF CloseKeypad, IInv, TypeOK, Requests
  <1>3. /\ UNCHANGED <<shape, marker, current_mappage, frames, icons, unkept>>
        /\ UNCHANGED <<domain_mode, sweep_enabled>>
        /\ Event /\ Mark(Cells) /\ Change(Cells, Cells) /\ ui_mode' = "NORMAL"
    BY DEF CloseKeypad
  <1>4. /\ plot_redraw_enable' \in BOOLEAN /\ plot_canceled' \in BOOLEAN
        /\ domain_mode \in {"FREQ", "TIME"}
    BY DEF CloseKeypad, EnableRedraw, IInv, TypeOK
  <1> QED
    BY EventMarks, <1>1, <1>2, <1>3, <1>4

\* The display is flipped: every cell is marked, and drawn in the handler.
LEMMA StepFlipDisplay == IInv /\ FlipDisplay => IInv'
  <1> SUFFICES ASSUME IInv, FlipDisplay PROVE IInv'
    OBVIOUS
  <1> USE DEF IInv
  <1>1. /\ UNCHANGED <<shape, marker, current_mappage, ui_mode, icons, unkept>>
        /\ UNCHANGED <<plot_redraw_enable, domain_mode, sweep_enabled>>
        /\ redraw_request' = Requests /\ plot_canceled' = FALSE
        /\ ui_mode = "MENU" /\ Event /\ Mark(Cells) /\ Change(Cells, Cells) /\ Push("flip")
    BY DEF FlipDisplay
  <1>2. /\ frames' \in Seq(Frames)
        /\ \A i \in 1 .. Len(frames') - 1 : frames'[i].at \in Cells
        /\ \A i \in 1 .. Len(frames') :
              \/ frames'[i].at = 0
              \/ i \in 1 .. Len(frames) /\ frames'[i].at = frames[i].at
    BY EventPushes, <1>1 DEF Kinds
  <1>3. markmap' \in Maps
    BY Owing, MarkDoes, <1>1
  <1>4. stale' \in SUBSET Cells /\ raced' \in SUBSET Cells
    BY ChangeDoes, <1>1
  <1>5. TypeOK'
    BY <1>1, <1>2, <1>3, <1>4, Handled DEF TypeOK, Maps, Cells, Touched, Frames
  <1>6. Visible' \subseteq Visible \cup Cells /\ icons \subseteq Cells
    BY <1>1 DEF Visible, Cells, TypeOK
  <1>7. IconOf(shape, marker') \subseteq Cells
    BY Constants, <1>1 DEF TypeOK
  <1>8. Kept'
    BY EventKeeps, <1>1, <1>2, <1>5, <1>6, <1>7
  <1>9. Interrupted'
    BY <1>1, <1>2 DEF Interrupted, Cells
  <1> QED
    BY <1>5, <1>8, <1>9

LEMMA StepOpenMenu == IInv /\ OpenMenu => IInv'
  <1> SUFFICES ASSUME IInv, OpenMenu PROVE IInv'
    OBVIOUS
  <1> USE DEF IInv
  <1>1. /\ UNCHANGED <<shape, marker, maps, redraw_request, frames, stale, icons>>
        /\ UNCHANGED <<unkept, raced>>
        /\ UNCHANGED <<plot_redraw_enable, plot_canceled, domain_mode, sweep_enabled>>
        /\ UNCHANGED <<markmap, current_mappage>>
        /\ ui_mode = "NORMAL" /\ ui_mode' = "MENU" /\ Event
    BY DEF OpenMenu, control, maps
  <1>2. TypeOK'
    BY <1>1, Handled DEF TypeOK, Cells, Touched
  <1>3. Visible' \subseteq Visible
    BY <1>1 DEF Visible, Cells
  <1>4. Kept'
    BY QuietKeeps, <1>1, <1>3
  <1>5. Interrupted'
    BY <1>1 DEF Interrupted, Cells
  <1> QED
    BY <1>2, <1>4, <1>5

LEMMA StepToggleSweep == IInv /\ ToggleSweep => IInv'
  <1> SUFFICES ASSUME IInv, ToggleSweep PROVE IInv'
    OBVIOUS
  <1> USE DEF IInv
  <1>1. /\ UNCHANGED <<shape, marker, maps, redraw_request, frames, stale, icons>>
        /\ UNCHANGED <<unkept, raced>>
        /\ UNCHANGED <<plot_redraw_enable, plot_canceled, domain_mode, ui_mode>>
        /\ UNCHANGED <<markmap, current_mappage>>
        /\ sweep_enabled' \in BOOLEAN /\ Event
    BY DEF ToggleSweep, maps
  <1>2. TypeOK'
    BY <1>1, Handled DEF TypeOK, Cells, Touched
  <1>3. Visible' = Visible
    BY <1>1 DEF Visible, Cells
  <1>4. Kept'
    BY QuietKeeps, <1>1, <1>3
  <1>5. Interrupted'
    BY <1>1 DEF Interrupted, Drawing, Top, Cells
  <1> QED
    BY <1>2, <1>4, <1>5

\* The keypad cancels the drawing it interrupts: that has drawn a cell.
LEMMA StepOpenKeypad == IInv /\ OpenKeypad => IInv'
  <1> SUFFICES ASSUME IInv, OpenKeypad PROVE IInv'
    OBVIOUS
  <1> USE DEF IInv
  <1>1. /\ UNCHANGED <<shape, marker, maps, redraw_request, frames, stale, icons>>
        /\ UNCHANGED <<unkept, raced>>
        /\ UNCHANGED <<domain_mode, sweep_enabled>>
        /\ UNCHANGED <<markmap, current_mappage>>
        /\ ui_mode' = "KEYPAD" /\ Event
    BY DEF OpenKeypad, maps
  <1>2. plot_redraw_enable' = FALSE /\ plot_canceled' = TRUE
    BY DEF OpenKeypad, EnableRedraw, TypeOK
  <1>3. TypeOK'
    BY <1>1, <1>2, Handled DEF TypeOK, Cells, Touched
  <1>4. Visible' = {}
    BY <1>1 DEF Visible
  <1>5. Kept'
    BY QuietKeeps, <1>1, <1>4
  <1>6. Interrupted'
    <2>1. Drawing => Top.at \in Cells
      BY <1>1 DEF Event, Handling
    <2> QED
      BY <1>1, <1>2, <2>1 DEF Interrupted, Drawing, Top, Cells
  <1> QED
    BY <1>3, <1>5, <1>6

-------------------------------------------------------------------------------
(* The theorems.                                                           *)

LEMMA Start == Init => IInv
  <1> SUFFICES ASSUME Init PROVE IInv
    OBVIOUS
  <1> USE DEF Init
  <1>1. TypeOK
    <2>1. << >> \in Seq([kind : Kinds, at : 0 .. Touched])
      OBVIOUS
    <2>2. markmap \in [0 .. 1 -> SUBSET Cells]
      OBVIOUS
    <2>3. 0 \in 0 .. MaxEvents
      BY ScreenAssumption
    <2> QED
      BY <2>1, <2>2, <2>3 DEF TypeOK
  <1>2. Marked = Cells /\ Gathering = Cells
    BY DEF Marked, Gathering
  <1>3. ~Drawing /\ Len(frames) = 0
    BY DEF Drawing
  <1>4. IconOf(shape, marker) \subseteq Cells
    BY Constants
  <1>5. AllRemembered /\ Shown /\ IconKept
    BY <1>1, <1>2, <1>4 DEF AllRemembered, Owed, TypeOK, Shown, IconKept
  <1>6. Passed /\ PassedOnce /\ MenuKept
    BY <1>3 DEF Passed, PassedOnce, MenuKept
  <1>7. Interrupted
    BY <1>3 DEF Interrupted
  <1> QED
    BY <1>1, <1>5, <1>6, <1>7 DEF IInv, Kept

LEMMA Stutter == IInv /\ UNCHANGED vars => IInv'
  <1> SUFFICES ASSUME IInv, UNCHANGED vars PROVE IInv'
    OBVIOUS
  <1> USE DEF IInv, vars, maps, control
  <1>1. TypeOK'
    BY DEF TypeOK, Cells, Touched
  <1>2. Visible' \subseteq Visible
    BY DEF Visible, Cells
  <1>3. Kept'
    BY QuietKeeps, <1>2
  <1>4. Interrupted'
    BY DEF Interrupted, Drawing, Top, Cells
  <1> QED
    BY <1>1, <1>3, <1>4

\* What holds between any two steps of the user and of the main loop: nothing
\* out of date is forgotten, whatever map a drawing empties when it ends (plot.cpp:
\* draw_all_cells()), and the icon is kept in one of them to be wiped out.
THEOREM Invariance == Spec => []IInv
  <1>1. IInv /\ [Next]_vars => IInv'
    BY Stutter, StepPlotOnly, StepPlotAndDraw, StepDrawOnly, StepDrawCell,
       StepFinish, StepCancel, StepLeverMoveMarker, StepDragMarker, StepDragOn,
       StepRelease, StepMenuMarker, StepOpenMenu, StepCloseMenu, StepChangeLook,
       StepFlipDisplay, StepToggleTransform, StepToggleSweep, StepOpenKeypad,
       StepCloseKeypad
       DEF Next, MainLoop, UserEvent
  <1> QED
    BY <1>1, Start, PTL DEF Spec

\* The variables keep their types, whatever drawings the events nest (plot.cpp).
THEOREM Typing == Spec => []TypeOK
  <1>1. IInv => TypeOK
    BY DEF IInv
  <1> QED
    BY <1>1, Invariance, PTL

\* No ghosts: what is out of date on the display is in one of the two maps of
\* plot.cpp, or the next plot marks it (plot_into_index()), wherever the icon was
\* before; but for a cell changed where two drawings in progress had passed, or
\* left by an icon of which the kept map knows nothing.
THEOREM AlwaysNoGhosts == Spec => []NoGhosts
  <1>1. IInv => NoGhosts
    BY DEF IInv, Kept, AllRemembered, Owed, Replotted, NoGhosts, Remembered
  <1> QED
    BY <1>1, Invariance, PTL

\* No cell is drawn over the keypad (ui_mode_keypad() and draw_all_cells()):
\* a drawing it interrupts has drawn a cell and finds itself canceled.
THEOREM KeypadStays == Spec => KeypadUndisturbed
  <1> DEFINE Undisturbed ==
        ui_mode = "KEYPAD" /\ (\A i \in DOMAIN frames : frames[i].kind # "drag")
            => stale \subseteq stale'
  <1>1. IInv /\ [Next]_vars => [Undisturbed]_vars
    <2> SUFFICES ASSUME IInv, Next, ui_mode = "KEYPAD",
                        \A i \in DOMAIN frames : frames[i].kind # "drag"
                 PROVE  stale \subseteq stale'
      OBVIOUS
    <2>1. CASE DrawCell
      <3>1. Drawing /\ frames \in Seq(Frames)
        BY Owing, <2>1 DEF DrawCell, IInv
      <3>2. Top.kind # "drag"
        BY <3>1 DEF Drawing, Top
      <3>3. plot_canceled /\ Top.at \in Cells
        BY <3>1, <3>2 DEF IInv, Interrupted
      <3>4. Top.at > 0
        BY Constants, <3>3
      <3> QED
        BY <2>1, <3>3, <3>4 DEF DrawCell
    <2>2. CASE Finish \/ Cancel
      BY <2>2 DEF Finish, Cancel, Return, Change
    <2>3. CASE PlotOnly \/ PlotAndDraw
      BY <2>3 DEF PlotOnly, PlotAndDraw, Plot, PlotIntoIndex
    <2>4. CASE DrawOnly
      BY <2>4 DEF DrawOnly
    <2>5. CASE LeverMoveMarker \/ DragMarker \/ DragOn \/ MenuMarker
      BY <2>5 DEF LeverMoveMarker, DragMarker, DragOn, MenuMarker, MoveTo, Change
    <2>6. CASE CloseMenu \/ ChangeLook \/ FlipDisplay \/ ToggleTransform \/ CloseKeypad
      BY <2>6 DEF CloseMenu, ChangeLook, FlipDisplay, ToggleTransform, CloseKeypad, Change
    <2>7. CASE Release \/ OpenMenu \/ ToggleSweep \/ OpenKeypad
      BY <2>7 DEF Release, OpenMenu, ToggleSweep, OpenKeypad
    <2> QED
      BY <2>1, <2>2, <2>3, <2>4, <2>5, <2>6, <2>7 DEF Next, MainLoop, UserEvent
  <1> QED
    BY <1>1, Invariance, PTL DEF Spec, KeypadUndisturbed
===============================================================================
