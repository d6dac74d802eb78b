-------------------------------- MODULE Screen --------------------------------
(***************************************************************************)
(* What is on the display and what the firmware knows to be out of date    *)
(* (plot.cpp, with the drawing done by ui.cpp and the main loop).          *)
(*                                                                         *)
(* The plot is divided into cells that are drawn one at a time.  Two maps  *)
(* say which: one gathers the cells that have changed, the other keeps the *)
(* cells of the last drawing, which are drawn once more so that what moved *)
(* away from them is wiped out.  After each cell the user's events are     *)
(* handled (plot_tick), and their handlers mark cells, open and close the  *)
(* menu and even draw all cells themselves, in the middle of the drawing   *)
(* they interrupt: "frames" is the stack of drawings in progress.          *)
(*                                                                         *)
(* "stale" is the truth the maps stand for: the cells in which something   *)
(* has changed since they were drawn, "icons" the cells in which the icon  *)
(* of the marker is to be seen.  The icon sits on the trace, so that a new *)
(* trace moves it as a new position does, and neither marks the cells that *)
(* show it: that they are drawn again is left to the map that was kept.    *)
(*                                                                         *)
(* There is one marker here and a trace that takes one of a few shapes;    *)
(* the cells they touch are constants.                                     *)
(***************************************************************************)
EXTENDS Integers, Sequences, SequencesExt

CONSTANTS
    NCells,      \* cells, numbered in the order in which they are drawn
    MenuCells,   \* the cells the menu covers
    UpperCells,  \* the cells with the readings of the markers
    Shapes,      \* of the trace
    Positions,   \* of the marker
    Off,         \* no marker
    Trace,       \* the cells of a shape
    Icon,        \* the cells of the marker's icon on a shape at a position
    MaxEvents,   \* bound: the user's events
    MaxFrames    \* bound: drawings nested in each other

Cells == 1..NCells

ASSUME ScreenAssumption ==
    /\ NCells \in Nat /\ MaxEvents \in Nat /\ MaxFrames \in Nat
    /\ MenuCells \subseteq Cells /\ UpperCells \subseteq Cells
    /\ Off \notin Positions
    /\ Trace \in [Shapes -> SUBSET Cells]
    /\ Icon \in [Shapes -> [Positions -> SUBSET Cells]]

VARIABLES
    shape,            \* the trace, as trace_index has it
    marker,           \* the position of the marker, or Off
    markmap,          \* the two maps of cells to draw
    current_mappage,  \* the map that gathers changes
    redraw_request,   \* what draw_all() is asked for
    plot_redraw_enable, plot_canceled,
    domain_mode,      \* "FREQ" or "TIME"
    ui_mode,          \* "NORMAL", "MENU" or "KEYPAD"
    sweep_enabled,
    frames,           \* the drawings in progress, the innermost last
    stale,            \* the cells changed since they were drawn
    icons,            \* the cells that showed the marker's icon when drawn
    unkept,           \* since the last plot there was a drawing inside another,
                      \* one by draw_all() alone, or the marker was tracked, so
                      \* that the kept map may be without the icon
    raced,            \* the cells changed since then without being marked, or
                      \* where two drawings had passed, and not drawn after it
    events            \* the user's events so far

maps    == <<markmap, current_mappage>>
control == <<plot_redraw_enable, plot_canceled, domain_mode, sweep_enabled>>
vars    == <<shape, marker, maps, redraw_request, control, ui_mode, frames,
             stale, icons, unkept, raced, events>>

\* Why a drawing was begun: by draw_all() of the main loop, while a marker is
\* dragged, by an entry of the marker menus, by the entry that flips the display.
Kinds    == {"all", "drag", "menu", "flip"}
Requests == {"CELLS", "MARKER"}

\* markmap_marker(), draw_cell(): the icon is at trace_index of the marker's index
IconOf(s, m) == IF m = Off THEN {} ELSE Icon[s][m]

\* The cells in which the plot is to be seen.
Visible == CASE ui_mode = "NORMAL" -> Cells
             [] ui_mode = "MENU"   -> Cells \ MenuCells
             [] ui_mode = "KEYPAD" -> {}

\* The cells inside area_width: the menu narrows it, the keypad keeps it narrow.
Area == IF ui_mode = "NORMAL" THEN Cells ELSE Cells \ MenuCells

-------------------------------------------------------------------------------
(* Plausible mistakes in the operators below; the project's mutants.       *)

KeptNone(m)          == [m EXCEPT ![current_mappage] = {}, ![1 - current_mappage] = {}]
MarkedNow            == markmap[current_mappage]
EnableRedrawOnly(enable) == plot_redraw_enable' = enable /\ UNCHANGED plot_canceled

-------------------------------------------------------------------------------
(* The maps.                                                               *)

\* mark_map() and invalidate_rect() of the cells in cs
Mark(cs) == markmap' = [markmap EXCEPT ![current_mappage] = @ \cup cs]

\* draw_all_cells() draws what either map holds
Marked == markmap[0] \cup markmap[1]

\* swap_markmap() and clear_markmap(): the map just drawn is kept, the other
\* one is emptied for the next changes
Swapped(m) == [m EXCEPT ![1 - current_mappage] = {}]

Flush ==
    /\ current_mappage' = 1 - current_mappage
    /\ markmap' = Swapped(markmap)

\* request_to_redraw_marker(): nothing is marked without a marker
MarkerMarks(m) == IF m = Off THEN {} ELSE IconOf(shape, m) \cup UpperCells

\* enable_redraw()
EnableRedraw(enable) ==
    /\ plot_redraw_enable' = enable
    /\ plot_canceled' = (plot_canceled \/ ~enable)

\* plot_into_index(): the trace before and after, but the icon only where the
\* new trace has it
PlotMarks(s) ==
    Trace[shape] \cup Trace[s] \cup IconOf(s, marker) \cup UpperCells

-------------------------------------------------------------------------------
(* Drawing all cells.                                                      *)

Drawing == frames # << >>
Top     == frames[Len(frames)]

\* The cells two of the drawings in progress have passed: what is gathered there
\* is kept when the inner one ends and dropped, not drawn, when the outer one does.
PassedTwice ==
    {c \in Cells : \E i, j \in DOMAIN frames :
        i < j /\ frames[i].at \in c..NCells /\ frames[j].at \in c..NCells}

\* Something changes what the cells in cs should show, and marks those in ms.
Change(cs, ms) ==
    /\ stale' = stale \cup cs
    /\ raced' = raced \cup (cs \cap PassedTwice) \cup (IF unkept THEN cs \ ms ELSE {})

\* Events are handled by the main loop between drawings and, in a drawing,
\* after each cell.
Handling == events < MaxEvents /\ (Drawing => Top.at \in Cells)

\* Between two drawings of drag_marker(), which goes on while it is touched.
Touched   == NCells + 1
Dragging  == Drawing /\ Top.at = Touched

Push(kind) == frames' = Append(frames, [kind |-> kind, at |-> 0])

CanDraw == Len(frames) < MaxFrames

\* The cells still to draw; area_width is read again for each.
ToDraw == {c \in Marked \cap Area : c > Top.at}

\* draw_cell(), then plot_tick()
DrawCell ==
    /\ Drawing /\ ~Dragging
    /\ Top.at > 0 => ~plot_canceled
    /\ \E c \in ToDraw :
          /\ \A d \in ToDraw : c <= d
          /\ stale' = stale \ {c}
          /\ raced' = raced \ {c}
          /\ icons' = IF c \in IconOf(shape, marker) THEN icons \cup {c}
                                                     ELSE icons \ {c}
          /\ frames' = [frames EXCEPT ![Len(frames)].at = c]
    /\ UNCHANGED <<shape, marker, maps, redraw_request, control, ui_mode,
                   unkept, events>>

\* What the caller does when draw_all_cells() returns.  The menu is drawn even
\* when the user has closed it in the meantime: over the plot.
DrawnOver == IF Top.kind \in {"menu", "flip"} /\ ui_mode = "NORMAL" THEN MenuCells ELSE {}

Return ==
    /\ frames' = IF Top.kind = "drag" THEN [frames EXCEPT ![Len(frames)].at = Touched]
                 ELSE Front(frames)
    /\ redraw_request' = IF Top.kind \in {"all", "flip"} THEN {} ELSE redraw_request
    /\ plot_canceled' = (plot_canceled \/ Top.kind = "flip")
    /\ IF DrawnOver # {} THEN Change(DrawnOver, {}) ELSE UNCHANGED <<stale, raced>>
    /\ UNCHANGED <<shape, marker, plot_redraw_enable, domain_mode, sweep_enabled,
                   ui_mode, icons, events>>

\* All cells are drawn: the maps change places.
Finish ==
    /\ Drawing /\ ~Dragging
    /\ Top.at > 0 => ~plot_canceled
    /\ ToDraw = {}
    /\ Flush
    /\ unkept' = (unkept \/ Len(frames) > 1)
    /\ Return

\* The drawing was canceled while an event was handled: the maps stay.
Cancel ==
    /\ Drawing /\ ~Dragging
    /\ Top.at > 0 /\ plot_canceled
    /\ UNCHANGED <<maps, unkept>>
    /\ Return

-------------------------------------------------------------------------------
(* The main loop, when no event waits.                                     *)

\* plot_into_index(), then ui_marker_track(), which moves a marker that is
\* tracked after the markers have been marked.  The icon leaves the cells that
\* show it; the next plot is the first to mark where a tracked one has gone.
PlotIntoIndex(s, m) ==
    /\ shape' = s
    /\ Mark(PlotMarks(s))
    /\ marker' = m
    /\ stale' = stale \cup Trace[shape] \cup Trace[s] \cup UpperCells
                      \cup icons \cup IconOf(s, m)
    /\ raced' = raced \cup ((IF unkept THEN icons ELSE {}) \ PlotMarks(s))
                      \cup (IconOf(s, m) \ PlotMarks(s))
    /\ unkept' = (m # marker)

Plot ==
    /\ ~Drawing /\ sweep_enabled
    /\ \E s \in Shapes :
          \/ PlotIntoIndex(s, marker)
          \/ marker # Off /\ \E m \in Positions : PlotIntoIndex(s, m)
    /\ UNCHANGED <<current_mappage, plot_redraw_enable, domain_mode,
                   sweep_enabled, ui_mode, icons, events>>

\* draw_all() is not called while lcdInhibit is set, and returns at once when
\* redrawing is disabled.
PlotOnly ==
    /\ Plot
    /\ redraw_request' = redraw_request \cup {"CELLS"}
                           \cup (IF marker' = marker THEN {} ELSE {"MARKER"})
    /\ UNCHANGED <<plot_canceled, frames>>

\* The plot has marked the upper area already, and asked for the cells.
PlotAndDraw ==
    /\ Plot
    /\ plot_redraw_enable
    /\ redraw_request' = redraw_request \cup {"CELLS"}
                           \cup (IF marker' = marker THEN {} ELSE {"MARKER"})
    /\ plot_canceled' = FALSE
    /\ Push("all")

\* draw_all() without a plot: the sweep is paused, or is not complete and
\* shown in the time domain.
DrawOnly ==
    /\ ~Drawing
    /\ ~sweep_enabled \/ domain_mode = "TIME"
    /\ plot_redraw_enable
    /\ redraw_request # {}
    /\ plot_canceled' = FALSE
    /\ IF "MARKER" \in redraw_request THEN Mark(UpperCells) ELSE UNCHANGED markmap
    /\ Push("all")
    /\ unkept' = TRUE
    /\ UNCHANGED <<shape, marker, current_mappage, redraw_request,
                   plot_redraw_enable, domain_mode, sweep_enabled, ui_mode,
                   stale, icons, raced, events>>

-------------------------------------------------------------------------------
(* The user's events, handled between cells or between drawings.           *)

Event == Handling /\ events' = events + 1

MoveTo(m) ==
    /\ marker' = m
    /\ Mark(MarkerMarks(m))
    /\ Change(icons \cup IconOf(shape, m) \cup UpperCells, MarkerMarks(m))

\* lever_move_marker(): marked, but nobody is asked to draw
LeverMoveMarker ==
    /\ Event
    /\ ui_mode = "NORMAL" /\ marker # Off
    /\ \E m \in Positions : MoveTo(m)
    /\ UNCHANGED <<shape, current_mappage, redraw_request, control, ui_mode,
                   frames, icons, unkept>>

\* drag_marker(): the marker follows the touch and is drawn at once
DragMarker ==
    /\ Event /\ CanDraw
    /\ ui_mode = "NORMAL" /\ marker # Off
    /\ \E m \in Positions : MoveTo(m)
    /\ Push("drag")
    /\ UNCHANGED <<shape, current_mappage, redraw_request, control, ui_mode,
                   icons, unkept>>

\* its next round, whatever the events handled in the last one have done
DragOn ==
    /\ Dragging /\ marker # Off /\ events < MaxEvents
    /\ events' = events + 1
    /\ \E m \in Positions : MoveTo(m)
    /\ frames' = [frames EXCEPT ![Len(frames)].at = 0]
    /\ UNCHANGED <<shape, current_mappage, redraw_request, control, ui_mode,
                   icons, unkept>>

Release ==
    /\ Dragging
    /\ frames' = Front(frames)
    /\ UNCHANGED <<shape, marker, maps, redraw_request, control, ui_mode, stale,
                   icons, unkept, raced, events>>

\* menu_marker_sel_acb(), menu_marker_search_cb()
MenuMarker ==
    /\ Event /\ CanDraw
    /\ ui_mode = "MENU"
    /\ \E m \in Positions \cup {Off} : MoveTo(m)
    /\ Push("menu")
    /\ UNCHANGED <<shape, current_mappage, redraw_request, control, ui_mode,
                   icons, unkept>>

OpenMenu ==
    /\ Event
    /\ ui_mode = "NORMAL"
    /\ ui_mode' = "MENU"
    /\ UNCHANGED <<shape, marker, maps, redraw_request, control, frames,
                   stale, icons, unkept, raced>>

\* ui_mode_normal() from the menu: request_to_draw_cells_behind_menu()
CloseMenu ==
    /\ Event
    /\ ui_mode = "MENU"
    /\ ui_mode' = "NORMAL"
    /\ Mark(MenuCells)
    /\ redraw_request' = redraw_request \cup {"CELLS"}
    /\ Change(MenuCells, MenuCells)
    /\ UNCHANGED <<shape, marker, current_mappage, control, frames, icons, unkept>>

\* A menu entry that changes how every cell looks (traces, formats, channels,
\* a recalled sweep) or fills the screen and leaves it; the menu stays or not.
ChangeLook ==
    /\ Event
    /\ ui_mode = "MENU"
    /\ ui_mode' \in {"MENU", "NORMAL"}
    /\ Mark(Cells)
    /\ redraw_request' = redraw_request \cup {"CELLS"}
    /\ Change(Cells, Cells)
    /\ UNCHANGED <<shape, marker, current_mappage, control, frames, icons, unkept>>

\* menu_display_acb(): the screen is cleared and drawn inside the handler
FlipDisplay ==
    /\ Event /\ CanDraw
    /\ ui_mode = "MENU"
    /\ redraw_request' = Requests
    /\ Mark(Cells)
    /\ Change(Cells, Cells)
    /\ plot_canceled' = FALSE
    /\ Push("flip")
    /\ UNCHANGED <<shape, marker, current_mappage, plot_redraw_enable,
                   domain_mode, sweep_enabled, ui_mode, icons, unkept>>

\* menu_transform_acb(), which closes the menu
ToggleTransform ==
    /\ Event
    /\ ui_mode = "MENU"
    /\ domain_mode' = (IF domain_mode = "FREQ" THEN "TIME" ELSE "FREQ")
    /\ ui_mode' = "NORMAL"
    /\ Mark(MenuCells)
    /\ redraw_request' = redraw_request \cup {"CELLS"}
    /\ Change(MenuCells, MenuCells)
    /\ UNCHANGED <<shape, marker, current_mappage, plot_redraw_enable,
                   plot_canceled, sweep_enabled, frames, icons, unkept>>

\* menu_pause_acb()
ToggleSweep ==
    /\ Event
    /\ ui_mode = "MENU"
    /\ sweep_enabled' = ~sweep_enabled
    /\ UNCHANGED <<shape, marker, maps, redraw_request, plot_redraw_enable,
                   plot_canceled, domain_mode, ui_mode, frames, stale, icons,
                   unkept, raced>>

\* ui_mode_keypad() and the end of ui_process_keypad()
OpenKeypad ==
    /\ Event
    /\ ui_mode = "MENU"
    /\ ui_mode' = "KEYPAD"
    /\ EnableRedraw(FALSE)
    /\ UNCHANGED <<shape, marker, maps, redraw_request, domain_mode, sweep_enabled,
                   frames,
                   stale, icons, unkept, raced>>

CloseKeypad ==
    /\ Event
    /\ ui_mode = "KEYPAD"
    /\ ui_mode' = "NORMAL"
    /\ EnableRedraw(TRUE)
    /\ Mark(Cells)
    /\ redraw_request' = redraw_request \cup {"CELLS"}
    /\ Change(Cells, Cells)
    /\ UNCHANGED <<shape, marker, current_mappage, domain_mode,
                   sweep_enabled, frames, icons, unkept>>

UserEvent ==
    \/ LeverMoveMarker \/ DragMarker \/ DragOn \/ Release \/ MenuMarker
    \/ OpenMenu \/ CloseMenu \/ ChangeLook \/ FlipDisplay
    \/ ToggleTransform \/ ToggleSweep
    \/ OpenKeypad \/ CloseKeypad

-------------------------------------------------------------------------------
\* plot_init() and the first requests
Init ==
    /\ shape \in Shapes
    /\ marker \in Positions
    /\ markmap = [p \in 0..1 |-> IF p = 0 THEN Cells ELSE {}]
    /\ current_mappage = 0
    /\ redraw_request = Requests
    /\ plot_redraw_enable = TRUE
    /\ plot_canceled = FALSE
    /\ ui_mode = "NORMAL"
    /\ domain_mode = "FREQ"
    /\ sweep_enabled = TRUE
    /\ frames = << >>
    /\ stale = Cells
    /\ icons = {}
    /\ unkept = FALSE
    /\ raced = {}
    /\ events = 0

MainLoop == PlotOnly \/ PlotAndDraw \/ DrawOnly \/ DrawCell \/ Finish \/ Cancel

Next == MainLoop \/ UserEvent

Spec == Init /\ [][Next]_vars

(***************************************************************************)
(* The main loop runs: a drawing goes on, a plot follows when there is     *)
(* none, now and then lcdInhibit is clear when draw_all() is due, and a     *)
(* touch is released in the end.                                           *)
(***************************************************************************)
FairSpec ==
    /\ Spec
    /\ WF_vars(DrawCell \/ Finish \/ Cancel \/ Release)
    /\ SF_vars(PlotAndDraw)

-------------------------------------------------------------------------------
\* Types; a canceled drawing has been under way, and drawings are nested as
\* deep as events have begun them.
TypeOK ==
    /\ shape \in Shapes
    /\ marker \in Positions \cup {Off}
    /\ markmap \in [0..1 -> SUBSET Cells]
    /\ current_mappage \in 0..1
    /\ redraw_request \subseteq Requests
    /\ plot_redraw_enable \in BOOLEAN /\ plot_canceled \in BOOLEAN
    /\ ui_mode \in {"NORMAL", "MENU", "KEYPAD"}
    /\ domain_mode \in {"FREQ", "TIME"}
    /\ sweep_enabled \in BOOLEAN
    /\ frames \in Seq([kind : Kinds, at : 0..Touched])
    /\ stale \subseteq Cells /\ icons \subseteq Cells /\ raced \subseteq Cells
    /\ unkept \in BOOLEAN
    /\ events \in 0..MaxEvents

(***************************************************************************)
(* No ghosts: a cell that shows something out of date will be drawn again. *)
(* It is in one of the two maps, or the next plot marks it; but for the    *)
(* cells of which the code keeps no account (raced).                       *)
(***************************************************************************)
Remembered(c) == c \in Marked \cup Trace[shape] \cup UpperCells

NoGhosts == \A c \in (stale \cap Visible) \ raced : Remembered(c)

(***************************************************************************)
(* No cell is drawn over the keypad, which covers the whole screen: the    *)
(* drawings it interrupts end where they are.  (A touch that has dragged a *)
(* marker since before the keypad came may still draw a cell.)             *)
(***************************************************************************)
KeypadUndisturbed ==
    [][ui_mode = "KEYPAD" /\ (\A i \in DOMAIN frames : frames[i].kind # "drag")
         => stale \subseteq stale']_vars

(***************************************************************************)
(* The display catches up: with the sweep running and the user quiet,      *)
(* again and again nothing on the display is out of date, but for what the *)
(* code keeps no account of: an icon left behind after a drawing that was  *)
(* none of a plot, the one of a tracked marker, and what changed where two *)
(* drawings had passed.                                                    *)
(***************************************************************************)
CatchesUp == []<>(stale \cap Visible \subseteq raced \/ ~sweep_enabled)
===============================================================================
