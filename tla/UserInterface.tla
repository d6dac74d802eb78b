----------------------------- MODULE UserInterface -----------------------------
(***************************************************************************)
(* The menus, the keypad and the modes of the user interface (ui.cpp), as  *)
(* the main loop drives them (main2.cpp).                                  *)
(*                                                                         *)
(* Interrupts put events of lever and touch into the event queue, which    *)
(* refuses them when it is full; nobody looks at the result.  The main     *)
(* thread takes one at a time and gives it to the handler of the mode.     *)
(* Some handlers wait for further events themselves: they turn the         *)
(* handlers off (uiDisableProcessing), so that an event only wakes them    *)
(* up.  "modal" is the handler that waits, if one does.  While it does,    *)
(* commands of the host are obeyed too, but only the main loop changes to  *)
(* the USB mode and back.                                                  *)
(*                                                                         *)
(* Events come when the queue has room for them or not, in any order; only *)
(* touches and releases alternate.  What the entries of the menus do to    *)
(* the measurement and to the plot is the matter of Acquisition and        *)
(* Screen.                                                                 *)
(***************************************************************************)
EXTENDS Integers, Sequences, SequencesExt

CONSTANTS
    QueueSize,     \* what the event queue holds
    NUMINPUT_LEN   \* characters of a number on the keypad

ASSUME UserInterfaceAssumption ==
    QueueSize \in Nat \ {0} /\ NUMINPUT_LEN \in Nat \ {0}

VARIABLES
    ui_mode,             \* "NORMAL", "MENU", "KEYPAD" or "USB"
    menu_stack,          \* the menus down to the current one (menu_current_level
                         \* is the length less one)
    selection,           \* an entry of the menu or key, counted from 0, or -1
    keypads, kp_index,   \* the keypad's table, and the characters typed
    modal,               \* what waits for events, or Idle
    ui_disabled,         \* the user is shut out during a calibration
    collecting,          \* the interrupt is gathering calibration data
    plot_redraw_enable,
    usbDataMode,         \* what the host asks for
    lastUSBDataMode,     \* what the main loop has seen of it
    eventQueue,
    touched,             \* the touch screen is
    stranded,            \* the end of a collection was refused by the queue, or
                         \* a host replaced the sweep of one, or the device is reset
    keypadTaken          \* a host took over while the keypad was open

menus == <<menu_stack, selection>>
keys  == <<keypads, kp_index>>
usb   == <<usbDataMode, lastUSBDataMode>>
cal   == <<ui_disabled, collecting>>
vars  == <<ui_mode, menus, keys, modal, cal, plot_redraw_enable, usb,
           eventQueue, touched, stranded, keypadTaken>>

-------------------------------------------------------------------------------
(* The menus: their entries are other menus, or named for what they do.    *)
(*   stay     redraw the menu           close    leave it                  *)
(*   leave    leave it, one level up    back     one level up              *)
(*   op       leave it if a marker is active                               *)
(*   keypad   open the keypad           flip     turn the display          *)
(*   collect  begin a collection        done     end a calibration         *)
(*   flash    save or recall: leave one level up, or show the messages     *)
(*   show, touchcal, touchtest          wait for the user                  *)
(*   bootload reset the device                                             *)

Times(n, entry) == [i \in 1..n |-> entry]

Menus == [
    top       |-> <<"display", "marker", "stimulus", "cal", "recall", "config", "stay">>,
    display   |-> <<"trace", "format", "scale", "channel", "avg", "transform", "stay", "back">>,
    trace     |-> Append(Times(4, "stay"), "back"),
    format    |-> Times(5, "close") \o <<"format2", "back">>,
    format2   |-> Append(Times(7, "close"), "back"),
    scale     |-> <<"scale_keys", "scale_keys", "time_keys", "back">>,
    channel   |-> <<"leave", "leave", "back">>,
    avg       |-> Append(Times(7, "close"), "back"),
    transform |-> Times(4, "close") \o <<"window", "scale_keys", "back">>,
    window    |-> Append(Times(3, "close"), "back"),
    marker    |-> <<"select", "search", "operations", "smith", "back">>,
    select    |-> Append(Times(6, "stay"), "back"),
    search    |-> Append(Times(5, "stay"), "back"),
    operations |-> Append(Times(5, "op"), "back"),
    smith     |-> Times(5, "stay") \o <<"close", "back">>,
    stimulus  |-> Times(5, "freq_keys") \o <<"sweep", "back">>,
    sweep     |-> <<"scale_keys", "stay", "stay", "stay", "power", "back">>,
    power     |-> Append(Times(4, "close"), "back"),
    cal       |-> <<"calop", "save", "stay", "stay", "stay", "stay", "back">>,
    calop     |-> Times(4, "collect") \o <<"done", "back">>,
    save      |-> Append(Times(7, "flash"), "back"),
    recall    |-> Append(Times(7, "flash"), "back"),
    config    |-> <<"touchcal", "touchtest", "leave", "show", "show", "bootload_menu", "back">>,
    bootload_menu |-> <<"bootload", "back">>
]

MENU_STACK_DEPTH_MAX == 4

\* The kinds of the keys of a table, the first at index 0.
Keys == [
    freq_keys  |-> <<"period">> \o Times(10, "digit") \o Times(4, "unit") \o <<"backspace">>,
    scale_keys |-> <<"period">> \o Times(10, "digit") \o <<"unit", "backspace">>,
    time_keys  |-> <<"period">> \o Times(10, "digit") \o <<"unit", "unit", "minus", "backspace">>
]

keypads_last_index == Len(Keys[keypads]) - 1

\* Jogs stand for their ticks, too; Up is the end of a jog or of a press.
LeverEvents == {"JogLeft", "JogRight", "Up", "Click", "LongPress"}
TouchEvents == {"TouchDown", "TouchUp"}
Collected   == "Collected"   \* collectMeasurementCB

Idle == [kind |-> "idle", item |-> 0]

Menu == Menus[Last(menu_stack)]

-------------------------------------------------------------------------------
(* Plausible mistakes in the operators below; the project's mutants.       *)

DoneOnTop(stack)    == Append(stack, "save")
KeypadLeftOff(mode) == ui_mode' = mode /\ UNCHANGED <<plot_redraw_enable, keypadTaken>>
StaysDisabled       == UNCHANGED ui_disabled

-------------------------------------------------------------------------------
(* Menus.                                                                  *)

\* ensure_selection()
Ensured(sel, stack) ==
    LET n == Len(Menus[Last(stack)]) IN IF sel >= n THEN n - 1 ELSE sel

\* menu_push_submenu()
Pushed(stack, menu) ==
    IF Len(stack) < MENU_STACK_DEPTH_MAX THEN Append(stack, menu)
    ELSE Append(Front(stack), menu)

GoTo(stack, sel) ==
    /\ menu_stack' = stack
    /\ selection' = Ensured(sel, stack)

\* the end of a calibration: menu_move_back(), then the menu to save it
DoneStack(stack) == Pushed(Front(stack), "save")

\* Where the entries end that neither wait nor open the keypad: the mode, and
\* the menu with the selection "sel" when the entry was chosen.
Simple(entry, sel) ==
    \/ /\ entry \in DOMAIN Menus
       /\ GoTo(Pushed(menu_stack, entry), sel)
       /\ UNCHANGED ui_mode
    \/ /\ entry = "back"
       /\ GoTo(Front(menu_stack), sel)
       /\ UNCHANGED ui_mode
    \/ /\ entry \in {"leave", "flash"}
       /\ GoTo(Front(menu_stack), sel)
       /\ ui_mode' = "NORMAL"
    \/ /\ entry = "done"
       /\ GoTo(DoneStack(menu_stack), Ensured(sel, Front(menu_stack)))
       /\ UNCHANGED ui_mode
    \/ /\ entry \in {"close", "op"}
       /\ ui_mode' = "NORMAL"
       /\ selection' = sel /\ UNCHANGED menu_stack
    \/ /\ entry \in {"stay", "op"}
       /\ selection' = sel /\ UNCHANGED <<menu_stack, ui_mode>>

Stay(sel) == selection' = sel /\ UNCHANGED <<menu_stack, ui_mode>>

\* menu_invoke() of an entry, selection then being sel.  A menu entry chosen by
\* touch is invoked when it is released, in whatever mode the UI is then.
Invoke(entry, sel) ==
    \/ /\ Simple(entry, sel)
       /\ modal' = Idle
       /\ UNCHANGED <<keys, cal, plot_redraw_enable, stranded>>
    \/ /\ entry = "collect"        \* menu_calop_acb(), cal_collect()
       /\ Stay(sel)
       /\ ui_disabled' = TRUE /\ collecting' = TRUE
       /\ modal' = Idle
       /\ UNCHANGED <<keys, plot_redraw_enable, stranded>>
    \/ /\ entry \in DOMAIN Keys    \* ui_mode_keypad()
       /\ keypads' \in IF entry = "scale_keys" /\ Last(menu_stack) = "scale"
                       THEN {"scale_keys", "time_keys"} ELSE {entry}
       /\ kp_index' = 0
       /\ ui_mode' = "KEYPAD"
       /\ plot_redraw_enable' = FALSE
       /\ selection' = sel
       /\ modal' = Idle
       /\ UNCHANGED <<menu_stack, cal, stranded>>
    \/ /\ entry \in {"show", "touchcal", "touchtest", "flash", "bootload"}
       /\ modal' = [kind |-> IF entry = "flash" THEN "show" ELSE entry, item |-> 0]
       /\ stranded' = (stranded \/ entry = "bootload")
       /\ Stay(sel)
       /\ UNCHANGED <<keys, cal, plot_redraw_enable>>

-------------------------------------------------------------------------------
(* The keypad.                                                             *)

\* The end of ui_process_keypad()
CloseKeypad(mode) ==
    /\ ui_mode' = mode
    /\ plot_redraw_enable' = TRUE
    /\ keypadTaken' = FALSE

\* keypad_click() of a key; selection is then sel.  Without a selection the
\* byte before the table is read, which may look like any key.
KeyAt(k) == IF k < 0 THEN {"period", "digit", "unit", "minus", "backspace", "none"}
            ELSE {Keys[keypads][k + 1]}

ClickKey(k, sel) ==
    /\ selection' = sel
    /\ \E key \in KeyAt(k) :
          \/ /\ \/ key = "unit"
                \/ key = "backspace" /\ kp_index = 0
             /\ CloseKeypad("NORMAL")
             /\ UNCHANGED kp_index
          \/ /\ \/ key = "backspace" /\ kp_index > 0 /\ kp_index' = kp_index - 1
                \/ key \in {"digit", "period"} /\ kp_index < NUMINPUT_LEN
                     /\ kp_index' = kp_index + 1
                \/ key = "minus" /\ kp_index = 0 /\ kp_index' = 1
                \/ /\ \/ key \in {"period", "none"}
                      \/ key = "digit" /\ kp_index = NUMINPUT_LEN
                      \/ key = "minus" /\ kp_index > 0
                   /\ UNCHANGED kp_index
             /\ UNCHANGED <<ui_mode, plot_redraw_enable, keypadTaken>>

-------------------------------------------------------------------------------
(* ui_process() of an event in each mode, when no handler waits.           *)

Quiet == UNCHANGED <<ui_mode, menus, keys, modal, cal, plot_redraw_enable,
                     stranded, keypadTaken>>

\* ui_mode_menu()
EnterMenu(sel) ==
    /\ ui_mode' = "MENU"
    /\ selection' = Ensured(sel, menu_stack)
    /\ UNCHANGED <<menu_stack, keys, modal, cal, plot_redraw_enable,
                   stranded, keypadTaken>>

\* A touch that picks up a marker, or has ended before it is looked at, drags it
\* or does nothing; the one that opens the menu may have ended too.
ProcessNormal(e) ==
    \/ e = "Click" /\ EnterMenu(selection)
    \/ e = "TouchDown" /\ EnterMenu(-1)
    \/ e = "TouchDown" /\ touched /\ Quiet
    \/ e \notin {"Click", "TouchDown"} /\ Quiet

CloseMenu ==
    /\ ui_mode' = "NORMAL"
    /\ UNCHANGED <<menus, keys, modal, cal, plot_redraw_enable, stranded, keypadTaken>>

Select(sel) ==
    /\ selection' = sel
    /\ UNCHANGED <<ui_mode, menu_stack, keys, modal, cal, plot_redraw_enable,
                   stranded, keypadTaken>>

Wait(kind, item) ==
    /\ modal' = [kind |-> kind, item |-> item]
    /\ selection' = item
    /\ UNCHANGED <<ui_mode, menu_stack, keys, cal, plot_redraw_enable,
                   stranded, keypadTaken>>

ProcessMenu(e) ==
    \/ /\ e \in {"Click", "LongPress"} /\ selection < 0
       /\ CloseMenu
    \/ /\ e \in {"Click", "LongPress"} /\ selection >= 0
       /\ Invoke(Menu[selection + 1], selection)
       /\ UNCHANGED keypadTaken
    \/ /\ e = "JogRight"
       /\ IF selection + 1 = Len(Menu) THEN CloseMenu ELSE Select(selection + 1)
    \/ /\ e = "JogLeft"
       /\ CASE selection = 0 -> CloseMenu
            [] selection < 0 -> Quiet
            [] OTHER         -> Select(selection - 1)
    \/ /\ e = "TouchDown" /\ touched
       /\ CloseMenu \/ \E i \in 0..(Len(Menu) - 1) : Wait("select", i)
    \/ /\ (e = "TouchDown" /\ ~touched) \/ e \in {"Up", "TouchUp"}
       /\ Quiet

ProcessKeypad(e) ==
    \/ /\ e = "JogLeft"
       /\ Select(IF selection <= 0 THEN keypads_last_index ELSE selection - 1)
    \/ /\ e = "JogRight"
       /\ Select(IF selection + 1 > keypads_last_index THEN 0 ELSE selection + 1)
    \/ /\ e = "Click"
       /\ ClickKey(selection, selection)
       /\ UNCHANGED <<menu_stack, keypads, modal, cal, stranded>>
    \/ /\ e = "TouchDown" /\ touched
       /\ Quiet \/ \E i \in 0..keypads_last_index : Wait("key", i)
    \/ /\ (e = "TouchDown" /\ ~touched) \/ e \in {"Up", "LongPress", "TouchUp"}
       /\ Quiet

-------------------------------------------------------------------------------
(* The handlers that wait, woken by an event.                              *)

\* menu_select_touch() waits for an Up, keypad_apply_touch() for anything, the
\* messages and the version for a press or a click, the two marks of the touch
\* calibration for a release each, the touch test for a press and then until
\* there is no touch, without looking at events.
Ends(kind, e) ==
    CASE kind = "select"               -> e \in {"Up", "TouchUp"}
      [] kind = "key"                  -> TRUE
      [] kind = "show"                 -> e \in {"TouchDown", "Click"}
      [] kind \in {"touchcal", "cal2"} -> e = "TouchUp"
      [] kind = "touchtest"            -> e = "TouchDown"
      [] OTHER                         -> FALSE

\* The next handler that waits, when this one ends with the menu drawn again.
After == [show |-> "idle", touchcal |-> "cal2", cal2 |-> "idle", touchtest |-> "drawing"]

Wake(e) ==
    \/ /\ ~Ends(modal.kind, e)
       /\ Quiet
    \/ /\ modal.kind = "select" /\ Ends("select", e)
       /\ Invoke(Menu[modal.item + 1], -1)
       /\ UNCHANGED keypadTaken
    \/ /\ modal.kind = "key" /\ Ends("key", e)
       /\ ClickKey(modal.item, -1)
       /\ modal' = Idle
       /\ UNCHANGED <<menu_stack, keypads, cal, stranded>>
    \/ /\ modal.kind \in DOMAIN After /\ Ends(modal.kind, e)
       /\ modal' = [kind |-> After[modal.kind], item |-> 0]
       /\ UNCHANGED <<ui_mode, menus, keys, cal, plot_redraw_enable, stranded,
                      keypadTaken>>

-------------------------------------------------------------------------------
(* The main thread.                                                        *)

\* ui_process(): an event wakes the handler that waits, is ignored while the
\* user is shut out, or goes to the handler of the mode.  A long press ends the
\* USB mode.
UiProcess(e) ==
    IF modal # Idle THEN Wake(e) /\ UNCHANGED usbDataMode
    ELSE IF ui_disabled THEN Quiet /\ UNCHANGED usbDataMode
    ELSE CASE ui_mode = "NORMAL" -> ProcessNormal(e) /\ UNCHANGED usbDataMode
           [] ui_mode = "MENU"   -> ProcessMenu(e)   /\ UNCHANGED usbDataMode
           [] ui_mode = "KEYPAD" -> ProcessKeypad(e) /\ UNCHANGED usbDataMode
           [] ui_mode = "USB"    -> /\ Quiet
                                    /\ usbDataMode' = (usbDataMode /\ e # "LongPress")

\* ui_cal_collected()
CalCollected == ui_disabled' = FALSE

\* One event is taken from the queue, by the main loop, between the cells of a
\* drawing or by a handler that waits.
Process ==
    /\ eventQueue # << >>
    /\ modal.kind \notin {"drawing", "bootload"}
    /\ eventQueue' = Tail(eventQueue)
    /\ IF Head(eventQueue) = Collected
       THEN /\ CalCollected
            /\ UNCHANGED <<ui_mode, menus, keys, modal, collecting,
                           plot_redraw_enable, usbDataMode, stranded, keypadTaken>>
       ELSE UiProcess(Head(eventQueue))
    /\ UNCHANGED <<lastUSBDataMode, touched>>

\* touch_draw_test() ends when there is no touch.
EndTouchTest ==
    /\ modal.kind = "drawing" /\ ~touched
    /\ modal' = Idle
    /\ UNCHANGED <<ui_mode, menus, keys, cal, plot_redraw_enable, usb,
                   eventQueue, touched, stranded, keypadTaken>>

\* The main loop sees that the host has taken over, or has let go.
EnterUsb ==
    /\ modal = Idle
    /\ usbDataMode /\ ~lastUSBDataMode
    /\ ui_mode' = "USB"
    /\ lastUSBDataMode' = TRUE
    /\ keypadTaken' = (keypadTaken \/ ui_mode = "KEYPAD")
    /\ UNCHANGED <<menus, keys, modal, cal, plot_redraw_enable, usbDataMode,
                   eventQueue, touched, stranded>>

LeaveUsb ==
    /\ modal = Idle
    /\ ~usbDataMode /\ lastUSBDataMode
    /\ ui_mode' = "NORMAL"
    /\ lastUSBDataMode' = FALSE
    /\ UNCHANGED <<menus, keys, modal, cal, plot_redraw_enable, usbDataMode,
                   eventQueue, touched, stranded, keypadTaken>>

-------------------------------------------------------------------------------
(* Interrupts, the user and the host.                                      *)

Full == Len(eventQueue) = QueueSize

Enqueue(e) == eventQueue' = IF Full THEN eventQueue ELSE Append(eventQueue, e)

UserActs == UNCHANGED <<ui_mode, menus, keys, modal, cal, plot_redraw_enable,
                        usb, stranded, keypadTaken>>

LeverEvent ==
    /\ \E e \in LeverEvents : ~Full /\ Enqueue(e)
    /\ UserActs /\ UNCHANGED touched

Touch ==
    /\ touched' = ~touched
    /\ Enqueue(IF touched THEN "TouchUp" ELSE "TouchDown")
    /\ UserActs

\* The interrupt has gathered a point for every index.
CollectDone ==
    /\ collecting
    /\ collecting' = FALSE
    /\ Enqueue(Collected)
    /\ stranded' = (stranded \/ Full)
    /\ UNCHANGED <<ui_mode, menus, keys, modal, ui_disabled, plot_redraw_enable,
                   usb, touched, keypadTaken>>

\* Commands of the host are obeyed by the main loop and by handlers that wait,
\* but not by the one that draws.  A sweep of its own ends a collection or not.
Host ==
    /\ modal.kind \notin {"drawing", "bootload"}
    /\ usbDataMode' = ~usbDataMode
    /\ stranded' = (stranded \/ collecting)
    /\ UNCHANGED <<ui_mode, menus, keys, modal, cal, plot_redraw_enable,
                   lastUSBDataMode, eventQueue, touched, keypadTaken>>

-------------------------------------------------------------------------------
Init ==
    /\ ui_mode = "NORMAL"
    /\ menu_stack = <<"top">> /\ selection = 0
    /\ keypads = "freq_keys" /\ kp_index = 0
    /\ modal = Idle
    /\ ui_disabled = FALSE /\ collecting = FALSE
    /\ plot_redraw_enable = TRUE
    /\ usbDataMode = FALSE /\ lastUSBDataMode = FALSE
    /\ eventQueue = << >>
    /\ touched = FALSE
    /\ stranded = FALSE /\ keypadTaken = FALSE

MainThread == Process \/ EndTouchTest \/ EnterUsb \/ LeaveUsb

Next == MainThread \/ LeverEvent \/ Touch \/ CollectDone \/ Host

Spec == Init /\ [][Next]_vars

(***************************************************************************)
(* The main thread runs, a collection ends, and the touch test, which      *)
(* looks every 50 ms, sees a touch that has ended.                         *)
(***************************************************************************)
FairSpec ==
    /\ Spec
    /\ WF_vars(MainThread)
    /\ WF_vars(CollectDone)
    /\ SF_vars(EndTouchTest)

-------------------------------------------------------------------------------
\* Types.
TypeOK ==
    /\ ui_mode \in {"NORMAL", "MENU", "KEYPAD", "USB"}
    /\ \A i \in DOMAIN menu_stack : menu_stack[i] \in DOMAIN Menus
    /\ selection \in -1..15
    /\ keypads \in DOMAIN Keys /\ kp_index \in 0..NUMINPUT_LEN
    /\ modal \in [kind : {"idle", "select", "key", "show", "touchcal", "cal2",
                          "touchtest", "drawing", "bootload"}, item : 0..15]
    /\ ui_disabled \in BOOLEAN /\ collecting \in BOOLEAN
    /\ plot_redraw_enable \in BOOLEAN
    /\ usbDataMode \in BOOLEAN /\ lastUSBDataMode \in BOOLEAN
    /\ eventQueue \in Seq(LeverEvents \cup TouchEvents \cup {Collected})
    /\ Len(eventQueue) <= QueueSize
    /\ touched \in BOOLEAN
    /\ stranded \in BOOLEAN /\ keypadTaken \in BOOLEAN

(***************************************************************************)
(* The way back: every open menu is an entry of the one below it, so that  *)
(* BACK leads where the user came from and no level of the stack is ever   *)
(* overwritten; and what a click would choose is an entry of the menu on   *)
(* the screen.                                                             *)
(***************************************************************************)
MenuPath ==
    /\ menu_stack[1] = "top"
    /\ \A i \in 1..(Len(menu_stack) - 1) :
          \E j \in DOMAIN Menus[menu_stack[i]] :
              Menus[menu_stack[i]][j] = menu_stack[i + 1]
    /\ ui_mode = "MENU" => selection < Len(Menu)
    /\ modal.kind = "select" => ui_mode = "MENU" /\ modal.item < Len(Menu)

(***************************************************************************)
(* Drawing the plot is disabled exactly as long as the keypad is on the    *)
(* screen, however it is left.  It is not when a host takes over while the *)
(* keypad is open: the display then stays as it is when the host lets go.  *)
(***************************************************************************)
RedrawMatchesKeypad ==
    /\ ui_mode = "KEYPAD" => ~plot_redraw_enable
    /\ ui_mode # "KEYPAD" => plot_redraw_enable \/ keypadTaken

(***************************************************************************)
(* The user gets back: a user whose touches and releases get into the      *)
(* queue now and then, though others are lost, finds again and again that  *)
(* no handler waits and that he is not shut out, unless the end of a       *)
(* collection never came.                                                  *)
(***************************************************************************)
UserPersists ==
    /\ []<><<Touch /\ ~Full /\ ~touched>>_vars
    /\ []<><<Touch /\ ~Full /\ touched>>_vars

UserGetsBack ==
    UserPersists => []<>((modal = Idle /\ ~ui_disabled) \/ stranded)
===============================================================================
