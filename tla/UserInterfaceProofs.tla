-------------------------- MODULE UserInterfaceProofs --------------------------
(***************************************************************************)
(* Proofs about the user interface, the menus and the lever below them.    *)
(* UserInterface: the stack of menus is a path of the tree that never      *)
(* outgrows its array, and drawing is disabled exactly while the keypad    *)
(* is open.  Lever: the events of a press are what the menus take them for *)
(* (names of this part that would clash begin with "Lever").               *)
(***************************************************************************)
EXTENDS UserInterface, Lever, SequenceTheorems, TLAPS

-------------------------------------------------------------------------------
(* The tree of the menus.                                                  *)

\* How deep a menu lies.
Level(m) ==
    IF m = "top" THEN 1
    ELSE IF m \in {"display", "marker", "stimulus", "cal", "recall", "config"} THEN 2
    ELSE IF m \in {"format2", "window", "power"} THEN 4
    ELSE 3

MenuNames == {"top", "display", "trace", "format", "format2", "scale", "channel",
              "avg", "transform", "window", "marker", "select", "search",
              "operations", "smith", "stimulus", "sweep", "power", "cal", "calop",
              "save", "recall", "config", "bootload_menu"}

\* What an entry of menu m may be: a menu one level deeper, an entry that goes
\* up one level only where there is one, and the end of a calibration only in
\* the menu opened from "cal".
EntryOK(m, e) ==
    /\ e \in MenuNames => Level(e) = Level(m) + 1
    /\ e \in {"back", "leave", "flash", "done"} => m # "top"
    /\ e = "done" => m = "calop"
    /\ e = "calop" => m = "cal"

LEMMA MenusDomain == DOMAIN Menus = MenuNames
  BY DEF Menus, MenuNames

LEMMA LevelRange == \A m : Level(m) \in 1 .. 4
  BY DEF Level

\* A menu whose entries are where they may be; it fits on the screen.
MenuOK(m) ==
    /\ DOMAIN Menus[m] = 1 .. Len(Menus[m]) /\ Len(Menus[m]) \in 1 .. 8
    /\ \A j \in DOMAIN Menus[m] : EntryOK(m, Menus[m][j])

LEMMA MenuOfEntries ==
    ASSUME NEW m, NEW S, Menus[m] \in Seq(S), Len(Menus[m]) \in 1 .. 8,
           \A e \in S : EntryOK(m, e)
    PROVE  MenuOK(m)
  BY DEF MenuOK

\* n equal entries and the way back.
LEMMA TimesAndBack ==
    ASSUME NEW m \in MenuNames \ {"top"}, NEW n \in 1 .. 7,
           NEW a \in {"stay", "close", "op", "flash"},
           Menus[m] = Append(Times(n, a), "back")
    PROVE  MenuOK(m)
  <1> DEFINE S == {a, "back"}
  <1>1. Times(n, a) \in Seq(S) /\ Len(Times(n, a)) = n
    BY DEF Times
  <1>2. Menus[m] \in Seq(S) /\ Len(Menus[m]) = n + 1
    BY <1>1
  <1>3. \A e \in S : EntryOK(m, e)
    BY DEF EntryOK, MenuNames
  <1>4. Len(Menus[m]) \in 1 .. 8
    BY <1>2
  <1> HIDE DEF S
  <1> QED
    BY <1>2, <1>3, <1>4, MenuOfEntries

\* n equal entries and some others.
LEMMA TimesAndMore ==
    ASSUME NEW m, NEW n \in 1 .. 5, NEW a, NEW S, NEW t \in Seq(S), a \in S,
           Len(t) \in 1 .. 3, Menus[m] = Times(n, a) \o t,
           \A e \in S : EntryOK(m, e)
    PROVE  MenuOK(m)
  <1>1. Times(n, a) \in Seq(S) /\ Len(Times(n, a)) = n
    BY DEF Times
  <1>2. Menus[m] \in Seq(S) /\ Len(Menus[m]) = n + Len(t)
    BY <1>1, ConcatProperties
  <1>3. \A k \in 1 .. 3 : n + k \in 1 .. 8
    OBVIOUS
  <1>4. Len(Menus[m]) \in 1 .. 8
    BY <1>2, <1>3, Zenon
  <1> QED
    BY <1>2, <1>4, MenuOfEntries

\* Every menu of the table (ui.cpp:923-1182), shape by shape.
LEMMA EveryMenuOK ==
    ASSUME NEW m \in MenuNames PROVE MenuOK(m)
  <1>1. CASE m \in {"trace", "format2", "avg", "window", "select", "search",
                    "operations", "power", "save", "recall"}
    <2>1. \E n \in 1 .. 7, a \in {"stay", "close", "op", "flash"} :
              Menus[m] = Append(Times(n, a), "back")
      <3>1. /\ Menus["trace"] = Append(Times(4, "stay"), "back")
            /\ Menus["format2"] = Append(Times(7, "close"), "back")
            /\ Menus["avg"] = Append(Times(7, "close"), "back")
            /\ Menus["window"] = Append(Times(3, "close"), "back")
            /\ Menus["select"] = Append(Times(6, "stay"), "back")
            /\ Menus["search"] = Append(Times(5, "stay"), "back")
            /\ Menus["operations"] = Append(Times(5, "op"), "back")
            /\ Menus["power"] = Append(Times(4, "close"), "back")
            /\ Menus["save"] = Append(Times(7, "flash"), "back")
            /\ Menus["recall"] = Append(Times(7, "flash"), "back")
        BY DEF Menus
      <3>2. {3, 4, 5, 6, 7} \subseteq 1 .. 7
        OBVIOUS
      <3> QED
        BY <1>1, <3>1, <3>2, Zenon
    <2> QED
      BY <1>1, <2>1, TimesAndBack
  <1>2. CASE m = "top"
    <2> DEFINE S == {"display", "marker", "stimulus", "cal", "recall",
                     "config", "stay"}
    <2>1. Menus["top"] \in Seq(S) /\ Len(Menus["top"]) \in 1 .. 8
      BY DEF Menus
    <2>2. \A e \in S : EntryOK("top", e)
      BY DEF EntryOK, Level, MenuNames
    <2> QED
      BY <1>2, <2>1, <2>2, MenuOfEntries
  <1>3. CASE m = "display"
    <2> DEFINE S == {"trace", "format", "scale", "channel", "avg", "transform",
                     "stay", "back"}
    <2>1. Menus["display"] \in Seq(S) /\ Len(Menus["display"]) \in 1 .. 8
      BY DEF Menus
    <2>2. \A e \in S : EntryOK("display", e)
      BY DEF EntryOK, Level, MenuNames
    <2> QED
      BY <1>3, <2>1, <2>2, MenuOfEntries
  <1>4. CASE m = "format"
    <2> DEFINE t == <<"format2", "back">>
               S == {"close", "format2", "back"}
    <2>1. t \in Seq(S) /\ Len(t) \in 1 .. 3 /\ "close" \in S
      OBVIOUS
    <2>2. Menus["format"] = Times(5, "close") \o t
      BY DEF Menus
    <2>3. \A e \in S : EntryOK("format", e)
      BY DEF EntryOK, Level, MenuNames
    <2> HIDE DEF S, t
    <2>4. 5 \in 1 .. 5
      OBVIOUS
    <2>5. MenuOK("format")
      BY <2>1, <2>2, <2>3, <2>4, TimesAndMore, Zenon
    <2> QED
      BY <1>4, <2>5
  <1>5. CASE m = "scale"
    <2> DEFINE S == {"scale_keys", "time_keys", "back"}
    <2>1. Menus["scale"] \in Seq(S) /\ Len(Menus["scale"]) \in 1 .. 8
      BY DEF Menus
    <2>2. \A e \in S : EntryOK("scale", e)
      BY DEF EntryOK, Level, MenuNames
    <2> QED
      BY <1>5, <2>1, <2>2, MenuOfEntries
  <1>6. CASE m = "channel"
    <2> DEFINE S == {"leave", "back"}
    <2>1. Menus["channel"] \in Seq(S) /\ Len(Menus["channel"]) \in 1 .. 8
      BY DEF Menus
    <2>2. \A e \in S : EntryOK("channel", e)
      BY DEF EntryOK, Level, MenuNames
    <2> QED
      BY <1>6, <2>1, <2>2, MenuOfEntries
  <1>7. CASE m = "transform"
    <2> DEFINE t == <<"window", "scale_keys", "back">>
               S == {"close", "window", "scale_keys", "back"}
    <2>1. t \in Seq(S) /\ Len(t) \in 1 .. 3 /\ "close" \in S
      OBVIOUS
    <2>2. Menus["transform"] = Times(4, "close") \o t
      BY DEF Menus
    <2>3. \A e \in S : EntryOK("transform", e)
      BY DEF EntryOK, Level, MenuNames
    <2> HIDE DEF S, t
    <2>4. 4 \in 1 .. 5
      OBVIOUS
    <2>5. MenuOK("transform")
      BY <2>1, <2>2, <2>3, <2>4, TimesAndMore, Zenon
    <2> QED
      BY <1>7, <2>5
  <1>8. CASE m = "marker"
    <2> DEFINE S == {"select", "search", "operations", "smith", "back"}
    <2>1. Menus["marker"] \in Seq(S) /\ Len(Menus["marker"]) \in 1 .. 8
      BY DEF Menus
    <2>2. \A e \in S : EntryOK("marker", e)
      BY DEF EntryOK, Level, MenuNames
    <2> QED
      BY <1>8, <2>1, <2>2, MenuOfEntries
  <1>9. CASE m = "smith"
    <2> DEFINE t == <<"close", "back">>
               S == {"stay", "close", "back"}
    <2>1. t \in Seq(S) /\ Len(t) \in 1 .. 3 /\ "stay" \in S
      OBVIOUS
    <2>2. Menus["smith"] = Times(5, "stay") \o t
      BY DEF Menus
    <2>3. \A e \in S : EntryOK("smith", e)
      BY DEF EntryOK, Level, MenuNames
    <2> HIDE DEF S, t
    <2>4. 5 \in 1 .. 5
      OBVIOUS
    <2>5. MenuOK("smith")
      BY <2>1, <2>2, <2>3, <2>4, TimesAndMore, Zenon
    <2> QED
      BY <1>9, <2>5
  <1>10. CASE m = "stimulus"
    <2> DEFINE t == <<"sweep", "back">>
               S == {"freq_keys", "sweep", "back"}
    <2>1. t \in Seq(S) /\ Len(t) \in 1 .. 3 /\ "freq_keys" \in S
      OBVIOUS
    <2>2. Menus["stimulus"] = Times(5, "freq_keys") \o t
      BY DEF Menus
    <2>3. \A e \in S : EntryOK("stimulus", e)
      BY DEF EntryOK, Level, MenuNames
    <2> HIDE DEF S, t
    <2>4. 5 \in 1 .. 5
      OBVIOUS
    <2>5. MenuOK("stimulus")
      BY <2>1, <2>2, <2>3, <2>4, TimesAndMore, Zenon
    <2> QED
      BY <1>10, <2>5
  <1>11. CASE m = "sweep"
    <2> DEFINE S == {"scale_keys", "stay", "power", "back"}
    <2>1. Menus["sweep"] \in Seq(S) /\ Len(Menus["sweep"]) \in 1 .. 8
      BY DEF Menus
    <2>2. \A e \in S : EntryOK("sweep", e)
      BY DEF EntryOK, Level, MenuNames
    <2> QED
      BY <1>11, <2>1, <2>2, MenuOfEntries
  <1>12. CASE m = "cal"
    <2> DEFINE S == {"calop", "save", "stay", "back"}
    <2>1. Menus["cal"] \in Seq(S) /\ Len(Menus["cal"]) \in 1 .. 8
      BY DEF Menus
    <2>2. \A e \in S : EntryOK("cal", e)
      BY DEF EntryOK, Level, MenuNames
    <2> QED
      BY <1>12, <2>1, <2>2, MenuOfEntries
  <1>13. CASE m = "calop"
    <2> DEFINE t == <<"done", "back">>
               S == {"collect", "done", "back"}
    <2>1. t \in Seq(S) /\ Len(t) \in 1 .. 3 /\ "collect" \in S
      OBVIOUS
    <2>2. Menus["calop"] = Times(4, "collect") \o t
      BY DEF Menus
    <2>3. \A e \in S : EntryOK("calop", e)
      BY DEF EntryOK, Level, MenuNames
    <2> HIDE DEF S, t
    <2>4. 4 \in 1 .. 5
      OBVIOUS
    <2>5. MenuOK("calop")
      BY <2>1, <2>2, <2>3, <2>4, TimesAndMore, Zenon
    <2> QED
      BY <1>13, <2>5
  <1>14. CASE m = "config"
    <2> DEFINE S == {"touchcal", "touchtest", "leave", "show", "bootload_menu",
                     "back"}
    <2>1. Menus["config"] \in Seq(S) /\ Len(Menus["config"]) \in 1 .. 8
      BY DEF Menus
    <2>2. \A e \in S : EntryOK("config", e)
      BY DEF EntryOK, Level, MenuNames
    <2> QED
      BY <1>14, <2>1, <2>2, MenuOfEntries
  <1>15. CASE m = "bootload_menu"
    <2> DEFINE S == {"bootload", "back"}
    <2>1. Menus["bootload_menu"] \in Seq(S) /\ Len(Menus["bootload_menu"]) \in 1 .. 8
      BY DEF Menus
    <2>2. \A e \in S : EntryOK("bootload_menu", e)
      BY DEF EntryOK, Level, MenuNames
    <2> QED
      BY <1>15, <2>1, <2>2, MenuOfEntries
  <1> QED
    BY <1>1, <1>2, <1>3, <1>4, <1>5, <1>6, <1>7, <1>8, <1>9, <1>10, <1>11, <1>12, <1>13, <1>14, <1>15 DEF MenuNames

\* The menu below which a calibration ends has an entry to save it.
LEMMA CalHasSave == 2 \in DOMAIN Menus["cal"] /\ Menus["cal"][2] = "save"
  <1>1. Menus["cal"] = <<"calop", "save", "stay", "stay", "stay", "stay", "back">>
    BY DEF Menus
  <1> QED
    BY <1>1

KeypadNames == {"freq_keys", "scale_keys", "time_keys"}

LEMMA KeysDomain == DOMAIN Keys = KeypadNames
  BY DEF Keys, KeypadNames

\* The keypads' tables are as long as their pieces.
LEMMA LenOfTwo ==
    ASSUME NEW S, NEW a \in Seq(S), NEW b \in Seq(S)
    PROVE  a \o b \in Seq(S) /\ Len(a \o b) = Len(a) + Len(b)
  BY ConcatProperties

\* A table of keys is a point, the ten digits and up to four others.
LEMMA KeysOfPieces ==
    ASSUME NEW S, NEW a \in Seq(S), NEW b \in Seq(S), NEW c \in Seq(S),
           Len(a) = 1, Len(b) = 10, Len(c) \in 1 .. 4
    PROVE  (a \o b) \o c \in Seq(S) /\ Len((a \o b) \o c) \in 1 .. 15
  <1> DEFINE ab == a \o b
  <1>1. ab \in Seq(S) /\ Len(ab) = Len(a) + Len(b)
    BY LenOfTwo, Zenon
  <1> HIDE DEF ab
  <1>2. ab \o c \in Seq(S) /\ Len(ab \o c) = Len(ab) + Len(c)
    BY <1>1, LenOfTwo, Zenon
  <1>3. \A n \in 1 .. 4 : (1 + 10) + n \in 1 .. 15
    OBVIOUS
  <1>4. Len(ab \o c) \in 1 .. 15
    BY <1>1, <1>2, <1>3, Zenon
  <1> QED
    BY <1>2, <1>4 DEF ab

LEMMA OneMore ==
    ASSUME NEW S, NEW a \in Seq(S), NEW b \in Seq(S), Len(a) \in 1 .. 15, Len(b) = 1
    PROVE  Len(a \o b) \in 1 .. 16
  <1>1. Len(a \o b) = Len(a) + Len(b)
    BY LenOfTwo, Zenon
  <1>2. \A n \in 1 .. 15 : n + 1 \in 1 .. 16
    OBVIOUS
  <1> QED
    BY <1>1, <1>2, Zenon

\* They fit in the array of the keys' places.
LEMMA KeysFit ==
    ASSUME NEW k \in KeypadNames
    PROVE  Len(Keys[k]) \in 1 .. 16
  <1> DEFINE S == {"period", "digit", "unit", "minus", "backspace"}
             first == <<"period">>
             digits == Times(10, "digit")
             units == Times(4, "unit")
             last1 == <<"backspace">>
             last2 == <<"unit", "backspace">>
             last4 == <<"unit", "unit", "minus", "backspace">>
             head == (first \o digits) \o units
  <1>1. /\ first \in Seq(S) /\ digits \in Seq(S) /\ units \in Seq(S)
        /\ last1 \in Seq(S) /\ last2 \in Seq(S) /\ last4 \in Seq(S)
    BY DEF Times
  <1>2. /\ Len(first) = 1 /\ Len(digits) = 10 /\ Len(last1) = 1
        /\ Len(units) \in 1 .. 4 /\ Len(last2) \in 1 .. 4 /\ Len(last4) \in 1 .. 4
    BY DEF Times
  <1>3. /\ Keys["freq_keys"] = head \o last1
        /\ Keys["scale_keys"] = (first \o digits) \o last2
        /\ Keys["time_keys"] = (first \o digits) \o last4
    BY DEF Keys
  <1> HIDE DEF S, first, digits, units, last1, last2, last4
  <1>4. head \in Seq(S) /\ Len(head) \in 1 .. 15
    BY <1>1, <1>2, KeysOfPieces
  <1> HIDE DEF head
  <1>5. Len(head \o last1) \in 1 .. 16
    BY <1>1, <1>2, <1>4, OneMore
  <1>6. /\ Len((first \o digits) \o last2) \in 1 .. 15
        /\ Len((first \o digits) \o last4) \in 1 .. 15
    BY <1>1, <1>2, KeysOfPieces
  <1>7. k \in {"freq_keys", "scale_keys", "time_keys"}
    BY DEF KeypadNames
  <1>8. 1 .. 15 \subseteq 1 .. 16
    OBVIOUS
  <1> QED
    BY <1>3, <1>5, <1>6, <1>7, <1>8, Zenon

-------------------------------------------------------------------------------
(* The stack of menus.                                                     *)

\* A path of the tree from its root.
PathOK(stack) ==
    /\ stack \in Seq(MenuNames) /\ Len(stack) >= 1
    /\ stack[1] = "top"
    /\ \A i \in 1 .. Len(stack) : Level(stack[i]) = i
    /\ \A i \in 1 .. Len(stack) - 1 :
          \E j \in DOMAIN Menus[stack[i]] : Menus[stack[i]][j] = stack[i + 1]

LEMMA LastOK ==
    ASSUME NEW stack, PathOK(stack)
    PROVE  /\ Last(stack) \in MenuNames /\ Level(Last(stack)) = Len(stack)
           /\ Last(stack) # "top" => Len(stack) > 1
           /\ MenuOK(Last(stack))
           /\ Len(stack) \in 1 .. 4
  <1>1. /\ Len(stack) \in Nat /\ Last(stack) = stack[Len(stack)]
        /\ Last(stack) \in MenuNames /\ Level(Last(stack)) = Len(stack)
    BY DEF PathOK, Last
  <1>2. Len(stack) \in 1 .. 4
    BY <1>1, LevelRange
  <1>3. Last(stack) # "top" => Len(stack) # 1
    BY <1>1 DEF PathOK
  <1>4. Last(stack) # "top" => Len(stack) > 1
    BY <1>2, <1>3
  <1>5. MenuOK(Last(stack))
    BY <1>1, EveryMenuOK, Zenon
  <1> QED
    BY <1>1, <1>2, <1>4, <1>5

\* An entry that is a menu lies one level deeper: there is room for it.
LEMMA PushedOK ==
    ASSUME NEW stack, PathOK(stack), NEW j \in DOMAIN Menus[Last(stack)],
           NEW m \in MenuNames, m = Menus[Last(stack)][j]
    PROVE  PathOK(Pushed(stack, m)) /\ Last(Pushed(stack, m)) = m
  <1> DEFINE pushed == Append(stack, m)
             n == Len(stack)
  <1>1. EntryOK(Last(stack), m)
    BY LastOK DEF MenuOK
  <1>2. n \in 1 .. 4 /\ Level(m) = n + 1
    BY <1>1, LastOK DEF EntryOK
  <1>3. n \in 1 .. 3
    BY <1>2, LevelRange
  <1>4. Pushed(stack, m) = pushed
    <2> HIDE DEF n
    <2>0. n < MENU_STACK_DEPTH_MAX
      BY <1>3 DEF MENU_STACK_DEPTH_MAX
    <2>1. Len(stack) < MENU_STACK_DEPTH_MAX
      BY <2>0 DEF n
    <2> QED
      BY <2>1 DEF Pushed
  <1>5. /\ pushed \in Seq(MenuNames) /\ Len(pushed) = n + 1
        /\ pushed[n + 1] = m
        /\ \A i \in 1 .. n : pushed[i] = stack[i]
    BY DEF PathOK
  <1>6. stack[n] = Last(stack)
    BY DEF Last
  <1>7. stack[1] = "top" /\ \A i \in 1 .. n : Level(stack[i]) = i
    BY DEF PathOK
  <1> HIDE DEF pushed, n
  <1>8. \A i \in 1 .. n + 1 : Level(pushed[i]) = i
    BY <1>2, <1>3, <1>5, <1>7
  <1>9. ASSUME NEW i \in 1 .. n
        PROVE  \E k \in DOMAIN Menus[pushed[i]] : Menus[pushed[i]][k] = pushed[i + 1]
    <2>1. CASE i = n
      BY <1>3, <1>5, <1>6, <2>1
    <2>2. CASE i \in 1 .. n - 1
      <3>1. pushed[i] = stack[i] /\ pushed[i + 1] = stack[i + 1]
        BY <1>3, <1>5, <2>2
      <3> QED
        BY <2>2, <3>1 DEF PathOK, n
    <2> QED
      BY <1>3, <2>1, <2>2
  <1>10. PathOK(pushed)
    <2>1. Len(pushed) >= 1 /\ Len(pushed) - 1 = n /\ pushed[1] = "top"
      BY <1>3, <1>5, <1>7
    <2>2. \A i \in 1 .. Len(pushed) : Level(pushed[i]) = i
      BY <1>5, <1>8
    <2>3. \A i \in 1 .. Len(pushed) - 1 :
              \E k \in DOMAIN Menus[pushed[i]] : Menus[pushed[i]][k] = pushed[i + 1]
      BY <1>9, <2>1
    <2> QED
      BY <1>5, <2>1, <2>2, <2>3 DEF PathOK
  <1>11. Last(pushed) = m
    BY <1>5 DEF Last
  <1> QED
    BY <1>4, <1>10, <1>11

LEMMA FrontOK ==
    ASSUME NEW stack, PathOK(stack), Last(stack) # "top"
    PROVE  /\ PathOK(Front(stack))
           /\ Len(Front(stack)) = Len(stack) - 1
           /\ \E j \in DOMAIN Menus[Last(Front(stack))] :
                 Menus[Last(Front(stack))][j] = Last(stack)
  <1> DEFINE front == Front(stack)
             n == Len(stack)
  <1>1. n \in 2 .. 4
    <2>1. Len(stack) \in 1 .. 4 /\ Len(stack) > 1
      BY LastOK
    <2> HIDE DEF n
    <2>2. n \in 1 .. 4 /\ n > 1
      BY <2>1 DEF n
    <2> QED
      BY <2>2
  <1>2. /\ front \in Seq(MenuNames) /\ Len(front) = n - 1
        /\ \A i \in 1 .. n - 1 : front[i] = stack[i]
    <2>1. stack \in Seq(MenuNames)
      BY DEF PathOK
    <2>2. front = SubSeq(stack, 1, n - 1)
      BY DEF Front
    <2>3. \A i \in 1 .. n - 1 : stack[i] \in MenuNames
      BY <1>1, <2>1
    <2>4. front = [i \in 1 .. n - 1 |-> stack[i]]
      BY <1>1, <2>1, <2>2
    <2>5. n - 1 \in Nat
      BY <1>1
    <2>6. Len(front) = n - 1 /\ \A i \in 1 .. n - 1 : front[i] = stack[i]
      BY <2>4, <2>5
    <2>7. front \in Seq(MenuNames)
      BY <2>3, <2>4, <2>5
    <2> QED
      BY <2>6, <2>7
  <1>3. Last(front) = stack[n - 1] /\ Last(stack) = stack[n]
    BY <1>1, <1>2 DEF Last
  <1>4. \A i \in 1 .. n - 1 :
            \E j \in DOMAIN Menus[stack[i]] : Menus[stack[i]][j] = stack[i + 1]
    BY DEF PathOK
  <1>5. stack[1] = "top" /\ \A i \in 1 .. n : Level(stack[i]) = i
    BY DEF PathOK
  <1> HIDE DEF front, n
  <1>6. n - 1 \in 1 .. n - 1 /\ (n - 1) + 1 = n
    BY <1>1
  <1>7. \E j \in DOMAIN Menus[Last(front)] : Menus[Last(front)][j] = Last(stack)
    BY <1>3, <1>4, <1>6
  <1>8. \A i \in 1 .. n - 2 :
            \E j \in DOMAIN Menus[front[i]] : Menus[front[i]][j] = front[i + 1]
    <2> SUFFICES ASSUME NEW i \in 1 .. n - 2
                 PROVE \E j \in DOMAIN Menus[front[i]] : Menus[front[i]][j] = front[i + 1]
      OBVIOUS
    <2>1. front[i] = stack[i] /\ front[i + 1] = stack[i + 1] /\ i \in 1 .. n - 1
      BY <1>1, <1>2
    <2> QED
      BY <1>4, <2>1
  <1>9. PathOK(front)
    BY <1>1, <1>2, <1>5, <1>8 DEF PathOK
  <1> QED
    BY <1>2, <1>7, <1>9 DEF front, n

\* The end of a calibration leads to the menu to save it, beside the one left.
LEMMA DoneOK ==
    ASSUME NEW stack, PathOK(stack), Last(stack) = "calop"
    PROVE  PathOK(DoneStack(stack))
  <1>1. PathOK(Front(stack))
    BY FrontOK
  <1>2. PICK j \in DOMAIN Menus[Last(Front(stack))] :
            Menus[Last(Front(stack))][j] = "calop"
    BY FrontOK
  <1>3. Last(Front(stack)) = "cal"
    BY <1>1, <1>2, LastOK DEF MenuOK, EntryOK
  <1>4. "save" \in MenuNames
    BY DEF MenuNames
  <1> QED
    BY <1>1, <1>3, <1>4, CalHasSave, PushedOK DEF DoneStack

-------------------------------------------------------------------------------
(* The inductive invariant.  The path of menus alone is not inductive: an  *)
(* entry is taken from the menu on the screen, so what is selected and     *)
(* what is touched must be in it, and while a handler waits the mode must  *)
(* not change under it.                                                    *)

Kinds == {"idle", "select", "key", "show", "touchcal", "cal2", "touchtest",
          "drawing", "bootload"}

UiTypes ==
    /\ ui_mode \in {"NORMAL", "MENU", "KEYPAD", "USB"}
    /\ selection \in -1 .. 15
    /\ keypads \in KeypadNames /\ kp_index \in 0 .. NUMINPUT_LEN
    /\ modal \in [kind : Kinds, item : 0 .. 15]
    /\ ui_disabled \in BOOLEAN /\ collecting \in BOOLEAN
    /\ plot_redraw_enable \in BOOLEAN
    /\ stranded \in BOOLEAN /\ keypadTaken \in BOOLEAN

QueueTypes ==
    /\ usbDataMode \in BOOLEAN /\ lastUSBDataMode \in BOOLEAN
    /\ eventQueue \in Seq(LeverEvents \cup TouchEvents \cup {Collected})
    /\ Len(eventQueue) <= QueueSize
    /\ touched \in BOOLEAN

\* What a click chooses is in the menu.
SelectionFits == ui_mode = "MENU" => selection < Len(Menu)

\* Who waits for the end of a touch does so in the mode it began in.
WaitsInMode ==
    /\ modal.kind = "select" => ui_mode = "MENU" /\ modal.item < Len(Menu)
    /\ modal.kind = "key" => ui_mode = "KEYPAD"

UiOK == /\ UiTypes
        /\ PathOK(menu_stack)
        /\ SelectionFits
        /\ WaitsInMode
        /\ RedrawMatchesKeypad

\* The mode is the host's exactly while the main loop has seen that it is.
ModeOfHost == (ui_mode = "USB") <=> lastUSBDataMode

IInv == UiOK /\ QueueTypes /\ ModeOfHost

-------------------------------------------------------------------------------
(* What the operators keep.                                                *)

Modals == [kind : Kinds, item : 0 .. 15]

LEMMA ModalOf ==
    ASSUME NEW k \in Kinds, NEW i \in 0 .. 15
    PROVE  /\ [kind |-> k, item |-> i] \in Modals
           /\ [kind |-> k, item |-> i].kind = k
           /\ [kind |-> k, item |-> i].item = i
  BY DEF Modals

LEMMA IdleOK == Idle \in Modals /\ Idle.kind = "idle"
  BY DEF Idle, Modals, Kinds

LEMMA EnsuredOK ==
    ASSUME NEW stack, PathOK(stack), NEW sel \in -1 .. 15
    PROVE  /\ Ensured(sel, stack) \in -1 .. 15
           /\ Ensured(sel, stack) < Len(Menus[Last(stack)])
  <1> DEFINE n == Len(Menus[Last(stack)])
  <1>1. n \in 1 .. 8
    BY LastOK DEF MenuOK
  <1>2. Ensured(sel, stack) = IF sel >= n THEN n - 1 ELSE sel
    BY DEF Ensured
  <1> HIDE DEF n
  <1>3. Ensured(sel, stack) \in -1 .. 15 /\ Ensured(sel, stack) < n
    BY <1>1, <1>2
  <1> QED
    BY <1>3 DEF n

LEMMA GoToOK ==
    ASSUME NEW stack, PathOK(stack), NEW sel \in -1 .. 15, GoTo(stack, sel)
    PROVE  /\ PathOK(menu_stack')
           /\ selection' \in -1 .. 15
           /\ selection' < Len(Menus[Last(menu_stack')])
  BY EnsuredOK DEF GoTo

\* The entries that neither wait nor open the keypad.
LEMMA SimpleOK ==
    ASSUME PathOK(menu_stack), ui_mode = "MENU",
           NEW j \in DOMAIN Menu, NEW sel \in -1 .. 15, sel < Len(Menu),
           Simple(Menu[j], sel)
    PROVE  /\ PathOK(menu_stack')
           /\ selection' \in -1 .. 15
           /\ selection' < Len(Menus[Last(menu_stack')])
           /\ ui_mode' \in {"MENU", "NORMAL"}
  <1> DEFINE entry == Menu[j]
  <1>1. EntryOK(Last(menu_stack), entry)
    BY LastOK DEF MenuOK, Menu
  <1>2. CASE entry \in DOMAIN Menus /\ GoTo(Pushed(menu_stack, entry), sel)
             /\ UNCHANGED ui_mode
    <2>1. PathOK(Pushed(menu_stack, entry))
      BY <1>2, MenusDomain, PushedOK DEF Menu
    <2> QED
      BY <1>2, <2>1, GoToOK
  <1>3. CASE /\ entry \in {"back", "leave", "flash"}
             /\ GoTo(Front(menu_stack), sel)
             /\ ui_mode' \in {ui_mode, "NORMAL"}
    <2>1. PathOK(Front(menu_stack))
      BY <1>1, <1>3, FrontOK DEF EntryOK
    <2> QED
      BY <1>3, <2>1, GoToOK
  <1>4. CASE /\ entry = "done"
             /\ GoTo(DoneStack(menu_stack), Ensured(sel, Front(menu_stack)))
             /\ UNCHANGED ui_mode
    <2>1. Last(menu_stack) = "calop"
      BY <1>1, <1>4 DEF EntryOK
    <2>2. PathOK(Front(menu_stack)) /\ PathOK(DoneStack(menu_stack))
      BY <2>1, FrontOK, DoneOK
    <2>3. Ensured(sel, Front(menu_stack)) \in -1 .. 15
      BY <2>2, EnsuredOK
    <2> QED
      BY <1>4, <2>2, <2>3, GoToOK
  <1>5. CASE /\ selection' = sel /\ UNCHANGED menu_stack
             /\ ui_mode' \in {ui_mode, "NORMAL"}
    BY <1>5 DEF Menu
  <1> QED
    BY <1>2, <1>3, <1>4, <1>5 DEF Simple

LEMMA QuietOK == UiOK /\ Quiet => UiOK'
  BY DEF UiOK, UiTypes, SelectionFits, WaitsInMode, RedrawMatchesKeypad, PathOK,
         Quiet, menus, keys, cal, Menu

\* An entry of the menu on the screen, whether clicked or touched.
LEMMA InvokeOK ==
    ASSUME UiOK, ui_mode = "MENU",
           NEW j \in DOMAIN Menu, NEW sel \in -1 .. 15, sel < Len(Menu),
           Invoke(Menu[j], sel), UNCHANGED keypadTaken
    PROVE  UiOK'
  <1> DEFINE entry == Menu[j]
  <1>1. /\ UiTypes /\ PathOK(menu_stack)
        /\ plot_redraw_enable \/ keypadTaken
    BY DEF UiOK, RedrawMatchesKeypad
  <1>2. CASE /\ Simple(entry, sel)
             /\ modal' = Idle
             /\ UNCHANGED <<keys, cal, plot_redraw_enable, stranded>>
    <2>1. /\ PathOK(menu_stack')
          /\ selection' \in -1 .. 15
          /\ selection' < Len(Menus[Last(menu_stack')])
          /\ ui_mode' \in {"MENU", "NORMAL"}
      BY <1>1, <1>2, SimpleOK
    <2>2. UiTypes'
      BY <1>1, <1>2, <2>1, IdleOK DEF UiTypes, Modals, keys, cal
    <2>3. SelectionFits' /\ WaitsInMode' /\ RedrawMatchesKeypad'
      BY <1>1, <1>2, <2>1, IdleOK
         DEF SelectionFits, WaitsInMode, RedrawMatchesKeypad, Menu
    <2> QED
      BY <2>1, <2>2, <2>3 DEF UiOK
  <1>3. CASE /\ Stay(sel)
             /\ ui_disabled' = TRUE /\ collecting' = TRUE
             /\ modal' = Idle
             /\ UNCHANGED <<keys, plot_redraw_enable, stranded>>
    <2>1. UiTypes'
      BY <1>1, <1>3, IdleOK DEF UiTypes, Modals, keys, Stay
    <2>2. PathOK(menu_stack)' /\ SelectionFits'
      BY <1>1, <1>3 DEF SelectionFits, Menu, Stay
    <2>3. WaitsInMode' /\ RedrawMatchesKeypad'
      BY <1>1, <1>3, IdleOK DEF WaitsInMode, RedrawMatchesKeypad, Stay
    <2> QED
      BY <2>1, <2>2, <2>3 DEF UiOK
  <1>4. CASE /\ entry \in DOMAIN Keys
             /\ keypads' \in IF entry = "scale_keys" /\ Last(menu_stack) = "scale"
                             THEN {"scale_keys", "time_keys"} ELSE {entry}
             /\ kp_index' = 0
             /\ ui_mode' = "KEYPAD"
             /\ plot_redraw_enable' = FALSE
             /\ selection' = sel
             /\ modal' = Idle
             /\ UNCHANGED <<menu_stack, cal, stranded>>
    <2>1. keypads' \in KeypadNames
      BY <1>4, KeysDomain DEF KeypadNames
    <2>2. 0 \in 0 .. NUMINPUT_LEN
      BY UserInterfaceAssumption
    <2>3. UiTypes'
      BY <1>1, <1>4, <2>1, <2>2, IdleOK DEF UiTypes, Modals, cal
    <2>4. PathOK(menu_stack)' /\ SelectionFits' /\ WaitsInMode' /\ RedrawMatchesKeypad'
      BY <1>1, <1>4, IdleOK DEF SelectionFits, WaitsInMode, RedrawMatchesKeypad
    <2> QED
      BY <2>3, <2>4 DEF UiOK
  <1>5. CASE /\ entry \in {"show", "touchcal", "touchtest", "flash", "bootload"}
             /\ modal' = [kind |-> IF entry = "flash" THEN "show" ELSE entry, item |-> 0]
             /\ stranded' = (stranded \/ entry = "bootload")
             /\ Stay(sel)
             /\ UNCHANGED <<keys, cal, plot_redraw_enable>>
    <2> DEFINE kind == IF entry = "flash" THEN "show" ELSE entry
    <2>1. kind \in Kinds \ {"select", "key"}
      BY <1>5 DEF Kinds
    <2> HIDE DEF kind
    <2>2. modal' = [kind |-> kind, item |-> 0]
      BY <1>5 DEF kind
    <2>3. modal' \in Modals /\ modal'.kind \notin {"select", "key"}
      <3>1. kind \in Kinds /\ 0 \in 0 .. 15
        BY <2>1
      <3>2. modal' \in Modals /\ modal'.kind = kind
        BY <2>2, <3>1, ModalOf, Zenon
      <3> QED
        BY <2>1, <3>2
    <2>4. stranded' \in BOOLEAN
      BY <1>5
    <2>5. UiTypes'
      BY <1>1, <1>5, <2>3, <2>4 DEF UiTypes, Modals, keys, cal, Stay
    <2>6. PathOK(menu_stack)' /\ SelectionFits'
      BY <1>1, <1>5 DEF SelectionFits, Menu, Stay
    <2>7. WaitsInMode' /\ RedrawMatchesKeypad'
      BY <1>1, <1>5, <2>3 DEF WaitsInMode, RedrawMatchesKeypad, Stay
    <2> QED
      BY <2>5, <2>6, <2>7 DEF UiOK
  <1> QED
    BY <1>2, <1>3, <1>4, <1>5 DEF Invoke

\* A key, whether clicked or touched, in whatever way the keypad is left.
LEMMA ClickKeyOK ==
    ASSUME UiOK, ui_mode = "KEYPAD", NEW k, NEW sel \in -1 .. 15,
           ClickKey(k, sel), modal' \in {Idle, modal}, modal'.kind \notin {"select", "key"},
           UNCHANGED <<menu_stack, keypads, cal, stranded>>
    PROVE  UiOK'
  <1>1. UiTypes /\ PathOK(menu_stack) /\ ~plot_redraw_enable
    BY DEF UiOK, RedrawMatchesKeypad
  <1>2. CASE CloseKeypad("NORMAL") /\ UNCHANGED kp_index /\ selection' = sel
    <2>1. UiTypes'
      BY <1>1, <1>2, IdleOK DEF UiTypes, Modals, cal, CloseKeypad
    <2>2. PathOK(menu_stack)' /\ SelectionFits' /\ WaitsInMode' /\ RedrawMatchesKeypad'
      BY <1>1, <1>2 DEF SelectionFits, WaitsInMode, RedrawMatchesKeypad, CloseKeypad
    <2> QED
      BY <2>1, <2>2 DEF UiOK
  <1>3. CASE /\ selection' = sel
             /\ kp_index' \in 0 .. NUMINPUT_LEN
             /\ UNCHANGED <<ui_mode, plot_redraw_enable, keypadTaken>>
    <2>1. UiTypes'
      BY <1>1, <1>3, IdleOK DEF UiTypes, Modals, cal
    <2>2. PathOK(menu_stack)' /\ SelectionFits' /\ WaitsInMode' /\ RedrawMatchesKeypad'
      BY <1>1, <1>3 DEF SelectionFits, WaitsInMode, RedrawMatchesKeypad
    <2> QED
      BY <2>1, <2>2 DEF UiOK
  <1>4. kp_index \in 0 .. NUMINPUT_LEN /\ NUMINPUT_LEN \in Nat \ {0}
    BY <1>1, UserInterfaceAssumption DEF UiTypes
  <1>5. /\ kp_index > 0 => kp_index - 1 \in 0 .. NUMINPUT_LEN
        /\ kp_index < NUMINPUT_LEN => kp_index + 1 \in 0 .. NUMINPUT_LEN
        /\ 1 \in 0 .. NUMINPUT_LEN
    BY <1>4
  <1> QED
    BY <1>2, <1>3, <1>4, <1>5, Zenon DEF ClickKey

-------------------------------------------------------------------------------
(* The handlers of an event.                                               *)

\* An event that opens or closes the menu, moves the selection or begins a
\* wait touches only one of mode, selection and waiter.
LEMMA EnterMenuOK ==
    ASSUME UiOK, modal = Idle, ui_mode = "NORMAL",
           NEW sel \in -1 .. 15, EnterMenu(sel)
    PROVE  UiOK'
  <1>1. UiTypes /\ PathOK(menu_stack) /\ (plot_redraw_enable \/ keypadTaken)
    BY DEF UiOK, RedrawMatchesKeypad
  <1>2. selection' \in -1 .. 15 /\ selection' < Len(Menus[Last(menu_stack)])
    BY <1>1, EnsuredOK DEF EnterMenu
  <1>3. UiTypes'
    BY <1>1, <1>2 DEF UiTypes, EnterMenu, keys, cal
  <1>4. PathOK(menu_stack)' /\ SelectionFits'
    BY <1>1, <1>2 DEF SelectionFits, EnterMenu, Menu
  <1>5. WaitsInMode' /\ RedrawMatchesKeypad'
    BY <1>1, IdleOK DEF WaitsInMode, RedrawMatchesKeypad, EnterMenu
  <1> QED
    BY <1>3, <1>4, <1>5 DEF UiOK

LEMMA CloseMenuOK ==
    ASSUME UiOK, modal = Idle, ui_mode = "MENU", CloseMenu
    PROVE  UiOK'
  <1>1. UiTypes /\ PathOK(menu_stack) /\ (plot_redraw_enable \/ keypadTaken)
    BY DEF UiOK, RedrawMatchesKeypad
  <1>2. UiTypes'
    BY <1>1 DEF UiTypes, CloseMenu, menus, keys, cal
  <1>3. PathOK(menu_stack)' /\ SelectionFits' /\ WaitsInMode' /\ RedrawMatchesKeypad'
    BY <1>1, IdleOK DEF SelectionFits, WaitsInMode, RedrawMatchesKeypad, CloseMenu, menus
  <1> QED
    BY <1>2, <1>3 DEF UiOK

LEMMA SelectOK ==
    ASSUME UiOK, modal = Idle, NEW sel \in -1 .. 15, Select(sel),
           ui_mode = "MENU" => sel < Len(Menu)
    PROVE  UiOK'
  <1>1. UiTypes /\ PathOK(menu_stack) /\ RedrawMatchesKeypad
    BY DEF UiOK
  <1>2. UiTypes'
    BY <1>1 DEF UiTypes, Select, keys, cal
  <1>3. PathOK(menu_stack)' /\ SelectionFits'
    BY <1>1 DEF SelectionFits, Select, Menu
  <1>4. WaitsInMode' /\ RedrawMatchesKeypad'
    BY <1>1, IdleOK DEF WaitsInMode, RedrawMatchesKeypad, Select
  <1> QED
    BY <1>2, <1>3, <1>4 DEF UiOK

LEMMA WaitOK ==
    ASSUME UiOK, NEW kind \in {"select", "key"}, NEW item \in 0 .. 15, Wait(kind, item),
           kind = "select" => ui_mode = "MENU" /\ item < Len(Menu),
           kind = "key" => ui_mode = "KEYPAD"
    PROVE  UiOK'
  <1>1. UiTypes /\ PathOK(menu_stack) /\ RedrawMatchesKeypad
    BY DEF UiOK
  <1>2. kind \in Kinds
    BY DEF Kinds
  <1>3. modal' \in Modals /\ modal'.kind = kind /\ modal'.item = item
    BY <1>2, ModalOf, Zenon DEF Wait
  <1>4. UiTypes'
    BY <1>1, <1>3 DEF UiTypes, Modals, Wait, keys, cal
  <1>5. PathOK(menu_stack)' /\ SelectionFits'
    BY <1>1 DEF SelectionFits, Wait, Menu
  <1>6. WaitsInMode' /\ RedrawMatchesKeypad'
    BY <1>1, <1>3 DEF WaitsInMode, RedrawMatchesKeypad, Wait, Menu
  <1> QED
    BY <1>4, <1>5, <1>6 DEF UiOK

LEMMA ProcessNormalOK ==
    ASSUME UiOK, modal = Idle, ui_mode = "NORMAL", NEW e, ProcessNormal(e)
    PROVE  UiOK'
  <1>1. selection \in -1 .. 15 /\ -1 \in -1 .. 15
    BY DEF UiOK, UiTypes
  <1> QED
    BY <1>1, EnterMenuOK, QuietOK, Zenon DEF ProcessNormal

LEMMA ProcessMenuOK ==
    ASSUME UiOK, modal = Idle, ui_mode = "MENU", NEW e, ProcessMenu(e)
    PROVE  UiOK'
  <1> DEFINE n == Len(Menu)
  <1>1. /\ PathOK(menu_stack) /\ selection \in -1 .. 15 /\ selection < n
        /\ n \in 1 .. 8 /\ DOMAIN Menu = 1 .. n
    BY LastOK DEF UiOK, UiTypes, SelectionFits, MenuOK, Menu
  <1> HIDE DEF n
  <1>2. CASE /\ selection >= 0
             /\ Invoke(Menu[selection + 1], selection)
             /\ UNCHANGED keypadTaken
    <2>1. selection + 1 \in DOMAIN Menu
      BY <1>1, <1>2
    <2>2. selection < Len(Menu)
      BY <1>1 DEF n
    <2> QED
      BY <1>1, <1>2, <2>1, <2>2, InvokeOK, Zenon
  <1>3. CASE CloseMenu
    BY <1>3, CloseMenuOK
  <1>4. CASE Quiet
    BY <1>4, QuietOK
  <1>5. CASE selection + 1 # n /\ Select(selection + 1)
    <2>1. selection + 1 \in -1 .. 15 /\ selection + 1 < n
      BY <1>1, <1>5
    <2> QED
      BY <1>5, <2>1, SelectOK, Zenon DEF n
  <1>6. CASE selection # 0 /\ ~(selection < 0) /\ Select(selection - 1)
    <2>1. selection - 1 \in -1 .. 15 /\ selection - 1 < n
      BY <1>1, <1>6
    <2> QED
      BY <1>6, <2>1, SelectOK, Zenon DEF n
  <1>7. ASSUME NEW i \in 0 .. n - 1, Wait("select", i)
        PROVE  UiOK'
    <2>1. i \in 0 .. 15 /\ i < n
      BY <1>1, <1>7
    <2>2. "select" \in {"select", "key"} /\ "select" # "key"
      OBVIOUS
    <2> QED
      BY <1>7, <2>1, <2>2, WaitOK, Zenon DEF n
  <1>8. CASE e = "JogLeft" /\ CASE selection = 0 -> CloseMenu
                               [] selection < 0 -> Quiet
                               [] OTHER         -> Select(selection - 1)
    <2>1. selection = 0 \/ selection < 0 \/ (selection # 0 /\ ~(selection < 0))
      OBVIOUS
    <2>2. selection = 0 => ~(selection < 0)
      OBVIOUS
    <2> QED
      BY <1>3, <1>4, <1>6, <1>8, <2>1, <2>2
  <1>9. CASE IF selection + 1 = Len(Menu) THEN CloseMenu ELSE Select(selection + 1)
    BY <1>3, <1>5, <1>9, Zenon DEF n
  <1>10. CASE CloseMenu \/ \E i \in 0..(Len(Menu) - 1) : Wait("select", i)
    BY <1>3, <1>7, <1>10, Zenon DEF n
  <1> QED
    BY <1>2, <1>3, <1>4, <1>8, <1>9, <1>10, Zenon DEF ProcessMenu

LEMMA ProcessKeypadOK ==
    ASSUME UiOK, modal = Idle, ui_mode = "KEYPAD", NEW e, ProcessKeypad(e)
    PROVE  UiOK'
  <1> DEFINE last == keypads_last_index
  <1>1. selection \in -1 .. 15 /\ keypads \in KeypadNames
    BY DEF UiOK, UiTypes
  <1>2. last \in 0 .. 15
    <2> DEFINE n == Len(Keys[keypads])
    <2>1. n \in 1 .. 16
      BY <1>1, KeysFit
    <2> HIDE DEF n
    <2>2. n - 1 \in 0 .. 15
      BY <2>1
    <2> QED
      BY <2>2 DEF n, keypads_last_index
  <1> HIDE DEF last
  <1>3. ASSUME NEW sel \in -1 .. 15, Select(sel) PROVE UiOK'
    BY <1>3, SelectOK
  <1>4. CASE Select(IF selection <= 0 THEN last ELSE selection - 1)
    <2>1. (IF selection <= 0 THEN last ELSE selection - 1) \in -1 .. 15
      BY <1>1, <1>2
    <2> QED
      BY <1>3, <1>4, <2>1
  <1>5. CASE Select(IF selection + 1 > last THEN 0 ELSE selection + 1)
    <2>1. (IF selection + 1 > last THEN 0 ELSE selection + 1) \in -1 .. 15
      BY <1>1, <1>2
    <2> QED
      BY <1>3, <1>5, <2>1
  <1>6. CASE /\ ClickKey(selection, selection)
             /\ UNCHANGED <<menu_stack, keypads, modal, cal, stranded>>
    BY <1>1, <1>6, ClickKeyOK, IdleOK
  <1>7. ASSUME NEW i \in 0 .. last, Wait("key", i)
        PROVE  UiOK'
    <2>1. i \in 0 .. 15
      BY <1>2
    <2> QED
      BY <1>7, <2>1, WaitOK
  <1> QED
    BY <1>4, <1>5, <1>6, <1>7, QuietOK, Zenon DEF ProcessKeypad, last

\* The handler that follows neither selects nor types.
LEMMA AfterOK ==
    ASSUME NEW kind \in DOMAIN After
    PROVE  After[kind] \in Kinds \ {"select", "key"}
  BY DEF After, Kinds

LEMMA WakeOK ==
    ASSUME UiOK, NEW e, Wake(e)
    PROVE  UiOK'
  <1>1. UiTypes /\ PathOK(menu_stack) /\ RedrawMatchesKeypad /\ WaitsInMode
    BY DEF UiOK
  <1>2. modal.item \in 0 .. 15
    BY <1>1 DEF UiTypes
  <1>3. -1 \in -1 .. 15
    OBVIOUS
  <1>4. CASE /\ modal.kind = "select"
             /\ Invoke(Menu[modal.item + 1], -1)
             /\ UNCHANGED keypadTaken
    <2> DEFINE n == Len(Menu)
    <2>1. n \in 1 .. 8 /\ DOMAIN Menu = 1 .. n /\ modal.item < n
      BY <1>1, <1>4, LastOK DEF WaitsInMode, MenuOK, Menu
    <2> HIDE DEF n
    <2>2. modal.item + 1 \in DOMAIN Menu /\ -1 < n
      BY <1>2, <2>1
    <2>3. ui_mode = "MENU"
      BY <1>1, <1>4 DEF WaitsInMode
    <2> QED
      BY <1>3, <1>4, <2>2, <2>3, InvokeOK, Zenon DEF n
  <1>5. CASE /\ modal.kind = "key"
             /\ ClickKey(modal.item, -1)
             /\ modal' = Idle
             /\ UNCHANGED <<menu_stack, keypads, cal, stranded>>
    <2>1. ui_mode = "KEYPAD"
      BY <1>1, <1>5 DEF WaitsInMode
    <2> QED
      BY <1>3, <1>5, <2>1, ClickKeyOK, IdleOK
  <1>6. CASE /\ modal.kind \in DOMAIN After
             /\ modal' = [kind |-> After[modal.kind], item |-> 0]
             /\ UNCHANGED <<ui_mode, menus, keys, cal, plot_redraw_enable, stranded,
                            keypadTaken>>
    <2>1. After[modal.kind] \in Kinds /\ 0 \in 0 .. 15
      BY <1>6, AfterOK
    <2>2. modal' \in Modals /\ modal'.kind = After[modal.kind]
      BY <1>6, <2>1, ModalOf, Zenon
    <2>3. modal'.kind \notin {"select", "key"}
      BY <1>6, <2>2, AfterOK
    <2>4. UiTypes'
      BY <1>1, <1>6, <2>2 DEF UiTypes, Modals, menus, keys, cal
    <2>5. PathOK(menu_stack)' /\ SelectionFits'
      BY <1>6 DEF UiOK, SelectionFits, menus, Menu
    <2>6. WaitsInMode' /\ RedrawMatchesKeypad'
      BY <1>1, <1>6, <2>3 DEF WaitsInMode, RedrawMatchesKeypad
    <2> QED
      BY <2>4, <2>5, <2>6 DEF UiOK
  <1> QED
    BY <1>4, <1>5, <1>6, QuietOK, Zenon DEF Wake

LEMMA UiProcessOK ==
    ASSUME UiOK, usbDataMode \in BOOLEAN, NEW e, UiProcess(e)
    PROVE  UiOK' /\ usbDataMode' \in BOOLEAN
  <1>1. CASE modal # Idle
    BY <1>1, WakeOK DEF UiProcess
  <1>2. CASE modal = Idle /\ ui_disabled
    BY <1>2, QuietOK DEF UiProcess
  <1>3. CASE modal = Idle /\ ~ui_disabled
    <2>1. ui_mode \in {"NORMAL", "MENU", "KEYPAD", "USB"}
      BY DEF UiOK, UiTypes
    <2>2. CASE ui_mode = "NORMAL"
      <3>1. ProcessNormal(e) /\ UNCHANGED usbDataMode
        BY <1>3, <2>2 DEF UiProcess
      <3> QED
        BY <1>3, <2>2, <3>1, ProcessNormalOK
    <2>3. CASE ui_mode = "MENU"
      <3>1. ProcessMenu(e) /\ UNCHANGED usbDataMode
        BY <1>3, <2>3 DEF UiProcess
      <3> QED
        BY <1>3, <2>3, <3>1, ProcessMenuOK
    <2>4. CASE ui_mode = "KEYPAD"
      <3>1. ProcessKeypad(e) /\ UNCHANGED usbDataMode
        BY <1>3, <2>4 DEF UiProcess
      <3> QED
        BY <1>3, <2>4, <3>1, ProcessKeypadOK
    <2>5. CASE ui_mode = "USB"
      <3>1. Quiet /\ usbDataMode' = (usbDataMode /\ e # "LongPress")
        BY <1>3, <2>5 DEF UiProcess
      <3> QED
        BY <3>1, QuietOK
    <2> QED
      BY <2>1, <2>2, <2>3, <2>4, <2>5
  <1> QED
    BY <1>1, <1>2, <1>3

\* No event takes the display from the host, or gives it.
LEMMA InvokeKeepsHost ==
    ASSUME NEW entry, NEW sel, Invoke(entry, sel)
    PROVE  ui_mode' \in {ui_mode, "NORMAL", "KEYPAD"}
  BY DEF Invoke, Simple, GoTo, Stay

LEMMA ClickKeyKeepsHost ==
    ASSUME NEW k, NEW sel, ClickKey(k, sel)
    PROVE  ui_mode' \in {ui_mode, "NORMAL"}
  BY DEF ClickKey, CloseKeypad

LEMMA WakeKeepsHost ==
    ASSUME WaitsInMode, NEW e, Wake(e)
    PROVE  (ui_mode' = "USB") <=> (ui_mode = "USB")
  <1>1. CASE UNCHANGED ui_mode
    BY <1>1
  <1>2. CASE modal.kind = "select" /\ Invoke(Menu[modal.item + 1], -1)
    BY <1>2, InvokeKeepsHost DEF WaitsInMode
  <1>3. CASE modal.kind = "key" /\ ClickKey(modal.item, -1)
    BY <1>3, ClickKeyKeepsHost DEF WaitsInMode
  <1> QED
    BY <1>1, <1>2, <1>3 DEF Wake, Quiet

LEMMA EventKeepsHost ==
    ASSUME UiOK, NEW e, UiProcess(e)
    PROVE  (ui_mode' = "USB") <=> (ui_mode = "USB")
  <1>1. CASE modal # Idle
    BY <1>1, WakeKeepsHost DEF UiProcess, UiOK
  <1>2. CASE Quiet
    BY <1>2 DEF Quiet
  <1>3. CASE modal = Idle /\ ~ui_disabled
    <2>1. ui_mode \in {"NORMAL", "MENU", "KEYPAD", "USB"}
      BY DEF UiOK, UiTypes
    <2>2. CASE ui_mode = "NORMAL"
      <3>1. ProcessNormal(e)
        BY <1>3, <2>2 DEF UiProcess
      <3> QED
        BY <2>2, <3>1 DEF ProcessNormal, EnterMenu, Quiet
    <2>3. CASE ui_mode = "MENU"
      <3>1. ProcessMenu(e)
        BY <1>3, <2>3 DEF UiProcess
      <3>2. ASSUME NEW sel, Select(sel) PROVE ui_mode' = ui_mode
        BY <3>2 DEF Select
      <3>3. ASSUME NEW kind, NEW i, Wait(kind, i) PROVE ui_mode' = ui_mode
        BY <3>3 DEF Wait
      <3>4. CloseMenu => ui_mode' = "NORMAL"
        BY DEF CloseMenu
      <3>5. ui_mode' \in {ui_mode, "NORMAL", "KEYPAD"}
        <4>1. CASE Invoke(Menu[selection + 1], selection)
          BY <4>1, InvokeKeepsHost
        <4>2. CASE CloseMenu \/ Quiet \/ (\E sel : Select(sel)) \/ (\E i : Wait("select", i))
          BY <3>2, <3>3, <3>4, <4>2 DEF Quiet
        <4>3. \/ selection = 0
              \/ selection < 0 /\ selection # 0
              \/ selection # 0 /\ ~(selection < 0)
          OBVIOUS
        <4> QED
          BY <3>1, <4>1, <4>2, <4>3 DEF ProcessMenu
      <3> QED
        BY <2>3, <3>5
    <2>4. CASE ui_mode = "KEYPAD"
      <3>1. ProcessKeypad(e)
        BY <1>3, <2>4 DEF UiProcess
      <3> QED
        BY <2>4, <3>1, ClickKeyKeepsHost DEF ProcessKeypad, Quiet, Select, Wait
    <2>5. CASE ui_mode = "USB"
      BY <1>2, <1>3, <2>5 DEF UiProcess
    <2> QED
      BY <2>1, <2>2, <2>3, <2>4, <2>5
  <1> QED
    BY <1>1, <1>2, <1>3 DEF UiProcess

-------------------------------------------------------------------------------
(* The steps.                                                              *)

Events == LeverEvents \cup TouchEvents \cup {Collected}

LEMMA ProcessOK ==
    ASSUME IInv, Process
    PROVE  IInv'
  <1>1. UiOK /\ QueueTypes
    BY DEF IInv
  <1>2. UiOK' /\ usbDataMode' \in BOOLEAN
    <2>1. CASE Head(eventQueue) = Collected
      <3>1. /\ CalCollected
            /\ UNCHANGED <<ui_mode, menus, keys, modal, collecting,
                           plot_redraw_enable, usbDataMode, stranded, keypadTaken>>
        BY <2>1 DEF Process
      <3>2. UiTypes'
        BY <1>1, <3>1 DEF UiOK, UiTypes, CalCollected, menus, keys
      <3>3. PathOK(menu_stack)' /\ SelectionFits' /\ WaitsInMode' /\ RedrawMatchesKeypad'
        BY <1>1, <3>1 DEF UiOK, SelectionFits, WaitsInMode, RedrawMatchesKeypad, menus, Menu
      <3> QED
        BY <1>1, <3>1, <3>2, <3>3 DEF UiOK, QueueTypes
    <2>2. CASE UiProcess(Head(eventQueue))
      BY <1>1, <2>2, UiProcessOK DEF QueueTypes
    <2> QED
      BY <2>1, <2>2 DEF Process
  <1>3. /\ eventQueue \in Seq(Events) /\ Len(eventQueue) <= QueueSize
        /\ eventQueue # << >> /\ eventQueue' = Tail(eventQueue)
    BY <1>1 DEF QueueTypes, Process, Events
  <1> HIDE DEF Events
  <1>4. Tail(eventQueue) \in Seq(Events) /\ Len(Tail(eventQueue)) = Len(eventQueue) - 1
    BY <1>3
  <1>5. QueueSize \in Nat
    BY UserInterfaceAssumption
  <1>6. eventQueue' \in Seq(Events) /\ Len(eventQueue') <= QueueSize
    BY <1>3, <1>4, <1>5
  <1>7. QueueTypes'
    BY <1>1, <1>2, <1>6 DEF QueueTypes, Events, Process
  <1>8. (ui_mode' = "USB") <=> (ui_mode = "USB")
    BY <1>1, EventKeepsHost DEF Process
  <1>9. ModeOfHost'
    BY <1>8 DEF IInv, ModeOfHost, Process
  <1> QED
    BY <1>2, <1>7, <1>9 DEF IInv

LEMMA EndTouchTestOK ==
    ASSUME IInv, EndTouchTest
    PROVE  IInv'
  <1>1. UiTypes'
    BY IdleOK DEF IInv, UiOK, UiTypes, Modals, EndTouchTest, menus, keys, cal
  <1>2. PathOK(menu_stack)' /\ SelectionFits' /\ WaitsInMode' /\ RedrawMatchesKeypad'
    BY IdleOK DEF IInv, UiOK, SelectionFits, WaitsInMode, RedrawMatchesKeypad,
                  EndTouchTest, menus, Menu
  <1>3. QueueTypes'
    BY DEF IInv, QueueTypes, EndTouchTest, usb
  <1>4. ModeOfHost'
    BY DEF IInv, ModeOfHost, EndTouchTest, usb
  <1> QED
    BY <1>1, <1>2, <1>3, <1>4 DEF IInv, UiOK

\* The mode changes under nobody who waits.
LEMMA EnterUsbOK ==
    ASSUME IInv, EnterUsb
    PROVE  IInv'
  <1>1. UiTypes'
    BY DEF IInv, UiOK, UiTypes, EnterUsb, menus, keys, cal
  <1>2. PathOK(menu_stack)' /\ SelectionFits' /\ WaitsInMode' /\ RedrawMatchesKeypad'
    BY IdleOK DEF IInv, UiOK, UiTypes, SelectionFits, WaitsInMode, RedrawMatchesKeypad,
                  EnterUsb, menus
  <1>3. QueueTypes'
    BY DEF IInv, QueueTypes, EnterUsb
  <1>4. ModeOfHost'
    BY DEF ModeOfHost, EnterUsb
  <1> QED
    BY <1>1, <1>2, <1>3, <1>4 DEF IInv, UiOK

\* It was the host's: the keypad is not left this way.
LEMMA LeaveUsbOK ==
    ASSUME IInv, LeaveUsb
    PROVE  IInv'
  <1>1. UiTypes'
    BY DEF IInv, UiOK, UiTypes, LeaveUsb, menus, keys, cal
  <1>2. PathOK(menu_stack)' /\ SelectionFits' /\ WaitsInMode' /\ RedrawMatchesKeypad'
    BY IdleOK DEF IInv, UiOK, ModeOfHost, SelectionFits, WaitsInMode, RedrawMatchesKeypad,
                  LeaveUsb, menus
  <1>3. QueueTypes'
    BY DEF IInv, QueueTypes, LeaveUsb
  <1>4. ModeOfHost'
    BY DEF ModeOfHost, LeaveUsb
  <1> QED
    BY <1>1, <1>2, <1>3, <1>4 DEF IInv, UiOK

\* An event that the queue has no room for is lost.
LEMMA EnqueueOK ==
    ASSUME QueueTypes, NEW e \in Events, Enqueue(e)
    PROVE  eventQueue' \in Seq(Events) /\ Len(eventQueue') <= QueueSize
  <1>1. eventQueue \in Seq(Events) /\ Len(eventQueue) <= QueueSize
    BY DEF QueueTypes, Events
  <1> HIDE DEF Events
  <1>2. QueueSize \in Nat
    BY UserInterfaceAssumption
  <1>3. CASE Full
    BY <1>1, <1>3 DEF Enqueue
  <1>4. CASE ~Full
    <2>1. eventQueue' = Append(eventQueue, e)
      BY <1>4 DEF Enqueue
    <2>2. eventQueue' \in Seq(Events) /\ Len(eventQueue') = Len(eventQueue) + 1
      BY <1>1, <2>1
    <2>3. Len(eventQueue) # QueueSize /\ Len(eventQueue) \in Nat
      BY <1>1, <1>4 DEF Full
    <2> QED
      BY <1>1, <1>2, <2>2, <2>3
  <1> QED
    BY <1>3, <1>4

\* What the user and the interrupts do is not seen before it is processed.
LEMMA OutsideOK ==
    ASSUME IInv, UNCHANGED <<ui_mode, menus, keys, modal, ui_disabled,
                             plot_redraw_enable, lastUSBDataMode, keypadTaken>>,
           collecting' \in BOOLEAN, stranded' \in BOOLEAN, QueueTypes'
    PROVE  IInv'
  <1>1. UiTypes'
    BY DEF IInv, UiOK, UiTypes, menus, keys
  <1>2. PathOK(menu_stack)' /\ SelectionFits' /\ WaitsInMode' /\ RedrawMatchesKeypad'
    BY DEF IInv, UiOK, SelectionFits, WaitsInMode, RedrawMatchesKeypad, menus, Menu
  <1>3. ModeOfHost'
    BY DEF IInv, ModeOfHost
  <1> QED
    BY <1>1, <1>2, <1>3 DEF IInv, UiOK

LEMMA LeverEventOK ==
    ASSUME IInv, LeverEvent
    PROVE  IInv'
  <1>1. PICK e \in LeverEvents : Enqueue(e)
    BY DEF LeverEvent
  <1>2. e \in Events /\ QueueTypes
    BY DEF IInv, Events
  <1>3. QueueTypes'
    BY <1>1, <1>2, EnqueueOK DEF QueueTypes, Events, LeverEvent, UserActs, usb
  <1> QED
    BY <1>3, OutsideOK DEF IInv, UiOK, UiTypes, LeverEvent, UserActs, usb, cal

LEMMA TouchOK ==
    ASSUME IInv, Touch
    PROVE  IInv'
  <1> DEFINE e == IF touched THEN "TouchUp" ELSE "TouchDown"
  <1>1. e \in Events /\ QueueTypes
    BY DEF IInv, Events, TouchEvents
  <1>2. Enqueue(e) /\ touched' \in BOOLEAN
    BY DEF Touch
  <1> HIDE DEF e
  <1>3. QueueTypes'
    BY <1>1, <1>2, EnqueueOK DEF QueueTypes, Events, Touch, UserActs, usb
  <1> QED
    BY <1>3, OutsideOK DEF IInv, UiOK, UiTypes, Touch, UserActs, usb, cal

LEMMA CollectDoneOK ==
    ASSUME IInv, CollectDone
    PROVE  IInv'
  <1>1. Collected \in Events /\ QueueTypes
    BY DEF IInv, Events
  <1>2. QueueTypes'
    BY <1>1, EnqueueOK DEF QueueTypes, Events, CollectDone, usb
  <1>3. stranded' \in BOOLEAN /\ collecting' \in BOOLEAN
    BY DEF CollectDone
  <1> QED
    BY <1>2, <1>3, OutsideOK DEF CollectDone, usb

LEMMA HostOK ==
    ASSUME IInv, Host
    PROVE  IInv'
  <1>1. QueueTypes'
    BY DEF IInv, QueueTypes, Host
  <1>2. stranded' \in BOOLEAN /\ collecting' \in BOOLEAN
    BY DEF IInv, UiOK, UiTypes, Host, cal
  <1> QED
    BY <1>1, <1>2, OutsideOK DEF Host, cal

-------------------------------------------------------------------------------
(* The theorems.                                                           *)

LEMMA InitOK == Init => IInv
  <1> SUFFICES ASSUME Init PROVE IInv
    OBVIOUS
  <1>1. UiTypes
    <2>1. kp_index \in 0 .. NUMINPUT_LEN /\ selection \in -1 .. 15
      BY UserInterfaceAssumption DEF Init
    <2>2. keypads \in KeypadNames /\ modal \in Modals
      BY IdleOK DEF Init, KeypadNames
    <2> QED
      BY <2>1, <2>2 DEF Init, UiTypes, Modals
  <1>2. PathOK(menu_stack)
    <2>1. <<"top">> \in Seq(MenuNames) /\ Len(<<"top">>) = 1 /\ <<"top">>[1] = "top"
      BY DEF MenuNames
    <2>2. Level("top") = 1
      BY DEF Level
    <2> QED
      BY <2>1, <2>2 DEF Init, PathOK
  <1>3. SelectionFits /\ WaitsInMode /\ RedrawMatchesKeypad /\ ModeOfHost
    BY IdleOK DEF Init, SelectionFits, WaitsInMode, RedrawMatchesKeypad, ModeOfHost
  <1>4. QueueTypes
    <2>1. eventQueue = << >> /\ << >> \in Seq(Events) /\ Len(<< >>) = 0
      BY DEF Init
    <2>2. Len(eventQueue) <= QueueSize
      BY <2>1, UserInterfaceAssumption
    <2> QED
      BY <2>1, <2>2 DEF Init, QueueTypes, Events
  <1> QED
    BY <1>1, <1>2, <1>3, <1>4 DEF IInv, UiOK

LEMMA NextOK == IInv /\ [Next]_vars => IInv'
  <1> SUFFICES ASSUME IInv, [Next]_vars PROVE IInv'
    OBVIOUS
  <1>1. CASE UNCHANGED vars
    BY <1>1, OutsideOK DEF vars, cal, usb, IInv, UiOK, UiTypes, QueueTypes
  <1> QED
    BY <1>1, ProcessOK, EndTouchTestOK, EnterUsbOK, LeaveUsbOK, LeverEventOK, TouchOK,
       CollectDoneOK, HostOK DEF Next, MainThread

\* The menus, the keypad and the modes never leave the inductive invariant
\* (ui.cpp and the main loop of main2.cpp).
THEOREM Invariance == Spec => []IInv
  BY InitOK, NextOK, PTL DEF Spec

\* The variables have their types; above all, the stack of menus holds menus,
\* and selection and typed characters stay in their arrays.
THEOREM Typing == Spec => []TypeOK
  <1>1. IInv => TypeOK
    BY MenusDomain, KeysDomain
       DEF IInv, UiOK, UiTypes, QueueTypes, PathOK, Kinds, TypeOK
  <1> QED
    BY <1>1, Invariance, PTL

\* The way back: every open menu is an entry of the one below it, and what a
\* click or the end of a touch chooses is an entry of the menu on the screen
\* (menu_push_submenu(), menu_move_back(), ensure_selection() of ui.cpp).
THEOREM AlwaysMenuPath == Spec => []MenuPath
  <1>1. IInv => MenuPath
    BY DEF IInv, UiOK, PathOK, SelectionFits, WaitsInMode, MenuPath
  <1> QED
    BY <1>1, Invariance, PTL

\* Drawing the plot is disabled exactly while the keypad is open, unless a host
\* took over (ui_mode_keypad() and the end of ui_process_keypad()).
THEOREM AlwaysRedrawMatchesKeypad == Spec => []RedrawMatchesKeypad
  <1>1. IInv => RedrawMatchesKeypad
    BY DEF IInv, UiOK
  <1> QED
    BY <1>1, Invariance, PTL

\* The stack has room for every menu that an entry of the top one opens.
StackFits ==
    /\ Len(menu_stack) <= MENU_STACK_DEPTH_MAX
    /\ Len(menu_stack) = MENU_STACK_DEPTH_MAX
          => \A j \in DOMAIN Menu : Menu[j] \notin DOMAIN Menus

\* No menu is ever opened on a full stack, so that menu_push_submenu() never
\* overwrites the menu on top of it: every menu lies as deep as it is stacked.
THEOREM NeverOverfull == Spec => []StackFits
  <1>1. IInv => StackFits
    <2> SUFFICES ASSUME IInv PROVE StackFits
      OBVIOUS
    <2>1. /\ Len(menu_stack) \in 1 .. 4 /\ Level(Last(menu_stack)) = Len(menu_stack)
          /\ MenuOK(Last(menu_stack))
      BY LastOK DEF IInv, UiOK
    <2>2. Len(menu_stack) = 4 => \A j \in DOMAIN Menu : Menu[j] \notin MenuNames
      <3> SUFFICES ASSUME Len(menu_stack) = 4, NEW j \in DOMAIN Menu
                   PROVE  Menu[j] \notin MenuNames
        OBVIOUS
      <3>1. Menu[j] \in MenuNames => Level(Menu[j]) = 4 + 1
        BY <2>1 DEF MenuOK, EntryOK, Menu
      <3>2. Level(Menu[j]) \in 1 .. 4
        BY LevelRange
      <3> QED
        BY <3>1, <3>2
    <2> QED
      BY <2>1, <2>2, MenusDomain DEF StackFits, MENU_STACK_DEPTH_MAX
  <1> QED
    BY <1>1, Invariance, PTL

-------------------------------------------------------------------------------
(* The lever and the touch contact: for any contacts, any threshold, delay *)
(* and interval.  The inductive invariant.                                 *)

\* While a lever is not yet held long its counter is the number of checks of the
\* press; afterwards a jog's says how long ago the last tick was, or before the first
\* one how long the press has been held, and a center's whether the long press came.
LeverInv(l) ==
    LET t == tickCounter[l]
        p == since[l]
    IN  /\ t >= 0 => p.marks = 0 /\ (p.down => p.held = t)
        /\ t < 0 /\ l \in Jogs =>
              IF p.marks = 0 THEN p.down => p.held = TickDelay - t - 1
                             ELSE p.ago = -t - 1
        /\ t = -1 /\ l \in Centers => p.marks = 0 /\ (p.down => p.held = TickDelay)
        /\ t = -2 /\ l \in Centers => p.marks > 0

LeverIInv ==
    /\ LeverTypeOK
    /\ \A l \in Levers : LeverInv(l) /\ (~state[l] => tickCounter[l] = 0)
    /\ \A c \in Touches : since[c].marks = 0

-------------------------------------------------------------------------------
(* The events of one contact in one check.                                 *)

LEMMA Joined ==
    /\ << >> \o << >> \o << >> = << >>
    /\ \A a : /\ <<a>> \o << >> \o << >> = <<a>>
              /\ << >> \o << >> \o <<a>> = <<a>>
    /\ <<"Up">> \o <<"Click">> \o << >> = <<"Up", "Click">>
  <1>1. << >> \o << >> \o << >> = << >>
    OBVIOUS
  <1>2. \A a : <<a>> \o << >> \o << >> = <<a>>
    OBVIOUS
  <1>3. \A a : << >> \o << >> \o <<a>> = <<a>>
    OBVIOUS
  <1>4. <<"Up">> \o <<"Click">> \o << >> = <<"Up", "Click">>
    <2>1. <<"Up">> \o <<"Click">> = <<"Up", "Click">>
      <3> DEFINE both == <<"Up", "Click">>
                 up == <<"Up">>
                 click == <<"Click">>
      <3>1. /\ both \in Seq(EventTypes) /\ Len(both) = 2
            /\ both[1] = "Up" /\ both[2] = "Click"
            /\ up \in Seq(EventTypes) /\ Len(up) = 1 /\ up[1] = "Up"
            /\ click \in Seq(EventTypes) /\ Len(click) = 1 /\ click[1] = "Click"
        BY DEF EventTypes
      <3> HIDE DEF both, up, click
      <3>2. /\ up \o click \in Seq(EventTypes) /\ Len(up \o click) = 2
            /\ \A i \in 1 .. 2 : (up \o click)[i] = IF i <= 1 THEN up[i] ELSE click[i - 1]
        BY <3>1, ConcatProperties
      <3>3. (up \o click)[1] = "Up" /\ (up \o click)[2] = "Click"
        BY <3>1, <3>2
      <3>4. \A i \in 1 .. Len(both) : (up \o click)[i] = both[i]
        BY <3>1, <3>3
      <3>5. up \o click = both
        BY <3>1, <3>2, <3>4, SeqEqual
      <3> QED  BY <3>5 DEF both, up, click
    <2>2. <<"Up", "Click">> \o << >> = <<"Up", "Click">>
      OBVIOUS
    <2> QED  BY <2>1, <2>2
  <1> QED  BY <1>1, <1>2, <1>3, <1>4

LEMMA Among ==
    /\ \A e : ~(\E i \in DOMAIN << >> : << >>[i] = e)
    /\ \A a, e : (\E i \in DOMAIN <<a>> : <<a>>[i] = e) <=> e = a
    /\ \A a, b, e : (\E i \in DOMAIN <<a, b>> : <<a, b>>[i] = e) <=> e \in {a, b}
  OBVIOUS

\* A contact emits at most one edge or one sign of being held.
LEMMA EventCases ==
    ASSUME LeverIInv, NEW c \in Contacts, NEW level \in BOOLEAN
    PROVE  EventsOf(c, level) =
              IF Changed(c, level)
              THEN IF level THEN <<"Down">>
                   ELSE IF c \in Levers /\ tickCounter[c] >= 0 THEN <<"Up", "Click">>
                   ELSE <<"Up">>
              ELSE IF ~state[c] \/ c \in Touches \/ tickCounter[c] >= 0 THEN << >>
              ELSE IF c \in Jogs THEN IF TickDue(c) THEN <<"Tick">> ELSE << >>
              ELSE IF tickCounter[c] = -1 THEN <<"LongPress">> ELSE << >>
  <1>1. state[c] \in BOOLEAN /\ (Changed(c, level) => level = ~state[c])
    BY DEF LeverIInv, LeverTypeOK, Changed
  <1>2. CASE c \in Touches
    <2>1. c \notin Levers
      BY <1>2, ContactsAssumption
    <2> QED  BY <1>2, <2>1 DEF EventsOf, Edge
  <1>3. CASE c \in Levers
    <2>1. c \notin Touches /\ (~state[c] => tickCounter[c] >= 0)
      BY <1>3, ContactsAssumption DEF LeverIInv
    <2>2. EventsOf(c, level) = Edge(c, level) \o Click(c, level) \o Held(c, level)
      BY <2>1 DEF EventsOf
    <2>3. CASE Changed(c, level) /\ level
      <3>1. Edge(c, level) = <<"Down">> /\ Click(c, level) = << >>
            /\ Held(c, level) = << >>
        BY <1>1, <2>1, <2>3 DEF Edge, Click, Held
      <3> QED  BY <2>2, <2>3, <3>1, Joined
    <2>4. CASE Changed(c, level) /\ ~level
      <3>1. /\ Edge(c, level) = <<"Up">> /\ Held(c, level) = << >>
            /\ Click(c, level) = IF tickCounter[c] >= 0 THEN <<"Click">> ELSE << >>
        BY <2>4 DEF Edge, Click, Held, StateAfter
      <3> QED  BY <1>3, <2>2, <2>4, <3>1, Joined
    <2>5. CASE ~Changed(c, level)
      <3>1. Edge(c, level) = << >> /\ Click(c, level) = << >>
        BY <2>5 DEF Edge, Click
      <3>2. Held(c, level) =
               IF ~state[c] \/ tickCounter[c] >= 0 THEN << >>
               ELSE IF c \in Jogs THEN IF TickDue(c) THEN <<"Tick">> ELSE << >>
               ELSE IF tickCounter[c] = -1 THEN <<"LongPress">> ELSE << >>
        BY <2>5 DEF Held, StateAfter
      <3> QED  BY <2>1, <2>2, <2>5, <3>1, <3>2, Joined
    <2> QED  BY <2>3, <2>4, <2>5
  <1> QED  BY <1>2, <1>3 DEF Contacts

\* What a check emits is among these, and what it does not is not.
LEMMA EmitsCases ==
    ASSUME NEW c, NEW e
    PROVE  /\ emitted'[c] = << >> => ~Emits(c, e)
           /\ \A a : emitted'[c] = <<a>> => (Emits(c, e) <=> e = a)
           /\ \A a, b : emitted'[c] = <<a, b>> => (Emits(c, e) <=> e \in {a, b})
  BY Among DEF Emits

\* Marks are ticks and long presses.
LEMMA MarksCases ==
    ASSUME NEW c
    PROVE  /\ emitted'[c] \in {<< >>, <<"Down">>, <<"Up">>, <<"Up", "Click">>} => ~Marks(c)
           /\ emitted'[c] \in {<<"Tick">>, <<"LongPress">>} => Marks(c)
  <1>1. Marks(c) <=> Emits(c, "Tick") \/ Emits(c, "LongPress")
    BY DEF Marks, IsMark, EventTypes
  <1> QED  BY <1>1, EmitsCases

\* What a check does to a contact, seen at some level.
LEMMA CheckSteps ==
    ASSUME LeverIInv, CheckButtons
    PROVE  \E level \in [Contacts -> BOOLEAN] :
              /\ \A c \in Contacts :
                    /\ state'[c] = StateAfter(c, level[c])
                    /\ cnt'[c] = CntAfter(c, level[c])
                    /\ emitted'[c] = EventsOf(c, level[c])
                    /\ since'[c] = SinceAfter(c)
              /\ \A l \in Levers : tickCounter'[l] = TickCounterAfter(l, level[l])
  BY DEF CheckButtons

-------------------------------------------------------------------------------
(* The press of a contact.                                                 *)

Press == [down : BOOLEAN, held : 0..MaxCount, marks : 0..MaxCount, ago : 0..MaxCount]

LEMMA CapFacts ==
    /\ MaxCount \in Nat
    /\ TickDelay + TickInterval + 1 = MaxCount
    /\ TickDistance \in Nat \ {0} /\ TickDistance <= TickInterval
    /\ \A n \in Nat : Capped(n) \in 0..MaxCount
    /\ \A n \in Nat : n <= MaxCount => Capped(n) = n
    /\ \A n \in Nat : n > 0 => Capped(n) > 0
  BY TimesAssumption DEF MaxCount, Capped, TickDistance

LEMMA NoPressFacts ==
    /\ NoPress \in Press
    /\ ~NoPress.down /\ NoPress.held = 0 /\ NoPress.marks = 0 /\ NoPress.ago = 0
  BY CapFacts DEF NoPress, Press

\* What a check makes of the press so far.
LEMMA SinceSteps ==
    ASSUME LeverIInv, NEW c \in Contacts, since'[c] = SinceAfter(c)
    PROVE  /\ since'[c] \in Press
           /\ ~state'[c] => since'[c] = NoPress
           /\ state'[c] => /\ since'[c].down <=> since[c].down \/ Emits(c, "Down")
                           /\ since'[c].held = Capped(since[c].held + 1)
           /\ state'[c] /\ Marks(c) => since'[c].marks > 0 /\ since'[c].ago = 0
           /\ state'[c] /\ ~Marks(c) => /\ since'[c].marks = since[c].marks
                                        /\ since'[c].ago = Capped(since[c].ago + 1)
  <1>1. since[c] \in Press
    BY DEF LeverIInv, LeverTypeOK, Press
  <1>2. /\ since[c].down \in BOOLEAN
        /\ since[c].held \in Nat
        /\ since[c].marks \in Nat /\ since[c].marks <= MaxCount
        /\ since[c].ago \in Nat
    BY <1>1, CapFacts DEF Press
  <1>3. CASE ~state'[c]
    BY <1>3, NoPressFacts DEF SinceAfter
  <1>4. CASE state'[c]
    <2> DEFINE down  == since[c].down \/ Emits(c, "Down")
               held  == Capped(since[c].held + 1)
               marks == Capped(since[c].marks + (IF Marks(c) THEN 1 ELSE 0))
               ago   == IF Marks(c) THEN 0 ELSE Capped(since[c].ago + 1)
    <2>1. since'[c] = [down |-> down, held |-> held, marks |-> marks, ago |-> ago]
      BY <1>4 DEF SinceAfter
    <2>2. down \in BOOLEAN
      BY DEF Emits
    <2>3. held \in 0..MaxCount
      BY <1>2, CapFacts
    <2>4. /\ marks \in 0..MaxCount
          /\ Marks(c) => marks > 0
          /\ ~Marks(c) => marks = since[c].marks
      BY <1>2, CapFacts
    <2>5. ago \in 0..MaxCount
      BY <1>2, CapFacts
    <2> HIDE DEF down, held, marks, ago
    <2>6. since'[c] \in Press
      BY <2>1, <2>2, <2>3, <2>4, <2>5 DEF Press
    <2>7. /\ since'[c].down = down /\ since'[c].held = held
          /\ since'[c].marks = marks /\ since'[c].ago = ago
      BY <2>1
    <2> QED  BY <1>4, <2>4, <2>6, <2>7 DEF down, held, ago
  <1> QED  BY <1>3, <1>4

-------------------------------------------------------------------------------
(* One lever in one check, by what it sees and what the counter says.      *)

Sampled(c, level) ==
    /\ state'[c] = StateAfter(c, level)
    /\ emitted'[c] = EventsOf(c, level)
    /\ since'[c] = SinceAfter(c)

Counted(l, level) == tickCounter'[l] = TickCounterAfter(l, level)

CounterInRange(l) ==
    /\ tickCounter[l] \in Int
    /\ l \in Jogs => /\ tickCounter[l] >= (IF TickInterval = 1 THEN -1 ELSE 1 - TickInterval)
                     /\ tickCounter[l] < TickDelay
    /\ l \in Centers => tickCounter[l] >= -2 /\ tickCounter[l] < TickDelay

\* All that has to hold of a lever after a check, and of the check.
LeverKept(l) ==
    /\ CounterInRange(l)'
    /\ LeverInv(l)'
    /\ ~state'[l] => tickCounter'[l] = 0
    /\ PressStep(l)

\* What is known of a lever before a check.
LEMMA Before ==
    ASSUME LeverIInv, NEW l \in Levers
    PROVE  /\ CounterInRange(l) /\ LeverInv(l)
           /\ l \in Contacts /\ l \notin Touches
           /\ l \in Jogs <=> l \notin Centers
           /\ state[l] \in BOOLEAN
           /\ since[l].down \in BOOLEAN
           /\ since[l].held \in Nat /\ since[l].held <= MaxCount
           /\ since[l].marks \in Nat
           /\ since[l].ago \in Nat /\ since[l].ago <= MaxCount
           /\ ~state[l] => tickCounter[l] = 0 /\ since[l] = NoPress
  <1>1. l \in Contacts /\ l \notin Touches /\ (l \in Jogs <=> l \notin Centers)
    BY ContactsAssumption DEF Contacts, Levers
  <1>2. since[l] \in Press
    BY <1>1 DEF LeverIInv, LeverTypeOK, Press
  <1>3. /\ since[l].down \in BOOLEAN
        /\ since[l].held \in Nat /\ since[l].held <= MaxCount
        /\ since[l].marks \in Nat
        /\ since[l].ago \in Nat /\ since[l].ago <= MaxCount
    BY <1>2, CapFacts DEF Press
  <1>4. CounterInRange(l)
    BY <1>1, TimesAssumption DEF LeverIInv, LeverTypeOK, CounterInRange
  <1>5. /\ LeverInv(l) /\ state[l] \in BOOLEAN
        /\ ~state[l] => tickCounter[l] = 0 /\ since[l] = NoPress
    BY <1>1 DEF LeverIInv, LeverTypeOK
  <1> QED  BY <1>1, <1>3, <1>4, <1>5

\* A press begins.
LEMMA GoesDown ==
    ASSUME LeverIInv, NEW l \in Levers, NEW level \in BOOLEAN, Sampled(l, level), Counted(l, level),
           Changed(l, level), level
    PROVE  LeverKept(l)
  <1>1. ~state[l] /\ tickCounter[l] = 0 /\ since[l] = NoPress
    BY Before DEF Changed
  <1>2. state'[l] = TRUE /\ tickCounter'[l] = IF 1 >= TickDelay THEN -1 ELSE 1
    BY <1>1 DEF Sampled, Counted, StateAfter, TickCounterAfter
  <1>3. emitted'[l] = <<"Down">>
    BY Before, EventCases DEF Sampled
  <1>4. /\ ~Marks(l)
        /\ ~Emits(l, "Up") /\ ~Emits(l, "Click") /\ ~Emits(l, "LongPress") /\ Emits(l, "Down")
    <2>1. ~Marks(l)
      BY <1>3, MarksCases
    <2>2. \A e : Emits(l, e) <=> e = "Down"
      BY <1>3, EmitsCases
    <2> QED  BY <2>1, <2>2
  <1>5. /\ since'[l].down /\ since'[l].held = 1 /\ since'[l].marks = 0
    <2>1. /\ since'[l].down <=> since[l].down \/ Emits(l, "Down")
          /\ since'[l].held = Capped(since[l].held + 1)
          /\ since'[l].marks = since[l].marks
      BY <1>2, <1>4, Before, SinceSteps DEF Sampled
    <2>2. Capped(0 + 1) = 1
      BY CapFacts, TimesAssumption
    <2> QED  BY <1>1, <1>4, <2>1, <2>2, NoPressFacts
  <1>6. CounterInRange(l)'
    BY <1>2, TimesAssumption DEF CounterInRange
  <1>7. LeverInv(l)'
    BY <1>2, <1>5, TimesAssumption DEF LeverInv
  <1>8. PressStep(l)
    BY <1>1, <1>2, <1>4, NoPressFacts DEF PressStep
  <1> QED  BY <1>2, <1>6, <1>7, <1>8 DEF LeverKept

\* A press ends: with a Click if it was short.
LEMMA GoesUp ==
    ASSUME LeverIInv, NEW l \in Levers, NEW level \in BOOLEAN, Sampled(l, level), Counted(l, level),
           Changed(l, level), ~level
    PROVE  LeverKept(l)
  <1> DEFINE t == tickCounter[l]
             p == since[l]
  <1>1. state[l] /\ state'[l] = FALSE /\ tickCounter'[l] = 0
    BY Before DEF Changed, Sampled, Counted, StateAfter, TickCounterAfter
  <1>2. since'[l] = NoPress
    BY <1>1, Before, SinceSteps DEF Sampled
  <1>3. emitted'[l] = IF t >= 0 THEN <<"Up", "Click">> ELSE <<"Up">>
    BY Before, EventCases DEF Sampled
  <1>4. /\ ~Marks(l) /\ ~Emits(l, "LongPress") /\ ~Emits(l, "Down")
        /\ Emits(l, "Click") <=> t >= 0
    BY <1>3, MarksCases, EmitsCases
  <1>5. t >= 0 => p.marks = 0
    BY Before DEF LeverInv
  <1>6. p.down /\ t < 0 => p.marks > 0 \/ p.held \in TickDelay..(FirstMark(l) - 1)
    <2> SUFFICES ASSUME p.down, t < 0, p.marks = 0
                 PROVE  p.held \in TickDelay..(FirstMark(l) - 1)
      BY Before
    <2>1. CASE l \in Jogs
      <3>1. p.held = TickDelay - t - 1
        BY <2>1, Before DEF LeverInv
      <3>2. FirstMark(l) = TickDelay + TickDistance
        BY <2>1 DEF FirstMark
      <3> QED  BY <2>1, <3>1, <3>2, Before, TimesAssumption DEF CounterInRange, TickDistance
    <2>2. CASE l \in Centers
      <3>1. l \notin Jogs /\ t \in Int /\ t >= -2
        BY <2>2, Before DEF CounterInRange
      <3>2. t = -1 /\ p.held = TickDelay
        BY <2>2, <3>1, Before DEF LeverInv
      <3>3. FirstMark(l) = TickDelay + 1
        BY <3>1 DEF FirstMark
      <3> QED  BY <3>2, <3>3, TimesAssumption
    <2> QED  BY <2>1, <2>2 DEF Levers
  <1>7. CounterInRange(l)'
    BY <1>1, TimesAssumption DEF CounterInRange
  <1>8. LeverInv(l)'
    BY <1>1, <1>2, NoPressFacts DEF LeverInv
  <1>9. PressStep(l)
    BY <1>1, <1>3, <1>4, <1>5, <1>6, Before DEF PressStep, CounterInRange
  <1> QED  BY <1>1, <1>7, <1>8, <1>9 DEF LeverKept

\* The lever stays up.
LEMMA StaysUp ==
    ASSUME LeverIInv, NEW l \in Levers, NEW level \in BOOLEAN, Sampled(l, level), Counted(l, level),
           ~Changed(l, level), ~state[l]
    PROVE  LeverKept(l)
  <1>1. state'[l] = FALSE /\ tickCounter'[l] = 0
    BY Before DEF Sampled, Counted, StateAfter, TickCounterAfter
  <1>2. since'[l] = NoPress
    BY <1>1, Before, SinceSteps DEF Sampled
  <1>3. emitted'[l] = << >>
    BY Before, EventCases DEF Sampled
  <1>4. /\ ~Marks(l) /\ ~Emits(l, "LongPress") /\ ~Emits(l, "Down")
        /\ ~Emits(l, "Click") /\ ~Emits(l, "Up")
    BY <1>3, MarksCases, EmitsCases
  <1>5. CounterInRange(l)'
    BY <1>1, TimesAssumption DEF CounterInRange
  <1>6. LeverInv(l)'
    BY <1>1, <1>2, NoPressFacts DEF LeverInv
  <1>7. PressStep(l)
    BY <1>4 DEF PressStep
  <1> QED  BY <1>1, <1>5, <1>6, <1>7 DEF LeverKept

\* The lever stays down. The four lemmas below share what it does to the press.
LEMMA StaysDown ==
    ASSUME LeverIInv, NEW l \in Levers, NEW level \in BOOLEAN, Sampled(l, level),
           ~Changed(l, level), state[l]
    PROVE  /\ state'[l] = TRUE /\ StateAfter(l, level)
           /\ since'[l].down <=> since[l].down \/ Emits(l, "Down")
           /\ since'[l].held = Capped(since[l].held + 1)
           /\ Marks(l) => since'[l].marks > 0 /\ since'[l].ago = 0
           /\ ~Marks(l) => /\ since'[l].marks = since[l].marks
                           /\ since'[l].ago = Capped(since[l].ago + 1)
  <1>1. StateAfter(l, level) = TRUE
    BY Before DEF StateAfter
  <1>2. state'[l] = TRUE
    BY <1>1 DEF Sampled
  <1>3. since'[l] = SinceAfter(l) /\ l \in Contacts
    BY Before DEF Sampled
  <1> QED  BY <1>1, <1>2, <1>3, SinceSteps

\* A check that emits nothing breaks no press.
LEMMA QuietStep ==
    ASSUME NEW l, emitted'[l] = << >>
    PROVE  PressStep(l) /\ ~Marks(l) /\ ~Emits(l, "Down")
  <1>1. \A e : ~Emits(l, e)
    BY EmitsCases
  <1>2. ~Marks(l)
    BY MarksCases
  <1> QED  BY <1>1, <1>2 DEF PressStep

\* It is not yet held long.
LEMMA CountsUp ==
    ASSUME LeverIInv, NEW l \in Levers, NEW level \in BOOLEAN, Sampled(l, level), Counted(l, level),
           ~Changed(l, level), state[l], tickCounter[l] >= 0
    PROVE  LeverKept(l)
  <1> DEFINE t == tickCounter[l]
             p == since[l]
             q == since'[l]
  <1>1. emitted'[l] = << >>
    BY Before, EventCases DEF Sampled
  <1>2. PressStep(l) /\ ~Marks(l) /\ ~Emits(l, "Down")
    BY <1>1, QuietStep
  <1>3. /\ state'[l] = TRUE
        /\ q.down <=> p.down
        /\ q.held = Capped(p.held + 1)
        /\ q.marks = p.marks
    BY <1>2, StaysDown
  <1>4. tickCounter'[l] = IF t + 1 >= TickDelay THEN -1 ELSE t + 1
    BY StaysDown DEF Counted, TickCounterAfter
  <1>5. t \in Nat /\ t < TickDelay
    BY Before DEF CounterInRange, Levers
  <1>6. p.marks = 0 /\ (p.down => p.held = t)
    BY Before DEF LeverInv
  <1>7. q.marks = 0 /\ (q.down => q.held = t + 1)
    <2>1. Capped(t + 1) = t + 1
      BY <1>5, CapFacts, TimesAssumption
    <2> QED  BY <1>3, <1>6, <2>1
  <1>8. CounterInRange(l)'
    BY <1>4, <1>5, TimesAssumption DEF CounterInRange
  <1>9. LeverInv(l)'
    BY <1>4, <1>5, <1>7, TimesAssumption DEF LeverInv
  <1> QED  BY <1>2, <1>3, <1>8, <1>9 DEF LeverKept

\* A jog held long, at a tick.
LEMMA Ticks ==
    ASSUME LeverIInv, NEW l \in Jogs, NEW level \in BOOLEAN, Sampled(l, level), Counted(l, level),
           ~Changed(l, level), state[l], tickCounter[l] < 0, TickDue(l)
    PROVE  LeverKept(l)
  <1> DEFINE t == tickCounter[l]
             p == since[l]
             q == since'[l]
  <1>1. /\ l \in Levers /\ t \in Int /\ ~(t >= 0)
        /\ t >= (IF TickInterval = 1 THEN -1 ELSE 1 - TickInterval)
    BY Before DEF Levers, CounterInRange
  <1>2. l \notin Centers
    BY <1>1, Before
  <1>3. t = -TickDistance
    BY <1>1, TimesAssumption DEF TickDue, TickDistance
  <1>4. emitted'[l] = <<"Tick">>
    BY <1>1, Before, EventCases DEF Sampled
  <1>5. /\ Marks(l) /\ Emits(l, "Tick") /\ ~Emits(l, "Down") /\ ~Emits(l, "Up")
        /\ ~Emits(l, "Click") /\ ~Emits(l, "LongPress")
    <2>1. Marks(l)
      BY <1>4, MarksCases
    <2>2. \A e : Emits(l, e) <=> e = "Tick"
      BY <1>4, EmitsCases
    <2> QED  BY <2>1, <2>2
  <1>6. state'[l] = TRUE /\ q.marks > 0 /\ q.ago = 0
    BY <1>1, <1>5, StaysDown
  <1>7. tickCounter'[l] = -1
    BY <1>1, StaysDown DEF Counted, TickCounterAfter
  <1>8. IF p.marks = 0 THEN p.down => p.held = TickDelay - t - 1 ELSE p.ago = -t - 1
    BY <1>1, Before DEF LeverInv
  <1>9. p.down => IF p.marks = 0 THEN p.held + 1 = FirstMark(l) ELSE p.ago + 1 = TickDistance
    <2>1. FirstMark(l) = TickDelay + TickDistance
      BY DEF FirstMark
    <2> QED  BY <1>3, <1>8, <2>1, CapFacts, TimesAssumption
  <1>10. CounterInRange(l)'
    BY <1>2, <1>7, TimesAssumption DEF CounterInRange
  <1>11. LeverInv(l)'
    <2>1. /\ tickCounter'[l] < 0 /\ ~(tickCounter'[l] >= 0)
          /\ -tickCounter'[l] - 1 = 0
      <3>1. tickCounter'[l] \in Int /\ tickCounter'[l] + 1 = 0
        BY <1>7
      <3>2. \A n \in Int : n + 1 = 0 => n < 0 /\ ~(n >= 0) /\ -n - 1 = 0
        OBVIOUS
      <3> QED  BY <3>1, <3>2
    <2>2. q.marks # 0
      BY <1>6
    <2> QED  BY <1>2, <1>6, <2>1, <2>2 DEF LeverInv
  <1>12. PressStep(l)
    BY <1>5, <1>9 DEF PressStep
  <1> QED  BY <1>6, <1>10, <1>11, <1>12 DEF LeverKept

\* A jog held long, between ticks.
LEMMA BetweenTicks ==
    ASSUME LeverIInv, NEW l \in Jogs, NEW level \in BOOLEAN, Sampled(l, level), Counted(l, level),
           ~Changed(l, level), state[l], tickCounter[l] < 0, ~TickDue(l)
    PROVE  LeverKept(l)
  <1> DEFINE t == tickCounter[l]
             p == since[l]
             q == since'[l]
  <1>1. /\ l \in Levers /\ t \in Int /\ ~(t >= 0)
        /\ t >= (IF TickInterval = 1 THEN -1 ELSE 1 - TickInterval)
    BY Before DEF Levers, CounterInRange
  <1>2. l \notin Centers
    BY <1>1, Before
  <1>3. t - 1 >= 1 - TickInterval /\ TickInterval # 1
    BY <1>1, TimesAssumption DEF TickDue
  <1>4. emitted'[l] = << >>
    BY <1>1, Before, EventCases DEF Sampled
  <1>5. PressStep(l) /\ ~Marks(l) /\ ~Emits(l, "Down")
    BY <1>4, QuietStep
  <1>6. /\ state'[l] = TRUE
        /\ q.down <=> p.down
        /\ q.held = Capped(p.held + 1)
        /\ q.marks = p.marks
        /\ q.ago = Capped(p.ago + 1)
    BY <1>1, <1>5, StaysDown
  <1>7. tickCounter'[l] = t - 1
    BY <1>1, StaysDown DEF Counted, TickCounterAfter
  <1>8. IF p.marks = 0 THEN p.down => p.held = TickDelay - t - 1 ELSE p.ago = -t - 1
    BY <1>1, Before DEF LeverInv
  <1>9. IF q.marks = 0 THEN q.down => q.held = TickDelay - (t - 1) - 1
                       ELSE q.ago = -(t - 1) - 1
    <2>1. Capped(TickDelay - t) = TickDelay - t
      <3>1. TickDelay - t \in Nat /\ TickDelay - t <= MaxCount
        BY <1>1, <1>3, CapFacts, TimesAssumption
      <3> QED  BY <3>1, CapFacts
    <2>2. Capped(-t) = -t
      <3>1. -t \in Nat /\ -t <= MaxCount
        BY <1>1, <1>3, CapFacts, TimesAssumption
      <3> QED  BY <3>1, CapFacts
    <2>3. TickDelay - t - 1 + 1 = TickDelay - t /\ -t - 1 + 1 = -t
          /\ TickDelay - (t - 1) - 1 = TickDelay - t /\ -(t - 1) - 1 = -t
      BY <1>1, TimesAssumption
    <2> QED  BY <1>6, <1>8, <2>1, <2>2, <2>3
  <1>10. CounterInRange(l)'
    BY <1>1, <1>2, <1>3, <1>7, TimesAssumption DEF CounterInRange
  <1>11. LeverInv(l)'
    <2>1. tickCounter'[l] < 0 /\ ~(tickCounter'[l] >= 0)
      BY <1>1, <1>7
    <2> QED  BY <1>2, <1>7, <1>9, <2>1 DEF LeverInv
  <1> QED  BY <1>5, <1>6, <1>10, <1>11 DEF LeverKept

\* A center held long: the long press, and nothing after it.
LEMMA HeldCenter ==
    ASSUME LeverIInv, NEW l \in Centers, NEW level \in BOOLEAN, Sampled(l, level), Counted(l, level),
           ~Changed(l, level), state[l], tickCounter[l] < 0
    PROVE  LeverKept(l)
  <1> DEFINE t == tickCounter[l]
             p == since[l]
             q == since'[l]
  <1>1. l \in Levers /\ t \in Int /\ ~(t >= 0) /\ t >= -2
    BY Before DEF Levers, CounterInRange
  <1>2. l \notin Jogs
    BY <1>1, Before
  <1>3. tickCounter'[l] = -2 /\ state'[l] = TRUE
    BY <1>1, <1>2, StaysDown DEF Counted, TickCounterAfter
  <1>4. CounterInRange(l)'
    BY <1>2, <1>3, TimesAssumption DEF CounterInRange
  <1>5. q.marks > 0 => LeverInv(l)'
    BY <1>2, <1>3 DEF LeverInv
  <1>6. CASE t = -1
    <2>1. emitted'[l] = <<"LongPress">>
      BY <1>1, <1>2, <1>6, Before, EventCases DEF Sampled
    <2>2. Marks(l)
      BY <2>1, MarksCases
    <2>3. \A e : Emits(l, e) <=> e = "LongPress"
      BY <2>1, EmitsCases
    <2>4. p.marks = 0 /\ (p.down => p.held = TickDelay)
      BY <1>1, <1>6, Before DEF LeverInv
    <2>5. p.down => p.held + 1 = FirstMark(l)
      BY <1>2, <2>4 DEF FirstMark
    <2>6. ~Emits(l, "Down") /\ ~Emits(l, "Up") /\ ~Emits(l, "Click")
      BY <2>3
    <2>7. PressStep(l)
      BY <2>4, <2>5, <2>6 DEF PressStep
    <2>8. q.marks > 0
      BY <1>1, <2>2, StaysDown
    <2> QED  BY <1>3, <1>4, <1>5, <2>7, <2>8 DEF LeverKept
  <1>7. CASE t # -1
    <2>1. emitted'[l] = << >>
      BY <1>1, <1>2, <1>7, Before, EventCases DEF Sampled
    <2>2. PressStep(l) /\ ~Marks(l)
      BY <2>1, QuietStep
    <2>3. p.marks > 0
      BY <1>1, <1>7, Before DEF LeverInv
    <2>4. q.marks > 0
      BY <1>1, <2>2, <2>3, StaysDown
    <2> QED  BY <1>3, <1>4, <1>5, <2>2, <2>4 DEF LeverKept
  <1> QED  BY <1>6, <1>7

\* Whatever a lever sees.
LEMMA LeverChecked ==
    ASSUME LeverIInv, NEW l \in Levers, NEW level \in BOOLEAN, Sampled(l, level), Counted(l, level)
    PROVE  LeverKept(l)
  <1>1. tickCounter[l] \in Int /\ state[l] \in BOOLEAN
    BY Before DEF CounterInRange
  <1>2. CASE Changed(l, level)
    BY <1>2, GoesDown, GoesUp
  <1>3. CASE ~Changed(l, level) /\ ~state[l]
    BY <1>3, StaysUp
  <1>4. CASE ~Changed(l, level) /\ state[l] /\ tickCounter[l] >= 0
    BY <1>4, CountsUp
  <1>5. CASE ~Changed(l, level) /\ state[l] /\ tickCounter[l] < 0
    <2>1. CASE l \in Jogs
      BY <1>5, <2>1, Ticks, BetweenTicks
    <2>2. CASE l \in Centers
      BY <1>5, <2>2, HeldCenter
    <2> QED  BY <2>1, <2>2 DEF Levers
  <1> QED  BY <1>1, <1>2, <1>3, <1>4, <1>5

-------------------------------------------------------------------------------
(* The touch contacts.                                                     *)

\* A touch contact tells its edges and nothing else.
LEMMA TouchChecked ==
    ASSUME LeverIInv, NEW c \in Touches, NEW level \in BOOLEAN, Sampled(c, level)
    PROVE  since'[c].marks = 0 /\ PressStep(c)
  <1>1. c \in Contacts /\ c \notin Levers
    BY ContactsAssumption DEF Contacts
  <1>2. /\ state[c] \in BOOLEAN /\ since[c].marks = 0
        /\ ~state[c] => since[c] = NoPress
        /\ Changed(c, level) => level = ~state[c]
    BY <1>1 DEF LeverIInv, LeverTypeOK, Changed
  <1>3. emitted'[c] = IF Changed(c, level) THEN IF level THEN <<"Down">> ELSE <<"Up">>
                      ELSE << >>
    BY <1>1, EventCases DEF Sampled
  <1>4. ~Marks(c) /\ ~Emits(c, "Click") /\ ~Emits(c, "LongPress")
    BY <1>3, MarksCases, EmitsCases
  <1>5. since'[c].marks = 0
    BY <1>1, <1>2, <1>4, SinceSteps, NoPressFacts DEF Sampled
  <1>6. Emits(c, "Down") => ~since[c].down /\ state'[c]
    <2>1. Emits(c, "Down") => Changed(c, level) /\ level
      BY <1>3, EmitsCases
    <2> QED  BY <1>2, <2>1, NoPressFacts DEF Sampled, StateAfter
  <1>7. Emits(c, "Up") => state[c]
    <2>1. Emits(c, "Up") => Changed(c, level) /\ ~level
      BY <1>3, EmitsCases
    <2> QED  BY <1>2, <2>1
  <1>8. PressStep(c)
    BY <1>1, <1>4, <1>6, <1>7 DEF PressStep
  <1> QED  BY <1>5, <1>8

-------------------------------------------------------------------------------
(* The invariant.                                                          *)

LEMMA LeverInitInv == LeverInit => LeverIInv
  <1> SUFFICES ASSUME LeverInit PROVE LeverIInv
    OBVIOUS
  <1>1. \A c \in Contacts : since[c] = NoPress
    BY DEF LeverInit
  <1>2. \A l \in Levers : tickCounter[l] = 0 /\ l \in Contacts
    BY DEF LeverInit, Contacts
  <1>3. /\ state \in [Contacts -> BOOLEAN]
        /\ cnt \in [Contacts -> 0..TransitionThreshold]
        /\ tickCounter \in [Levers -> Int]
    BY TimesAssumption DEF LeverInit
  <1>4. emitted \in [Contacts -> Seq(EventTypes)]
    BY DEF LeverInit
  <1>5. since \in [Contacts -> Press]
    BY NoPressFacts DEF LeverInit
  <1>6. /\ \A l \in Jogs :
              tickCounter[l] \in (IF TickInterval = 1 THEN -1 ELSE 1 - TickInterval)..(TickDelay - 1)
        /\ \A l \in Centers : tickCounter[l] \in -2..(TickDelay - 1)
    BY <1>2, TimesAssumption DEF Levers
  <1>7. LeverTypeOK
    BY <1>1, <1>3, <1>4, <1>5, <1>6 DEF LeverTypeOK, Press
  <1>8. \A l \in Levers : LeverInv(l)
    BY <1>1, <1>2, NoPressFacts DEF LeverInv
  <1>9. \A c \in Touches : since[c].marks = 0
    BY <1>1, NoPressFacts DEF Contacts
  <1> QED  BY <1>2, <1>7, <1>8, <1>9 DEF LeverIInv

\* The debouncer's counter stays within the threshold, and events are events.
LEMMA ContactTypes ==
    ASSUME LeverIInv, NEW c \in Contacts, NEW level \in BOOLEAN
    PROVE  /\ StateAfter(c, level) \in BOOLEAN
           /\ CntAfter(c, level) \in 0..TransitionThreshold
           /\ EventsOf(c, level) \in Seq(EventTypes)
  <1>1. state[c] \in BOOLEAN /\ cnt[c] \in 0..TransitionThreshold
    BY DEF LeverIInv, LeverTypeOK
  <1>2. StateAfter(c, level) \in BOOLEAN
    BY <1>1 DEF StateAfter
  <1>3. CntAfter(c, level) \in 0..TransitionThreshold
    BY <1>1, TimesAssumption DEF CntAfter, Changed
  <1>4. EventsOf(c, level) \in {<< >>, <<"Down">>, <<"Up">>, <<"Up", "Click">>,
                              <<"Tick">>, <<"LongPress">>}
    BY EventCases
  <1>5. /\ << >> \in Seq(EventTypes) /\ <<"Down">> \in Seq(EventTypes)
        /\ <<"Up">> \in Seq(EventTypes) /\ <<"Up", "Click">> \in Seq(EventTypes)
        /\ <<"Tick">> \in Seq(EventTypes) /\ <<"LongPress">> \in Seq(EventTypes)
    BY DEF EventTypes
  <1> QED  BY <1>2, <1>3, <1>4, <1>5

LEMMA CheckInv ==
    ASSUME LeverIInv, CheckButtons
    PROVE  LeverIInv' /\ \A c \in Contacts : PressStep(c)
  <1>1. PICK level \in [Contacts -> BOOLEAN] :
              /\ \A c \in Contacts :
                    /\ state'[c] = StateAfter(c, level[c])
                    /\ cnt'[c] = CntAfter(c, level[c])
                    /\ emitted'[c] = EventsOf(c, level[c])
                    /\ since'[c] = SinceAfter(c)
              /\ \A l \in Levers : tickCounter'[l] = TickCounterAfter(l, level[l])
    BY CheckSteps
  <1>2. \A c \in Contacts : level[c] \in BOOLEAN /\ Sampled(c, level[c])
    BY <1>1 DEF Sampled
  <1>3. Levers \subseteq Contacts /\ Touches \subseteq Contacts
    BY DEF Contacts
  <1>4. \A l \in Levers : LeverKept(l)
    <2> TAKE l \in Levers
    <2>1. level[l] \in BOOLEAN /\ Sampled(l, level[l]) /\ Counted(l, level[l])
      BY <1>1, <1>2, <1>3 DEF Counted
    <2> QED  BY <2>1, LeverChecked
  <1>5. \A c \in Touches : since'[c].marks = 0 /\ PressStep(c)
    BY <1>2, <1>3, TouchChecked
  <1>6. \A c \in Contacts :
              /\ state'[c] \in BOOLEAN /\ cnt'[c] \in 0..TransitionThreshold
              /\ emitted'[c] \in Seq(EventTypes)
    BY <1>1, <1>2, ContactTypes
  <1>7. \A c \in Contacts : since'[c] \in Press /\ (~state'[c] => since'[c] = NoPress)
    BY <1>1, SinceSteps
  <1>8. \A l \in Levers : CounterInRange(l)'
    BY <1>4 DEF LeverKept
  <1>9. \A l \in Levers : LeverInv(l)' /\ (~state'[l] => tickCounter'[l] = 0)
    BY <1>4 DEF LeverKept
  <1>10. LeverTypeOK'
    <2>1. /\ state' \in [Contacts -> BOOLEAN]
          /\ cnt' \in [Contacts -> 0..TransitionThreshold]
          /\ emitted' \in [Contacts -> Seq(EventTypes)]
      <3>1. /\ state' = [c \in Contacts |-> state'[c]]
            /\ cnt' = [c \in Contacts |-> cnt'[c]]
            /\ emitted' = [c \in Contacts |-> emitted'[c]]
        BY DEF CheckButtons
      <3> QED  BY <1>6, <3>1
    <2>2. since' \in [Contacts -> Press]
      <3>1. since' = [c \in Contacts |-> since'[c]]
        BY DEF CheckButtons
      <3> QED  BY <1>7, <3>1
    <2>3. tickCounter' \in [Levers -> Int]
      <3>1. tickCounter' = [l \in Levers |-> tickCounter'[l]]
        BY DEF CheckButtons
      <3>2. \A l \in Levers : tickCounter'[l] \in Int
        BY <1>8 DEF CounterInRange
      <3> QED  BY <3>1, <3>2
    <2>4. \A l \in Jogs :
              tickCounter'[l] \in (IF TickInterval = 1 THEN -1 ELSE 1 - TickInterval)..(TickDelay - 1)
      BY <1>8, TimesAssumption DEF CounterInRange, Levers
    <2>5. \A l \in Centers : tickCounter'[l] \in -2..(TickDelay - 1)
      BY <1>8, TimesAssumption DEF CounterInRange, Levers
    <2> QED  BY <1>7, <2>1, <2>2, <2>3, <2>4, <2>5 DEF LeverTypeOK, Press
  <1>11. LeverIInv'
    BY <1>5, <1>9, <1>10 DEF LeverIInv
  <1>12. \A c \in Contacts : PressStep(c)
    BY <1>4, <1>5 DEF Contacts, LeverKept
  <1> QED  BY <1>11, <1>12

LEMMA StutterInv == LeverIInv /\ UNCHANGED leverVars => LeverIInv'
  BY DEF LeverIInv, LeverInv, LeverTypeOK, leverVars

\* The inductive invariant of checkButtons().
THEOREM LeverInvariance == LeverSpec => []LeverIInv
  <1>1. LeverIInv /\ [LeverNext]_leverVars => LeverIInv'
    BY CheckInv, StutterInv DEF LeverNext
  <1> QED  BY <1>1, LeverInitInv, PTL DEF LeverSpec

\* The counters of the lever and the debouncer stay within their meanings, and a
\* press is remembered exactly while its contact is closed.
THEOREM LeverTyping == LeverSpec => []LeverTypeOK
  <1>1. LeverIInv => LeverTypeOK
    BY DEF LeverIInv
  <1> QED  BY <1>1, LeverInvariance, PTL

\* Whatever the contacts do, Down and Up take turns, a Click is only of a press with
\* no tick or long press in it, the first tick or the long press comes at one time and
\* the other ticks at one distance, and a press gives at most one long press.
THEOREM PressesAreWellFormed == LeverSpec => PressesWellFormed
  <1>1. LeverIInv /\ [LeverNext]_leverVars => [\A c \in Contacts : PressStep(c)]_leverVars
    BY CheckInv DEF LeverNext
  <1> QED  BY <1>1, LeverInvariance, PTL DEF LeverSpec, PressesWellFormed

===============================================================================
