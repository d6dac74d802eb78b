---------------------------- MODULE MCEventQueue ----------------------------
(***************************************************************************)
(* EventQueue with two interrupt handlers and the main thread, scheduled   *)
(* as free threads and as the firmware's nested interrupts.                *)
(***************************************************************************)
EXTENDS EventQueue

CONSTANTS TIM1, TIM2, Main

MCWriters == {TIM1, TIM2}

\* Together as many calls as there are positions: they wrap round.
MCCallsOf == [w \in MCWriters |-> IF w = TIM1 THEN 7 ELSE 1]

\* All contexts equal: threads.
Threads == [a \in {TIM1, TIM2, Main} |-> 0]

\* TIM1 above TIM2 above the main thread.
Interrupts == [a \in {TIM1, TIM2, Main} |->
                   CASE a = TIM1 -> 2 [] a = TIM2 -> 1 [] OTHER -> 0]

MCDisciplines == {Threads, Interrupts}
=============================================================================
