------------------------------- MODULE MCScreen -------------------------------
(***************************************************************************)
(* Three cells: the first with the readings, the last under the menu, and  *)
(* between them one that no trace touches.  The marker's icon moves with   *)
(* the trace, to that cell and away from it.                               *)
(***************************************************************************)
EXTENDS Screen

TraceCells == "flat" :> {3} @@ "steep" :> {1, 3}
IconCells  == "flat" :> (1 :> {2} @@ 2 :> {3})
                @@ "steep" :> (1 :> {3} @@ 2 :> {2, 3})
===============================================================================
