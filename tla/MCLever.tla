------------------------------- MODULE MCLever -------------------------------
(***************************************************************************)
(* One jog lever, the center and the touch contact (the two jogs do the    *)
(* same).  The delay is shortened; the interval and the threshold are      *)
(* longer than the board's, whose period of 50 ms makes them 2 and 0.      *)
(***************************************************************************)
EXTENDS Lever
=============================================================================
