------------------------------ MODULE MCAdcStream ------------------------------
(***************************************************************************)
(* A ring of four words, begun again twice, with periods of two and three. *)
(***************************************************************************)
EXTENDS AdcStream

Clips == {3, 4, 8}
===============================================================================
