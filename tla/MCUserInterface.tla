---------------------------- MODULE MCUserInterface ----------------------------
(* The user interface with its menus in full and a short event queue.      *)
EXTENDS UserInterface
===============================================================================
