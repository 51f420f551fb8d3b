---------------------------- MODULE MCWindowAccount ----------------------------
(***************************************************************************)
(* The account page alone, with room for what one sitting of the page does *)
(* after another: it is left, opened again and left again.                 *)
(***************************************************************************)
EXTENDS WindowAccount
=============================================================================
