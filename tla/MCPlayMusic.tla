------------------------------ MODULE MCPlayMusic ------------------------------
(***************************************************************************)
(* A day of three hours of ten minutes, and every setting list of at most  *)
(* two items in the hours before, of and after the sirens.                 *)
(***************************************************************************)
EXTENDS PlayMusic

Items      == (0..2) \X (0..9)
MCSettings == {{i, j} : i \in Items, j \in Items} \cup {{}}
=============================================================================
