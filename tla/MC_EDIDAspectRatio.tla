------------------------- MODULE MC_EDIDAspectRatio -------------------------
(***************************************************************************)
(* Every value of the two screen-size bytes.                               *)
(***************************************************************************)
EXTENDS EDIDAspectRatio

MCSizes == 0..255
=============================================================================
