--------------------------- MODULE MCGripperHandoff ---------------------------
(***************************************************************************)
(* GripperHandoff with one hard object and two that give way by all of the *)
(* two degrees the node closes a latched grip further.                     *)
(***************************************************************************)
EXTENDS GripperHandoff, TLC

Give == (6 :> 0) @@ (8 :> 8) @@ (38 :> 8)
=============================================================================
