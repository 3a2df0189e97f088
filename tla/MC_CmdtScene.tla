---------------------------- MODULE MC_CmdtScene ----------------------------
(* Model-checking instances of CmdtScene in a 5-slot table.               *)
EXTENDS CmdtScene, TLC

(* Every frame draws 2 commands into list 0 and 1 into lists 1 and 2.    *)
MC_Len == (0 :> {2}) @@ (1 :> {1}) @@ (2 :> {1})

(* List 0 draws 1 or 2 commands, depending on the frame.                 *)
MC_LenVar == (0 :> {1, 2}) @@ (1 :> {1}) @@ (2 :> {1})
=============================================================================
