----------------------------- MODULE MC_CmdtList ----------------------------
(* Model-checking instance of CmdtList: any sequence of arena calls.       *)
EXTENDS CmdtList, TLC
=============================================================================
