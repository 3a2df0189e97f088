------------------------------- MODULE MC_Dbgio -------------------------------
(* Two trigger tags, the font callback and one other client; the NULL,   *)
(* a synchronous and an asynchronous device.                              *)
EXTENDS Dbgio

CONSTANTS VblankIn, VblankOut, OtherCb, SimpleDev, AsyncDev

MC_Tags == {VblankIn, VblankOut}
MC_Clients == {FontCb, OtherCb}
MC_Devs == {NullDev, SimpleDev, AsyncDev}
MC_AsyncDevs == {AsyncDev}
=============================================================================
