----------------------------- MODULE MC_ConsVdp2 ------------------------------
(* Model-checking instances of ConsVdp2: the VBLANK-IN tag only, the font, *)
(* page and application transfers as model values.                        *)
EXTENDS ConsVdp2, TLC

MC_Tags == {VblankIn}
MC_Clients == {FontXfer, PageXfer, OtherXfer}
=============================================================================
