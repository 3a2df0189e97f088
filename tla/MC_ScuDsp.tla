------------------------------- MODULE MC_ScuDsp ------------------------------
(* Two application handlers; page, offset and count arguments at the     *)
(* edges of the checks: pages 0, 3 and 5 (ram_page & 3 = 1), offsets at   *)
(* 0, 1, the last word and past the page, counts up to one past the page. *)
EXTENDS ScuDsp, Bitwise

CONSTANTS H1, H2

(* PdaAddr computes the C expression ((ram_page & 0x03) << 6) | y for     *)
(* every page and every byte y.                                           *)
ASSUME PdaAddrIsOr ==
    \A page \in 0 .. 255, y \in 0 .. 255 :
        PdaAddr(page, y, 0) = ((page & 3) * 64) | y

MC_Handlers == {H1, H2}
MC_Pages == {0, 3, 5}
MC_Offsets == {0, 1, 63, 64, 200}
MC_Counts == {0, 1, 2, 63, 64, 65, 300}
(* Counts of 2^16 and more, whose low 16 bits pass the check.             *)
MC_WideCounts == MC_Counts \cup {65536, 65537}
=============================================================================
