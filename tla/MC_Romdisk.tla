------------------------------- MODULE MC_Romdisk -------------------------------
(***************************************************************************)
(* A small romfs image as genromfs lays it out, with a volume name of     *)
(* five bytes: the root holds ".", "..", the directory "a", the file "b"  *)
(* and a file with a 16-byte name; "a" holds ".", ".." and the           *)
(* executable file "c".  A header's next word carries the type in its     *)
(* low four bits (0 hard link, 1 directory, 2 regular file, +8 exec).     *)
(***************************************************************************)
EXTENDS Romdisk, TLC

CONSTANTS B1, B2

Hdr(next, type, spec, size, name, namelen) ==
    [next |-> next + type, spec |-> spec, size |-> size, name |-> name, namelen |-> namelen]

LongName == "long_file_name_x"

MC_Image ==
    (32  :> Hdr(64, 0, 32, 0, ".", 1)) @@
    (64  :> Hdr(96, 0, 32, 0, "..", 2)) @@
    (96  :> Hdr(128, 1, 240, 0, "a", 1)) @@
    (128 :> Hdr(176, 2, 0, 5, "b", 1)) @@
    (176 :> Hdr(0, 2, 0, 4, LongName, 16)) @@
    (240 :> Hdr(272, 0, 240, 0, ".", 1)) @@
    (272 :> Hdr(304, 0, 32, 0, "..", 2)) @@
    (304 :> Hdr(0, 10, 0, 3, "c", 1))

(* The same image with every name shorter than 16 bytes.                 *)
MC_ShortImage == [MC_Image EXCEPT ![176] = Hdr(0, 2, 0, 4, "d", 1)]

(* The same image with "b" a socket (type 6).                            *)
MC_SocketImage == [MC_Image EXCEPT ![128] = Hdr(176, 6, 0, 0, "b", 1)]

MC_Paths ==
    { <<"b">>, <<"", "b">>, <<"a", "c">>, <<"a">>, <<"a", "">>,
      <<LongName>>, <<"x">>, <<"b", "c">>, <<"a", "..", "b">> }

MC_Blocks == {B1, B2}

(* malloc's blocks are interchangeable: only their identity matters.      *)
MC_Symmetry == Permutations(MC_Blocks)
MC_Bytes == {0, 2, 255}
MC_SmallBytes == {2}
MC_Offsets == {-128, -1, 2, 127}

(* The images of the runs meet the hypotheses of the proofs.              *)
ASSUME SizesFit /\ FindInImage
=============================================================================
