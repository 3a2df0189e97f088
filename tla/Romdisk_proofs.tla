----------------------------- MODULE Romdisk_proofs -----------------------------
(***************************************************************************)
(* Proofs about the ROMFS driver's handles (Romdisk): TypeOK and          *)
(* PtrInFile hold in every reachable state, for every Width, image, set  *)
(* of blocks, byte counts and seek offsets the assumptions of Romdisk    *)
(* allow, under two hypotheses on the image (SizesFit, FindInImage).     *)
(* The inductive invariant RdInv adds to TypeOK that fhs lists a block   *)
(* once (so that fd_free's unlink removes the block from the list) and   *)
(* that every allocated handle is a record with len below 2^(Width-1)    *)
(* and ptr in 0 .. len (so that read and seek start from a sane handle). *)
(***************************************************************************)
EXTENDS Romdisk, Functions, SequenceTheorems, TLAPS

(* The powers of two of the conversions.                                  *)
M == 2^Width
H == 2^(Width - 1)

(* Unsigned and Signed leave a number below 2^(Width-1) as it is.         *)
LEMMA SignedSmall == \A x \in 0 .. H - 1 : Unsigned(x) = x /\ Signed(x) = x
<1> SUFFICES ASSUME NEW x \in 0 .. H - 1 PROVE Unsigned(x) = x /\ Signed(x) = x
    OBVIOUS
<1>1. H \in Nat \ {0} /\ M = 2 * H  BY WidthPowers DEF M, H
<1>2. Unsigned(x) = x  BY <1>1 DEF Unsigned, M, H
<1> QED BY <1>1, <1>2 DEF Signed, M, H

(* Signed returns an int32_t: a number of -2^(Width-1) .. 2^(Width-1)-1.  *)
LEMMA SignedRange == \A x \in Int : Signed(x) \in -H .. H - 1
<1> SUFFICES ASSUME NEW x \in Int PROVE Signed(x) \in -H .. H - 1
    OBVIOUS
<1>1. H \in Nat \ {0} /\ M = 2 * H  BY WidthPowers DEF M, H
<1>2. Unsigned(x) \in 0 .. M - 1  BY <1>1 DEF Unsigned, M
<1> QED BY <1>1, <1>2 DEF Signed, M, H

(* The handle record romdisk_open fills.                                  *)
HandleRec == [index : Int, dir : BOOLEAN, ptr : Int, len : Int, hdr : Int]

(* The bytes romdisk_read copies from h (n in Read), and the position     *)
(* romdisk_seek leaves in h (the new ptr in Seek).                        *)
ReadN(h, bytes) == IF Unsigned(h.ptr + bytes) > h.len THEN Unsigned(h.len - h.ptr) ELSE bytes

SeekPtr(h, offset, whence) ==
    LET x == ClampLow(SeekTo(h, offset, whence))
        len == Signed(h.len)
    IN  IF x > len THEN len ELSE x

(* romdisk_read's clamp: from ptr in 0 .. len, a read of bytes (size_t)   *)
(* leaves ptr in 0 .. len, whatever the wrap of ptr + bytes.             *)
LEMMA ReadStaysIn ==
    \A h \in HandleRec, bytes \in 0 .. M - 1 :
        h.len \in 0 .. H - 1 /\ h.ptr \in 0 .. h.len =>
            Signed(h.ptr + ReadN(h, bytes)) \in 0 .. h.len
<1> SUFFICES ASSUME NEW h \in HandleRec, NEW bytes \in 0 .. M - 1,
                    h.len \in 0 .. H - 1, h.ptr \in 0 .. h.len
             PROVE  Signed(h.ptr + ReadN(h, bytes)) \in 0 .. h.len
    OBVIOUS
<1>1. H \in Nat \ {0} /\ M = 2 * H  BY WidthPowers DEF M, H
<1>2. CASE Unsigned(h.ptr + bytes) > h.len
  <2>1. Unsigned(h.len - h.ptr) = h.len - h.ptr  BY <1>1, SignedSmall
  <2>2. Signed(h.len) = h.len  BY <1>1, SignedSmall
  <2> QED BY <1>2, <2>1, <2>2 DEF ReadN
<1>3. CASE ~(Unsigned(h.ptr + bytes) > h.len)
  <2>1. Unsigned(h.ptr + bytes) \in 0 .. h.len  BY <1>1, <1>3 DEF Unsigned, M
  <2>2. Signed(h.ptr + bytes) = Unsigned(h.ptr + bytes)  BY <1>1, <2>1 DEF Signed, M, H
  <2> QED BY <1>3, <2>1, <2>2 DEF ReadN
<1> QED BY <1>2, <1>3

(* romdisk_seek's clamps: whatever whence and offset, ptr ends in 0 .. len. *)
LEMMA SeekStaysIn ==
    \A h \in HandleRec, offset \in Int, whence \in Whence \ {"other"} :
        h.len \in 0 .. H - 1 => SeekPtr(h, offset, whence) \in 0 .. h.len
<1> SUFFICES ASSUME NEW h \in HandleRec, NEW offset \in Int, NEW whence \in Whence \ {"other"},
                    h.len \in 0 .. H - 1
             PROVE  SeekPtr(h, offset, whence) \in 0 .. h.len
    OBVIOUS
<1>1. SeekTo(h, offset, whence) \in Int
  <2>1. Signed(offset) \in Int /\ Signed(h.ptr + offset) \in Int /\ Signed(h.len + offset) \in Int
        BY SignedRange DEF HandleRec
  <2> QED BY <2>1 DEF SeekTo, Whence
<1>2. ClampLow(SeekTo(h, offset, whence)) \in Nat  BY <1>1 DEF ClampLow
<1>3. Signed(h.len) = h.len  BY SignedSmall
<1> QED BY <1>2, <1>3 DEF SeekPtr

(* fd_free's TAILQ_REMOVE: taking the block e out of an injective list of *)
(* blocks leaves an injective list of the other blocks.                    *)
LEMMA RemoveFirstInjective ==
    \A S, s, e : s \in Seq(S) /\ IsInjective(s) /\ e \in ToSet(s) =>
        RemoveFirst(s, e) \in Seq(S \ {e}) /\ IsInjective(RemoveFirst(s, e))
<1> SUFFICES ASSUME NEW S, NEW s \in Seq(S), IsInjective(s), NEW e \in ToSet(s)
             PROVE  RemoveFirst(s, e) \in Seq(S \ {e}) /\ IsInjective(RemoveFirst(s, e))
    OBVIOUS
<1>0. Len(s) \in Nat /\ DOMAIN s = 1 .. Len(s)  BY LenProperties
<1>1. PICK i \in 1 .. Len(s) : s[i] = e  BY <1>0 DEF ToSet
<1>2. \A k \in 1 .. Len(s) : s[k] = e => k = i  BY <1>0, <1>1 DEF IsInjective
<1>3. {k \in 1 .. Len(s) : s[k] = e} = {i}  BY <1>1, <1>2
<1>4. SelectInSeq(s, LAMBDA v : v = e) = i
  <2>1. Min({i}) = i  BY DEF Min
  <2> QED BY <1>3, <2>1, Zenon DEF SelectInSeq
<1>5. RemoveFirst(s, e) = SubSeq(s, 1, i - 1) \o SubSeq(s, i + 1, Len(s))
  BY <1>1, <1>4, Zenon DEF RemoveFirst, RemoveAt
<1>6. \A k \in 1 .. Len(s) : k # i => s[k] \in S \ {e}  BY <1>2, ElementOfSeq
<1>7. /\ SubSeq(s, 1, i - 1) \in Seq(S \ {e})
      /\ Len(SubSeq(s, 1, i - 1)) = i - 1
      /\ \A k \in 1 .. i - 1 : SubSeq(s, 1, i - 1)[k] = s[k]
  <2>1. \A k \in 1 .. i - 1 : s[k] \in S \ {e}  BY <1>0, <1>6
  <2> QED BY <2>1, SubSeqProperties
<1>8. /\ SubSeq(s, i + 1, Len(s)) \in Seq(S \ {e})
      /\ Len(SubSeq(s, i + 1, Len(s))) = Len(s) - i
      /\ \A k \in 1 .. Len(s) - i : SubSeq(s, i + 1, Len(s))[k] = s[i + k]
  <2>1. \A k \in i + 1 .. Len(s) : s[k] \in S \ {e}  BY <1>0, <1>6
  <2> QED BY <2>1, SubSeqProperties
<1>9. /\ RemoveFirst(s, e) \in Seq(S \ {e})
      /\ Len(RemoveFirst(s, e)) = Len(s) - 1
      /\ \A k \in 1 .. Len(s) - 1 :
            RemoveFirst(s, e)[k] = IF k <= i - 1 THEN s[k] ELSE s[k + 1]
  <2>1. PICK A : A = SubSeq(s, 1, i - 1)  OBVIOUS
  <2>2. PICK B : B = SubSeq(s, i + 1, Len(s))  OBVIOUS
  <2>3. /\ s \in Seq(S) /\ i \in 1 .. Len(s)
        /\ A \in Seq(S \ {e}) /\ B \in Seq(S \ {e})
        /\ Len(A) = i - 1 /\ Len(B) = Len(s) - i
        /\ \A k \in 1 .. i - 1 : A[k] = s[k]
        /\ \A k \in 1 .. Len(s) - i : B[k] = s[i + k]
    BY <1>7, <1>8, <2>1, <2>2, Zenon
  <2>4. /\ A \o B \in Seq(S \ {e})
        /\ Len(A \o B) = Len(s) - 1
        /\ \A k \in 1 .. Len(s) - 1 : (A \o B)[k] = IF k <= i - 1 THEN s[k] ELSE s[k + 1]
    <3>1. /\ A \o B \in Seq(S \ {e})
          /\ Len(A \o B) = Len(A) + Len(B)
          /\ \A k \in 1 .. Len(A) + Len(B) :
                (A \o B)[k] = IF k <= Len(A) THEN A[k] ELSE B[k - Len(A)]
      BY <2>3, ConcatProperties
    <3> QED BY <1>0, <2>3, <3>1
  <2> QED BY <1>5, <2>1, <2>2, <2>4, Zenon
<1>10. IsInjective(RemoveFirst(s, e))
  <2> SUFFICES ASSUME NEW a \in 1 .. Len(s) - 1, NEW b \in 1 .. Len(s) - 1,
                      RemoveFirst(s, e)[a] = RemoveFirst(s, e)[b]
               PROVE  a = b
    BY <1>0, <1>9, LenProperties DEF IsInjective
  <2>1. s[IF a <= i - 1 THEN a ELSE a + 1] = s[IF b <= i - 1 THEN b ELSE b + 1]  BY <1>9
  <2>2. (IF a <= i - 1 THEN a ELSE a + 1) = (IF b <= i - 1 THEN b ELSE b + 1)
    BY <1>0, <2>1 DEF IsInjective
  <2> QED BY <2>2
<1> QED BY <1>9, <1>10

-----------------------------------------------------------------------------
(* The inductive invariant: TypeOK, fhs lists each block once (TAILQ      *)
(* links), and every allocated handle is a record whose len fits an      *)
(* int32_t and whose ptr lies in 0 .. len.                                *)
RdInv ==
    /\ TypeOK
    /\ IsInjective(fhs)
    /\ \A b \in heap : /\ fh[b] \in HandleRec
                       /\ fh[b].len \in 0 .. H - 1
                       /\ fh[b].ptr \in 0 .. fh[b].len

(* RdInv holds of the initial state.                                      *)
LEMMA InitRdInv == Init => RdInv
<1> SUFFICES ASSUME Init PROVE RdInv  OBVIOUS
<1>1. MaxMounts \in Nat  BY RomdiskAssumption
<1>2. fhs \in Seq({})  BY EmptySeq DEF Init
<1> QED BY <1>1, <1>2 DEF Init, RdInv, TypeOK, IsInjective, NoOpen

(* RdInv gives what the theorems state.                                   *)
LEMMA RdInvPtrInFile == RdInv => TypeOK /\ PtrInFile
<1> SUFFICES ASSUME RdInv PROVE TypeOK /\ PtrInFile  OBVIOUS
<1>1. ToSet(fhs) \subseteq heap  BY LenProperties DEF RdInv, TypeOK, ToSet
<1> QED BY <1>1 DEF RdInv, PtrInFile

(* Setting the ptr of one handle keeps the handles records, changes no   *)
(* len and leaves the other handles alone.                                 *)
LEMMA SetPtr ==
    \A f, p, v : p \in DOMAIN f /\ f[p] \in HandleRec /\ v \in Int =>
        LET g == [f EXCEPT ![p].ptr = v]
        IN  /\ DOMAIN g = DOMAIN f
            /\ g[p] \in HandleRec /\ g[p].len = f[p].len /\ g[p].ptr = v
            /\ \A b \in DOMAIN f \ {p} : g[b] = f[b]
BY DEF HandleRec

(* romdisk_mount changes only the count of mounts, within MaxMounts.       *)
LEMMA MountStep == RdInv /\ Mount => RdInv'
<1> SUFFICES ASSUME RdInv, Mount PROVE RdInv'  OBVIOUS
<1>1. MaxMounts \in Nat  BY RomdiskAssumption
<1>2. mounts' \in 0 .. MaxMounts  BY <1>1 DEF Mount, RdInv, TypeOK
<1> QED BY <1>2 DEF Mount, RdInv, TypeOK

(* romdisk_close (fd_free) unlinks and frees the handle, or does nothing. *)
LEMMA CloseStep ==
    ASSUME RdInv, NEW p \in Blocks \cup {NULL}, Close(p) PROVE RdInv'
<1>1. CASE p \notin ToSet(fhs)
  BY <1>1 DEF Close, FdFree, vars, RdInv, TypeOK
<1>2. CASE p \in ToSet(fhs)
  <2>1. fhs' = RemoveFirst(fhs, p) /\ heap' = heap \ {p} /\ fh' = [b \in heap' |-> fh[b]]
        /\ UNCHANGED <<mounts, copied, opened>>
    BY <1>2 DEF Close, FdFree
  <2>2. fhs \in Seq(heap) /\ IsInjective(fhs)  BY DEF RdInv, TypeOK
  <2>3. fhs' \in Seq(heap') /\ IsInjective(fhs')  BY <1>2, <2>1, <2>2, RemoveFirstInjective
  <2> QED BY <2>1, <2>3 DEF RdInv, TypeOK
<1> QED BY <1>1, <1>2

(* romdisk_read moves ptr of a valid handle within its file.              *)
LEMMA ReadStep ==
    ASSUME RdInv, NEW p \in ToSet(fhs) \cup {NULL}, NEW bytes \in ByteCounts, Read(p, bytes)
    PROVE  RdInv'
<1>1. CASE ~Valid(p)
  BY <1>1 DEF Read, vars, RdInv, TypeOK
<1>2. CASE Valid(p)
  <2>1. p \in heap
    <3>1. ToSet(fhs) \subseteq heap  BY LenProperties DEF RdInv, TypeOK, ToSet
    <3> QED BY <1>2, <3>1 DEF Valid
  <2>2. /\ fh[p] \in HandleRec /\ fh[p].len \in 0 .. H - 1 /\ fh[p].ptr \in 0 .. fh[p].len
    BY <2>1 DEF RdInv
  <2>3. bytes \in 0 .. M - 1  BY RomdiskAssumption DEF M
  <2>4. Signed(fh[p].ptr + ReadN(fh[p], bytes)) \in 0 .. fh[p].len  BY <2>2, <2>3, ReadStaysIn
  <2>5. /\ fh' = [fh EXCEPT ![p].ptr = Signed(fh[p].ptr + ReadN(fh[p], bytes))]
        /\ UNCHANGED <<mounts, fhs, heap, opened>>
    BY <1>2 DEF Read, ReadN
  <2>6. /\ DOMAIN fh' = DOMAIN fh
        /\ fh'[p] \in HandleRec /\ fh'[p].len = fh[p].len /\ fh'[p].ptr = Signed(fh[p].ptr + ReadN(fh[p], bytes))
        /\ \A b \in DOMAIN fh \ {p} : fh'[b] = fh[b]
    <3>1. Signed(fh[p].ptr + ReadN(fh[p], bytes)) \in Int  BY <2>4
    <3> QED BY <2>1, <2>2, <2>5, <3>1, SetPtr DEF RdInv, TypeOK
  <2>7. TypeOK'  BY <2>1, <2>2, <2>5, <2>6 DEF RdInv, TypeOK, HandleRec
  <2>8. \A b \in heap' : /\ fh'[b] \in HandleRec
                          /\ fh'[b].len \in 0 .. H - 1
                          /\ fh'[b].ptr \in 0 .. fh'[b].len
    BY <2>2, <2>4, <2>5, <2>6 DEF RdInv, TypeOK
  <2> QED BY <2>5, <2>7, <2>8 DEF RdInv
<1> QED BY <1>1, <1>2

(* romdisk_seek leaves ptr of a valid handle within its file.             *)
LEMMA SeekStep ==
    ASSUME RdInv, NEW p \in ToSet(fhs) \cup {NULL}, NEW offset \in SeekOffsets,
           NEW whence \in Whence, Seek(p, offset, whence)
    PROVE  RdInv'
<1>1. CASE ~Valid(p) \/ whence = "other"
  BY <1>1 DEF Seek, vars, RdInv, TypeOK
<1>2. CASE Valid(p) /\ whence # "other"
  <2>1. p \in heap
    <3>1. ToSet(fhs) \subseteq heap  BY LenProperties DEF RdInv, TypeOK, ToSet
    <3> QED BY <1>2, <3>1 DEF Valid
  <2>2. /\ fh[p] \in HandleRec /\ fh[p].len \in 0 .. H - 1
    BY <2>1 DEF RdInv
  <2>3. offset \in Int  BY RomdiskAssumption
  <2>4. SeekPtr(fh[p], offset, whence) \in 0 .. fh[p].len  BY <1>2, <2>2, <2>3, SeekStaysIn
  <2>5. /\ fh' = [fh EXCEPT ![p].ptr = SeekPtr(fh[p], offset, whence)]
        /\ UNCHANGED <<mounts, fhs, heap, opened>>
    BY <1>2 DEF Seek, SeekPtr
  <2>6. /\ DOMAIN fh' = DOMAIN fh
        /\ fh'[p] \in HandleRec /\ fh'[p].len = fh[p].len /\ fh'[p].ptr = SeekPtr(fh[p], offset, whence)
        /\ \A b \in DOMAIN fh \ {p} : fh'[b] = fh[b]
    <3>1. SeekPtr(fh[p], offset, whence) \in Int  BY <2>4
    <3> QED BY <2>1, <2>2, <2>5, <3>1, SetPtr DEF RdInv, TypeOK
  <2>7. TypeOK'  BY <2>1, <2>2, <2>5, <2>6 DEF RdInv, TypeOK, HandleRec
  <2>8. \A b \in heap' : /\ fh'[b] \in HandleRec
                          /\ fh'[b].len \in 0 .. H - 1
                          /\ fh'[b].ptr \in 0 .. fh'[b].len
    BY <2>2, <2>4, <2>5, <2>6 DEF RdInv, TypeOK
  <2> QED BY <2>5, <2>7, <2>8 DEF RdInv
<1> QED BY <1>1, <1>2

(* romdisk_open appends a fresh handle at the start of the file it found, *)
(* or allocates nothing.                                                   *)
LEMMA OpenStep ==
    ASSUME SizesFit, FindInImage, RdInv, NEW path \in Paths, Open(path)
    PROVE  RdInv'
<1>1. Find(path) \in DOMAIN Image \cup {0}  BY DEF FindInImage
<1>2. opened'.hdr \in DOMAIN Image \cup {0} /\ UNCHANGED mounts  BY <1>1 DEF Open
<1>3. CASE Find(path) = 0
  <2>1. UNCHANGED <<fhs, heap, fh>>  BY <1>3 DEF Open
  <2> QED BY <1>2, <2>1 DEF RdInv, TypeOK
<1>4. CASE Find(path) # 0
  <2>1. PICK b \in (Blocks \ heap) \cup {NULL} :
               IF b = NULL
                  THEN UNCHANGED <<fhs, heap, fh>>
                  ELSE FdAlloc(b, [index |-> Find(path) + files, dir |-> FALSE, ptr |-> 0,
                                   len |-> Image[Find(path)].size, hdr |-> Find(path)])
    BY <1>4 DEF Open
  <2>2. CASE b = NULL
    <3>1. UNCHANGED <<fhs, heap, fh>>  BY <2>1, <2>2
    <3> QED BY <1>2, <3>1 DEF RdInv, TypeOK
  <2>3. CASE b # NULL
    <3>1. b \in Blocks \ heap  BY <2>1, <2>3
    <3>2. /\ heap' = heap \cup {b}
          /\ fhs' = Append(fhs, b)
          /\ fh' = [x \in heap \cup {b} |->
                    IF x = b THEN [index |-> Find(path) + files, dir |-> FALSE, ptr |-> 0,
                                   len |-> Image[Find(path)].size, hdr |-> Find(path)]
                    ELSE fh[x]]
      BY <2>1, <2>3 DEF FdAlloc
    <3>3. [index |-> Find(path) + files, dir |-> FALSE, ptr |-> 0,
           len |-> Image[Find(path)].size, hdr |-> Find(path)] \in HandleRec
          /\ Image[Find(path)].size \in 0 .. H - 1
      <4>1. Find(path) \in Nat /\ files \in Nat  BY <1>1, <1>4, RomdiskAssumption DEF files
      <4>2. Image[Find(path)].size \in 0 .. H - 1  BY <1>1, <1>4 DEF SizesFit, H
      <4> QED BY <4>1, <4>2 DEF HandleRec
    <3>4. /\ DOMAIN fh' = heap'
          /\ fh'[b] = [index |-> Find(path) + files, dir |-> FALSE, ptr |-> 0,
                       len |-> Image[Find(path)].size, hdr |-> Find(path)]
          /\ \A c \in heap : fh'[c] = fh[c]
      BY <3>1, <3>2 DEF RdInv, TypeOK, FdAlloc
    <3>5. ToSet(fhs) \subseteq heap /\ Len(fhs) \in Nat /\ DOMAIN fhs = 1 .. Len(fhs)
      BY LenProperties DEF RdInv, TypeOK, ToSet
    <3>6. /\ fhs' \in Seq(heap')
          /\ Len(fhs') = Len(fhs) + 1
          /\ \A k \in 1 .. Len(fhs) : fhs'[k] = fhs[k]
          /\ fhs'[Len(fhs) + 1] = b
      <4>1. fhs \in Seq(heap \cup {b})  BY SeqMonotonic DEF RdInv, TypeOK
      <4> QED BY <3>2, <4>1, AppendProperties
    <3>7. IsInjective(fhs')
      <4>1. \A k \in 1 .. Len(fhs) : fhs[k] # b  BY <3>1, <3>5 DEF ToSet
      <4>2. DOMAIN fhs' = 1 .. Len(fhs) + 1  BY <3>6, LenProperties
      <4> QED BY <3>5, <3>6, <4>1, <4>2 DEF RdInv, IsInjective
    <3>8. TypeOK'  BY <1>2, <3>1, <3>2, <3>3, <3>4, <3>6 DEF RdInv, TypeOK, HandleRec
    <3>9. \A c \in heap' : /\ fh'[c] \in HandleRec
                           /\ fh'[c].len \in 0 .. H - 1
                           /\ fh'[c].ptr \in 0 .. fh'[c].len
      BY <3>2, <3>3, <3>4 DEF RdInv
    <3> QED BY <3>7, <3>8, <3>9 DEF RdInv
  <2> QED BY <2>2, <2>3
<1> QED BY <1>3, <1>4

(* Every step of the driver, and every stutter, keeps RdInv.              *)
LEMMA RdStep == SizesFit /\ FindInImage /\ RdInv /\ [Next]_vars => RdInv'
<1> SUFFICES ASSUME SizesFit, FindInImage, RdInv, [Next]_vars PROVE RdInv'  OBVIOUS
<1>1. CASE Mount  BY <1>1, MountStep
<1>2. CASE \E path \in Paths : Open(path)  BY <1>2, OpenStep
<1>3. CASE \E p \in Blocks \cup {NULL} : Close(p)  BY <1>3, CloseStep
<1>4. CASE \E p \in ToSet(fhs) \cup {NULL}, bytes \in ByteCounts : Read(p, bytes)
  BY <1>4, ReadStep
<1>5. CASE \E p \in ToSet(fhs) \cup {NULL}, offset \in SeekOffsets, whence \in Whence :
             Seek(p, offset, whence)
  BY <1>5, SeekStep
<1>6. CASE UNCHANGED vars  BY <1>6 DEF vars, RdInv, TypeOK
<1> QED BY <1>1, <1>2, <1>3, <1>4, <1>5, <1>6 DEF Next

(* romdisk_open, close, read and seek keep the handle list well formed:   *)
(* the counts, the blocks of fhs allocated and each listed once, a handle *)
(* record for every allocated block and what find returned an offset of   *)
(* the image, for images that meet the hypotheses.                        *)
THEOREM RomdiskTypeOK == ASSUME SizesFit, FindInImage PROVE Spec => []TypeOK
<1>1. Init => RdInv  BY InitRdInv
<1>2. RdInv /\ [Next]_vars => RdInv'  BY RdStep
<1>3. RdInv => TypeOK  BY RdInvPtrInFile
<1> QED BY <1>1, <1>2, <1>3, PTL DEF Spec

(* Every open handle's position stays within its file, 0 .. len, through  *)
(* any sequence of romdisk_read and romdisk_seek calls (with the wrap of  *)
(* ptr + bytes in size_t and of the seek sums in int32_t), for every      *)
(* Width and image whose files are shorter than 2^(Width-1) bytes.        *)
THEOREM RomdiskPtrInFile == ASSUME SizesFit, FindInImage PROVE Spec => []PtrInFile
<1>1. Init => RdInv  BY InitRdInv
<1>2. RdInv /\ [Next]_vars => RdInv'  BY RdStep
<1>3. RdInv => PtrInFile  BY RdInvPtrInFile
<1> QED BY <1>1, <1>2, <1>3, PTL DEF Spec
====
