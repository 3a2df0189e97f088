-------------------------------- MODULE Romdisk --------------------------------
(***************************************************************************)
(* The ROMFS driver (kernel/vfs/fs/romdisk/romdisk.c): mount, the path    *)
(* lookup through the image's header chains, the file-handle list fhs,   *)
(* open, close, read and seek.                                            *)
(*                                                                         *)
(* The image is a constant: a function from the byte offsets of its file  *)
(* headers to the header fields the driver reads.  A name is a model      *)
(* value compared whole (strlen and strncmp); only its length in bytes    *)
(* matters for the layout.  A path is the sequence of the pieces strchr   *)
(* splits it into at '/' ("" where two slashes meet or at either end).    *)
(* Handles are heap blocks, model values: malloc returns one that is not  *)
(* allocated, or NULL.  ptr (int32_t), len and bytes (size_t) and off_t   *)
(* keep their C arithmetic at Width bits, which the runs scale down from  *)
(* 32.  Every call is made by one foreground thread and is one step.     *)
(***************************************************************************)
EXTENDS Integers, Sequences, FiniteSets, SequencesExt

CONSTANTS
    Width,       \* bits of int32_t, size_t and off_t (32 on the SH-2)
    Image,       \* header offset -> [next, spec, size, name, namelen]
    VolNameLen,  \* strlen(hdr->volume_name)
    Paths,       \* paths an application opens
    Blocks,      \* heap blocks malloc may return for a handle
    NULL,        \* the NULL pointer
    ByteCounts,  \* bytes arguments of read
    SeekOffsets, \* offset arguments of seek
    MaxMounts    \* bound on the mounts of the image

ASSUME RomdiskAssumption ==
    /\ Width \in Nat \ {0}
    /\ DOMAIN Image \subseteq Nat \ {0}
    /\ NULL \notin Blocks
    /\ ByteCounts \subseteq 0 .. 2^Width - 1
    /\ SeekOffsets \subseteq -(2^(Width - 1)) .. 2^(Width - 1) - 1
    /\ \A p \in Paths : p \in Seq(STRING) /\ Len(p) >= 1
    /\ MaxMounts \in Nat /\ VolNameLen \in Nat

(* The powers of two the conversions use: 2^Width is twice 2^(Width-1).   *)
ASSUME WidthPowers ==
    2^(Width - 1) \in Nat \ {0} /\ 2^Width = 2 * 2^(Width - 1)

(* The image as genromfs writes it: every header's next offset and every  *)
(* directory's first entry is a header of the image.                     *)
ASSUME ImageWellFormed ==
    \A o \in DOMAIN Image :
        /\ Image[o].next - (Image[o].next % 16) \in DOMAIN Image \cup {0}
        /\ Image[o].next % 4 = 1 => Image[o].spec \in DOMAIN Image

(* The romfs file types TYPE_DIRECTORY and TYPE_REGULAR_FILE, and whence. *)
TYPE_DIRECTORY == 1
TYPE_REGULAR_FILE == 2
Whence == {"SEEK_SET", "SEEK_CUR", "SEEK_END", "other"}

(* Unsigned and two's-complement signed conversions at Width bits.        *)
Unsigned(x) == x % 2^Width
Signed(x) == LET u == Unsigned(x) IN IF u >= 2^(Width - 1) THEN u - 2^Width ELSE u

(* romdisk_mount: files, the offset of the first file header, is the     *)
(* 32-byte volume header plus the volume name rounded down to 16 bytes.   *)
files == 32 + (VolNameLen \div 16) * 16

(* TYPE_GET and the next-header offset with its mode bits cleared.         *)
TypeGet(o) == Image[o].next % 16
NextOfs(o) == Image[o].next - TypeGet(o)

(* Mutant: the type check is left out; any header with the name is found. *)
FindObject_AnyType(fn, directory, offset) ==
    LET walk[o \in DOMAIN Image, steps \in 0 .. Cardinality(DOMAIN Image)] ==
            IF Image[o].name = fn THEN o
            ELSE IF NextOfs(o) = 0 \/ steps = 0 THEN 0
            ELSE walk[NextOfs(o), steps - 1]
    IN  walk[offset, Cardinality(DOMAIN Image)]

(* romdisk_find_object: walk the chain of headers from offset; on the     *)
(* first header named fn return offset if IS_TYPE (the low two bits of    *)
(* the type) is the kind asked for, else 0; 0 when the chain ends.  steps *)
(* bounds the walk by the number of headers, which an acyclic chain      *)
(* never reaches.                                                         *)
FindObject(fn, directory, offset) ==
    LET kind == IF directory THEN TYPE_DIRECTORY ELSE TYPE_REGULAR_FILE
        walk[o \in DOMAIN Image, steps \in 0 .. Cardinality(DOMAIN Image)] ==
            IF Image[o].name = fn
               THEN IF TypeGet(o) % 4 = kind THEN o ELSE 0
            ELSE IF NextOfs(o) = 0 \/ steps = 0 THEN 0
            ELSE walk[NextOfs(o), steps - 1]
    IN  walk[offset, Cardinality(DOMAIN Image)]

(* romdisk_find: every piece before the last that is not empty names a    *)
(* directory, whose first entry is its spec_info; the last piece, if not  *)
(* empty, is looked up as a regular file.                                 *)
Find(path) ==
    LET n == Len(path)
        dirs[k \in 0 .. n - 1] ==
            IF k = 0 THEN files
            ELSE IF dirs[k - 1] = 0 THEN 0
            ELSE IF path[k] = "" THEN dirs[k - 1]
            ELSE LET o == FindObject(path[k], TRUE, dirs[k - 1])
                 IN  IF o = 0 THEN 0 ELSE Image[o].spec
    IN  IF dirs[n - 1] = 0 \/ path[n] = "" THEN 0
        ELSE FindObject(path[n], FALSE, dirs[n - 1])

VARIABLES
    mounts,      \* number of images mounted (rd_image blocks allocated)
    fhs,         \* the TAILQ of open handles, as a sequence of blocks
    heap,        \* the handle blocks malloc has handed out and not freed
    fh,          \* allocated block -> [index, dir, ptr, len, hdr] (hdr: history, f_idx)
    copied,      \* history: the image bytes the last read copied, [hdr, from, to)
    opened       \* history: the path of the last open and what find returned

vars == <<mounts, fhs, heap, fh, copied, opened>>

NoCopy == [hdr |-> 0, from |-> 0, to |-> 0]
NoOpen == [path |-> <<>>, hdr |-> 0]

(* romdisk_init: an empty handle list.  Nothing is mounted yet.           *)
Init ==
    /\ mounts = 0
    /\ fhs = <<>> /\ heap = {}
    /\ fh = <<>>
    /\ copied = NoCopy
    /\ opened = NoOpen

(* romdisk_mount: NULL unless the image starts with "-rom1fs-" and the    *)
(* rd_image can be allocated.  One more mount of the image is all it      *)
(* changes; MaxMounts caps the count.                                     *)
Mount ==
    /\ mounts < MaxMounts
    /\ \E magic \in BOOLEAN, allocated \in BOOLEAN :
          mounts' = IF magic /\ allocated THEN mounts + 1 ELSE mounts
    /\ UNCHANGED <<fhs, heap, fh, copied, opened>>

(* romdisk_fd_alloc: malloc returns NULL or a block not allocated; the   *)
(* block is appended to fhs.  handle is what open then writes into it.    *)
FdAlloc(b, handle) ==
    /\ heap' = heap \cup {b}
    /\ fhs' = Append(fhs, b)
    /\ fh' = [x \in heap \cup {b} |-> IF x = b THEN handle ELSE fh[x]]

(* romdisk_open on a mounted image: find the file, allocate a handle and  *)
(* fill it; the handle's data start at f_idx + mnt->files.                *)
Open(path) ==
    /\ mounts > 0
    /\ LET f_idx == Find(path) IN
       /\ opened' = [path |-> path, hdr |-> f_idx]
       /\ IF f_idx = 0
             THEN UNCHANGED <<fhs, heap, fh>>
             ELSE \E b \in (Blocks \ heap) \cup {NULL} :
                     IF b = NULL
                        THEN UNCHANGED <<fhs, heap, fh>>
                        ELSE FdAlloc(b, [index |-> f_idx + files, dir |-> FALSE, ptr |-> 0,
                                         len |-> Image[f_idx].size, hdr |-> f_idx])
    /\ UNCHANGED <<mounts, copied>>

(* Mutant: fd_free frees the handle but does not unlink it.             *)
FdFree_NoUnlink(p) ==
    IF p \in ToSet(fhs)
       THEN /\ heap' = heap \ {p}
            /\ fh' = [b \in heap' |-> fh[b]]
            /\ UNCHANGED <<mounts, fhs, copied, opened>>
       ELSE UNCHANGED vars

(* romdisk_fd_free: nothing for NULL or for a block not in fhs (a handle  *)
(* closed before); else unlink it from fhs and free it.  Freed blocks     *)
(* leave fh: nothing reads them.                                          *)
FdFree(p) ==
    IF p \in ToSet(fhs)
       THEN /\ fhs' = RemoveFirst(fhs, p)
            /\ heap' = heap \ {p}
            /\ fh' = [b \in heap' |-> fh[b]]
            /\ UNCHANGED <<mounts, copied, opened>>
       ELSE UNCHANGED vars

(* romdisk_close.                                                         *)
Close(p) == FdFree(p)

(* The sanity checks of read, seek, tell and total: fails for NULL, for a *)
(* handle not open for reading and for a directory.                       *)
Valid(p) == p # NULL /\ fh[p].index # 0 /\ ~fh[p].dir

(* romdisk_read: clamp bytes to what is left when ptr + bytes (unsigned)  *)
(* exceeds len, copy from image + index + ptr and advance ptr.           *)
Read(p, bytes) ==
    IF ~Valid(p) THEN UNCHANGED vars
    ELSE LET h == fh[p]
             n == IF Unsigned(h.ptr + bytes) > h.len THEN Unsigned(h.len - h.ptr) ELSE bytes
         IN  /\ copied' = IF n = 0 THEN copied
                          ELSE [hdr |-> h.hdr, from |-> h.index + h.ptr, to |-> h.index + h.ptr + n]
             /\ fh' = [fh EXCEPT ![p].ptr = Signed(h.ptr + n)]
             /\ UNCHANGED <<mounts, fhs, heap, opened>>

(* romdisk_seek: set ptr by whence (the sums wrap at Width bits), then    *)
(* clamp it to 0 .. len; an unknown whence changes nothing.               *)
SeekTo(h, offset, whence) ==
    CASE whence = "SEEK_SET" -> Signed(offset)
      [] whence = "SEEK_CUR" -> Signed(h.ptr + offset)
      [] whence = "SEEK_END" -> Signed(h.len + offset)

(* Mutant: no clamp at 0.                                                 *)
ClampLow_None(x) == x

ClampLow(x) == IF x < 0 THEN 0 ELSE x

Seek(p, offset, whence) ==
    IF ~Valid(p) \/ whence = "other" THEN UNCHANGED vars
    ELSE LET x == ClampLow(SeekTo(fh[p], offset, whence))
             len == Signed(fh[p].len)
         IN  /\ fh' = [fh EXCEPT ![p].ptr = IF x > len THEN len ELSE x]
             /\ UNCHANGED <<mounts, fhs, heap, copied, opened>>

Next ==
    \/ Mount
    \/ \E path \in Paths : Open(path)
    \/ \E p \in Blocks \cup {NULL} : Close(p)
    \/ \E p \in ToSet(fhs) \cup {NULL}, bytes \in ByteCounts : Read(p, bytes)
    \/ \E p \in ToSet(fhs) \cup {NULL}, offset \in SeekOffsets, whence \in Whence :
          Seek(p, offset, whence)

Spec == Init /\ [][Next]_vars

(* What the proofs about handles take of the image.  SizesFit: no file is *)
(* 2^(Width-1) bytes or more, so (int32_t)fh->len, which romdisk_seek     *)
(* compares ptr with, is the size itself (an image lives in the few MiB  *)
(* of the Saturn's memory).  FindInImage: romdisk_find returns 0 or the   *)
(* offset of a header of the image, for every path opened.               *)
SizesFit == \A o \in DOMAIN Image : Image[o].size \in 0 .. 2^(Width - 1) - 1

FindInImage == \A path \in Paths : Find(path) \in DOMAIN Image \cup {0}

-----------------------------------------------------------------------------
TypeOK ==
    /\ mounts \in 0 .. MaxMounts
    /\ heap \subseteq Blocks /\ fhs \in Seq(heap)
    /\ DOMAIN fh = heap /\ \A b \in heap : fh[b].ptr \in Int /\ fh[b].len \in Nat
    /\ opened.hdr \in DOMAIN Image \cup {0}

(* Every open handle's position lies within its file, 0 .. len, whatever  *)
(* sequence of reads and seeks (relative, from the end, wrapping at the   *)
(* width of int32_t) brought it there: what romdisk_seek's clamps and     *)
(* romdisk_read's clamp are for.                                          *)
PtrInFile == \A b \in ToSet(fhs) : 0 <= fh[b].ptr /\ fh[b].ptr <= fh[b].len

(* The romfs layout, read independently of the lookup: the type is bits   *)
(* 0..2 of the next-header word (the comment at line 326), a directory    *)
(* lists the headers chained from its first entry, and a path names the   *)
(* regular file reached through directories named by its pieces.          *)
TypeOf(o) == TypeGet(o) % 8

Chain[o \in DOMAIN Image] == {o} \cup (IF NextOfs(o) = 0 THEN {} ELSE Chain[NextOfs(o)])

Named(d, c, t) == {o \in Chain[d] : Image[o].name = c /\ TypeOf(o) = t}

Resolve(path) ==
    LET n == Len(path)
        dirs[k \in 0 .. n - 1] ==
            IF k = 0 THEN {files}
            ELSE IF path[k] = "" THEN dirs[k - 1]
            ELSE {Image[o].spec : o \in UNION {Named(d, path[k], TYPE_DIRECTORY) : d \in dirs[k - 1]}}
    IN  IF path[n] = "" THEN {}
        ELSE UNION {Named(d, path[n], TYPE_REGULAR_FILE) : d \in dirs[n - 1]}

(* romdisk_open finds exactly the regular file a path names: it fails    *)
(* when the path names none, and otherwise its handle is for that file.  *)
OpenResolves ==
    opened # NoOpen =>
        opened.hdr \in (IF Resolve(opened.path) = {} THEN {0} ELSE Resolve(opened.path))

(* Where a file's data begin: after its 16-byte header and its name with  *)
(* the terminating NUL padded to 16 bytes (the comment at lines 55-57).   *)
DataStart(o) == o + 16 + (Image[o].namelen \div 16 + 1) * 16

(* Every byte romdisk_read copies is a byte of the data of the file the   *)
(* handle was opened on.                                                  *)
ReadCopiesFileData ==
    copied # NoCopy =>
        /\ DataStart(copied.hdr) <= copied.from
        /\ copied.to <= DataStart(copied.hdr) + Image[copied.hdr].size
====
