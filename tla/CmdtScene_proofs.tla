------------------------- MODULE CmdtScene_proofs --------------------------
(***************************************************************************)
(* DisplayCurrent for the arena driven the way CmdtScene drives it, for   *)
(* every number of lists and slots and every counter width, when every    *)
(* list draws one fixed number of commands, the lists packed one after    *)
(* the other fit in the table, and the reference counts do not wrap.      *)
(***************************************************************************)
EXTENDS CmdtScene, CmdtList_proofs, WellFoundedInduction, TLAPS

(* The number of commands list id draws, when Len[id] is a single count.  *)
L(id) == CHOOSE n \in Len[id] : TRUE

(* off[i] is the slot list i starts at when lists 0 .. i - 1 are packed   *)
(* before it; off[ListCnt] is the slot after the last list.               *)
Packed(off) ==
    /\ off \in [0 .. ListCnt -> Slots]
    /\ off[0] = 0
    /\ \A i \in ListIds : off[i + 1] = off[i] + L(i)

(* What the theorem assumes of the scene: one count per list, a table     *)
(* with room for every list and the END slot after them, and fewer begins *)
(* than the reference count's modulus.                                     *)
SceneFits ==
    /\ \A id \in ListIds : \E n \in Nat : Len[id] = {n}
    /\ \E off : Packed(off)
    /\ MaxGen < RefModulus

Used(id) == ref_cnt[id] > 0

(* The open list is id.                                                    *)
IsOpen(id) == in_list /\ cur_id = id

(* Slot s holds a command of the latest begin of a list in use, inside    *)
(* that list's part of the table.                                          *)
Good(off, s) ==
    LET c == vram[s].cmd
    IN  /\ c # NoCmd
        /\ Used(c[1])
        /\ c[2] = list_gen[c[1]]
        /\ s \in off[c[1]] .. off[c[1] + 1] - 1

(* Slot s is at or past the open list's cursor, where it has yet to draw: *)
(* its own old commands if it was begun before, anything if this is its   *)
(* first begin.                                                            *)
Pending(off, s) ==
    /\ in_list
    /\ s >= cur[cur_id]
    /\ ref_cnt[cur_id] = 1 \/ s < off[cur_id + 1]

(* Slot s is executed: no END bit up to it.                                *)
Reached(s) == \A t \in 0 .. s : ~vram[t].end

(* The conjuncts of the inductive invariant, each named for what it says. *)

(* A begin never wraps a reference count: each is at most the begins made.*)
RefBound == \A id \in ListIds : ref_cnt[id] <= gen

(* The lists in use since the last init are 0 .. k for some k.            *)
Prefix == \A id \in ListIds : Used(id) => \A j \in 0 .. id : Used(j)

(* Before vdp1_cmdt_list_init nothing is open or in use, and slot 0 still *)
(* has the END bit _internal_vdp_init wrote.                               *)
PreInit ==
    ~initialized => /\ ~in_list /\ vram[0].end
                    /\ \A id \in ListIds : ~Used(id)

(* The list closed last is in use.                                         *)
LastUsed == initialized /\ last_id # NoList => Used(last_id)

(* Right after an init no list is in use and list 0 starts at slot 0.     *)
Fresh ==
    initialized /\ last_id = NoList /\ ~in_list =>
        /\ \A id \in ListIds : ~Used(id)
        /\ beg[0] = 0 /\ cur[0] = 0

(* Every list in use starts at its packed slot, a closed one has drawn    *)
(* all its commands, and the open one is within its part of the table.    *)
BegAt(off) == \A id \in ListIds : Used(id) => beg[id] = off[id]

CurAt(off) == \A id \in ListIds : Used(id) /\ ~IsOpen(id) => cur[id] = off[id + 1]

OpenAt(off) ==
    in_list => /\ Used(cur_id)
               /\ cur[cur_id] \in off[cur_id] .. off[cur_id + 1]

(* A list open for its first begin is the last of those in use.           *)
NewestOpen ==
    in_list /\ ref_cnt[cur_id] = 1 => \A id \in ListIds : Used(id) => id <= cur_id

(* What every list in use has drawn since its latest begin is in VRAM,    *)
(* without END bits.                                                       *)
Written(off) ==
    \A id \in ListIds : Used(id) =>
        \A s \in off[id] .. (IF IsOpen(id) THEN cur[id] ELSE off[id + 1]) - 1 :
            vram[s] = [end |-> FALSE, cmd |-> <<id, list_gen[id]>>]

(* No END bit before the end of a closed list in use.                      *)
Unmarked(off) ==
    \A id \in ListIds : Used(id) /\ ~IsOpen(id) =>
        \A t \in 0 .. off[id + 1] - 1 : ~vram[t].end

(* A list begun again has no END bit among the old commands it has yet to *)
(* overwrite.                                                              *)
OldUnmarked(off) ==
    in_list /\ ref_cnt[cur_id] >= 2 =>
        \A s \in cur[cur_id] .. off[cur_id + 1] - 1 : ~vram[s].end

(* Every slot the VDP1 reaches holds a current command, or is one the     *)
(* open list has yet to draw.                                              *)
ScanGood(off) ==
    initialized /\ (in_list \/ last_id # NoList) =>
        \A s \in Slots : Reached(s) => Good(off, s) \/ Pending(off, s)

(* An END bit is set past everything a begun-again list will draw, and    *)
(* somewhere once every list is closed.                                    *)
EndAhead(off) ==
    initialized /\ ((~in_list /\ last_id # NoList) \/ (in_list /\ ref_cnt[cur_id] >= 2)) =>
        \E s \in Slots : s >= (IF in_list THEN off[cur_id + 1] ELSE 0) /\ vram[s].end

(* DisplayCurrent strengthened to an inductive invariant of SceneSpec.    *)
SInv(off) ==
    /\ IInv /\ RefBound /\ Prefix /\ PreInit /\ LastUsed /\ Fresh
    /\ BegAt(off) /\ CurAt(off) /\ OpenAt(off) /\ NewestOpen
    /\ Written(off) /\ Unmarked(off) /\ OldUnmarked(off)
    /\ ScanGood(off) /\ EndAhead(off)

(* The facts about the constants the proofs use, for a packed layout off. *)
Ctx(off) ==
    /\ Packed(off)
    /\ \A id \in ListIds : L(id) \in Nat /\ Len[id] = {L(id)}
    /\ MaxGen < RefModulus

-----------------------------------------------------------------------------
USE ConstAssumption, LenAssumption

(* Every non-empty set of naturals has a least element.                   *)
LEMMA LeastNat ==
    \A T \in SUBSET Nat : T # {} => \E x \in T : \A y \in T : x <= y
<1> SUFFICES ASSUME NEW T \in SUBSET Nat, T # {}
             PROVE  \E x \in T : \A y \in T : x <= y
    OBVIOUS
<1>1. PICK x \in T : \A y \in T : ~(<<y, x>> \in OpToRel(<, Nat))
      BY NatLessThanWellFounded, WFMin
<1>2. ASSUME NEW y \in T PROVE x <= y
  <2>1. ~(<<y, x>> \in OpToRel(<, Nat))
        BY <1>1
  <2>2. <<y, x>> \in Nat \X Nat
        OBVIOUS
  <2>3. ~(y < x)
        BY <2>1, <2>2, Zenon DEF OpToRel
  <2> QED
      BY <2>3
<1> QED
    BY <1>2

(* Under SceneFits there is a packed layout with one count per list.      *)
LEMMA CtxOfFits == SceneFits => \E off : Ctx(off)
<1> SUFFICES ASSUME SceneFits PROVE \E off : Ctx(off)
    OBVIOUS
<1>1. PICK off : Packed(off)
      BY DEF SceneFits
<1>2. \A id \in ListIds : L(id) \in Nat /\ Len[id] = {L(id)}
  <2> SUFFICES ASSUME NEW id \in ListIds PROVE L(id) \in Nat /\ Len[id] = {L(id)}
      OBVIOUS
  <2>1. PICK n \in Nat : Len[id] = {n}
        BY DEF SceneFits
  <2>2. L(id) = n
        BY <2>1 DEF L
  <2> QED
      BY <2>1, <2>2
<1> QED
    BY <1>1, <1>2 DEF Ctx, SceneFits

(* The packed start slots never decrease.                                  *)
LEMMA OffMono ==
    ASSUME NEW off, Ctx(off), NEW i \in 0 .. ListCnt, NEW j \in 0 .. ListCnt, i <= j
    PROVE  off[i] <= off[j]
<1> DEFINE T == {k \in i .. ListCnt : off[k] < off[i]}
<1>1. off \in [0 .. ListCnt -> Slots] /\ off[0] = 0
      /\ \A k \in ListIds : off[k + 1] = off[k] + L(k) /\ L(k) \in Nat
      BY DEF Ctx, Packed
<1>0. T \in SUBSET Nat
      OBVIOUS
<1> SUFFICES ASSUME T # {} PROVE FALSE
  <2>1. CASE T = {}
    <3>1. ~(off[j] < off[i])
          BY <2>1
    <3> QED
        BY <3>1, <1>1 DEF Slots
  <2> QED
      BY <2>1
<1>2. PICK k \in T : \A y \in T : k <= y
      BY <1>0, LeastNat
<1>3. k # i /\ k - 1 \in i .. ListCnt /\ k - 1 \in ListIds
  <3>1. k \in i .. ListCnt /\ off[k] < off[i]
        OBVIOUS
  <3>2. off[i] \in Nat
        BY <1>1 DEF Slots
  <3> QED
      BY <3>1, <3>2 DEF ListIds
<1>4. off[k - 1] >= off[i]
  <3>1. ~(k - 1 \in T)
        BY <1>2, <1>3
  <3>2. ~(off[k - 1] < off[i])
        BY <3>1, <1>3
  <3> QED
      BY <3>2, <1>1, <1>3 DEF Slots
<1>5. off[k] = off[k - 1] + L(k - 1) /\ L(k - 1) \in Nat
      BY <1>1, <1>3
<1> QED
    BY <1>1, <1>2, <1>3, <1>4, <1>5 DEF Slots

(* The facts about a packed layout the steps use.                          *)
LEMMA OffFacts ==
    \A off : Ctx(off) =>
        /\ off \in [0 .. ListCnt -> Slots]
        /\ off[0] = 0
        /\ \A id \in ListIds : /\ off[id + 1] = off[id] + L(id)
                               /\ L(id) \in Nat /\ Len[id] = {L(id)}
                               /\ off[id] <= off[id + 1]
                               /\ off[id] \in Nat /\ off[id + 1] \in Nat
                               /\ off[id + 1] < NSlots
<1> SUFFICES ASSUME NEW off, Ctx(off)
             PROVE  /\ off \in [0 .. ListCnt -> Slots]
                    /\ off[0] = 0
                    /\ \A id \in ListIds : /\ off[id + 1] = off[id] + L(id)
                                           /\ L(id) \in Nat /\ Len[id] = {L(id)}
                                           /\ off[id] <= off[id + 1]
                                           /\ off[id] \in Nat /\ off[id + 1] \in Nat
                                           /\ off[id + 1] < NSlots
    OBVIOUS
<1>1. /\ off \in [0 .. ListCnt -> Slots]
      /\ off[0] = 0
      /\ \A id \in ListIds : /\ off[id + 1] = off[id] + L(id)
                             /\ L(id) \in Nat /\ Len[id] = {L(id)}
    BY DEF Ctx, Packed
<1>2. ASSUME NEW id \in ListIds
      PROVE  /\ off[id] <= off[id + 1]
             /\ off[id] \in Nat /\ off[id + 1] \in Nat
             /\ off[id + 1] < NSlots
  <2>1. id \in 0 .. ListCnt /\ id + 1 \in 0 .. ListCnt
        BY DEF ListIds
  <2>2. off[id] \in Slots /\ off[id + 1] \in Slots /\ off[id + 1] = off[id] + L(id) /\ L(id) \in Nat
        BY <1>1, <2>1
  <2> QED
      BY <2>2 DEF Slots
<1> QED
    BY <1>1, <1>2

(* Two lists' parts of the table: the earlier one ends before the later   *)
(* one starts.                                                             *)
LEMMA OffApart ==
    \A off : Ctx(off) =>
        \A i, j \in ListIds : i < j => off[i + 1] <= off[j]
<1> SUFFICES ASSUME NEW off, Ctx(off), NEW i \in ListIds, NEW j \in ListIds, i < j
             PROVE  off[i + 1] <= off[j]
    OBVIOUS
<1>1. i + 1 \in 0 .. ListCnt /\ j \in 0 .. ListCnt /\ i + 1 <= j
      BY DEF ListIds
<1> QED
    BY <1>1, OffMono

(* Initially only the END bits _internal_vdp_init wrote are in VRAM.       *)
LEMMA InitSInv ==
    ASSUME NEW off, Init
    PROVE  SInv(off)
<1>1. IInv
      BY InitIInv
<1>2. \A id \in ListIds : ~Used(id)
      BY DEF Init, Used
<1>3. 0 \in Slots /\ vram[0].end /\ ~initialized /\ ~in_list /\ gen = 0
      BY DEF Init, Slots
<1>4. RefBound
      BY <1>3 DEF Init, RefBound
<1> QED
    BY <1>1, <1>2, <1>3, <1>4
       DEF SInv, Prefix, PreInit, LastUsed, Fresh, BegAt, CurAt, OpenAt,
           NewestOpen, Written, Unmarked, OldUnmarked, ScanGood, EndAhead

(* The invariant gives DisplayCurrent.                                     *)
LEMMA SInvDisplay ==
    ASSUME NEW off, Ctx(off), SInv(off)
    PROVE  DisplayCurrent
<1> SUFFICES ASSUME ~in_list, last_id # NoList
             PROVE  DisplayCurrent!2
    BY DEF DisplayCurrent
<1>0. TypeOK
      BY DEF SInv, IInv
<1>1. CASE ~initialized
  <2>1. 0 \in Slots /\ vram[0].end /\ \A id \in ListIds : ~Used(id)
        BY <1>1 DEF SInv, PreInit, Slots
  <2>2. Scanned = {}
        BY <2>1 DEF Scanned, Slots
  <2> QED
      BY <2>1, <2>2 DEF Used
<1>2. CASE initialized
  <2>1. \E s \in Slots : vram[s].end
        BY <1>2 DEF SInv, EndAhead
  <2>2. ASSUME NEW s \in Scanned
        PROVE  /\ vram[s].cmd # NoCmd
               /\ ref_cnt[vram[s].cmd[1]] > 0
               /\ vram[s].cmd[2] = list_gen[vram[s].cmd[1]]
    <3>1. s \in Slots /\ Reached(s)
          BY DEF Scanned, Reached
    <3>2. Good(off, s) \/ Pending(off, s)
          BY <1>2, <3>1 DEF SInv, ScanGood
    <3> QED
        BY <3>2 DEF Good, Pending, Used
  <2>3. ASSUME NEW id \in ListIds, ref_cnt[id] > 0,
               NEW s \in beg[id] .. cur[id] - 1
        PROVE  s \in Scanned /\ vram[s].cmd = <<id, list_gen[id]>>
    <3>1. Used(id) /\ ~IsOpen(id)
          BY <2>3 DEF Used, IsOpen
    <3>2. beg[id] = off[id] /\ cur[id] = off[id + 1]
          BY <3>1 DEF SInv, BegAt, CurAt
    <3>3. s \in off[id] .. off[id + 1] - 1
          BY <3>2
    <3>4. vram[s] = [end |-> FALSE, cmd |-> <<id, list_gen[id]>>]
          BY <3>1, <3>3 DEF SInv, Written
    <3>5. \A t \in 0 .. off[id + 1] - 1 : ~vram[t].end
          BY <3>1 DEF SInv, Unmarked
    <3>6. off[id] \in Nat /\ off[id + 1] \in Nat /\ off[id + 1] < NSlots
          BY OffFacts
    <3>7. s \in Slots /\ 0 .. s \subseteq 0 .. off[id + 1] - 1
          BY <3>3, <3>6 DEF Slots
    <3>8. \A t \in 0 .. s : ~vram[t].end
          BY <3>5, <3>7
    <3> QED
        BY <3>4, <3>7, <3>8 DEF Scanned
  <2> QED
      BY <2>1, <2>2, <2>3
<1> QED
    BY <1>1, <1>2

(* vdp1_cmdt_list_init: no list is in use afterwards.                      *)
LEMMA ListInitSInv ==
    ASSUME NEW off, Ctx(off), SInv(off), ~in_list, ListInit
    PROVE  SInv(off)'
<1>1. IInv'
      BY NextIInv DEF SInv, Next
<1>2. \A id \in ListIds : ~Used(id)'
      BY DEF ListInit, Used
<1>3. initialized' /\ ~in_list' /\ last_id' = NoList /\ beg'[0] = 0 /\ cur'[0] = 0
      BY DEF ListInit, ListIds
<1>4. RefBound'
      BY DEF ListInit, RefBound, SInv, IInv, TypeOK, Gens
<1> QED
    BY <1>1, <1>2, <1>3, <1>4
       DEF SInv, Prefix, PreInit, LastUsed, Fresh, BegAt, CurAt, OpenAt,
           NewestOpen, Written, Unmarked, OldUnmarked, ScanGood, EndAhead

(* vdp1_cmdt_list_end of a list that drew its count: on a first begin the *)
(* END bit goes right after it.                                            *)
LEMMA EndSInv ==
    ASSUME NEW off, Ctx(off), SInv(off), NEW c \in ListIds, End(c),
           Drawn(c) \in Len[c]
    PROVE  SInv(off)'
<1>0. /\ TypeOK
      /\ off[c] \in Nat /\ off[c + 1] \in Nat /\ off[c + 1] \in Slots /\ off[c] <= off[c + 1]
      /\ off[0] = 0 /\ off[c + 1] = off[c] + L(c) /\ Len[c] = {L(c)}
      BY OffFacts DEF SInv, IInv, Slots
<1>1. in_list /\ cur_id = c /\ initialized /\ Used(c)
      BY DEF End, SInv, PreInit, OpenAt
<1>2. beg[c] = off[c] /\ cur[c] = off[c + 1]
  <2>1. beg[c] = off[c]
        BY <1>1 DEF SInv, BegAt
  <2>2. cur[c] - beg[c] = L(c)
        BY <1>0 DEF Drawn
  <2>3. cur[c] \in Int
        BY <1>0 DEF TypeOK
  <2> QED
      BY <1>0, <2>1, <2>2, <2>3
<1>3. /\ ~in_list' /\ last_id' = c /\ cur_id' = NoList /\ initialized'
      /\ UNCHANGED <<beg, cur, ref_cnt, gen, list_gen>>
      BY <1>1 DEF End
<1>4a. vram' = IF ref_cnt[c] = 1 THEN SetEnd(vram, off[c + 1], TRUE) ELSE vram
      BY <1>1, <1>2 DEF End
<1>4. /\ \A t \in Slots : vram'[t].cmd = vram[t].cmd
      /\ \A t \in Slots : t # off[c + 1] => vram'[t] = vram[t]
      /\ \A t \in Slots : ~vram'[t].end => ~vram[t].end
      /\ ref_cnt[c] # 1 => vram' = vram
      /\ ref_cnt[c] = 1 => vram'[off[c + 1]].end
      BY <1>0, <1>4a DEF SetEnd, TypeOK
<1>5. \A id \in ListIds : id # c => ~IsOpen(id) /\ ~IsOpen(id)'
      BY <1>1, <1>3 DEF IsOpen
<1>6. ref_cnt[c] = 1 => \A id \in ListIds : Used(id) /\ id # c => off[id + 1] <= off[c]
  <2> SUFFICES ASSUME ref_cnt[c] = 1, NEW id \in ListIds, Used(id), id # c
               PROVE  off[id + 1] <= off[c]
      OBVIOUS
  <2>1. id < c
        BY <1>1 DEF SInv, NewestOpen, ListIds
  <2> QED
      BY <2>1, OffApart
<1>7. ref_cnt[c] = 1 => \A id \in ListIds : Used(id) /\ id # c => off[c + 1] \notin off[id] .. off[id + 1] - 1
  <2> SUFFICES ASSUME ref_cnt[c] = 1, NEW id \in ListIds, Used(id), id # c
               PROVE  off[c + 1] \notin off[id] .. off[id + 1] - 1
      OBVIOUS
  <2>1. off[id + 1] <= off[c] /\ off[id + 1] \in Nat
        BY <1>6, OffFacts
  <2> QED
      BY <2>1, <1>0
<1>10. IInv'
      BY NextIInv DEF SInv, Next
<1>11. RefBound' /\ Prefix' /\ PreInit' /\ LastUsed' /\ Fresh' /\ BegAt(off)'
      BY <1>1, <1>3 DEF SInv, RefBound, Prefix, PreInit, LastUsed, Fresh, BegAt, Used,
                        NoList, ListIds
<1>12. CurAt(off)'
      BY <1>2, <1>3, <1>5 DEF SInv, CurAt, Used
<1>13. OpenAt(off)' /\ NewestOpen' /\ OldUnmarked(off)'
      BY <1>3 DEF OpenAt, NewestOpen, OldUnmarked
<1>14. Written(off)'
  <2> SUFFICES ASSUME NEW id \in ListIds, Used(id),
                      NEW s \in off[id] .. off[id + 1] - 1
               PROVE  vram'[s] = [end |-> FALSE, cmd |-> <<id, list_gen[id]>>]
      BY <1>3, <1>5 DEF Written, Used, IsOpen
  <2>1. vram[s] = [end |-> FALSE, cmd |-> <<id, list_gen[id]>>]
    <3>1. CASE id = c
          BY <3>1, <1>1, <1>2 DEF SInv, Written, IsOpen
    <3>2. CASE id # c
          BY <3>2, <1>5 DEF SInv, Written
    <3> QED
        BY <3>1, <3>2
  <2>2. s \in Slots
    <3>1. off[id] \in Nat /\ off[id + 1] \in Nat /\ off[id + 1] < NSlots
          BY OffFacts
    <3> QED
        BY <3>1 DEF Slots
  <2>3. ref_cnt[c] = 1 => s # off[c + 1]
    <3>1. CASE id = c
          BY <3>1, <1>0
    <3>2. CASE id # c
          BY <3>2, <1>7
    <3> QED
        BY <3>1, <3>2
  <2> QED
      BY <2>1, <2>2, <2>3, <1>4
<1>15. Unmarked(off)'
  <2> SUFFICES ASSUME NEW id \in ListIds, Used(id), NEW t \in 0 .. off[id + 1] - 1
               PROVE  ~vram'[t].end
      BY <1>3, <1>5 DEF Unmarked, Used, IsOpen
  <2>1. off[id] \in Nat /\ off[id + 1] \in Nat /\ off[id + 1] < NSlots
        BY OffFacts
  <2>2. t \in Slots
        BY <2>1 DEF Slots
  <2>3. ~vram[t].end
    <3>1. CASE id # c
          BY <3>1, <1>5 DEF SInv, Unmarked
    <3>2. CASE id = c /\ t >= off[c]
      <4>1. t \in off[c] .. cur[c] - 1
            BY <3>2, <1>0, <1>2
      <4>2. IsOpen(c) /\ Used(c)
            BY <1>1 DEF IsOpen
      <4>3. \A u \in off[c] .. cur[c] - 1 :
               vram[u] = [end |-> FALSE, cmd |-> <<c, list_gen[c]>>]
            BY <4>2 DEF SInv, Written
      <4>4. vram[t] = [end |-> FALSE, cmd |-> <<c, list_gen[c]>>]
            BY <4>1, <4>3
      <4> QED
          BY <4>4
    <3>3. CASE id = c /\ t < off[c]
      <4>1. c # 0
            BY <3>3, <1>0
      <4>2. c - 1 \in ListIds /\ c - 1 # c /\ (c - 1) + 1 = c
            BY <4>1 DEF ListIds
      <4>3. Used(c - 1)
        <5>1. c - 1 \in 0 .. c
              BY <4>2 DEF ListIds
        <5> QED
            BY <5>1, <1>1 DEF SInv, Prefix
      <4>4. t \in 0 .. off[(c - 1) + 1] - 1
            BY <3>3, <4>2, <1>0, <2>1
      <4> QED
          BY <4>2, <4>3, <4>4, <1>5 DEF SInv, Unmarked
    <3> QED
        BY <3>1, <3>2, <3>3, <1>0
  <2>4. ref_cnt[c] = 1 => t # off[c + 1]
    <3>1. CASE id = c
          BY <3>1, <1>0
    <3>2. CASE id # c
      <4>1. ref_cnt[c] = 1 => off[id + 1] <= off[c]
            BY <3>2, <1>6
      <4> QED
          BY <4>1, <2>1, <1>0
    <3> QED
        BY <3>1, <3>2
  <2> QED
      BY <2>2, <2>3, <2>4, <1>4
<1>16. ScanGood(off)'
  <2> SUFFICES ASSUME NEW s \in Slots, Reached(s)'
               PROVE  Good(off, s)'
      BY DEF ScanGood
  <2>1. Reached(s)
        BY <1>4 DEF Reached, Slots
  <2>2. ref_cnt[c] = 1 => s < off[c + 1]
    <3> SUFFICES ASSUME ref_cnt[c] = 1, s >= off[c + 1] PROVE FALSE
        BY <1>0 DEF Slots
    <3>1. off[c + 1] \in 0 .. s
          BY <1>0
    <3> QED
        BY <3>1, <1>4 DEF Reached
  <2>3. Good(off, s) \/ Pending(off, s)
        BY <1>1, <2>1 DEF SInv, ScanGood
  <2>4. ~Pending(off, s)
        BY <2>2, <1>0, <1>1, <1>2 DEF Pending, Slots
  <2> QED
      BY <2>3, <2>4, <1>3, <1>4 DEF Good, Used
<1>17. EndAhead(off)'
  <2> SUFFICES \E s \in Slots : s >= 0 /\ vram'[s].end
      BY <1>3 DEF EndAhead
  <2>1. CASE ref_cnt[c] = 1
        BY <2>1, <1>0, <1>4
  <2>2. CASE ref_cnt[c] # 1
    <3>1. ref_cnt[c] >= 2
          BY <2>2, <1>0, <1>1 DEF TypeOK, Used
    <3>2. \E s \in Slots : s >= off[c + 1] /\ vram[s].end
          BY <3>1, <1>1 DEF SInv, EndAhead
    <3> QED
        BY <3>2, <2>2, <1>4 DEF Slots
  <2> QED
      BY <2>1, <2>2
<1> QED
    BY <1>10, <1>11, <1>12, <1>13, <1>14, <1>15, <1>16, <1>17 DEF SInv

(* A draw call within the open list's count writes the slot under its     *)
(* cursor, inside its part of the table.                                   *)
LEMMA DrawSInv ==
    ASSUME NEW off, Ctx(off), SInv(off), Draw,
           \E n \in Len[cur_id] : Drawn(cur_id) < n
    PROVE  SInv(off)'
<1>0. TypeOK /\ in_list /\ cur_id \in ListIds
      BY DEF SInv, IInv, TypeOK, Draw
<1> PICK c \in ListIds : c = cur_id
    BY <1>0
<1> PICK x \in Nat : x = cur[c]
    BY <1>0 DEF TypeOK
<1>1. /\ initialized /\ Used(c) /\ IsOpen(c) /\ beg[c] = off[c]
      /\ x \in off[c] .. off[c + 1]
      BY <1>0 DEF SInv, PreInit, OpenAt, BegAt, IsOpen
<1>2. /\ off[c] \in Nat /\ off[c + 1] \in Nat /\ off[c + 1] < NSlots
      /\ off[c + 1] = off[c] + L(c) /\ Len[c] = {L(c)}
      BY OffFacts
<1>3. x < off[c + 1] /\ x \in Slots
  <2>1. x - off[c] < L(c)
        BY <1>1, <1>2 DEF Drawn
  <2> QED
      BY <2>1, <1>1, <1>2 DEF Slots
<1>4. /\ vram' = [vram EXCEPT ![x] = [end |-> FALSE, cmd |-> <<c, list_gen[c]>>]]
      /\ cur' = [cur EXCEPT ![c] = x + 1]
      /\ UNCHANGED <<initialized, in_list, cur_id, last_id, beg, ref_cnt, gen, list_gen>>
      BY DEF Draw
<1>5. /\ \A t \in Slots : t # x => vram'[t] = vram[t]
      /\ vram'[x] = [end |-> FALSE, cmd |-> <<c, list_gen[c]>>]
      /\ \A t \in Slots : ~vram[t].end => ~vram'[t].end
      BY <1>0, <1>3, <1>4 DEF TypeOK
<1>6. /\ \A id \in ListIds : id # c => ~IsOpen(id) /\ ~IsOpen(id)' /\ cur'[id] = cur[id]
      /\ IsOpen(c)' /\ cur'[c] = x + 1
      BY <1>0, <1>4 DEF IsOpen, TypeOK
<1>7. \A id \in ListIds : Used(id) /\ id # c => x \notin off[id] .. off[id + 1] - 1
  <2> SUFFICES ASSUME NEW id \in ListIds, id # c
               PROVE  x \notin off[id] .. off[id + 1] - 1
      OBVIOUS
  <2>1. off[id] \in Nat /\ off[id + 1] \in Nat
        BY OffFacts
  <2>2. CASE id < c
    <3>1. off[id + 1] <= off[c]
          BY <2>2, OffApart
    <3> QED
        BY <3>1, <2>1, <1>1, <1>2
  <2>3. CASE c < id
    <3>1. off[c + 1] <= off[id]
          BY <2>3, OffApart
    <3> QED
        BY <3>1, <2>1, <1>3, <1>2
  <2> QED
      BY <2>2, <2>3 DEF ListIds
<1>10. IInv'
      BY NextIInv DEF SInv, Next
<1>11. RefBound' /\ Prefix' /\ PreInit' /\ LastUsed' /\ Fresh' /\ BegAt(off)' /\ NewestOpen'
      BY <1>0, <1>1, <1>4 DEF SInv, RefBound, Prefix, PreInit, LastUsed, Fresh, BegAt, Used,
                             NewestOpen
<1>12. CurAt(off)'
      BY <1>4, <1>6 DEF SInv, CurAt, Used
<1>13. OpenAt(off)'
  <2>1. cur_id' = c /\ in_list' /\ Used(c)' /\ cur'[c] = x + 1
        BY <1>0, <1>1, <1>4, <1>6 DEF Used
  <2>2. x + 1 \in off[c] .. off[c + 1]
        BY <1>1, <1>2, <1>3
  <2> QED
      BY <2>1, <2>2 DEF OpenAt
<1>14. Written(off)'
  <2> SUFFICES ASSUME NEW id \in ListIds, Used(id),
                      NEW s \in off[id] .. (IF IsOpen(id)' THEN cur'[id] ELSE off[id + 1]) - 1
               PROVE  vram'[s] = [end |-> FALSE, cmd |-> <<id, list_gen[id]>>]
      BY <1>4 DEF Written, Used
  <2>1. CASE id = c /\ s = x
        BY <2>1, <1>5
  <2>2. CASE id = c /\ s # x
    <3>1. s \in off[c] .. cur[c] - 1
          BY <2>2, <1>6, <1>1, <1>2
    <3>2. vram[s] = [end |-> FALSE, cmd |-> <<c, list_gen[c]>>]
          BY <3>1, <1>1 DEF SInv, Written
    <3>3. s \in Slots
          BY <3>1, <1>3, <1>2 DEF Slots
    <3> QED
        BY <2>2, <3>2, <3>3, <1>5
  <2>3. CASE id # c
    <3>1. s \in off[id] .. off[id + 1] - 1
          BY <2>3, <1>6
    <3>2. vram[s] = [end |-> FALSE, cmd |-> <<id, list_gen[id]>>]
          BY <2>3, <3>1, <1>6 DEF SInv, Written
    <3>3. s \in Slots /\ s # x
      <4>1. off[id] \in Nat /\ off[id + 1] \in Nat /\ off[id + 1] < NSlots
            BY OffFacts
      <4> QED
          BY <3>1, <4>1, <1>7, <2>3 DEF Slots
    <3> QED
        BY <3>2, <3>3, <1>5
  <2> QED
      BY <2>1, <2>2, <2>3
<1>15. Unmarked(off)'
  <2> SUFFICES ASSUME NEW id \in ListIds, Used(id), ~IsOpen(id)',
                      NEW t \in 0 .. off[id + 1] - 1
               PROVE  ~vram'[t].end
      BY <1>4 DEF Unmarked, Used
  <2>1. id # c /\ ~IsOpen(id)
        BY <1>6
  <2>2. ~vram[t].end
        BY <2>1 DEF SInv, Unmarked
  <2>3. t \in Slots
    <3>1. off[id + 1] \in Nat /\ off[id + 1] < NSlots
          BY OffFacts
    <3> QED
        BY <3>1 DEF Slots
  <2> QED
      BY <2>2, <2>3, <1>5
<1>16. OldUnmarked(off)'
  <2> SUFFICES ASSUME ref_cnt[c] >= 2, NEW s \in x + 1 .. off[c + 1] - 1
               PROVE  ~vram'[s].end
      BY <1>4, <1>6 DEF OldUnmarked
  <2>0. s \in cur[cur_id] .. off[cur_id + 1] - 1 /\ in_list
        BY <1>0, <1>1, <1>2
  <2>1. ~vram[s].end
        BY <2>0 DEF SInv, OldUnmarked
  <2> QED
      BY <2>1, <1>5, <1>2, <1>3 DEF Slots
<1>17. ScanGood(off)'
  <2> SUFFICES ASSUME NEW s \in Slots, Reached(s)'
               PROVE  Good(off, s)' \/ Pending(off, s)'
      BY DEF ScanGood
  <2>0. Good(off, s) /\ s # x => Good(off, s)'
        BY <1>4, <1>5 DEF Good, Used
  <2>1. Good(off, s) \/ Pending(off, s) => s >= x \/ Good(off, s)
        BY <1>0 DEF Pending
  <2>2. CASE s < x
    <3>1. Reached(s)
          BY <2>2, <1>5 DEF Reached, Slots
    <3>2. Good(off, s) \/ Pending(off, s)
          BY <3>1, <1>0, <1>1 DEF SInv, ScanGood
    <3>3. Good(off, s)
          BY <3>2, <2>1, <2>2, <1>3 DEF Slots
    <3>4. s # x
          BY <2>2, <1>3 DEF Slots
    <3> QED
        BY <3>3, <3>4, <2>0
  <2>3. CASE s = x
    <3>1. vram'[s].cmd = <<c, list_gen[c]>>
          BY <2>3, <1>5
    <3>2. <<c, list_gen[c]>> # NoCmd
          BY DEF NoCmd, NoList, ListIds
    <3>3. Used(c)' /\ list_gen'[c] = list_gen[c] /\ s \in off[c] .. off[c + 1] - 1
          BY <2>3, <1>1, <1>2, <1>3, <1>4 DEF Used
    <3>4. Good(off, s)'
          BY <3>1, <3>2, <3>3 DEF Good
    <3> QED
        BY <3>4
  <2>4. CASE s > x
    <3>1. ref_cnt[c] = 1 \/ ref_cnt[c] >= 2
          BY <1>0, <1>1 DEF TypeOK, Used
    <3>2. CASE ref_cnt[c] = 1
      <4>1. in_list' /\ cur_id' = c /\ cur'[c] = x + 1 /\ ref_cnt'[c] = 1
            BY <3>2, <1>0, <1>4, <1>6
      <4> QED
          BY <4>1, <2>4, <1>3 DEF Pending, Slots
    <3>3. CASE ref_cnt[c] >= 2
      <4>1. ~vram[x].end
        <5>1. x \in cur[cur_id] .. off[cur_id + 1] - 1
              BY <1>1, <1>2, <1>3
        <5> QED
            BY <5>1, <3>3, <1>0 DEF SInv, OldUnmarked
      <4>2. Reached(s)
        <5> SUFFICES ASSUME NEW t \in 0 .. s PROVE ~vram[t].end
            BY DEF Reached
        <5>1. t \in Slots /\ ~vram'[t].end
              BY DEF Reached, Slots
        <5> QED
            BY <5>1, <4>1, <1>5
      <4>3. Good(off, s) \/ Pending(off, s)
            BY <4>2, <1>0, <1>1 DEF SInv, ScanGood
      <4>4. Pending(off, s) => Pending(off, s)'
            BY <2>4, <1>0, <1>4, <1>6 DEF Pending, Slots
      <4> QED
          BY <4>3, <4>4, <2>0, <2>4
    <3> QED
        BY <3>1, <3>2, <3>3
  <2> QED
      BY <2>2, <2>3, <2>4, <1>3 DEF Slots
<1>18. EndAhead(off)'
  <2> SUFFICES ASSUME ref_cnt[c] >= 2
               PROVE  \E s \in Slots : s >= off[c + 1] /\ vram'[s].end
      BY <1>0, <1>4 DEF EndAhead
  <2>1. PICK s \in Slots : s >= off[c + 1] /\ vram[s].end
        BY <1>0, <1>1 DEF SInv, EndAhead
  <2>2. s # x
        BY <2>1, <1>2, <1>3 DEF Slots
  <2> QED
      BY <2>1, <2>2, <1>5
<1> QED
    BY <1>10, <1>11, <1>12, <1>13, <1>14, <1>15, <1>16, <1>17, <1>18 DEF SInv

(* vdp1_cmdt_list_begin of the next list in order: a list used before     *)
(* restarts at its own start, a new one is rebased onto the end of the    *)
(* list closed last, which is where its packed part starts.               *)
LEMMA BeginSInv ==
    ASSUME NEW off, Ctx(off), SInv(off), NEW c \in ListIds, Begin(c), InOrder(c)
    PROVE  SInv(off)'
<1>0. /\ TypeOK /\ initialized /\ ~in_list /\ gen < MaxGen /\ gen \in Nat
      /\ off[c] \in Nat /\ off[c + 1] \in Nat /\ off[c] <= off[c + 1]
      /\ off[c + 1] < NSlots /\ off[c] \in Slots /\ off[0] = 0
      /\ MaxGen < RefModulus
  <2>1. TypeOK /\ initialized /\ ~in_list /\ gen < MaxGen
        BY DEF SInv, IInv, Begin
  <2>2. gen \in Nat
        BY <2>1 DEF TypeOK, Gens
  <2>3. /\ off[c] \in Nat /\ off[c + 1] \in Nat /\ off[c] <= off[c + 1]
        /\ off[c + 1] < NSlots /\ off[0] = 0
        BY OffFacts
  <2>4. MaxGen < RefModulus
        BY DEF Ctx
  <2> QED
      BY <2>1, <2>2, <2>3, <2>4 DEF Slots
<1>1. /\ ref_cnt' = [ref_cnt EXCEPT ![c] = ref_cnt[c] + 1]
      /\ ref_cnt[c] \in Nat /\ ref_cnt[c] <= gen
  <2>1. ref_cnt[c] \in Nat /\ ref_cnt[c] <= gen
        BY <1>0 DEF SInv, RefBound, TypeOK
  <2>2. ref_cnt[c] + 1 \in 0 .. RefModulus - 1
        BY <2>1, <1>0
  <2>3. (ref_cnt[c] + 1) % RefModulus = ref_cnt[c] + 1
        BY <2>2, <1>0
  <2> QED
      BY <2>1, <2>3 DEF Begin
<1>2. /\ in_list' /\ cur_id' = c /\ initialized' /\ last_id' = last_id
      /\ gen' = gen + 1 /\ list_gen' = [list_gen EXCEPT ![c] = gen + 1]
      BY <1>0 DEF Begin
<1>3. \A id \in ListIds : Used(id)' <=> Used(id) \/ id = c
      BY <1>1, <1>0 DEF Used, TypeOK
<1>4. ~in_list /\ last_id # NoList => Used(last_id) /\ cur[last_id] = off[last_id + 1]
                                      /\ last_id \in ListIds
      BY <1>0 DEF SInv, LastUsed, CurAt, IsOpen, TypeOK
<1>5. Used(c) => last_id # NoList
      BY <1>0 DEF SInv, Fresh
<1>6. /\ beg'[c] = off[c] /\ cur'[c] = off[c]
      /\ \A id \in ListIds : id # c => beg'[id] = beg[id] /\ cur'[id] = cur[id]
      /\ \A t \in Slots : /\ vram'[t].cmd = vram[t].cmd
                          /\ ~vram[t].end => ~vram'[t].end
                          /\ t # off[c] => vram'[t] = vram[t]
      /\ Used(c) => vram' = vram
      /\ ~Used(c) => \A j \in 0 .. c - 1 : Used(j)
      /\ ~Used(c) => \A id \in ListIds : Used(id) => id < c
  <2>1. CASE last_id = NoList
    <3>1. c = 0
          BY <2>1 DEF InOrder
    <3>2. \A id \in ListIds : ~Used(id) /\ beg[0] = 0 /\ cur[0] = 0
          BY <2>1, <1>0 DEF SInv, Fresh
    <3>3. UNCHANGED <<beg, cur, vram>>
          BY <2>1 DEF Begin
    <3> QED
        BY <3>1, <3>2, <3>3, <1>0 DEF TypeOK
  <2>2. CASE last_id # NoList /\ ref_cnt[c] = 0
    <3>1. Used(last_id) /\ cur[last_id] = off[last_id + 1] /\ last_id \in ListIds
          BY <2>2, <1>4, <1>0
    <3>2. \A j \in 0 .. last_id : Used(j)
          BY <3>1 DEF SInv, Prefix
    <3>3. c = last_id + 1
      <4>1. 0 \in 0 .. last_id /\ ~Used(c)
            BY <3>1, <2>2 DEF ListIds, Used
      <4> QED
          BY <4>1, <3>2 DEF InOrder
    <3>4. \A id \in ListIds : Used(id) => id < c
      <4> SUFFICES ASSUME NEW id \in ListIds, Used(id), id >= c PROVE FALSE
          BY DEF ListIds
      <4>1. c \in 0 .. id
            BY <3>3, <3>1 DEF ListIds
      <4> QED
          BY <4>1, <2>2 DEF SInv, Prefix, Used
    <3>5. /\ vram' = SetEnd(vram, off[c], FALSE)
          /\ beg' = [beg EXCEPT ![c] = off[c]]
          /\ cur' = [cur EXCEPT ![c] = off[c]]
          BY <2>2, <3>1, <3>3 DEF Begin
    <3>6. \A t \in Slots : /\ vram'[t].cmd = vram[t].cmd
                           /\ ~vram[t].end => ~vram'[t].end
                           /\ t # off[c] => vram'[t] = vram[t]
          BY <3>5, <1>0 DEF SetEnd, TypeOK
    <3>7. \A j \in 0 .. c - 1 : Used(j)
          BY <3>2, <3>3, <3>1 DEF ListIds
    <3>8. ~Used(c)
          BY <2>2 DEF Used
    <3>9. /\ beg'[c] = off[c] /\ cur'[c] = off[c]
          /\ \A id \in ListIds : id # c => beg'[id] = beg[id] /\ cur'[id] = cur[id]
          BY <3>5, <1>0 DEF TypeOK
    <3> QED
        BY <3>4, <3>6, <3>7, <3>8, <3>9
  <2>3. CASE last_id # NoList /\ ref_cnt[c] # 0
    <3>1. Used(c)
          BY <2>3, <1>1 DEF Used
    <3>2. beg[c] = off[c]
          BY <3>1 DEF SInv, BegAt
    <3>3. /\ cur' = [cur EXCEPT ![c] = beg[c]] /\ UNCHANGED <<beg, vram>>
          BY <2>3 DEF Begin
    <3> QED
        BY <3>1, <3>2, <3>3, <1>0 DEF TypeOK
  <2> QED
      BY <2>1, <2>2, <2>3
<1>7. \A id \in ListIds : id # c => ~IsOpen(id) /\ ~IsOpen(id)'
      BY <1>0, <1>2 DEF IsOpen
<1>8. IsOpen(c)' /\ ~IsOpen(c)
      BY <1>0, <1>2 DEF IsOpen
<1>9. ASSUME NEW s \in Slots, Good(off, s), vram'[s].cmd = vram[s].cmd,
             vram[s].cmd[1] # c
      PROVE  Good(off, s)'
  <2>1. vram[s].cmd \in ListIds \X (1 .. MaxGen)
        BY <1>9, <1>0 DEF Good, TypeOK, Cmds
  <2>2. Used(vram[s].cmd[1])' /\ list_gen'[vram[s].cmd[1]] = list_gen[vram[s].cmd[1]]
        BY <2>1, <1>9, <1>3, <1>2, <1>0 DEF Good, TypeOK
  <2> QED
      BY <2>2, <1>9 DEF Good
<1>10. IInv'
      BY NextIInv DEF SInv, Next
<1>11. RefBound'
      BY <1>1, <1>2, <1>0 DEF SInv, RefBound, TypeOK
<1>12. Prefix'
  <2> SUFFICES ASSUME NEW id \in ListIds, Used(id)', NEW j \in 0 .. id
               PROVE  Used(j)'
      BY DEF Prefix
  <2>1. j \in ListIds
        BY DEF ListIds
  <2>2. CASE Used(id)
        BY <2>2, <2>1, <1>3 DEF SInv, Prefix
  <2>3. CASE ~Used(id)
    <3>1. id = c /\ ~Used(c)
          BY <2>3, <1>3
    <3> QED
        BY <3>1, <2>1, <1>3, <1>6 DEF ListIds
  <2> QED
      BY <2>2, <2>3
<1>13. PreInit' /\ LastUsed' /\ Fresh' /\ BegAt(off)' /\ CurAt(off)' /\ OpenAt(off)'
  <2>1. PreInit' /\ Fresh'
        BY <1>2 DEF PreInit, Fresh
  <2>2. LastUsed'
        BY <1>2, <1>3, <1>0 DEF SInv, LastUsed, TypeOK
  <2>3. BegAt(off)'
        BY <1>3, <1>6 DEF SInv, BegAt
  <2>4. CurAt(off)'
        BY <1>3, <1>6, <1>7, <1>8 DEF SInv, CurAt
  <2>5. OpenAt(off)'
        BY <1>2, <1>3, <1>6, <1>0 DEF OpenAt
  <2> QED
      BY <2>1, <2>2, <2>3, <2>4, <2>5
<1>14. NewestOpen'
  <2> SUFFICES ASSUME ref_cnt'[c] = 1, NEW id \in ListIds, Used(id)'
               PROVE  id <= c
      BY <1>2 DEF NewestOpen
  <2>1. ~Used(c)
        BY <1>1, <1>0 DEF Used, TypeOK
  <2> QED
      BY <2>1, <1>3, <1>6 DEF ListIds
<1>15. Written(off)'
  <2> SUFFICES ASSUME NEW id \in ListIds, Used(id)',
                      NEW s \in off[id] .. (IF IsOpen(id)' THEN cur'[id] ELSE off[id + 1]) - 1
               PROVE  vram'[s] = [end |-> FALSE, cmd |-> <<id, list_gen'[id]>>]
      BY DEF Written
  <2>1. id # c
        BY <1>8, <1>6, <1>0
  <2>2. Used(id) /\ s \in off[id] .. off[id + 1] - 1 /\ list_gen'[id] = list_gen[id]
        BY <2>1, <1>3, <1>7, <1>2, <1>0 DEF TypeOK
  <2>3. vram[s] = [end |-> FALSE, cmd |-> <<id, list_gen[id]>>]
        BY <2>1, <2>2, <1>7 DEF SInv, Written
  <2>4. off[id] \in Nat /\ off[id + 1] \in Nat /\ off[id + 1] < NSlots
        BY OffFacts
  <2>5. s \in Slots
        BY <2>2, <2>4 DEF Slots
  <2>6. CASE Used(c)
    <3>1. vram' = vram
          BY <2>6, <1>6
    <3> QED
        BY <3>1, <2>2, <2>3
  <2>7. CASE ~Used(c)
    <3>1. off[id + 1] <= off[c]
          BY <2>7, <2>2, <1>6, OffApart
    <3>2. s # off[c]
          BY <3>1, <2>2, <2>4, <1>0
    <3> QED
        BY <3>2, <2>2, <2>3, <2>5, <1>6
  <2> QED
      BY <2>6, <2>7
<1>16. Unmarked(off)'
  <2> SUFFICES ASSUME NEW id \in ListIds, Used(id)', ~IsOpen(id)',
                      NEW t \in 0 .. off[id + 1] - 1
               PROVE  ~vram'[t].end
      BY DEF Unmarked
  <2>1. id # c /\ Used(id) /\ ~IsOpen(id)
        BY <1>8, <1>3, <1>7
  <2>2. ~vram[t].end
        BY <2>1 DEF SInv, Unmarked
  <2>3. t \in Slots
    <3>1. off[id + 1] \in Nat /\ off[id + 1] < NSlots
          BY OffFacts
    <3> QED
        BY <3>1 DEF Slots
  <2> QED
      BY <2>2, <2>3, <1>6
<1>17. Used(c) => \A t \in 0 .. off[c + 1] - 1 : ~vram[t].end
      BY <1>8 DEF SInv, Unmarked
<1>18. OldUnmarked(off)'
  <2> SUFFICES ASSUME ref_cnt'[c] >= 2, NEW s \in cur'[c] .. off[c + 1] - 1
               PROVE  ~vram'[s].end
      BY <1>2 DEF OldUnmarked
  <2>1. Used(c)
        BY <1>1, <1>0 DEF Used, TypeOK
  <2>2. s \in 0 .. off[c + 1] - 1 /\ s \in Slots
        BY <1>6, <1>0 DEF Slots
  <2> QED
      BY <2>1, <2>2, <1>17, <1>6
<1>19. ScanGood(off)'
  <2> SUFFICES ASSUME NEW s \in Slots, Reached(s)'
               PROVE  Good(off, s)' \/ Pending(off, s)'
      BY DEF ScanGood
  <2>0. s >= off[c] /\ (ref_cnt'[c] = 1 \/ s < off[c + 1]) => Pending(off, s)'
        BY <1>2, <1>6 DEF Pending
  <2>1. CASE ~Used(c)
    <3>1. ref_cnt'[c] = 1
          BY <2>1, <1>1, <1>0 DEF Used, TypeOK
    <3>2. CASE s >= off[c]
          BY <3>1, <3>2, <2>0
    <3>3. CASE s < off[c]
      <4>1. last_id # NoList
        <5>1. c # 0
              BY <3>3, <1>0 DEF Slots
        <5> QED
            BY <5>1 DEF InOrder
      <4>2. Reached(s)
        <5> SUFFICES ASSUME NEW t \in 0 .. s PROVE ~vram[t].end
            BY DEF Reached
        <5>1. t \in Slots /\ t # off[c] /\ ~vram'[t].end
              BY <3>3, <1>0 DEF Reached, Slots
        <5> QED
            BY <5>1, <1>6
      <4>3. Good(off, s)
            BY <4>1, <4>2, <1>0 DEF SInv, ScanGood, Pending
      <4>4. vram[s].cmd[1] # c /\ s # off[c]
            BY <4>3, <2>1, <3>3, <1>0 DEF Good, Slots
      <4> QED
          BY <4>3, <4>4, <1>6, <1>9
    <3> QED
        BY <3>2, <3>3, <1>0 DEF Slots
  <2>2. CASE Used(c)
    <3>1. vram' = vram /\ last_id # NoList
          BY <2>2, <1>5, <1>6
    <3>2. Reached(s)
          BY <3>1 DEF Reached
    <3>3. Good(off, s)
          BY <3>1, <3>2, <1>0 DEF SInv, ScanGood, Pending
    <3>4. CASE vram[s].cmd[1] = c
      <4>1. s \in off[c] .. off[c + 1] - 1
            BY <3>3, <3>4 DEF Good
      <4> QED
          BY <4>1, <2>0, <1>0 DEF Slots
    <3>5. CASE vram[s].cmd[1] # c
          BY <3>1, <3>3, <3>5, <1>9
    <3> QED
        BY <3>4, <3>5
  <2> QED
      BY <2>1, <2>2
<1>20. EndAhead(off)'
  <2> SUFFICES ASSUME ref_cnt'[c] >= 2
               PROVE  \E s \in Slots : s >= off[c + 1] /\ vram'[s].end
      BY <1>2 DEF EndAhead
  <2>1. Used(c) /\ vram' = vram /\ last_id # NoList
        BY <1>1, <1>0, <1>5, <1>6 DEF Used, TypeOK
  <2>2. PICK s \in Slots : s >= 0 /\ vram[s].end
        BY <2>1, <1>0 DEF SInv, EndAhead
  <2>3. ~(s \in 0 .. off[c + 1] - 1)
        BY <2>1, <2>2, <1>17
  <2> QED
      BY <2>1, <2>2, <2>3, <1>0 DEF Slots
<1> QED
    BY <1>10, <1>11, <1>12, <1>13, <1>14, <1>15, <1>16, <1>18, <1>19, <1>20 DEF SInv

(* Every step of SceneSpec keeps the invariant.                            *)
LEMMA SceneStep ==
    ASSUME NEW off, Ctx(off), SInv(off), [SceneNext]_vars
    PROVE  SInv(off)'
<1>1. CASE ~in_list /\ ListInit
      BY <1>1, ListInitSInv
<1>2. CASE \E c \in ListIds : Begin(c) /\ InOrder(c)
      BY <1>2, BeginSInv
<1>3. CASE Draw /\ \E n \in Len[cur_id] : Drawn(cur_id) < n
      BY <1>3, DrawSInv
<1>4. CASE \E c \in ListIds : End(c) /\ Drawn(c) \in Len[c]
      BY <1>4, EndSInv
<1>5. CASE UNCHANGED vars
      BY <1>5 DEF vars, SInv, IInv, TypeOK, GenOK, HoleFree, RefBound, Prefix, PreInit,
                  LastUsed, Fresh, BegAt, CurAt, OpenAt, NewestOpen, Written,
                  Unmarked, OldUnmarked, ScanGood, EndAhead, Used, IsOpen, Good,
                  Pending, Reached
<1> QED
    BY <1>1, <1>2, <1>3, <1>4, <1>5 DEF SceneNext, SceneDrawEnd

(* Driven the way a game drives it (each frame begins its lists from list *)
(* 0 up, each list draws its one count of commands), the arena always     *)
(* shows exactly the current commands once no list is open: the scan      *)
(* stops inside the table, executes only commands of the latest begin of *)
(* lists in use, and executes all of them (vdp1_cmdt_list_begin rebasing   *)
(* and undoing the END bit, vdp1_cmdt_list_end marking on a count of 1),  *)
(* for every number of lists and slots when the packed lists fit in the   *)
(* table and the reference counts cannot wrap.                             *)
THEOREM SceneDisplayCurrent ==
    ASSUME SceneFits
    PROVE  SceneSpec => []DisplayCurrent
<1>1. PICK off : Ctx(off)
      BY CtxOfFits
<1>2. Init => SInv(off)
      BY InitSInv
<1>3. SInv(off) /\ [SceneNext]_vars => SInv(off)'
      BY <1>1, SceneStep
<1>4. SInv(off) => DisplayCurrent
      BY <1>1, SInvDisplay
<1> QED
    BY <1>2, <1>3, <1>4, PTL DEF SceneSpec
=============================================================================
