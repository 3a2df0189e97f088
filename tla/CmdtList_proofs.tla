-------------------------- MODULE CmdtList_proofs ---------------------------
(***************************************************************************)
(* Proofs about the command-table list arena (CmdtList), for every number *)
(* of lists and slots, every counter width and every bound.               *)
(***************************************************************************)
EXTENDS CmdtList, TLAPS

USE ConstAssumption

(* Initially no slot is a hole: _internal_vdp_init marks every slot.      *)
LEMMA InitIInv == Init => IInv
<1> SUFFICES ASSUME Init PROVE IInv
    OBVIOUS
<1>1. NoCmd \in Cmds
  BY DEF Cmds
<1>2. vram \in [Slots -> [end : BOOLEAN, cmd : Cmds]]
  BY <1>1 DEF Init
<1>3. /\ beg \in [ListIds -> 0 .. NSlots]
      /\ cur \in [ListIds -> 0 .. NSlots]
      /\ ref_cnt \in [ListIds -> 0 .. RefModulus - 1]
      /\ list_gen \in [ListIds -> Gens]
  BY DEF Init, Gens
<1>4. initialized = FALSE /\ in_list = FALSE /\ cur_id = 0 /\ last_id = 0 /\ gen = 0
  BY DEF Init
<1>7. cur_id \in ListIds \cup {NoList} /\ last_id \in ListIds \cup {NoList}
  BY <1>4 DEF ListIds
<1>8. gen \in Gens
  BY <1>4 DEF Gens
<1>6. TypeOK
  BY <1>2, <1>3, <1>4, <1>7, <1>8 DEF TypeOK
<1>5. GenOK /\ HoleFree
  BY DEF Init, GenOK, HoleFree
<1>. QED
  BY <1>6, <1>5 DEF IInv

(* SetEnd keeps the command table well typed and only touches slot s.     *)
LEMMA SetEndType ==
    ASSUME NEW v \in [Slots -> [end : BOOLEAN, cmd : Cmds]], NEW s, NEW b \in BOOLEAN
    PROVE  /\ SetEnd(v, s, b) \in [Slots -> [end : BOOLEAN, cmd : Cmds]]
           /\ \A t \in Slots : SetEnd(v, s, b)[t].cmd = v[t].cmd
           /\ \A t \in Slots : t # s => SetEnd(v, s, b)[t] = v[t]
           /\ s \in Slots => SetEnd(v, s, b)[s].end = b
BY DEF SetEnd

(* TypeOK /\ GenOK, the part of the invariant that is about types.        *)
TG == TypeOK /\ GenOK

LEMMA ListInitType == ASSUME TG, ListInit PROVE TG'
<1>1. /\ initialized' \in BOOLEAN /\ in_list' \in BOOLEAN
      /\ (in_list' => cur_id' \in ListIds) /\ GenOK'
  BY DEF ListInit, GenOK
<1>2. cur_id' \in ListIds \cup {NoList} /\ last_id' \in ListIds \cup {NoList}
  BY DEF ListInit, ListIds, NoList
<1>3. /\ beg' \in [ListIds -> 0 .. NSlots] /\ cur' \in [ListIds -> 0 .. NSlots]
      /\ ref_cnt' \in [ListIds -> 0 .. RefModulus - 1]
  BY DEF ListInit
<1>4. /\ vram' \in [Slots -> [end : BOOLEAN, cmd : Cmds]]
      /\ gen' \in Gens /\ list_gen' \in [ListIds -> Gens]
  BY DEF ListInit, TG, TypeOK
<1>. QED
  BY <1>1, <1>2, <1>3, <1>4 DEF TG, TypeOK

LEMMA BeginType == ASSUME TG, NEW id \in ListIds, Begin(id) PROVE TG'
<1>1. /\ initialized' \in BOOLEAN /\ in_list' /\ cur_id' = id
      /\ last_id' \in ListIds \cup {NoList}
  BY DEF Begin, TG, TypeOK
<1>2. ref_cnt' \in [ListIds -> 0 .. RefModulus - 1]
  <2>1. (ref_cnt[id] + 1) % RefModulus \in 0 .. RefModulus - 1
    BY DEF TG, TypeOK
  <2>. QED
    BY <2>1 DEF TG, TypeOK, Begin
<1>3. gen' \in Gens /\ list_gen' \in [ListIds -> Gens] /\ list_gen'[id] \in 1 .. MaxGen
  BY DEF TG, TypeOK, Begin, Gens
<1>4. /\ vram' \in [Slots -> [end : BOOLEAN, cmd : Cmds]]
      /\ beg' \in [ListIds -> 0 .. NSlots] /\ cur' \in [ListIds -> 0 .. NSlots]
  <2>1. CASE last_id = NoList
    BY <2>1 DEF TG, TypeOK, Begin
  <2>2. CASE last_id # NoList /\ ref_cnt[id] = 0
    <3>1. /\ vram' = SetEnd(vram, cur[last_id], FALSE)
          /\ beg' = [beg EXCEPT ![id] = cur[last_id]]
          /\ cur' = [cur EXCEPT ![id] = cur[last_id]]
      BY <2>2 DEF Begin
    <3>2. cur[last_id] \in 0 .. NSlots
      BY <2>2 DEF TG, TypeOK, NoList
    <3>. QED
      BY <3>1, <3>2 DEF TG, TypeOK, SetEnd
  <2>3. CASE last_id # NoList /\ ref_cnt[id] # 0
    BY <2>3 DEF TG, TypeOK, Begin
  <2>. QED
    BY <2>1, <2>2, <2>3
<1>. QED
  BY <1>1, <1>2, <1>3, <1>4 DEF TG, TypeOK, GenOK

LEMMA DrawType == ASSUME TG, Draw PROVE TG'
<1>1. cur_id \in ListIds /\ list_gen[cur_id] \in 1 .. MaxGen /\ in_list
  BY DEF TG, TypeOK, GenOK, Draw
<1>2. vram' \in [Slots -> [end : BOOLEAN, cmd : Cmds]]
  BY <1>1 DEF TG, TypeOK, Draw, Cmds, Slots
<1>3. cur' \in [ListIds -> 0 .. NSlots]
  BY <1>1 DEF TG, TypeOK, Draw
<1>4. UNCHANGED <<initialized, in_list, cur_id, last_id, beg, ref_cnt, gen, list_gen>>
  BY DEF Draw
<1>. QED
  BY <1>1, <1>2, <1>3, <1>4 DEF TG, TypeOK, GenOK

LEMMA EndType == ASSUME TG, NEW id \in ListIds, End(id) PROVE TG'
<1>1. /\ in_list' = FALSE /\ cur_id' = NoList /\ last_id' = id
      /\ UNCHANGED <<initialized, beg, cur, ref_cnt, gen, list_gen>>
  BY DEF End
<1>2. vram' \in [Slots -> [end : BOOLEAN, cmd : Cmds]]
  BY SetEndType DEF TG, TypeOK, End
<1>3. cur_id' \in ListIds \cup {NoList} /\ last_id' \in ListIds \cup {NoList}
  BY <1>1
<1>4. in_list' \in BOOLEAN /\ (in_list' => cur_id' \in ListIds)
  BY <1>1
<1>5. GenOK'
  BY <1>1 DEF GenOK
<1>. QED
  BY <1>1, <1>2, <1>3, <1>4, <1>5 DEF TG, TypeOK

LEMMA ClearType == ASSUME TG, (\E id \in ListIds : Clear(id)) \/ ClearAll PROVE TG'
<1>1. ref_cnt' \in [ListIds -> 0 .. RefModulus - 1]
  BY DEF TG, TypeOK, Clear, ClearAll
<1>2. UNCHANGED <<initialized, in_list, cur_id, last_id, beg, cur, vram, gen, list_gen>>
  BY DEF Clear, ClearAll
<1>. QED
  BY <1>1, <1>2 DEF TG, TypeOK, GenOK

(* HoleFree after each step.                                              *)
LEMMA BeginHole == ASSUME IInv, NEW id \in ListIds, Begin(id) PROVE HoleFree'
<1>1. ~in_list /\ in_list' /\ cur_id' = id
  BY DEF Begin
<1>2. \A s \in Slots : ~(~vram[s].end /\ vram[s].cmd = NoCmd)
  BY <1>1 DEF IInv, HoleFree
<1>3. CASE last_id = NoList \/ ref_cnt[id] # 0
  BY <1>2, <1>3 DEF Begin, HoleFree
<1>4. CASE last_id # NoList /\ ref_cnt[id] = 0
  <2>1. /\ vram' = SetEnd(vram, cur[last_id], FALSE)
        /\ cur'[id] = cur[last_id]
        /\ ref_cnt'[id] = (ref_cnt[id] + 1) % RefModulus
    BY <1>4 DEF Begin, IInv, TypeOK
  <2>2. ref_cnt'[id] = 1
    BY <1>4, <2>1
  <2>3. \A s \in Slots : s # cur[last_id] => vram'[s] = vram[s]
    BY <2>1 DEF SetEnd
  <2>. QED
    BY <1>1, <1>2, <2>1, <2>2, <2>3 DEF HoleFree
<1>. QED
  BY <1>3, <1>4

LEMMA DrawHole == ASSUME IInv, Draw PROVE HoleFree'
<1>1. cur_id \in ListIds /\ in_list /\ cur[cur_id] \in Slots
  BY DEF IInv, TypeOK, Draw, Slots
<1>2. /\ vram'[cur[cur_id]].cmd # NoCmd
      /\ \A s \in Slots : s # cur[cur_id] => vram'[s] = vram[s]
  BY <1>1 DEF Draw, NoCmd, IInv, TypeOK, ListIds, NoList
<1>3. \A s \in Slots : s # cur[cur_id] => ~(~vram[s].end /\ vram[s].cmd = NoCmd)
  BY <1>1 DEF IInv, HoleFree
<1>. QED
  BY <1>2, <1>3 DEF HoleFree

LEMMA EndHole == ASSUME IInv, NEW id \in ListIds, End(id) PROVE HoleFree'
<1>1. cur_id = id /\ in_list
  BY DEF End
<1>2. CASE ref_cnt[id] = 1
  <2>1. vram' = SetEnd(vram, cur[id], TRUE)
    BY <1>2 DEF End
  <2>2. \A s \in Slots : s # cur[id] => vram'[s] = vram[s]
    BY <2>1 DEF SetEnd
  <2>3. cur[id] \in Slots => vram'[cur[id]].end
    BY <2>1, SetEndType DEF IInv, TypeOK
  <2>. QED
    BY <1>1, <2>2, <2>3 DEF IInv, HoleFree
<1>3. CASE ref_cnt[id] # 1
  BY <1>1, <1>3 DEF End, IInv, HoleFree
<1>. QED
  BY <1>2, <1>3

(* Every step keeps the invariant.                                        *)
LEMMA NextIInv == IInv /\ [Next]_vars => IInv'
<1> SUFFICES ASSUME IInv, [Next]_vars PROVE IInv'
    OBVIOUS
<1>0. TG
  BY DEF IInv, TG
<1>1. CASE ~in_list /\ ListInit
  BY <1>0, <1>1, ListInitType DEF TG, IInv, ListInit, HoleFree
<1>2. ASSUME NEW id \in ListIds, Begin(id) PROVE IInv'
  BY <1>0, <1>2, BeginType, BeginHole DEF TG, IInv
<1>3. CASE Draw
  BY <1>0, <1>3, DrawType, DrawHole DEF TG, IInv
<1>4. ASSUME NEW id \in ListIds, End(id) PROVE IInv'
  BY <1>0, <1>4, EndType, EndHole DEF TG, IInv
<1>5. CASE (\E id \in ListIds : Clear(id)) \/ ClearAll
  <2>1. ~in_list /\ UNCHANGED vram
    BY <1>5 DEF Clear, ClearAll
  <2>. QED
    BY <1>0, <1>5, <2>1, ClearType DEF TG, IInv, HoleFree
<1>6. CASE UNCHANGED vars
  <2>1. UNCHANGED <<initialized, in_list, cur_id, last_id, beg, cur, ref_cnt,
                    vram, gen, list_gen>>
    BY <1>6 DEF vars
  <2>2. TypeOK'
    BY <1>0, <2>1 DEF TG, TypeOK
  <2>3. GenOK'
    BY <1>0, <2>1 DEF TG, GenOK
  <2>4. HoleFree'
    BY <2>1 DEF IInv, HoleFree
  <2>. QED
    BY <2>2, <2>3, <2>4 DEF IInv
<1>. QED
  BY <1>1, <1>2, <1>3, <1>4, <1>5, <1>6, Zenon DEF Next

(* The invariant gives the property: with no list open there is no hole  *)
(* at all, so none among the slots the VDP1 executes.                     *)
LEMMA IInvNoHole == IInv => NoHoleInChain
<1> SUFFICES ASSUME IInv, ~in_list, NEW s \in Scanned PROVE vram[s].cmd # NoCmd
    BY DEF NoHoleInChain
<1>1. s \in Slots /\ ~vram[s].end
  BY DEF Scanned, Slots
<1>. QED
  BY <1>1 DEF IInv, HoleFree

(* Type correctness of the arena for every sequence of calls.             *)
THEOREM TypeCorrect == Spec => []TypeOK
<1>1. Init => IInv
  BY InitIInv
<1>2. IInv /\ [Next]_vars => IInv'
  BY NextIInv
<1>3. IInv => TypeOK
  BY DEF IInv
<1>. QED
  BY <1>1, <1>2, <1>3, PTL DEF Spec

(* Whatever sequence of begin/draw/end/clear calls the application makes, *)
(* whenever no list is open the VDP1 never executes a command-table slot  *)
(* that no draw call wrote (vdp1_cmdt_list_begin undo, _end marking).     *)
THEOREM NoHole == Spec => []NoHoleInChain
<1>1. Init => IInv
  BY InitIInv
<1>2. IInv /\ [Next]_vars => IInv'
  BY NextIInv
<1>3. IInv => NoHoleInChain
  BY IInvNoHole
<1>. QED
  BY <1>1, <1>2, <1>3, PTL DEF Spec
=============================================================================
