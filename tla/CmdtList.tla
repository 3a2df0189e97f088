------------------------------ MODULE CmdtList ------------------------------
(***************************************************************************)
(* The VDP1 command-table list arena of libyaul                            *)
(* (src/libyaul/scu/bus/b/vdp1/vdp1_cmdt.c).                               *)
(*                                                                         *)
(* Up to VDP1_CMDT_LIST_CNT lists share one command table in VDP1 VRAM.    *)
(* A list is bracketed by vdp1_cmdt_list_begin/_end; every draw call       *)
(* between them writes the slot under the open list's cursor and advances  *)
(* it.  There is no length field: the VDP1 starts at slot 0 and executes   *)
(* slots in order until one has the END bit (bit 15 of CMDCTRL) set.       *)
(* The first time a list is begun after another list was closed it is      *)
(* rebased onto that list's end cursor, and that slot's END bit is         *)
(* cleared (chaining).  _end sets the END bit on the slot under the        *)
(* cursor only when the list's reference count is exactly 1.               *)
(*                                                                         *)
(* A slot is abstracted to its END bit and to which begin of which list    *)
(* wrote it: <<list id, generation>>, generation being a history counter   *)
(* of begins (not in the code) that lets properties tell a command drawn   *)
(* this time from a stale one.  Writes past the table land outside the     *)
(* modelled memory and are not recorded.                                   *)
(***************************************************************************)
EXTENDS Integers

CONSTANTS
    ListCnt,     \* VDP1_CMDT_LIST_CNT (32 in the code)
    NSlots,      \* number of command-table slots in VDP1 VRAM
    RefModulus,  \* ctl_ref_cnt is a uint32_t: 2^32 in the code
    MaxGen       \* model bound: total number of list begins explored

ASSUME ConstAssumption ==
    /\ ListCnt \in Nat \ {0}
    /\ NSlots \in Nat \ {0}
    /\ RefModulus \in Nat /\ RefModulus > 1
    /\ MaxGen \in Nat

ListIds == 0 .. ListCnt - 1
Slots   == 0 .. NSlots - 1
NoList  == -1                          \* cts_cur_id / cts_last_id = -1
Gens    == 0 .. MaxGen
NoCmd   == <<NoList, 0>>               \* a slot no draw call has written
Cmds    == (ListIds \X (1 .. MaxGen)) \cup {NoCmd}

VARIABLES
    initialized,  \* cts_initialized
    in_list,      \* cts_in_list
    cur_id,       \* cts_cur_id
    last_id,      \* cts_last_id
    beg,          \* ctl_beg_cmdt of every list, as a slot index
    cur,          \* ctl_cur_cmdt of every list, as a slot index
    ref_cnt,      \* ctl_ref_cnt of every list
    vram,         \* the command table: END bit and writer of every slot
    gen,          \* history: number of begins so far
    list_gen      \* history: generation of each list's latest begin

vars == <<initialized, in_list, cur_id, last_id, beg, cur, ref_cnt, vram,
          gen, list_gen>>

(* Writing the END bit of slot s to b; a slot past the table is outside   *)
(* the modelled memory.                                                    *)
SetEnd(v, s, b) == IF s \in Slots THEN [v EXCEPT ![s].end = b] ELSE v

(***************************************************************************)
(* Process start: static data is zero, and _internal_vdp_init has cleared *)
(* VDP1 VRAM with 0x8000, so every slot has its END bit set.              *)
(***************************************************************************)
Init ==
    /\ initialized = FALSE
    /\ in_list = FALSE
    /\ cur_id = 0
    /\ last_id = 0
    /\ beg = [id \in ListIds |-> 0]
    /\ cur = [id \in ListIds |-> 0]
    /\ ref_cnt = [id \in ListIds |-> 0]
    /\ vram = [s \in Slots |-> [end |-> TRUE, cmd |-> NoCmd]]
    /\ gen = 0
    /\ list_gen = [id \in ListIds |-> 0]

(* vdp1_cmdt_list_init: every list back at CMD_TABLE(0, 0), count 0.      *)
ListInit ==
    /\ initialized' = TRUE
    /\ in_list' = FALSE
    /\ cur_id' = NoList
    /\ last_id' = NoList
    /\ beg' = [id \in ListIds |-> 0]
    /\ cur' = [id \in ListIds |-> 0]
    /\ ref_cnt' = [id \in ListIds |-> 0]
    /\ UNCHANGED <<vram, gen, list_gen>>

(* Mutant: the rebase skips the undone END slot instead of reusing it.    *)
Begin_SkipMarker(id) ==
    /\ initialized
    /\ ~in_list
    /\ gen < MaxGen
    /\ in_list' = TRUE
    /\ cur_id' = id
    /\ IF last_id = NoList
          THEN UNCHANGED <<beg, cur, vram>>
       ELSE IF ref_cnt[id] = 0
          THEN /\ vram' = SetEnd(vram, cur[last_id], FALSE)
               /\ beg' = [beg EXCEPT ![id] = cur[last_id] + 1]
               /\ cur' = [cur EXCEPT ![id] = cur[last_id] + 1]
          ELSE /\ cur' = [cur EXCEPT ![id] = beg[id]]
               /\ UNCHANGED <<beg, vram>>
    /\ ref_cnt' = [ref_cnt EXCEPT ![id] = (@ + 1) % RefModulus]
    /\ gen' = gen + 1
    /\ list_gen' = [list_gen EXCEPT ![id] = gen + 1]
    /\ UNCHANGED <<initialized, last_id>>

(* vdp1_cmdt_list_begin(id).  A list never used since the last clear is   *)
(* rebased onto the end cursor of the list closed last, whose END bit is  *)
(* undone; a used list restarts at its own start.                         *)
Begin(id) ==
    /\ initialized
    /\ ~in_list
    /\ gen < MaxGen
    /\ in_list' = TRUE
    /\ cur_id' = id
    /\ IF last_id = NoList
          THEN UNCHANGED <<beg, cur, vram>>
       ELSE IF ref_cnt[id] = 0
          THEN /\ vram' = SetEnd(vram, cur[last_id], FALSE)
               /\ beg' = [beg EXCEPT ![id] = cur[last_id]]
               /\ cur' = [cur EXCEPT ![id] = cur[last_id]]
          ELSE /\ cur' = [cur EXCEPT ![id] = beg[id]]
               /\ UNCHANGED <<beg, vram>>
    /\ ref_cnt' = [ref_cnt EXCEPT ![id] = (@ + 1) % RefModulus]
    /\ gen' = gen + 1
    /\ list_gen' = [list_gen EXCEPT ![id] = gen + 1]
    /\ UNCHANGED <<initialized, last_id>>

(* Any draw call (cmdt() then the CMDCTRL assignment, whose END bit is    *)
(* 0): the slot under the open list's cursor gets a command, the cursor   *)
(* advances.  The caller must keep within the table (no check in code).   *)
Draw ==
    /\ in_list
    /\ cur[cur_id] < NSlots
    /\ vram' = [vram EXCEPT ![cur[cur_id]] =
                    [end |-> FALSE, cmd |-> <<cur_id, list_gen[cur_id]>>]]
    /\ cur' = [cur EXCEPT ![cur_id] = @ + 1]
    /\ UNCHANGED <<initialized, in_list, cur_id, last_id, beg, ref_cnt,
                   gen, list_gen>>

(* Mutant: the reference-count test is off by one (== 0).                 *)
End_MarkOnZero(id) ==
    /\ in_list
    /\ cur_id = id
    /\ in_list' = FALSE
    /\ last_id' = id
    /\ cur_id' = NoList
    /\ vram' = IF ref_cnt[id] = 0 THEN SetEnd(vram, cur[id], TRUE) ELSE vram
    /\ UNCHANGED <<initialized, beg, cur, ref_cnt, gen, list_gen>>

(* Mutant: the in-list flag is left set.                                  *)
End_NoToggle(id) ==
    /\ in_list
    /\ cur_id = id
    /\ last_id' = id
    /\ cur_id' = NoList
    /\ vram' = IF ref_cnt[id] = 1 THEN SetEnd(vram, cur[id], TRUE) ELSE vram
    /\ UNCHANGED <<initialized, in_list, beg, cur, ref_cnt, gen, list_gen>>

(* vdp1_cmdt_list_end(id): close the list; the END bit goes on the slot   *)
(* under the cursor only if the reference count is 1.                     *)
End(id) ==
    /\ in_list
    /\ cur_id = id
    /\ in_list' = FALSE
    /\ last_id' = id
    /\ cur_id' = NoList
    /\ vram' = IF ref_cnt[id] = 1 THEN SetEnd(vram, cur[id], TRUE) ELSE vram
    /\ UNCHANGED <<initialized, beg, cur, ref_cnt, gen, list_gen>>

(* vdp1_cmdt_list_clear(id).                                               *)
Clear(id) ==
    /\ initialized
    /\ ~in_list
    /\ ref_cnt' = [ref_cnt EXCEPT ![id] = 0]
    /\ UNCHANGED <<initialized, in_list, cur_id, last_id, beg, cur, vram,
                   gen, list_gen>>

(* vdp1_cmdt_list_clear_all: the loop's assertions are the same for every *)
(* id, so it either fails on the first or clears every count.             *)
ClearAll ==
    /\ initialized
    /\ ~in_list
    /\ ref_cnt' = [id \in ListIds |-> 0]
    /\ UNCHANGED <<initialized, in_list, cur_id, last_id, beg, cur, vram,
                   gen, list_gen>>

(***************************************************************************)
(* Any sequence of calls the assertions let through.  The application     *)
(* re-initialises the arena only between lists.                           *)
(***************************************************************************)
Next ==
    \/ ~in_list /\ ListInit
    \/ \E id \in ListIds : Begin(id)
    \/ Draw
    \/ \E id \in ListIds : End(id)
    \/ \E id \in ListIds : Clear(id)
    \/ ClearAll

Spec == Init /\ [][Next]_vars

(* The same calls without the usage rule on vdp1_cmdt_list_init, which    *)
(* asserts nothing and so may also be called inside an open list.         *)
AnyCallNext == ListInit \/ Next

AnyCallSpec == Init /\ [][AnyCallNext]_vars

-----------------------------------------------------------------------------
(* What the VDP1 executes: the slots before the first one whose END bit  *)
(* is set (all of them when none is set: it runs off the table).          *)
Scanned == {s \in Slots : \A t \in 0 .. s : ~vram[t].end}

TypeOK ==
    /\ initialized \in BOOLEAN
    /\ in_list \in BOOLEAN
    /\ cur_id \in ListIds \cup {NoList}
    /\ last_id \in ListIds \cup {NoList}
    /\ beg \in [ListIds -> 0 .. NSlots]
    /\ cur \in [ListIds -> 0 .. NSlots]
    /\ ref_cnt \in [ListIds -> 0 .. RefModulus - 1]
    /\ vram \in [Slots -> [end : BOOLEAN, cmd : Cmds]]
    /\ gen \in Gens
    /\ list_gen \in [ListIds -> Gens]
    /\ in_list => cur_id \in ListIds

(* Whenever no list is open, the VDP1 never executes a slot that no draw  *)
(* call wrote: every END bit that _begin undoes is put back by the        *)
(* matching _end, so the chain has no hole (vdp1_cmdt_list_begin/_end).   *)
NoHoleInChain ==
    ~in_list => \A s \in Scanned : vram[s].cmd # NoCmd

(* Whenever no list is open, the VDP1 stops inside the command table: the *)
(* END bit of the chain's tail is somewhere in the table                   *)
(* (vdp1_cmdt_list_end only marks on a reference count of 1).             *)
ScanTerminates ==
    (~in_list /\ last_id # NoList) => \E s \in Slots : vram[s].end

(* After vdp1_cmdt_list_clear_all a begin behaves as the very first one:  *)
(* a begin while every reference count is 0 starts its list at slot 0.    *)
ClearAllRestarts ==
    [][\A id \in ListIds :
         (Begin(id) /\ \A l \in ListIds : ref_cnt[l] = 0) => beg'[id] = 0]_vars

(***************************************************************************)
(* The inductive invariant behind NoHoleInChain (proved in                *)
(* CmdtList_proofs).  A slot that is neither marked nor written can only  *)
(* be the one _begin has just undone for the open list, whose reference   *)
(* count is then 1, so the matching _end marks it again.                  *)
(***************************************************************************)
GenOK == in_list => list_gen[cur_id] \in 1 .. MaxGen

HoleFree ==
    \A s \in Slots :
        (~vram[s].end /\ vram[s].cmd = NoCmd) =>
            /\ in_list
            /\ s = cur[cur_id]
            /\ ref_cnt[cur_id] = 1

IInv == TypeOK /\ GenOK /\ HoleFree

=============================================================================
