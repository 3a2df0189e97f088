----------------------------- MODULE CmdtScene ------------------------------
(***************************************************************************)
(* The arena of CmdtList driven the way a game drives it: every frame    *)
(* begins its lists from list 0 up, any number of frames, the reference   *)
(* counts are never cleared, and each list is closed after a number of    *)
(* commands taken from Len[id].  With one length per list this is the use *)
(* the reference-count scheme of vdp1_cmdt_list_begin/_end is designed    *)
(* for.  AnyOrderNext drops the order.                                    *)
(***************************************************************************)
EXTENDS CmdtList

CONSTANT Len   \* the command counts the application may draw into each list

ASSUME LenAssumption == Len \in [ListIds -> SUBSET Nat]

(* Commands drawn into the open list since its begin.                     *)
Drawn(id) == cur[id] - beg[id]

(* The order a game begins its lists in: every frame from list 0 up, so  *)
(* a list is used for the first time only right after the last of those  *)
(* already in use.                                                        *)
InOrder(id) == id = 0 \/ (last_id # NoList /\ id = last_id + 1)

(* The draws and the end of a list, as the game makes them.              *)
SceneDrawEnd ==
    \/ Draw /\ \E n \in Len[cur_id] : Drawn(cur_id) < n
    \/ \E id \in ListIds : End(id) /\ Drawn(id) \in Len[id]

SceneNext ==
    \/ ~in_list /\ ListInit
    \/ \E id \in ListIds : Begin(id) /\ InOrder(id)
    \/ SceneDrawEnd

SceneSpec == Init /\ [][SceneNext]_vars

(* The same game beginning its lists in any order.                        *)
AnyOrderNext ==
    \/ ~in_list /\ ListInit
    \/ \E id \in ListIds : Begin(id)
    \/ SceneDrawEnd

AnyOrderSpec == Init /\ [][AnyOrderNext]_vars

(* Whenever no list is open, the VDP1 draws exactly the commands of the   *)
(* latest begin of every list in use: the scan stops inside the table,    *)
(* every slot it executes was written by the latest begin of a list in    *)
(* use since vdp1_cmdt_list_init, and every command of every list in use  *)
(* is executed (vdp1_cmdt_list_begin rebasing/undo and                    *)
(* vdp1_cmdt_list_end marking).                                            *)
DisplayCurrent ==
    (~in_list /\ last_id # NoList) =>
        /\ \E s \in Slots : vram[s].end
        /\ \A s \in Scanned :
              /\ vram[s].cmd # NoCmd
              /\ ref_cnt[vram[s].cmd[1]] > 0
              /\ vram[s].cmd[2] = list_gen[vram[s].cmd[1]]
        /\ \A id \in ListIds :
              ref_cnt[id] > 0 =>
                 \A s \in beg[id] .. cur[id] - 1 :
                    s \in Scanned /\ vram[s].cmd = <<id, list_gen[id]>>
=============================================================================
