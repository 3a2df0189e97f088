-------------------------------- MODULE ScuDsp --------------------------------
(***************************************************************************)
(* The SCU DSP driver (scu/scu_dsp.c): program upload, the data-RAM       *)
(* transfers and the DSP END interrupt handler.                           *)
(*                                                                         *)
(* The foreground makes one call at a time; scu_dsp_end_set is split at   *)
(* its statements because the DSP END interrupt may be taken between     *)
(* them.  A data transfer is one step: nothing it touches is shared with  *)
(* an interrupt.  Its loop is kept whole as the set of data-RAM addresses *)
(* it writes to PDA: addr | (i + offset) for i in 0 .. count-1, of which  *)
(* the 8-bit PDA register keeps the low byte.                             *)
(***************************************************************************)
EXTENDS Naturals

CONSTANTS
    PageWords,     \* DSP_RAM_PAGE_WORD_COUNT
    ProgramWords,  \* DSP_PROGRAM_WORD_COUNT
    Handlers,      \* interrupt handlers an application passes to end_set
    NULL,          \* the NULL handler
    Default,       \* _default_ihr
    Pages,         \* ram_page arguments (uint8_t)
    Offsets,       \* offset arguments (uint8_t)
    Counts         \* count arguments (uint32_t)

ASSUME DspAssumption ==
    /\ PageWords = 64 /\ ProgramWords = 256
    /\ NULL \notin Handlers /\ Default \notin Handlers \cup {NULL}
    /\ Pages \subseteq 0 .. 255 /\ Offsets \subseteq 0 .. 255
    /\ Counts \subseteq Nat    \* uint32_t; the runs stay below 2^31

NoCall == [kind |-> "none"]

VARIABLES
    masked,      \* IC_MASK_DSP_END set in the SCU interrupt mask
    end_flag,    \* the DSP's program-end flag (PPAF bit 18)
    running,     \* the DSP program is executing
    ihr,         \* _dsp_end_ihr
    pc,          \* scu_dsp_end_set: "idle", "masked", "defaulted", "assigned"
    arg,         \* the ihr argument of the end_set in progress
    installed,   \* history: the handler the last completed end_set installed
    prog,        \* words written to program RAM by the last upload
    call,        \* history: the last data transfer that passed its checks
    touched      \* history: data-RAM addresses that transfer accessed

vars == <<masked, end_flag, running, ihr, pc, arg, installed, prog, call, touched>>

(* The state scu_dsp_init leaves: the END interrupt masked, the program   *)
(* stopped, the end flag cleared, _dsp_end_ihr still _default_ihr.        *)
Init ==
    /\ masked = TRUE /\ end_flag = FALSE /\ running = FALSE
    /\ ihr = Default
    /\ pc = "idle" /\ arg = NULL /\ installed = Default
    /\ prog = 0
    /\ call = NoCall /\ touched = {}

(* Mutant: end_set does not mask the interrupt first.                     *)
EndSetMask_NoMask ==
    /\ pc = "idle"
    /\ \E h \in Handlers \cup {NULL} : arg' = h
    /\ pc' = "masked"
    /\ UNCHANGED <<masked, end_flag, running, ihr, installed, prog, call, touched>>

(* scu_dsp_end_set, line 35: mask the DSP END interrupt.                  *)
EndSetMask ==
    /\ pc = "idle"
    /\ \E h \in Handlers \cup {NULL} : arg' = h
    /\ masked' = TRUE
    /\ pc' = "masked"
    /\ UNCHANGED <<end_flag, running, ihr, installed, prog, call, touched>>

(* Line 37: fall back to _default_ihr.                                    *)
EndSetDefault ==
    /\ pc = "masked"
    /\ ihr' = Default
    /\ pc' = "defaulted"
    /\ UNCHANGED <<masked, end_flag, running, arg, installed, prog, call, touched>>

(* Lines 39-40: a non-NULL handler becomes _dsp_end_ihr.                  *)
EndSetAssign ==
    /\ pc = "defaulted"
    /\ ihr' = IF arg # NULL THEN arg ELSE ihr
    /\ pc' = "assigned"
    /\ UNCHANGED <<masked, end_flag, running, arg, installed, prog, call, touched>>

(* Line 42: unmask the interrupt if a handler was given; end_set returns. *)
EndSetUnmask ==
    /\ pc = "assigned"
    /\ masked' = (arg = NULL)
    /\ installed' = IF arg # NULL THEN arg ELSE Default
    /\ pc' = "idle"
    /\ UNCHANGED <<end_flag, running, ihr, arg, prog, call, touched>>

(* scu_dsp_program_load: refused for 0 or more than ProgramWords words;   *)
(* otherwise the program is stopped and count words go to PPD.            *)
ProgramLoad ==
    /\ pc = "idle"
    /\ \E count \in Counts :
          IF count = 0 \/ count > ProgramWords
             THEN UNCHANGED vars
             ELSE /\ running' = FALSE
                  /\ prog' = count
                  /\ UNCHANGED <<masked, end_flag, ihr, pc, arg, installed, call, touched>>

(* The application starts the program (scu_dsp_program_start, a header   *)
(* inline) and the DSP reaches its END instruction.                       *)
ProgramStart ==
    /\ pc = "idle" /\ prog > 0 /\ ~running
    /\ running' = TRUE
    /\ UNCHANGED <<masked, end_flag, ihr, pc, arg, installed, prog, call, touched>>

ProgramEnd ==
    /\ running
    /\ running' = FALSE /\ end_flag' = TRUE
    /\ UNCHANGED <<masked, ihr, pc, arg, installed, prog, call, touched>>

(* _dsp_end_handler, taken when the flag is up and the interrupt is not   *)
(* masked: clear the flag and call _dsp_end_ihr.                          *)
EndInterrupt ==
    /\ end_flag /\ ~masked
    /\ end_flag' = FALSE
    /\ UNCHANGED <<masked, running, ihr, pc, arg, installed, prog, call, touched>>

(* Bitwise OR of two 2-bit numbers: a + b less their common bits.          *)
Or2(a, b) == a + b - (2 * ((a \div 2) * (b \div 2)) + (a % 2) * (b % 2))

(* The data-RAM address of word i of a transfer: PDA = addr | (i + offset), *)
(* addr = (ram_page & 0x03) << 6, of which the register keeps 8 bits.  As  *)
(* addr has only bits 6 and 7, the OR keeps the low six bits of the offset *)
(* and ORs the two above them with the page.                              *)
PdaAddr(page, offset, i) ==
    LET y == (i + offset) % 256
    IN  (y % 64) + 64 * Or2(page % 4, y \div 64)

(* Mutant: the page check leaves out the offset.                           *)
PageCheck_NoOffset(offset, count) == (count % 2^16) > PageWords

(* The bounds check of lines 79 and 111: ((uint16_t)count + offset) > 64. *)
PageCheck(offset, count) == (count % 2^16) + offset > PageWords

(* scu_dsp_data_read and scu_dsp_data_write: after the early returns for  *)
(* a zero count, a NULL buffer and a failed page check, the loop accesses *)
(* count data-RAM words.  isNull is whether data == NULL.                 *)
DataTransfer(kind) ==
    /\ pc = "idle"
    /\ \E page \in Pages, offset \in Offsets, count \in Counts, isNull \in BOOLEAN :
          IF count = 0 \/ isNull \/ PageCheck(offset, count)
             THEN UNCHANGED vars
             ELSE /\ call' = [kind |-> kind, page |-> page,
                              offset |-> offset, count |-> count]
                  /\ touched' = {PdaAddr(page, offset, i) : i \in 0 .. count - 1}
                  /\ UNCHANGED <<masked, end_flag, running, ihr, pc, arg, installed, prog>>

Next ==
    \/ EndSetMask \/ EndSetDefault \/ EndSetAssign \/ EndSetUnmask
    \/ ProgramLoad \/ ProgramStart \/ ProgramEnd
    \/ EndInterrupt
    \/ DataTransfer("read") \/ DataTransfer("write")

Spec == Init /\ [][Next]_vars

-----------------------------------------------------------------------------
(* The words of the page a transfer asked for, from its offset on.        *)
Requested(c) == {(c.page % 4) * 64 + w : w \in c.offset .. PageWords - 1}

(* A data transfer that passes its checks reads or writes at most the     *)
(* page's words from offset on, one per word of the caller's buffer: it   *)
(* never reaches another page, and never runs past the page.              *)
TransferInPage ==
    call # NoCall =>
        /\ call.count <= PageWords - call.offset
        /\ touched \subseteq Requested(call)

(* When the DSP END interrupt is taken, _dsp_end_ihr is the handler the   *)
(* last completed scu_dsp_end_set installed: an end_set in progress is    *)
(* never seen half-done by the interrupt.                                 *)
EndCallsInstalled ==
    [][(end_flag /\ ~end_flag') => ihr = installed]_vars
=============================================================================
