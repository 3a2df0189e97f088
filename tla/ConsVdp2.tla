------------------------------ MODULE ConsVdp2 -------------------------------
(***************************************************************************)
(* The VDP2 console driver (kernel/cons/drivers/vdp2.c) composed with the *)
(* transfer queue.  _dev_state->state holds two bits, DIRTY and FLUSHING; *)
(* the PND page in work RAM (page_pnd) is shipped to VDP2 VRAM by a       *)
(* transfer tagged VBLANK-IN whose callback, _dma_handler, clears both    *)
(* bits from interrupt context.                                           *)
(*                                                                         *)
(* The page's contents are abstracted to a version number: every write    *)
(* makes a new version (buf), a page transfer copies the version it finds *)
(* when it starts (snap) and shows it when it completes (shown).  The     *)
(* foreground is the application's main loop (as in cpu-dmac.c: buffer,   *)
(* flush, other transfers, in any order); IsrWrites bounds the writes made *)
(* from an interrupt handler (cpu-dmac.c's dma_complete calls cons_write). *)
(***************************************************************************)
EXTENDS DmaQueue, Integers

CONSTANTS
    VblankIn,     \* DMA_QUEUE_TAG_VBLANK_IN
    FontXfer,     \* the font transfer of cons_vdp2_init (_dma_font_handler)
    PageXfer,     \* the page transfer of cons_vdp2_flush (_dma_handler)
    OtherXfer,    \* transfers the application queues for itself
    MaxWrites,    \* bound on page versions
    IsrWrites     \* writes made from interrupt context

ASSUME ConsAssumption ==
    /\ VblankIn \in Tags
    /\ {FontXfer, PageXfer, OtherXfer} \subseteq Clients
    /\ FontXfer # PageXfer /\ PageXfer # OtherXfer /\ FontXfer # OtherXfer
    /\ MaxWrites \in Nat /\ IsrWrites \in Nat

NoVersion == -1   \* VDP2 VRAM before the first page transfer

VARIABLES
    dirty,      \* STATE_BUFFER_DIRTY
    flushing,   \* STATE_BUFFER_FLUSHING
    buf,        \* version of page_pnd
    snap,       \* version the page transfer in flight copies
    shown,      \* version in VDP2 VRAM
    pc,         \* the main loop: "boot", "app", "spin" (in cons_vdp2_buffer), "write"
    isr,        \* interrupt-context writes so far
    fgw         \* history: the version of the latest foreground write

cvars == <<dirty, flushing, buf, snap, shown, pc, isr, fgw>>
vars == <<qvars, cvars>>

Init ==
    /\ QInit
    /\ dirty = FALSE /\ flushing = FALSE
    /\ buf = 0 /\ snap = NoVersion /\ shown = NoVersion
    /\ pc = "boot"
    /\ isr = 0
    /\ fgw = 0

(* A page transfer copies page_pnd when the channel starts it.            *)
CopyOnStart == IF Starts(PageXfer) THEN snap' = buf ELSE snap' = snap

(* dma_queue_enqueue(..., VBLANK_IN, handler, work), its result ignored.  *)
EnqueueIgnored(c) == QEnqueue(VblankIn, c) \/ QEnqueueFull(VblankIn, c)

(* cons_vdp2_init: queue the font transfer, mark the page dirty.          *)
ConsInit ==
    /\ pc = "boot"
    /\ EnqueueIgnored(FontXfer)
    /\ dirty' = TRUE /\ flushing' = FALSE
    /\ pc' = "app"
    /\ UNCHANGED <<buf, snap, shown, isr, fgw>>

(* cons_vdp2_buffer is called: it spins while FLUSHING is set.            *)
BufferCall ==
    /\ pc = "app"
    /\ buf < MaxWrites
    /\ pc' = "spin"
    /\ UNCHANGED <<qvars, dirty, flushing, buf, snap, shown, isr, fgw>>

(* Mutant: cons_vdp2_buffer does not wait for the flush to finish.        *)
BufferSpinExit_NoWait ==
    /\ pc = "spin"
    /\ pc' = "write"
    /\ UNCHANGED <<qvars, dirty, flushing, buf, snap, shown, isr, fgw>>

(* Mutant: the spin waits for IDLE (DIRTY or FLUSHING) instead of for    *)
(* FLUSHING alone.                                                         *)
BufferSpinExit_WrongMask ==
    /\ pc = "spin"
    /\ ~flushing /\ ~dirty
    /\ pc' = "write"
    /\ UNCHANGED <<qvars, dirty, flushing, buf, snap, shown, isr, fgw>>

BufferSpinExit ==
    /\ pc = "spin"
    /\ ~flushing
    /\ pc' = "write"
    /\ UNCHANGED <<qvars, dirty, flushing, buf, snap, shown, isr, fgw>>

(* cons_buffer then writes the text through _buffer_write, which sets     *)
(* DIRTY and stores the cells.                                             *)
BufferWrite ==
    /\ pc = "write"
    /\ dirty' = TRUE
    /\ buf' = buf + 1
    /\ fgw' = buf + 1
    /\ pc' = "app"
    /\ UNCHANGED <<qvars, flushing, snap, shown, isr>>

(* Mutant: flush tests the DIRTY bit alone.                                *)
Flush_DirtyBit ==
    /\ pc = "app"
    /\ \/ /\ dirty
          /\ flushing' = TRUE
          /\ EnqueueIgnored(PageXfer)
          /\ UNCHANGED <<dirty, buf, snap, shown, pc, isr, fgw>>
       \/ /\ ~dirty
          /\ UNCHANGED vars

(* cons_vdp2_flush: a no-op unless the state is exactly DIRTY; otherwise  *)
(* set FLUSHING and queue the page transfer.                              *)
Flush ==
    /\ pc = "app"
    /\ \/ /\ dirty /\ ~flushing
          /\ flushing' = TRUE
          /\ EnqueueIgnored(PageXfer)
          /\ UNCHANGED <<dirty, buf, snap, shown, pc, isr, fgw>>
       \/ /\ ~(dirty /\ ~flushing)
          /\ UNCHANGED vars

(* The application queues a transfer of its own.                          *)
OtherEnqueue ==
    /\ pc = "app"
    /\ \E t \in Tags : QEnqueue(t, OtherXfer) \/ QEnqueueFull(t, OtherXfer)
    /\ UNCHANGED cvars

(* An interrupt handler writes to the console (cons_write ->               *)
(* _buffer_write), whatever the state bits say.                           *)
IsrWrite ==
    /\ pc # "boot"
    /\ isr < IsrWrites
    /\ buf < MaxWrites
    /\ dirty' = TRUE
    /\ buf' = buf + 1
    /\ isr' = isr + 1
    /\ UNCHANGED <<qvars, flushing, snap, shown, pc, fgw>>

(* A trigger fires: requests of its tag are dispatched and the first may  *)
(* start on the channel.                                                  *)
Trigger(t) ==
    \/ QTrigger(t) /\ CopyOnStart /\ UNCHANGED <<dirty, flushing, buf, shown, pc, isr, fgw>>
    \/ QTriggerEmpty(t) /\ UNCHANGED cvars

(* _dma_handler: the page is in VRAM; clear DIRTY and FLUSHING.            *)
DmaHandler ==
    /\ shown' = snap
    /\ dirty' = FALSE
    /\ flushing' = FALSE

(* The channel-complete interrupt: the finished request's callback        *)
(* (_dma_handler for the page, _dma_font_handler frees its work), then    *)
(* the next request starts.                                               *)
Complete ==
    /\ QComplete
    /\ IF chan.client = PageXfer
          THEN DmaHandler
          ELSE UNCHANGED <<shown, dirty, flushing>>
    /\ CopyOnStart
    /\ UNCHANGED <<buf, pc, isr, fgw>>

Next ==
    \/ ConsInit
    \/ BufferCall \/ BufferSpinExit \/ BufferWrite
    \/ Flush
    \/ OtherEnqueue
    \/ IsrWrite
    \/ \E t \in Tags : Trigger(t)
    \/ Complete

(* The trigger fires every frame and the hardware signals every           *)
(* completion; the main loop, once in cons_vdp2_buffer, keeps running.    *)
Fairness ==
    /\ \A t \in Tags : WF_vars(Trigger(t))
    /\ WF_vars(Complete)
    /\ WF_vars(BufferSpinExit) /\ WF_vars(BufferWrite)

Spec == Init /\ [][Next]_vars /\ Fairness

-----------------------------------------------------------------------------
TypeOK ==
    /\ QTypeOK
    /\ dirty \in BOOLEAN /\ flushing \in BOOLEAN
    /\ buf \in 0 .. MaxWrites
    /\ snap \in {NoVersion} \cup 0 .. MaxWrites
    /\ shown \in {NoVersion} \cup 0 .. MaxWrites
    /\ pc \in {"boot", "app", "spin", "write"}
    /\ isr \in 0 .. IsrWrites
    /\ fgw \in 0 .. MaxWrites

(* The requests not yet completed that a page transfer may be among: on *)
(* the channel, dispatched, or queued for VBLANK-IN.                      *)
InFlight == ChanSeq \o running \o queue[VblankIn]

(* s holds a page transfer; s holds at most one.                          *)
HasPage(s) == \E i \in DOMAIN s : s[i].client = PageXfer
OnePage(s) == \A i, j \in DOMAIN s :
                  (s[i].client = PageXfer /\ s[j].client = PageXfer) => i = j

(* FLUSHING is set exactly while a page transfer is on its way, and never *)
(* more than one is (spec section 4.4: only one flush in flight, and the  *)
(* last scenario of section 8: a second flush queues nothing).            *)
OneFlushInFlight ==
    /\ OnePage(InFlight)
    /\ flushing <=> HasPage(InFlight)

(* Once the console is idle again (neither DIRTY nor FLUSHING), VDP2 VRAM *)
(* shows everything that was written: no write is lost to a flush         *)
(* (spec section 8: a write issued while Flushing is deferred until the   *)
(* completion callback clears the flag).                                  *)
CleanShowsBuffer ==
    (pc # "boot" /\ ~dirty /\ ~flushing) => shown = buf

(* What cons_vdp2_buffer's spin guarantees: once the console is idle     *)
(* again, VDP2 VRAM shows at least the latest write made through          *)
(* cons_vdp2_buffer, since such a write waits for the flush in flight     *)
(* and the next flush copies it.                                           *)
ForegroundShown ==
    (pc # "boot" /\ ~dirty /\ ~flushing) => shown >= fgw

(* cons_vdp2_buffer, once called, returns: the transfer it waits for runs *)
(* and its callback clears FLUSHING.                                      *)
BufferReturns == (pc = "spin") ~> (pc = "write")
=============================================================================
