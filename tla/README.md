# TLA+ models of libyaul's transfer and display-list core

This directory holds TLA+ models of the parts of libyaul (`src/libyaul`) that
synchronise software with the Saturn's asynchronous hardware. It also holds the
TLC configurations that model-check them and TLAPS proofs about them.
`PROJECT.json` lists every component, run, mutant, finding, hazard and theorem.
It also maps every modelling definition to the source lines it translates.

## 1. The system

The spec (`spec.md`) names four parts. This is how they meet in the source.

| Part | Source | State | Operations |
|---|---|---|---|
| CommandListArena | `scu/bus/b/vdp1/vdp1_cmdt.c` | `vdp1_cmdt_list_state` (initialized, in_list, cur_id, last_id); per list `ctl_beg_cmdt`, `ctl_cur_cmdt`, `ctl_ref_cnt`; the CMDCTRL END bit (0x8000) of every VDP1 command slot | `vdp1_cmdt_list_init`, `_begin`, `_end`, `_clear`, `_clear_all`, the draw calls (each takes a slot through `cmdt()`) |
| TransferQueue | `dma-queue` (not under `src/`) | per-tag FIFO of requests, the request on the SCU DMA channel | `dma_queue_enqueue`, the VBLANK-IN trigger, the channel-complete interrupt |
| ConsoleBuffer | `kernel/cons/drivers/vdp2.c` | `_dev_state->state` ⊆ {DIRTY, FLUSHING}, the PND page in work RAM | `cons_vdp2_init`, `_buffer`, `_flush`, the cell writers `_buffer_*`, `_dma_handler` |
| OutputDeviceRegistry | `kernel/dbgio/dbgio.c` | `_dbgio_state` (dev_ops, state ⊆ {FONT_LOAD_REQUESTED, FONT_LOAD_COMPLETED}) | `dbgio_dev_init`, `_deinit`, `_font_load`, `_font_load_wait`, `dbgio_puts/printf/flush`, `_font_load_callback` |

These parts interact as follows:
- The console's flush enqueues a transfer tagged VBLANK-IN.
- The transfer's completion interrupt runs `_dma_handler`, which clears DIRTY and FLUSHING.
- `cons_vdp2_buffer` spins until that happens.
- A dbgio device's font load also ends in a callback from interrupt context, which sets FONT_LOAD_COMPLETED.
- `dbgio_dev_font_load_wait` spins until that bit is set.
- The VDP1 reads the command table on its own, from slot 0 to the first slot whose END bit is set.
  - The CPU builds the next frame's lists in that same table.

The behaviours that make this hard to test:
- Interrupt callbacks clear or set bits between two foreground steps.
- A transfer queued in one frame completes in a later one.
- Callbacks can arrive after the state that requested them was torn down.
- Reference counts decide where the END bit goes, and they persist across frames.
- Nothing checks the bounds of the table or of the queue.

The SCU DSP driver (`scu/scu_dsp.c`) is modelled on its own (`ScuDsp`). It shares no state with the four parts, but its interrupt handler and its page checks have the same kinds of hazards.

The ROMFS driver (`kernel/vfs/fs/romdisk/romdisk.c`) is modelled on its own too (`Romdisk`). The spec lists the filesystem reader as an external collaborator, so this model is built from the source alone.

Other code under `src/` is listed in PROJECT.json with the reason it is not modelled: start-up, the DRAM cartridge probe, `labs` and the headers.

## 2. Modules

### CmdtList — the command-list arena (`vdp1_cmdt.c`)

The state variables map to the code as follows:
- `initialized`, `in_list`, `cur_id`, `last_id` are the fields of `vdp1_cmdt_list_state`. `NoList` is -1.
- `beg`, `cur` and `ref_cnt` are the per-list fields.
  - Pointers are slot indices in `Slots` (0..NSlots-1).
  - `ref_cnt` is kept modulo `RefModulus`, which is 2^32 in the code.
- `vram[s]` is a command slot.
  - `end` is its CMDCTRL END bit.
  - `cmd` says which list wrote it and in which begin.

Two history variables are not in the code:
- `gen` counts begins.
- `list_gen[id]` is the begin number of a list's latest begin.

With these two, a command from an earlier frame can be told apart from a current one.

`Init` is the process at start. Static data is zero, and `_vdp1_init` has filled VDP1 VRAM with 0x8000, so every slot has its END bit set.

The actions map to the code as follows:
- `ListInit`, `Begin(id)`, `End(id)`, `Clear(id)` and `ClearAll` are the five list functions.
  - Their guards are the functions' `assert`s.
- `Draw` stands for every draw function.
  - Each one takes the slot under the open list's cursor through `cmdt()`.
  - Each one writes a whole CMDCTRL, which clears the END bit.
- `Begin` is written the way the code is:
  - it undoes the END bit of the list closed last;
  - it rebases a list whose count is 0;
  - it restarts a used list at its own start;
  - it increments the count.
- `End` sets the END bit on the slot under the cursor only when the count is exactly 1.

`Next` allows any call the assertions let through. It adds one usage rule: `vdp1_cmdt_list_init` is called only between lists. `AnyCallNext` drops that rule.

The VDP1's scan is `Scanned`: the slots before the first END bit.

### CmdtScene — the arena as a game uses it

Every frame begins the lists from list 0 up (`InOrder`). A frame may stop early, and a later frame may go one list further, so a new list joins after the ones already in use. Lists are never cleared, and `vdp1_cmdt_list_init` may run between lists. Each list is closed after a command count taken from `Len[id]`. `AnyOrderNext` drops the order.

### DmaQueue — the transfer queue

The queue's code (`dma-queue`) is not under `src/`, so `DmaQueue` is modelled from the contract of spec section 4.1. Its map entries are marked `spec_modelled`.

The state:
- `queue[t]` is the FIFO of tag `t`. At most `QueueDepth` requests fit; past that, `dma_queue_enqueue` refuses the request (`QEnqueueFull`).
- `running` is the dispatch list a trigger fills.
- `chan` is the request on the channel.
- `nreq`, `accepted` and `finished` are history: enqueue calls so far, the ids accepted, and the requests whose callback has run, in order.

The actions:
- `QTrigger(t)` moves every queued request of `t` to the end of the dispatch list, and starts its head if the channel is idle.
- `QComplete` runs the callback and starts the next dispatched request.
- `QTriggerEmpty` is the trigger firing with nothing queued: the VBLANK interrupt comes every frame.

The actions change only the queue's variables. A client module conjoins its callback's effect to `QComplete`.

`DmaQueue` is the environment of the console and dbgio models, written from the spec rather than from code. Its own properties would say nothing about this repository's code, so no run checks them as results. Its invariant `QInv` (types, and no request lost or duplicated, `Conserved`) is a lemma of `DmaQueue_proofs` that the console and dbgio proofs rest on.

### ConsVdp2 — the VDP2 console (`kernel/cons/drivers/vdp2.c`) over the queue

The state:
- `dirty` and `flushing` are the two bits of `_dev_state->state`.
- The page in work RAM is abstracted to a version number, `buf`. Every write makes a new version.
- A page transfer copies the version current when it starts (`snap`). It shows that version in VRAM (`shown`) when it completes.

The foreground is the main loop of `examples/simple/cpu-dmac`:
- `pc` is `"spin"` inside `cons_vdp2_buffer`'s wait loop and `"write"` between that loop and the write.
- `IsrWrite` is that example's DMA-complete handler, which calls `cons_write` from interrupt context. At most `IsrWrites` such writes happen.

The actions map to the code as follows:
- `Flush` is `cons_vdp2_flush`: a no-op unless the state is exactly DIRTY. Its enqueue result is ignored.
- `Complete` is the completion interrupt. For the page transfer it runs `_dma_handler`, which clears both bits.

### Dbgio — the device registry (`kernel/dbgio/dbgio.c`) over the queue

The state:
- `dev_ops`, `requested` and `completed` are `_dbgio_state`.
- `load_req` is history: the request of the latest font load.

The actions map to the code as follows:
- `DevInit`, `DevDeinit`, `FontLoad`, `FontLoadWait`/`FontLoadWaitExit` and `Complete` (`_font_load_callback`) are the registry's functions.
- The devices' own code is not under `src/`. A synchronous device calls the callback inside `font_load`. An asynchronous one queues a transfer whose completion calls it.

`WaitedNext` adds one usage rule: a device is switched only when no font load is requested.

### ScuDsp — the SCU DSP driver (`scu/scu_dsp.c`)

- `scu_dsp_end_set` is split at its statements (mask, default, assign, unmask), because the DSP END interrupt (`EndInterrupt`, `_dsp_end_handler`) can be taken between them.
- A data transfer is one action.
  - Its guard is the early returns: a zero count, a NULL buffer, and the page check `((uint16_t)count + offset) > 64`.
  - Its loop is kept whole as the set of PDA addresses it writes: `((ram_page & 3) << 6) | (i + offset)` for every `i < count`, of which the 8-bit register keeps the low byte.
  - The OR is written arithmetically (`PdaAddr`, `Or2`): `addr` has only bits 6 and 7, so the OR keeps the low six bits of `i + offset` and ORs its two upper bits with the page. Because `ScuDsp` does not use `Bitwise`, the prover can read it. `MC_ScuDsp` checks, as an `ASSUME` that TLC evaluates, that `PdaAddr` equals `Bitwise`'s `|` for every page and every byte.
- Inputs are taken from small sets at the edges of the checks.

### Romdisk — the ROMFS driver (`kernel/vfs/fs/romdisk/romdisk.c`)

The image is a constant, `Image`: a function from the byte offset of each file header to the fields the driver reads.
- `next` is the raw next-header word, with the type in its low four bits.
- `spec` is spec_info, `size` is the data size, `name` is the file name and `namelen` is its length in bytes.
- `files` is `mnt->files`, computed as `romdisk_mount` computes it from the volume name's length.

A name is compared whole, which stands for `strlen` plus `strncmp`. A path is the sequence of pieces `strchr` cuts it into at `/`: `""` where two slashes meet or at either end.

The state:
- `fhs` is the TAILQ of open handles, as a sequence of heap blocks.
- `heap` is the set of handle blocks that are allocated.
- `fh` holds the allocated handles: `index`, `dir`, `ptr`, `len`.
- `mounts` counts the successful mounts.
- `copied` is history: the image bytes the last read copied.
- `opened` is history: the last path opened and what the lookup returned.
- The field `fh[b].hdr` is also history: the header offset `f_idx` the handle was opened on.

The actions, one per function:
- `Mount`: the magic check or the `malloc` of the `rd_image` may fail.
- `Open(path)`: `Find` (`romdisk_find`, with `FindObject` for `romdisk_find_object`'s do-while over the header chain), then `FdAlloc`, then the handle's fields.
- `Close(p)` is `FdFree`: it does nothing for NULL or for a handle that is not in `fhs`.
- `Read(p, bytes)`: the sanity checks, then the clamp `(fh->ptr + bytes) > fh->len` in `size_t`, then the copy and the advance of `ptr` in `int32_t`.
- `Seek(p, offset, whence)`: the switch on whence, then the two clamps.

`malloc` returns NULL or any block that is not allocated, so a freed block can come back as a new handle. `int32_t`, `size_t` and `off_t` keep their arithmetic (`Unsigned`, `Signed`) at `Width` bits. The runs use 8 bits: file sizes of a few bytes and 8-bit byte counts reach the same wrap-arounds that 32 bits reach with gigabyte counts.

`tell`, `total` and `direct` change no state and are not actions.

The properties read the romfs layout independently of the lookup:
- `Resolve` walks the directory tree declaratively. It takes the type from bits 0..2, as the comment at line 326 says.
- `DataStart` puts a file's data after its 16-byte header and its name padded to 16 bytes, as the comment at lines 55-57 says.

## 3. Runs

| Run | Config | Checks | Result |
|---|---|---|---|
| cmdt_api | MC_CmdtList.cfg (2 lists, 4 slots, counts mod 8, 5 begins) | TypeOK, NoHoleInChain | pass |
| cmdt_scene | MC_CmdtScene.cfg (3 lists of 2, 1 and 1 commands, 5 slots, counts mod 16, 9 begins) | DisplayCurrent | pass |
| cons_vdp2 | MC_ConsVdp2.cfg (font, page and other transfers on VBLANK-IN, depth 6, 3 writes, one of them from interrupt context) | OneFlushInFlight, ForegroundShown, BufferReturns | pass |
| dbgio_font | MC_Dbgio.cfg (NULL, sync and async devices, 2 tags, depth 2, 4 requests; WaitedSpec) | LoadedWhenCompleted, WaitReturns | pass |
| dsp | MC_ScuDsp.cfg (counts up to 300, offsets 0/1/63/64/200, pages 0/3/5) | TransferInPage, EndCallsInstalled | pass |
| romdisk | MC_Romdisk.cfg (an image with a subdirectory, hard links, an executable file and a 16-character name; 2 handle blocks; 9 paths; byte counts 0, 2, 255; offsets -128, -1, 2, 127; every whence; 8-bit width) | TypeOK, PtrInFile, OpenResolves | pass |
| romdisk_long_name | MC_Romdisk_longname.cfg (the same image, reads of 2 bytes) | ReadCopiesFileData | violation (finding) |
| cmdt_clear_all_restart | MC_CmdtList_clearall.cfg | ClearAllRestarts | violation (finding) |
| cmdt_full_table | MC_CmdtList_full.cfg | ScanTerminates | violation (finding) |
| cons_isr_write | MC_ConsVdp2_isr.cfg (one write from interrupt context) | CleanShowsBuffer | violation (finding) |
| cons_queue_full | MC_ConsVdp2_full.cfg (queue depth 1) | BufferReturns | violation (finding) |
| dsp_wide_count | MC_ScuDsp_wide.cfg (counts 65536, 65537 added) | TransferInPage | violation (finding) |

What the properties say:
- **NoHoleInChain**: with no list open, every slot the VDP1 executes was written by a draw call.
- **DisplayCurrent**: with no list open, the scan stops inside the table; every executed slot holds a command of the latest begin of a list in use since the last init; and every command of that begin is executed. This is the double-buffering promise of spec section 4.2.
- **OneFlushInFlight**: FLUSHING is set exactly while one page transfer is on its way, and there is never more than one.
- **CleanShowsBuffer**: once neither bit is set, VRAM shows the latest write, whoever made it (what spec section 8 says).
- **ForegroundShown**: once neither bit is set, VRAM shows at least the latest write made through `cons_vdp2_buffer`.
- **BufferReturns**: `cons_vdp2_buffer`'s spin ends.
- **LoadedWhenCompleted**: while a load is requested, COMPLETED means that load's font has arrived.
- **WaitReturns**: the font-load wait ends, for a load that the device finished synchronously or whose transfer the queue accepted.
- **TransferInPage**: a DSP transfer that passes its checks stays within its page, from its offset on.
- **EndCallsInstalled**: the END interrupt always calls the handler of the last completed `end_set`.
- **TypeOK** (Romdisk): every handle in `fhs` is an allocated block: no close, read or seek leaves a freed block listed.
- **PtrInFile**: every open handle's position lies in 0..len, whatever sequence of reads and wrapping seeks led there.
- **OpenResolves**: `romdisk_open` fails exactly when the path names no regular file; otherwise its handle is for that file.
- **ReadCopiesFileData**: every byte `romdisk_read` copies is data of the file the handle was opened on.

The bounds are large enough for the interesting cases to happen:
- Two lists are enough to chain one list behind another and to re-begin either. Four or five slots leave room for the marker. Five to seven begins cover three frames.
- The dbgio run uses two tags, a two-deep queue and four requests from the font callback and from another client. That is enough for a trigger to find earlier requests still dispatched, and for enqueues to be refused. The console run uses a deep queue, so no enqueue is refused there; its `_full` configuration shrinks the queue.
- The romdisk image has a subdirectory reached through `spec_info`, the hard links `.` and `..`, an executable file, and a file whose name is 16 bytes long. Its paths have leading, trailing and doubled slashes, a directory opened as a file, a missing name and a file used as a directory. Two handle blocks let a freed block come back. The byte count 255 is `SIZE_MAX` at 8 bits; the offsets are the extremes of `off_t` and small steps either way. A symmetry over the handle blocks is sound, because `malloc`'s blocks differ only by identity.
- The DSP inputs sit at the edges of the check: offset 0, 1, the last word, one past the page; count 1, 63, 64, 65 and beyond the page. The wide run adds 2^16 and 2^16+1.

Each property of a passing run has a mutant in PROJECT.json that TLC must catch: for example a rebase that skips the undone slot, a flush that tests DIRTY alone, a buffer spin with the wrong mask, a font load without its early return, a page check without the offset, a find without the type check, a seek without its clamp at 0, or an `fd_free` that frees without unlinking.

Seven more configurations are kept for the observations of section 4. They are not among the runs:
- `MC_CmdtScene_refwrap.cfg` (counts mod 2);
- `MC_CmdtScene_anyorder.cfg` (`AnyOrderSpec`: lists begun in any order);
- `MC_CmdtScene_lenvar.cfg` (list 0 draws 1 or 2 commands);
- `MC_CmdtList_initopen.cfg` (`AnyCallSpec`);
- `MC_Dbgio_switch.cfg` (`Spec`: devices switched at any time; `LoadedWhenCompleted`);
- `MC_Romdisk_wrap.cfg` (an image with short names, reads of 255 bytes; `ReadCopiesFileData`);
- `MC_Romdisk_socket.cfg` (`b` is a socket; `OpenResolves`).

Each of them makes TLC report the named invariant violated.

### Fairness

- The trigger and the completion interrupt are weakly fair. The VBLANK-IN interrupt fires every frame, and the hardware signals every completion.
- The spinning foreground is weakly fair in its exit step (`BufferSpinExit`, `FontLoadWaitExit`) and in the write after the spin. The loop keeps reading the state.
- Nothing else is assumed. The application may stop calling `flush` or `font_load`.

## 4. Findings

1. `clear_all` then `begin` does not behave like the first `begin`, contrary to spec section 8. The list is rebased onto `cts_last_id`, which nothing resets (`vdp1_cmdt.c:78`).
2. A list whose commands reach the last slot of the table puts its END bit outside the table (`vdp1_cmdt.c:122`).
3. `_dma_handler` clears DIRTY along with FLUSHING (`vdp2.c:288`). A write from interrupt context during a flush is therefore not shown until a later foreground write sets DIRTY again and a flush resends the page. `cpu-dmac.c` does exactly that; spec section 5 says interrupt context never touches the grid.
4. `cons_vdp2_flush` ignores a refused enqueue (`vdp2.c:226`). FLUSHING then stays set and `cons_vdp2_buffer` spins forever.
5. `romdisk_open` sets the data offset to `f_idx + mnt->files` (`romdisk.c:136`). `f_idx` is already the header's offset in the image, and `files` is 32 plus the volume name rounded down to 16 bytes. The data really begin after the header and the file's own padded name (the comment at lines 55-57). The two agree only when the file's name and the volume name fill the same number of 16-byte blocks. With a short volume name, reading a file whose name has 16 or more characters starts at the NUL terminator and padding of its name (for example index 208 when the data are at 224), not at its data.
6. The DSP page check truncates `count` to 16 bits (`scu_dsp.c:79`, and `:111` for writes), but the loop uses the full count. A count of 65536 passes and sweeps every page of data RAM.

Observations kept as hazards, with the configurations above:
- `ctl_ref_cnt` wraps after 2^32 begins and the list is then rebased as new (`vdp1_cmdt.c:97`).
- A re-begun list that draws fewer commands than before leaves the old ones in the chain (`vdp1_cmdt.c:120`).
- A list's first begin is rebased onto the cursor of the list closed last (`vdp1_cmdt.c:90`). If that list was begun again and is not the chain's tail, the new list is laid over the next list's commands. For example, frame 1 draws lists 0 and 1; frame 2 draws list 0 and then, for the first time, list 2, which overwrites list 1 (`MC_CmdtScene_anyorder.cfg`). Spec section 3 says lists are "packed contiguously ... rather than overlapping". Beginning the lists in the same order every frame, with new ones last, avoids it.
- `vdp1_cmdt_list_init` inside an open list leaves no END bit anywhere (`vdp1_cmdt.c:43`).
- `_font_load_callback` sets COMPLETED for whatever load is current (`dbgio.c:167`). After a device switch with a load in flight, the old callback ends the wait for the new load (`MC_Dbgio_switch.cfg`). The checked run follows the usage rule of switching only after the wait. The spec says nothing either way.
- An asynchronous device's font transfer refused by a full queue never calls back, so `dbgio_dev_font_load_wait` spins forever. This is the same refused enqueue as finding 4. `WaitReturns` is therefore stated for accepted loads; with the refusal included, `dbgio_font` fails it.
- `romdisk_read` computes `fh->ptr + bytes` in `size_t` (`romdisk.c:175`). A byte count near `SIZE_MAX` wraps it below `len`, the clamp is skipped, `memcpy` copies past the file and `ptr` moves backwards (`MC_Romdisk_wrap.cfg`).
- `IS_TYPE` keeps two bits of the three-bit type (`romdisk.c:28`, used at :334). A socket is opened as a regular file (`MC_Romdisk_socket.cfg`), and a character device is walked as a directory.

## 5. Proofs

### CmdtList_proofs

`CmdtList_proofs` proves two theorems for every value of the constants. The only assumptions are:
- at least one list and one slot;
- `RefModulus > 1`;
- `MaxGen` a natural number.

The theorems are:
- `TypeCorrect`: `Spec => []TypeOK`.
- `NoHole`: `Spec => []NoHoleInChain`.

`NoHoleInChain` is not inductive by itself. A rebasing `Begin` clears the previous END bit on a slot that nothing has written yet, so the property is briefly false inside an open list. The strengthening is `IInv == TypeOK /\ GenOK /\ HoleFree`:
- `HoleFree` says that the only slot with neither a command nor an END bit is the open list's cursor, when its count is 1.
- TLC checked `IInv` as an invariant of `cmdt_api` before it was proved.

The proof shows three things:
- `Init => IInv`.
- `IInv /\ [Next]_vars => IInv'`:
  - one lemma per action for the type part;
  - one lemma per action that can touch `vram` for `HoleFree`.
- `IInv => NoHoleInChain`.

### ScuDsp_proofs

`ScuDsp_proofs` proves one theorem for every set of handlers, pages, offsets and counts. It rests on `DspAssumption`: pages and offsets are bytes, counts are natural numbers, and NULL and the default handler are not application handlers.

`EndHandlerInstalled`: `Spec => EndCallsInstalled`. The action property follows from `HandlerInv`, an inductive invariant:
- while `end_set` is between its statements, the interrupt is masked;
- once it has assigned a non-NULL handler, that handler is `_dsp_end_ihr`;
- whenever the interrupt is unmasked, `_dsp_end_ihr` is the handler the last completed `end_set` installed.

`HandlerInvStep` proves that every action preserves `HandlerInv`, with one step per action. `FlagClearedByInterrupt` proves that only the interrupt handler clears the end flag, and only while the interrupt is unmasked.

`TransferInPage` is not proved. For the `uint32_t` counts the code accepts it is false: the `dsp_wide_count` run shows a count of 65536 passing the check. The `dsp` run checks it for counts below 2^16, where the `(uint16_t)` cast is exact.

### DmaQueue_proofs and Dbgio_proofs

`DmaQueue_proofs` proves the lemmas about the queue that the console and dbgio proofs rest on: `InitQInv` and `QInvStep` show that `QInv` holds initially and is kept by every queue step, for every set of tags and clients, every queue depth and every bound on the enqueue calls. They assume only `QueueAssumption`.

`Conserved` is not inductive by itself. A trigger on an idle channel must start the head of the moved queue, and that step is only safe if the dispatch list behind the idle channel is empty. An enqueue must hand out an id no one holds. The strengthening is `QInv == QTypeOK /\ (chan = NoReq => running = <<>>) /\ accepted \subseteq 1 .. nreq /\ Conserved`.

The argument follows `Dispatched`, the finished, in-flight and dispatched requests read oldest first:
- `EnqueueStep`: an enqueue appends a fresh id to one tag's queue and leaves `Dispatched` alone.
- `TriggerMoves` and `TriggerStep`: a trigger makes `Dispatched' = Dispatched \o queue[t]` and empties `queue[t]`, whether or not the channel was idle.
- `CompleteStep`: a completion leaves `Dispatched` equal as a sequence. The request moves from the channel to `finished`, and the head of the list moves to the channel.
- These rest on sequence lemmas proved from the library's `SequenceTheorems`. `IdsConcat` and `NoDupConcat` cover the ids of a concatenation. `HeadThenTail` says `<<Head(s)>> \o Tail(s) = s`, and `AssocReq` is associativity.

In `Dbgio_proofs`, `QueueStepOfDbgio` shows that every dbgio step is a queue step or leaves the queue alone. The font's enqueue is that of a client the queue knows, by `DbgioAssumption`. The queue's invariant then carries over unchanged.

`Dbgio_proofs` proves `FontLoadedWhenCompleted`: `WaitedSpec => []LoadedWhenCompleted`. This is the `dbgio_font` run's specification and property. Under `Spec` the theorem is false. `MC_Dbgio_switch.cfg` switches devices during a wait, and TLC finds the old load's callback ending the wait for the new load (section 4).

The inductive invariant is `DInv == QInv /\ LoadInv`. It is stated over `FontIds`, the ids of the font callback's requests whose callback has not run: on the channel, dispatched, or queued under any tag. `LoadInv` says:
- with no load requested, `FontIds` is empty;
- after a synchronous load, COMPLETED is set and `FontIds` is empty;
- after an asynchronous load, `FontIds` holds at most that load's id, and COMPLETED implies the id is among the finished requests.

`LoadedWhenCompleted` alone is not inductive. Without the first clause, the callback of an earlier load could set COMPLETED for a later one.

The lemmas are:
- `FontIdsConcat`: `FontIds` of a concatenation is the union of its parts.
- `EnqueueFont`, `TriggerFont` and `CompleteFont`: each step of the queue adds the font's new id, keeps `FontIds`, or moves the channel's id to `finished`.
- `FinishedApart`: from `Conserved`'s `NoDup`, no pending id is a finished one. This lemma is what makes the wait's exit safe.

TLC checked `DInv` on the `dbgio_font` instance (63,606 states) before the proof was written.

### ConsVdp2_proofs

`ConsVdp2_proofs` proves two theorems about the console over the queue, for every set of tags and clients and every bound on the writes:
- `FlushesInFlight`: `Spec => []OneFlushInFlight`;
- `ForegroundWritesShown`: `Spec => []ForegroundShown`.

Both assume `QueueFits == MaxReq <= QueueDepth`: the queue never refuses a request. Without it `OneFlushInFlight` fails: a refused flush leaves FLUSHING set with no page transfer in flight. The `cons_queue_full` run reaches that state, and then `cons_vdp2_buffer` spins forever.

`OneFlushInFlight` is stated over `InFlight == ChanSeq \o running \o queue[VblankIn]`: the channel's request, the dispatch list and the VBLANK-IN queue. `OnePage` says at most one of its entries is a page transfer, and `HasPage` says one is. The definition uses no `SelectSeq`, so it is within the provers' reach.

The inductive invariant is `ConsInv == QInv /\ ConsTypes /\ PageInv /\ ShownInv`:
- `QInv` is the queue's invariant from `DmaQueue_proofs`. `QueueStepOfCons` shows that every console step is a queue step or leaves the queue alone.
- `PageInv` adds that no page transfer is queued under another tag, and that no flush has happened during boot.
- `ShownInv` gives the reason no write is lost:
  - the foreground never writes while FLUSHING is set;
  - a page transfer on the channel carries a snapshot at least as new as the last foreground write (`snap >= fgw`);
  - a clean console shows at least that write.

The step lemmas follow the queue's pieces:
- `EnqueuePages`: an enqueue appends one request to one tag's queue.
- `TriggerPages`: a trigger moves `queue[t]` behind the dispatch list.
- `CompletePages`: a completion drops the channel's request from `InFlight`.
- `PagesOfConcatReq`: these rest on counting the page transfers of a concatenation.
- `NoRefusal`: under `QueueFits`, `QEnqueueFull` is never enabled.

`ConsInvStep` has one case per action. TLC checked `ConsInv` itself as an invariant before the proof was written. The checks were:
- with VBLANK-IN only;
- with a second tag, at depth 4.

### CmdtScene_proofs

`CmdtScene_proofs` proves `SceneDisplayCurrent`: `SceneSpec => []DisplayCurrent`, the `cmdt_scene` run's specification and property. It holds for every number of lists and slots, every counter width and every bound on the begins. The hypothesis `SceneFits` says three things:
- each list has one command count (`Len[id] = {n}`);
- the lists packed one after the other, plus the END slot after the last one, fit in the table (there is an `off` with `Packed(off)`);
- `MaxGen < RefModulus`, so no reference count wraps.

The `cmdt_scene` instance satisfies it: counts 2, 1 and 1 pack at slots 0, 2, 3, with the END slot at 4 of 5, and 9 begins against modulus 16. The `lenvar`, `refwrap` and `anyorder` configurations each drop one part, and TLC finds `DisplayCurrent` violated in each (sections 3 and 4). So the hypothesis is where the code's correctness argument needs it, and none of it can be left out.

The inductive invariant is `SInv(off)`, for the packed layout `off`. It adds to `CmdtList`'s `IInv` (typing and the hole argument):
- the lists in use are a prefix `0 .. k` (`Prefix`), and a reference count is at most the begins made (`RefBound`);
- every list in use starts at `off[id]` and a closed one ends at `off[id + 1]` (`BegAt`, `CurAt`, `OpenAt`). This is why the rebase of a new list onto the cursor of the list closed last lands on its packed slot;
- every slot a list in use has drawn since its latest begin holds that begin's command (`Written`), and no END bit lies before the end of a closed list (`Unmarked`, `OldUnmarked`);
- every slot the VDP1 reaches holds a current command, or is one the open list has yet to draw (`ScanGood`), and an END bit lies ahead (`EndAhead`).

`DisplayCurrent` alone is not inductive. While a list is open the scan may run through slots that list is about to overwrite, and `ScanGood`'s `Pending` case says which ones.

TLC checked `SInv` as an invariant before the proof was written. It was checked on the `cmdt_scene` instance (3,565 states) and on an instance with a list of 0 commands. The proof has one lemma per action: `ListInitSInv`, `BeginSInv` (one case for the first begin after init, one for a new list, one for a list used before), `DrawSInv` and `EndSInv`. `SInvDisplay` derives the property.

The layout facts are proved without induction operators:
- `OffMono` (the packed offsets never decrease) takes the least counterexample;
- `LeastNat` (every non-empty set of naturals has a least element) comes from the library's well-foundedness of `<` on `Nat` (`WFMin`).

### Romdisk_proofs

`Romdisk_proofs` proves `RomdiskTypeOK` and `RomdiskPtrInFile`: `Spec => []TypeOK` and `Spec => []PtrInFile`, the `romdisk` run's first two invariants. They hold for every `Width`, image, set of blocks, byte counts, seek offsets and bound on the mounts that `RomdiskAssumption` allows. Two hypotheses on the image are defined in `Romdisk`:
- `SizesFit`: no file is `2^(Width-1)` bytes or more. Without it, `romdisk_seek` compares `ptr` with `(int32_t)fh->len`, which is negative for such a file, and a seek from the end leaves `ptr` negative. A romfs image lives in the Saturn's few MiB of memory, so real images meet it.
- `FindInImage`: `romdisk_find` returns 0 or the offset of a header of the image. It is a fact about the recursive functions `Find` and `FindObject`. TLAPS cannot unfold a recursive function definition for every input, so it is a hypothesis here.

`MC_Romdisk` asserts both hypotheses (`ASSUME SizesFit /\ FindInImage`), so TLC checks them on every image of the runs.

`Romdisk` also carries `ASSUME WidthPowers`: `2^(Width-1)` is a positive natural and `2^Width` is twice it. This is true for every `Width >= 1`, but tlapm has no axioms for `^` with a symbolic exponent, so it is stated and TLC evaluates it on every run.

`PtrInFile` is not inductive on its own, and neither is `TypeOK`. The inductive invariant `RdInv` adds to `TypeOK`:
- `fhs` lists each block once (`IsInjective`). Without this, `fd_free`'s unlink of one occurrence would leave the freed block in `fhs`;
- every allocated handle is a record with `len` below `2^(Width-1)` and `ptr` in `0 .. len`. `PtrInFile` speaks only of the handles in `fhs`, but read and seek need the bound on every handle they are given.

TLC checked `RdInv` as an invariant of the `romdisk` instance (60,734 states) before the proof was written.

The argument:
- one lemma per action (`MountStep`, `OpenStep`, `CloseStep`, `ReadStep`, `SeekStep`), combined in `RdStep`;
- `RemoveFirstInjective`: taking a block out of an injective list gives an injective list of the other blocks. It is proved from the library's `SubSeq` and concatenation theorems;
- `ReadStaysIn`, the `Width`-bit arithmetic of the read clamp. When `Unsigned(ptr + bytes) > len`, the read stops at `len`. Otherwise the wrapped sum is at most `len < 2^(Width-1)`, so `Signed` leaves it as it is. The new `ptr` may then be below the old one (the wrap hazard of section 4), but it is still in `0 .. len`;
- `SeekStaysIn`: `ClampLow` makes the target non-negative, and `Signed(len) = len` under `SizesFit`, so the second clamp keeps it at most `len`.

## 6. What is only model-checked, and what is not modelled

- All liveness (`BufferReturns`, `WaitReturns`) stays with TLC: the prover does not reason about fairness or ENABLED.
- `OpenResolves` is model-checked only. It compares the recursive lookup (`Find`, `FindObject`) with the recursive reference (`Chain`, `Resolve`) for every path, which is induction over data and beyond the prover. `TypeOK` and `PtrInFile` are proved only under `SizesFit` and `FindInImage`. `DisplayCurrent` is proved only for `SceneSpec` under `SceneFits`. The `lenvar`, `refwrap` and `anyorder` configurations of `MC_CmdtScene` show it fails without each part of that hypothesis. `OneFlushInFlight` and `ForegroundShown` are proved only under `QueueFits`. With a shallower queue, `cons_queue_full` shows what goes wrong.
- The VDP1's own timing is not modelled. Its scan is read whenever no list is open.
- The dbgio devices' `puts`, `printf` and `flush` only forward to device code outside `src/`. The NULL entries of `_dev_ops_table` are a plain NULL dereference.
- In `Romdisk`, the bytes a read copies are abstracted to their range in the image. A handle used after it is closed reads freed memory, which is not modelled: the model's reads and seeks take open handles or NULL. A cyclic header chain is excluded by `ImageWellFormed`.
- Not modelled, with the reasons in PROJECT.json: start-up, the DRAM cartridge probe, `labs` and the headers.

## 7. Plan for the remaining work

1. `FindInImage` could be dropped by proving it for every image, which needs induction over the header chain. It stays a hypothesis that TLC checks on the runs' images.
