-------------------------------- MODULE Dbgio --------------------------------
(***************************************************************************)
(* The debug-output device registry (kernel/dbgio/dbgio.c) and its        *)
(* font-load handshake.  _dbgio_state holds the active dev_ops and two    *)
(* bits, FONT_LOAD_REQUESTED and FONT_LOAD_COMPLETED; the latter is set   *)
(* by _font_load_callback, which the device calls when its font is in     *)
(* VRAM.  The devices' own code is not under src/: a synchronous device   *)
(* calls the callback before its font_load returns, an asynchronous one   *)
(* queues a transfer whose completion interrupt calls it (spec 4.3).      *)
(*                                                                         *)
(* load_req is a history variable: the request id of the latest font      *)
(* load, 0 when the device loaded its font synchronously.                 *)
(***************************************************************************)
EXTENDS DmaQueue

CONSTANTS
    Devs,        \* the non-NULL entries of _dev_ops_table
    AsyncDevs,   \* the devices whose font_load goes through the queue
    NoDev,       \* dev_ops == NULL
    NullDev,     \* DBGIO_DEV_NULL, selected by _internal_dbgio_init
    FontCb       \* the queue client whose callback is _font_load_callback

ASSUME DbgioAssumption ==
    /\ AsyncDevs \subseteq Devs /\ NullDev \in Devs \ AsyncDevs
    /\ NoDev \notin Devs
    /\ FontCb \in Clients

VARIABLES
    dev_ops,     \* _dbgio_state.dev_ops
    requested,   \* STATE_FONT_LOAD_REQUESTED
    completed,   \* STATE_FONT_LOAD_COMPLETED
    pc,          \* the foreground: "idle", or "wait" in dbgio_dev_font_load_wait
    load_req     \* history: request id of the latest font load

dvars == <<dev_ops, requested, completed, pc, load_req>>
vars == <<qvars, dvars>>

(* _internal_dbgio_init: state IDLE, then dbgio_dev_default_init(NULL     *)
(* device); dev_ops starts NULL, so that init's deinit returns at once.   *)
Init ==
    /\ QInit
    /\ dev_ops = NullDev
    /\ requested = FALSE /\ completed = FALSE
    /\ pc = "idle"
    /\ load_req = 0

(* dbgio_dev_init(dev): deinit a different active device (state IDLE),    *)
(* then select dev and call its init.                                     *)
DevInit(d) ==
    /\ pc = "idle"
    /\ dev_ops' = d
    /\ IF dev_ops # d /\ dev_ops # NoDev
          THEN requested' = FALSE /\ completed' = FALSE
          ELSE UNCHANGED <<requested, completed>>
    /\ UNCHANGED <<qvars, pc, load_req>>

(* dbgio_dev_deinit: a no-op without a device; else state IDLE, no device.*)
DevDeinit ==
    /\ pc = "idle"
    /\ dev_ops # NoDev
    /\ dev_ops' = NoDev
    /\ requested' = FALSE /\ completed' = FALSE
    /\ UNCHANGED <<qvars, pc, load_req>>

(* The device's font_load(_font_load_callback), on the state the caller   *)
(* has just written.                                                      *)
DeviceFontLoad ==
    IF dev_ops \in AsyncDevs
       THEN /\ \E t \in Tags : QEnqueue(t, FontCb) \/ QEnqueueFull(t, FontCb)
            /\ load_req' = nreq + 1
            /\ completed' = FALSE
       ELSE /\ completed' = TRUE
            /\ load_req' = 0
            /\ UNCHANGED qvars

(* Mutant: the bits are written after the device's font_load returns, so  *)
(* a synchronous device's callback is undone.                             *)
FontLoad_SetAfter ==
    /\ pc = "idle"
    /\ dev_ops # NoDev
    /\ ~requested
    /\ requested' = TRUE
    /\ completed' = FALSE
    /\ IF dev_ops \in AsyncDevs
          THEN /\ \E t \in Tags : QEnqueue(t, FontCb) \/ QEnqueueFull(t, FontCb)
               /\ load_req' = nreq + 1
          ELSE load_req' = 0 /\ UNCHANGED qvars
    /\ UNCHANGED <<dev_ops, pc>>

(* Mutant: a second font_load while one is requested is not refused.       *)
FontLoad_NoEarlyReturn ==
    /\ pc = "idle"
    /\ dev_ops # NoDev
    /\ requested' = TRUE
    /\ DeviceFontLoad
    /\ UNCHANGED <<dev_ops, pc>>

(* dbgio_dev_font_load: refused while a load is requested; otherwise      *)
(* clear COMPLETED, set REQUESTED and call the device's font_load.        *)
FontLoad ==
    /\ pc = "idle"
    /\ dev_ops # NoDev
    /\ ~requested
    /\ requested' = TRUE
    /\ DeviceFontLoad
    /\ UNCHANGED <<dev_ops, pc>>

(* dbgio_dev_font_load_wait: returns at once unless a load is requested;  *)
(* else spins on COMPLETED.                                               *)
FontLoadWait ==
    /\ pc = "idle"
    /\ dev_ops # NoDev
    /\ requested
    /\ pc' = "wait"
    /\ UNCHANGED <<qvars, dev_ops, requested, completed, load_req>>

(* The spin sees COMPLETED and clears REQUESTED.                          *)
FontLoadWaitExit ==
    /\ pc = "wait"
    /\ completed
    /\ requested' = FALSE
    /\ pc' = "idle"
    /\ UNCHANGED <<qvars, dev_ops, completed, load_req>>

(* Another client of the queue (the console, the application).           *)
OtherEnqueue ==
    /\ \E t \in Tags, c \in Clients \ {FontCb} :
          QEnqueue(t, c) \/ QEnqueueFull(t, c)
    /\ UNCHANGED dvars

Trigger(t) == (QTrigger(t) \/ QTriggerEmpty(t)) /\ UNCHANGED dvars

(* The channel-complete interrupt; a font transfer's callback is          *)
(* _font_load_callback, which sets COMPLETED whatever the state.          *)
Complete ==
    /\ QComplete
    /\ IF chan.client = FontCb THEN completed' = TRUE ELSE UNCHANGED completed
    /\ UNCHANGED <<dev_ops, requested, pc, load_req>>

Next ==
    \/ \E d \in Devs : DevInit(d)
    \/ DevDeinit
    \/ FontLoad
    \/ FontLoadWait \/ FontLoadWaitExit
    \/ OtherEnqueue
    \/ \E t \in Tags : Trigger(t)
    \/ Complete

(* The usage rule that makes the handshake sound: a device is selected or *)
(* deselected only when no font load is requested, i.e. after the wait.   *)
WaitedNext ==
    \/ ~requested /\ \E d \in Devs : DevInit(d)
    \/ ~requested /\ DevDeinit
    \/ FontLoad
    \/ FontLoadWait \/ FontLoadWaitExit
    \/ OtherEnqueue
    \/ \E t \in Tags : Trigger(t)
    \/ Complete

(* The trigger fires every frame, the hardware signals every completion,  *)
(* and the spinning foreground keeps reading the state.                   *)
Fairness ==
    /\ \A t \in Tags : WF_vars(Trigger(t))
    /\ WF_vars(Complete)
    /\ WF_vars(FontLoadWaitExit)

Spec == Init /\ [][Next]_vars /\ Fairness
WaitedSpec == Init /\ [][WaitedNext]_vars /\ Fairness

-----------------------------------------------------------------------------
TypeOK ==
    /\ QTypeOK
    /\ dev_ops \in Devs \cup {NoDev}
    /\ requested \in BOOLEAN /\ completed \in BOOLEAN
    /\ pc \in {"idle", "wait"}
    /\ load_req \in 0 .. MaxReq

(* While a font load is requested, COMPLETED means that load's font is in *)
(* VRAM: its transfer's callback has run (or the device loaded it         *)
(* synchronously).  This is what dbgio_dev_font_load_wait relies on when  *)
(* it returns on seeing COMPLETED.                                        *)
LoadedWhenCompleted ==
    (requested /\ completed) => (load_req = 0 \/ load_req \in Ids(finished))

(* dbgio_dev_font_load_wait, once spinning on a load the device finished *)
(* synchronously or whose transfer the queue accepted, returns: the       *)
(* transfer's callback sets COMPLETED.  (A refused enqueue leaves the wait *)
(* spinning, as cons_queue_full shows for the console.)                   *)
WaitReturns == (pc = "wait" /\ (load_req = 0 \/ load_req \in accepted)) ~> (pc = "idle")
=============================================================================
