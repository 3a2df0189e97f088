------------------------------ MODULE DmaQueue -------------------------------
(***************************************************************************)
(* The transfer queue (dma_queue_enqueue and its interrupt handlers) that *)
(* cons/drivers/vdp2.c hands its transfers to.  Its code is not part of   *)
(* this repository; the model follows the contract of spec section 4.1:   *)
(* one FIFO per trigger tag, bounded by QueueDepth; a trigger moves the   *)
(* tag's requests to the channel's dispatch list and starts the first if *)
(* the channel is idle; the channel-complete interrupt runs the request's *)
(* callback and then starts the next dispatched request.                  *)
(*                                                                         *)
(* The actions here change only the queue's variables, so that a client   *)
(* module can conjoin the effect of its own callbacks (ConsVdp2, Dbgio).  *)
(***************************************************************************)
EXTENDS Naturals, Sequences

CONSTANTS
    Tags,         \* trigger tags (DMA_QUEUE_TAG_VBLANK_IN, ...)
    Clients,      \* whose callback a request carries
    QueueDepth,   \* requests a tag's queue holds before enqueue fails
    MaxReq        \* bound on enqueue calls (request ids 1..MaxReq)

ASSUME QueueAssumption ==
    /\ Tags # {} /\ Clients # {}
    /\ QueueDepth \in Nat \ {0}
    /\ MaxReq \in Nat

Req   == [id : 1 .. MaxReq, tag : Tags, client : Clients]
NoReq == [id |-> 0]

VARIABLES
    queue,     \* per tag: requests enqueued and not yet triggered
    running,   \* requests taken by triggers, waiting for the channel
    chan,      \* the request the channel is transferring, or NoReq
    nreq,      \* enqueue calls so far (the id of the latest request)
    accepted,  \* history: ids enqueue accepted
    finished   \* history: requests whose callback has run, in order

qvars == <<queue, running, chan, nreq, accepted, finished>>

(* The ids held in a sequence of requests.                                *)
Ids(s) == {s[i].id : i \in DOMAIN s}

QInit ==
    /\ queue = [t \in Tags |-> <<>>]
    /\ running = <<>>
    /\ chan = NoReq
    /\ nreq = 0
    /\ accepted = {}
    /\ finished = <<>>

(* Can a request for tag t be accepted now?                               *)
HasRoom(t) == Len(queue[t]) < QueueDepth

(* dma_queue_enqueue succeeding: the request goes to the tail of its      *)
(* tag's queue.                                                            *)
QEnqueue(t, c) ==
    /\ nreq < MaxReq
    /\ HasRoom(t)
    /\ LET r == [id |-> nreq + 1, tag |-> t, client |-> c]
       IN  /\ queue' = [queue EXCEPT ![t] = Append(@, r)]
           /\ accepted' = accepted \cup {r.id}
    /\ nreq' = nreq + 1
    /\ UNCHANGED <<running, chan, finished>>

(* dma_queue_enqueue failing with ChannelBusyOverflow: nothing queued.    *)
QEnqueueFull(t, c) ==
    /\ nreq < MaxReq
    /\ ~HasRoom(t)
    /\ nreq' = nreq + 1
    /\ UNCHANGED <<queue, running, chan, accepted, finished>>

(* Start the first of the dispatch list pending on an idle channel.       *)
StartFrom(pending) ==
    IF chan = NoReq /\ pending # <<>>
       THEN /\ chan' = Head(pending)
            /\ running' = Tail(pending)
       ELSE /\ chan' = chan
            /\ running' = pending

(* The trigger of tag t fires (the VBLANK-IN interrupt for the console): *)
(* every request queued for t is dispatched, in enqueue order.           *)
QTrigger(t) ==
    /\ queue[t] # <<>>
    /\ queue' = [queue EXCEPT ![t] = <<>>]
    /\ StartFrom(running \o queue[t])
    /\ UNCHANGED <<nreq, accepted, finished>>

(* A trigger of tag t with nothing queued for it is a no-op; it fires    *)
(* every frame all the same.                                              *)
QTriggerEmpty(t) ==
    /\ queue[t] = <<>>
    /\ UNCHANGED qvars

(* The channel-complete interrupt: the request's callback has run (its    *)
(* effect is the client's), then the next dispatched request starts.      *)
QComplete ==
    /\ chan # NoReq
    /\ finished' = Append(finished, chan)
    /\ IF running # <<>>
          THEN /\ chan' = Head(running)
               /\ running' = Tail(running)
          ELSE /\ chan' = NoReq
               /\ running' = <<>>
    /\ UNCHANGED <<queue, nreq, accepted>>

(* A request begins its transfer in this step.                            *)
Starts(c) == chan' # NoReq /\ chan' # chan /\ chan'.client = c

-----------------------------------------------------------------------------
(* The queue on its own, with any client enqueueing any time.             *)
QNext ==
    \/ \E t \in Tags, c \in Clients : QEnqueue(t, c) \/ QEnqueueFull(t, c)
    \/ \E t \in Tags : QTrigger(t) \/ QTriggerEmpty(t)
    \/ QComplete

(* The timing signal fires every frame and the hardware signals every     *)
(* completion, so neither can be withheld forever.                        *)
QFairness == (\A t \in Tags : WF_qvars(QTrigger(t))) /\ WF_qvars(QComplete)

QSpec == QInit /\ [][QNext]_qvars /\ QFairness

-----------------------------------------------------------------------------
QTypeOK ==
    /\ queue \in [Tags -> Seq(Req)]
    /\ running \in Seq(Req)
    /\ chan \in Req \cup {NoReq}
    /\ nreq \in 0 .. MaxReq
    /\ accepted \subseteq 1 .. MaxReq
    /\ finished \in Seq(Req)

(* The channel's request as a sequence: empty when it is idle.           *)
ChanSeq == IF chan = NoReq THEN <<>> ELSE <<chan>>

(* The requests the channel has taken, oldest first: completed, in       *)
(* flight, dispatched and waiting.                                        *)
Dispatched == finished \o ChanSeq \o running

NoDup(s) == \A i, j \in DOMAIN s : i # j => s[i].id # s[j].id

(* No request accepted by enqueue is lost or duplicated on its way from   *)
(* its tag's queue through the dispatch list and the channel to its       *)
(* callback: every accepted id is in exactly one place, once.             *)
Conserved ==
    /\ Ids(Dispatched) \cup UNION {Ids(queue[t]) : t \in Tags} = accepted
    /\ NoDup(Dispatched)
    /\ \A t \in Tags : NoDup(queue[t]) /\ Ids(queue[t]) \cap Ids(Dispatched) = {}
    /\ \A t, u \in Tags : t # u => Ids(queue[t]) \cap Ids(queue[u]) = {}
=============================================================================
