---------------------------- MODULE ConsVdp2_proofs ----------------------------
(***************************************************************************)
(* Proofs about the VDP2 console driver over the transfer queue, for      *)
(* every set of tags and clients, bound on writes and queue depth at      *)
(* least the number of enqueue calls.                                     *)
(***************************************************************************)
EXTENDS ConsVdp2, DmaQueue_proofs, TLAPS

(* The queue never refuses a request: it is at least as deep as the       *)
(* number of enqueue calls.  cons_queue_full shows what a refused page    *)
(* transfer does.                                                         *)
QueueFits == MaxReq <= QueueDepth

(* The console's variables have their types.                              *)
ConsTypes ==
    /\ dirty \in BOOLEAN /\ flushing \in BOOLEAN
    /\ buf \in Nat /\ fgw \in Nat /\ snap \in Int /\ shown \in Int
    /\ pc \in {"boot", "app", "spin", "write"}

(* Where the page transfers are: only ever queued for VBLANK-IN, at most  *)
(* one on its way and exactly while FLUSHING is set, none before init.    *)
PageInv ==
    /\ \A t \in Tags \ {VblankIn} : ~HasPage(queue[t])
    /\ OneFlushInFlight
    /\ pc = "boot" => ~flushing

(* What the page transfer copies and shows: cons_vdp2_buffer writes only  *)
(* after FLUSHING has cleared, so a page transfer on the channel copied   *)
(* the latest foreground write, and a clean page has shown it.            *)
ShownInv ==
    /\ pc = "write" => ~flushing
    /\ fgw <= buf
    /\ (chan # NoReq /\ chan.client = PageXfer) => snap >= fgw
    /\ (pc # "boot" /\ ~dirty) => shown >= fgw

(* OneFlushInFlight and ForegroundShown strengthened to an inductive      *)
(* invariant.                                                              *)
ConsInv == QInv /\ ConsTypes /\ PageInv /\ ShownInv

-----------------------------------------------------------------------------
(* Where the page transfers are in a sequence of requests.                *)

LEMMA PagesOfConcat ==
    ASSUME NEW S, NEW s \in Seq(S), NEW t \in Seq(S)
    PROVE  /\ HasPage(s \o t) <=> HasPage(s) \/ HasPage(t)
           /\ OnePage(s \o t) <=> OnePage(s) /\ OnePage(t) /\ ~(HasPage(s) /\ HasPage(t))
<1>1. /\ Len(s \o t) = Len(s) + Len(t) /\ Len(s) \in Nat /\ Len(t) \in Nat
      /\ DOMAIN (s \o t) = 1 .. Len(s) + Len(t)
      /\ DOMAIN s = 1 .. Len(s) /\ DOMAIN t = 1 .. Len(t)
      /\ \A i \in 1 .. Len(s) + Len(t) :
            (s \o t)[i] = IF i <= Len(s) THEN s[i] ELSE t[i - Len(s)]
      BY ConcatProperties
<1>2. \A i \in 1 .. Len(s) + Len(t) :
         \/ i \in 1 .. Len(s) /\ (s \o t)[i] = s[i]
         \/ i - Len(s) \in 1 .. Len(t) /\ (s \o t)[i] = t[i - Len(s)]
      BY <1>1
<1>3. /\ \A i \in 1 .. Len(s) : i \in 1 .. Len(s) + Len(t) /\ (s \o t)[i] = s[i]
      /\ \A j \in 1 .. Len(t) : Len(s) + j \in 1 .. Len(s) + Len(t)
                                /\ (s \o t)[Len(s) + j] = t[j]
      BY <1>1
<1>4. HasPage(s \o t) <=> HasPage(s) \/ HasPage(t)
  <2>1. ASSUME HasPage(s \o t) PROVE HasPage(s) \/ HasPage(t)
    <3>1. PICK i \in 1 .. Len(s) + Len(t) : (s \o t)[i].client = PageXfer
          BY <1>1, <2>1 DEF HasPage
    <3> QED
        BY <1>1, <1>2, <3>1 DEF HasPage
  <2>2. ASSUME HasPage(s) PROVE HasPage(s \o t)
    <3>1. PICK i \in 1 .. Len(s) : s[i].client = PageXfer
          BY <1>1, <2>2 DEF HasPage
    <3> QED
        BY <1>1, <1>3, <3>1 DEF HasPage
  <2>3. ASSUME HasPage(t) PROVE HasPage(s \o t)
    <3>1. PICK j \in 1 .. Len(t) : t[j].client = PageXfer
          BY <1>1, <2>3 DEF HasPage
    <3>2. Len(s) + j \in DOMAIN (s \o t) /\ (s \o t)[Len(s) + j].client = PageXfer
          BY <1>1, <1>3, <3>1
    <3> QED
        BY <3>2 DEF HasPage
  <2> QED
      BY <2>1, <2>2, <2>3
<1>5. OnePage(s \o t) => OnePage(s) /\ OnePage(t) /\ ~(HasPage(s) /\ HasPage(t))
  <2> SUFFICES ASSUME OnePage(s \o t)
               PROVE  OnePage(s) /\ OnePage(t) /\ ~(HasPage(s) /\ HasPage(t))
      OBVIOUS
  <2>1. OnePage(s)
        BY <1>1, <1>3 DEF OnePage
  <2>2. OnePage(t)
    <3> SUFFICES ASSUME NEW i \in DOMAIN t, NEW j \in DOMAIN t,
                        t[i].client = PageXfer, t[j].client = PageXfer
                 PROVE  i = j
        BY DEF OnePage
    <3>0. /\ Len(s) + i \in DOMAIN (s \o t) /\ (s \o t)[Len(s) + i] = t[i]
          /\ Len(s) + j \in DOMAIN (s \o t) /\ (s \o t)[Len(s) + j] = t[j]
          BY <1>1, <1>3
    <3>1. Len(s) + i = Len(s) + j
          BY <3>0, Zenon DEF OnePage
    <3> QED
        BY <1>1, <3>1
  <2>3. ~(HasPage(s) /\ HasPage(t))
    <3> SUFFICES ASSUME NEW i \in DOMAIN s, NEW j \in DOMAIN t,
                        s[i].client = PageXfer, t[j].client = PageXfer
                 PROVE  FALSE
        BY DEF HasPage
    <3>1. i = Len(s) + j
          BY <1>1, <1>3 DEF OnePage
    <3> QED
        BY <1>1, <3>1
  <2> QED
      BY <2>1, <2>2, <2>3
<1>6. OnePage(s) /\ OnePage(t) /\ ~(HasPage(s) /\ HasPage(t)) => OnePage(s \o t)
  <2> SUFFICES ASSUME OnePage(s), OnePage(t), ~(HasPage(s) /\ HasPage(t)),
                      NEW i \in DOMAIN (s \o t), NEW j \in DOMAIN (s \o t),
                      (s \o t)[i].client = PageXfer, (s \o t)[j].client = PageXfer
               PROVE  i = j
      BY DEF OnePage
  <2>1. CASE i <= Len(s) /\ j <= Len(s)
        BY <1>1, <2>1 DEF OnePage
  <2>2. CASE i <= Len(s) /\ ~(j <= Len(s))
        BY <1>1, <2>2 DEF HasPage
  <2>3. CASE ~(i <= Len(s)) /\ j <= Len(s)
        BY <1>1, <2>3 DEF HasPage
  <2>4. CASE ~(i <= Len(s)) /\ ~(j <= Len(s))
    <3>1. i - Len(s) \in DOMAIN t /\ j - Len(s) \in DOMAIN t
          /\ t[i - Len(s)].client = PageXfer /\ t[j - Len(s)].client = PageXfer
          BY <1>1, <2>4
    <3>2. i - Len(s) = j - Len(s)
          BY <3>1 DEF OnePage
    <3> QED
        BY <1>1, <3>2
  <2> QED
      BY <2>1, <2>2, <2>3, <2>4
<1> QED
    BY <1>4, <1>5, <1>6

LEMMA PagesOfSingle ==
    ASSUME NEW x
    PROVE  /\ HasPage(<<x>>) <=> x.client = PageXfer
           /\ OnePage(<<x>>)
           /\ ~HasPage(<<>>) /\ OnePage(<<>>)
BY DEF HasPage, OnePage

LEMMA PagesOfConcatReq ==
    \A s, t \in Seq(Req) :
       /\ HasPage(s \o t) <=> HasPage(s) \/ HasPage(t)
       /\ OnePage(s \o t) <=> OnePage(s) /\ OnePage(t) /\ ~(HasPage(s) /\ HasPage(t))
BY PagesOfConcat

LEMMA NoPageOnePage ==
    ASSUME NEW s, ~HasPage(s) PROVE OnePage(s)
BY DEF HasPage, OnePage

-----------------------------------------------------------------------------
(* How the queue's steps move the page transfers.                         *)

LEMMA InFlightIs == InFlight = (ChanSeq \o running) \o queue[VblankIn]
BY DEF InFlight

LEMMA InFlightIsPrimed == InFlight' = (ChanSeq' \o running') \o queue'[VblankIn]
BY DEF InFlight, ChanSeq

LEMMA QueuePieces ==
    ASSUME QInv
    PROVE  /\ ChanSeq \in Seq(Req) /\ running \in Seq(Req)
           /\ ChanSeq \o running \in Seq(Req)
           /\ \A t \in Tags : queue[t] \in Seq(Req)
<1>1. ChanSeq \in Seq(Req) /\ running \in Seq(Req) /\ \A t \in Tags : queue[t] \in Seq(Req)
      BY ChanSeqType DEF QInv, QTypeOK
<1> QED
    BY <1>1, ConcatProperties

(* An enqueue appends its request to its tag's queue.                     *)
LEMMA EnqueuePages ==
    ASSUME QInv, NEW t \in Tags, NEW c \in Clients, QEnqueue(t, c)
    PROVE  /\ HasPage(InFlight') <=> HasPage(InFlight) \/ (t = VblankIn /\ c = PageXfer)
           /\ OnePage(InFlight') <=>
                 OnePage(InFlight) /\ ~(HasPage(InFlight) /\ t = VblankIn /\ c = PageXfer)
           /\ \A u \in Tags : HasPage(queue'[u]) <=> HasPage(queue[u]) \/ (u = t /\ c = PageXfer)
<1> DEFINE r == [id |-> nreq + 1, tag |-> t, client |-> c]
<1>1. /\ queue' = [queue EXCEPT ![t] = Append(queue[t], r)]
      /\ UNCHANGED <<running, chan>>
      BY Zenon DEF QEnqueue
<1>2. nreq \in Nat /\ nreq + 1 \in 1 .. MaxReq
      BY QueueAssumption, SMT DEF QInv, QTypeOK, QEnqueue
<1>10. r \in Req
      BY <1>2 DEF Req
<1>3. r \in Req /\ r.client = c /\ <<r>> \in Seq(Req)
      BY <1>10
<1> HIDE DEF r
<1>4. /\ ChanSeq \o running \in Seq(Req) /\ \A u \in Tags : queue[u] \in Seq(Req)
      /\ queue \in [Tags -> Seq(Req)] /\ VblankIn \in Tags
      BY QueuePieces, ConsAssumption DEF QInv, QTypeOK
<1>5. queue'[t] = queue[t] \o <<r>> /\ \A u \in Tags : u # t => queue'[u] = queue[u]
      BY <1>1, <1>3, <1>4, AppendIsConcat
<1>6. \A u \in Tags : HasPage(queue'[u]) <=> HasPage(queue[u]) \/ (u = t /\ c = PageXfer)
  <2> SUFFICES ASSUME NEW u \in Tags
               PROVE  HasPage(queue'[u]) <=> HasPage(queue[u]) \/ (u = t /\ c = PageXfer)
      OBVIOUS
  <2>1. CASE u = t
    <3>0. queue[t] \in Seq(Req)
          BY <1>4
    <3>1. HasPage(queue[t] \o <<r>>) <=> HasPage(queue[t]) \/ HasPage(<<r>>)
          BY <1>3, <3>0, PagesOfConcatReq
    <3> QED
        BY <1>3, <1>5, <2>1, <3>1, PagesOfSingle
  <2>2. CASE u # t
        BY <1>5, <2>2
  <2> QED
      BY <2>1, <2>2
<1>7. ChanSeq' \o running' = ChanSeq \o running
      BY <1>1 DEF ChanSeq
<1>8. CASE t = VblankIn
  <2>1. InFlight' = (ChanSeq \o running) \o (queue[VblankIn] \o <<r>>)
        BY <1>5, <1>7, <1>8, InFlightIsPrimed
  <2>2. InFlight' = InFlight \o <<r>>
        BY <1>3, <1>4, <2>1, InFlightIs, AssocReq
  <2>3. InFlight \in Seq(Req)
        BY <1>4, InFlightIs, ConcatProperties
  <2>4. /\ HasPage(InFlight \o <<r>>) <=> HasPage(InFlight) \/ HasPage(<<r>>)
        /\ OnePage(InFlight \o <<r>>) <=>
              OnePage(InFlight) /\ OnePage(<<r>>) /\ ~(HasPage(InFlight) /\ HasPage(<<r>>))
        BY <1>3, <2>3, PagesOfConcatReq
  <2> QED
      BY <1>3, <1>6, <1>8, <2>2, <2>4, PagesOfSingle
<1>9. CASE t # VblankIn
  <2>1. InFlight' = InFlight
        BY <1>4, <1>5, <1>7, <1>9, InFlightIs, InFlightIsPrimed
  <2> QED
      BY <1>6, <1>9, <2>1
<1> QED
    BY <1>8, <1>9

(* A trigger moves a queue to the channel's side: the page transfers on   *)
(* their way stay the same, since no other tag's queue holds one.         *)
LEMMA TriggerPages ==
    ASSUME QInv, \A u \in Tags \ {VblankIn} : ~HasPage(queue[u]),
           NEW t \in Tags, QTrigger(t)
    PROVE  /\ HasPage(InFlight') <=> HasPage(InFlight)
           /\ OnePage(InFlight') <=> OnePage(InFlight)
           /\ \A u \in Tags \ {VblankIn} : ~HasPage(queue'[u])
<1> DEFINE F == ChanSeq \o running
           q == queue[t]
           qv == queue[VblankIn]
<1>1. /\ F \in Seq(Req) /\ q \in Seq(Req) /\ qv \in Seq(Req)
      /\ queue \in [Tags -> Seq(Req)] /\ VblankIn \in Tags
      BY QueuePieces, ConsAssumption DEF QInv, QTypeOK
<1>2. /\ ChanSeq' \o running' = F \o q
      /\ queue' = [queue EXCEPT ![t] = <<>>]
      BY TriggerTakes DEF QTrigger
<1>3. \A u \in Tags \ {VblankIn} : ~HasPage(queue'[u])
      BY <1>1, <1>2, PagesOfSingle
<1>4. CASE t = VblankIn
  <2>1. InFlight' = (F \o q) \o <<>>
        BY <1>1, <1>2, <1>4, InFlightIsPrimed
  <2>2. InFlight' = InFlight
        BY <1>1, <1>4, <2>1, InFlightIs, ConcatEmptySeq, ConcatProperties
  <2> QED
      BY <1>3, <2>2
<1>5. CASE t # VblankIn
  <2>1. InFlight' = (F \o q) \o qv /\ InFlight = F \o qv
        BY <1>1, <1>2, <1>5, InFlightIs, InFlightIsPrimed
  <2>2. ~HasPage(q) /\ OnePage(q) /\ F \o q \in Seq(Req)
        BY <1>1, <1>5, NoPageOnePage, ConcatProperties
  <2>3. /\ HasPage(F \o q) <=> HasPage(F)
        /\ OnePage(F \o q) <=> OnePage(F)
        BY <1>1, <2>2, PagesOfConcatReq
  <2>4. /\ HasPage((F \o q) \o qv) <=> HasPage(F \o q) \/ HasPage(qv)
        /\ OnePage((F \o q) \o qv) <=>
              OnePage(F \o q) /\ OnePage(qv) /\ ~(HasPage(F \o q) /\ HasPage(qv))
        /\ HasPage(F \o qv) <=> HasPage(F) \/ HasPage(qv)
        /\ OnePage(F \o qv) <=> OnePage(F) /\ OnePage(qv) /\ ~(HasPage(F) /\ HasPage(qv))
        BY <1>1, <2>2, PagesOfConcatReq
  <2> QED
      BY <1>3, <2>1, <2>3, <2>4
<1> QED
    BY <1>4, <1>5

(* A completion takes the request on the channel off the way.             *)
LEMMA CompletePages ==
    ASSUME QInv, QComplete
    PROVE  /\ HasPage(InFlight) <=> chan.client = PageXfer \/ HasPage(InFlight')
           /\ OnePage(InFlight) <=>
                 OnePage(InFlight') /\ ~(chan.client = PageXfer /\ HasPage(InFlight'))
           /\ UNCHANGED queue
<1> DEFINE qv == queue[VblankIn]
<1>1. /\ ChanSeq = <<chan>> /\ chan \in Req
      /\ ChanSeq' \o running' = running
      BY CompleteTakes
<1>2. UNCHANGED queue
      BY DEF QComplete
<1>3. running \in Seq(Req) /\ qv \in Seq(Req) /\ <<chan>> \in Seq(Req)
      BY <1>1, QueuePieces, ConsAssumption DEF QInv, QTypeOK
<1>4. InFlight' = running \o qv
      BY <1>1, <1>2, InFlightIsPrimed
<1>5. InFlight = <<chan>> \o (running \o qv) /\ running \o qv \in Seq(Req)
      BY <1>1, <1>3, InFlightIs, AssocReq, ConcatProperties
<1>6. /\ HasPage(<<chan>> \o (running \o qv)) <=> HasPage(<<chan>>) \/ HasPage(running \o qv)
      /\ OnePage(<<chan>> \o (running \o qv)) <=>
            OnePage(<<chan>>) /\ OnePage(running \o qv)
            /\ ~(HasPage(<<chan>>) /\ HasPage(running \o qv))
      BY <1>3, <1>5, PagesOfConcatReq
<1> QED
    BY <1>2, <1>4, <1>5, <1>6, PagesOfSingle

(* An enqueue of another client's request, accepted or refused, leaves    *)
(* the page transfers where they were.                                    *)
LEMMA EnqueueNoPage ==
    ASSUME QInv, NEW t \in Tags, NEW c \in Clients, c # PageXfer,
           QEnqueue(t, c) \/ QEnqueueFull(t, c)
    PROVE  /\ HasPage(InFlight') <=> HasPage(InFlight)
           /\ OnePage(InFlight') <=> OnePage(InFlight)
           /\ \A u \in Tags : HasPage(queue'[u]) <=> HasPage(queue[u])
           /\ UNCHANGED chan
<1>1. CASE QEnqueue(t, c)
      BY <1>1, EnqueuePages DEF QEnqueue
<1>2. CASE QEnqueueFull(t, c)
      BY <1>2 DEF QEnqueueFull, InFlight, ChanSeq
<1> QED
    BY <1>1, <1>2

(* With a queue as deep as the number of enqueue calls, the flush's       *)
(* enqueue is never refused.                                              *)
LEMMA NoRefusal ==
    ASSUME QInv, QueueFits, NEW t \in Tags, NEW c \in Clients
    PROVE  ~QEnqueueFull(t, c)
<1>1. Len(queue[t]) <= nreq /\ nreq \in Nat /\ Len(queue[t]) \in Nat
      BY DEF QInv, QTypeOK
<1> QED
    BY <1>1, QueueAssumption, SMT DEF QEnqueueFull, HasRoom, QueueFits

(* A page transfer on the channel is on its way.                          *)
LEMMA ChanInFlight ==
    ASSUME QInv, chan # NoReq, chan.client = PageXfer
    PROVE  HasPage(InFlight)
<1>1. ChanSeq = <<chan>> /\ running \in Seq(Req) /\ queue[VblankIn] \in Seq(Req)
      /\ ChanSeq \in Seq(Req) /\ ChanSeq \o running \in Seq(Req)
      BY QueuePieces, ConsAssumption DEF ChanSeq
<1>2. HasPage(ChanSeq)
      BY <1>1, PagesOfSingle
<1>3. HasPage(ChanSeq \o running)
      BY <1>1, <1>2, PagesOfConcatReq
<1> QED
    BY <1>1, <1>3, InFlightIs, PagesOfConcatReq

(* The page transfer the channel starts copies the page as it is now.     *)
LEMMA SnapStep ==
    ASSUME buf \in Nat, fgw \in Nat, snap \in Int, fgw <= buf,
           (chan # NoReq /\ chan.client = PageXfer) => snap >= fgw,
           CopyOnStart, UNCHANGED <<buf, fgw>>
    PROVE  /\ ((chan # NoReq /\ chan.client = PageXfer) => snap >= fgw)'
           /\ snap' \in Int
<1>1. CASE Starts(PageXfer)
      BY <1>1, SMT DEF CopyOnStart
<1>2. CASE ~Starts(PageXfer)
  <2>1. snap' = snap /\ (chan' = NoReq \/ chan' = chan \/ chan'.client # PageXfer)
        BY <1>2 DEF CopyOnStart, Starts
  <2> QED
      BY <2>1
<1> QED
    BY <1>1, <1>2

(* Every step of the console, its main loop and the other clients is a    *)
(* step of the queue on its own, or leaves the queue alone.               *)
LEMMA QueueStepOfCons == [Next]_vars => [QNext]_qvars
<1> SUFFICES ASSUME [Next]_vars PROVE [QNext]_qvars
    OBVIOUS
<1>1. CASE ConsInit \/ Flush
      BY <1>1, ConsAssumption DEF ConsInit, Flush, EnqueueIgnored, QNext, vars
<1>2. CASE BufferCall \/ BufferSpinExit \/ BufferWrite \/ IsrWrite
      BY <1>2 DEF BufferCall, BufferSpinExit, BufferWrite, IsrWrite
<1>3. CASE OtherEnqueue
      BY <1>3, ConsAssumption DEF OtherEnqueue, QNext
<1>4. CASE \E t \in Tags : Trigger(t)
      BY <1>4 DEF Trigger, QNext
<1>5. CASE Complete
      BY <1>5 DEF Complete, QNext
<1>6. CASE UNCHANGED vars
      BY <1>6 DEF vars, qvars
<1> QED
    BY <1>1, <1>2, <1>3, <1>4, <1>5, <1>6 DEF Next

-----------------------------------------------------------------------------
(* Every step of the console keeps ConsInv.                               *)
LEMMA ConsInvStep == QueueFits /\ ConsInv /\ [Next]_vars => ConsInv'
<1> SUFFICES ASSUME QueueFits, ConsInv, [Next]_vars PROVE ConsInv'
    OBVIOUS
<1>0. QInv'
      BY QueueStepOfCons, QInvStep DEF ConsInv
<1> USE DEF ConsInv, ConsTypes, PageInv, ShownInv, OneFlushInFlight
<1>1. CASE ConsInit
  <2>1. pc = "boot" /\ ~flushing /\ ~HasPage(InFlight)
        BY <1>1 DEF ConsInit
  <2>2. /\ HasPage(InFlight') <=> HasPage(InFlight)
        /\ OnePage(InFlight') <=> OnePage(InFlight)
        /\ \A u \in Tags : HasPage(queue'[u]) <=> HasPage(queue[u])
        /\ UNCHANGED chan
        BY <1>1, ConsAssumption, EnqueueNoPage DEF ConsInit, EnqueueIgnored
  <2> QED
      BY <1>0, <1>1, <2>1, <2>2 DEF ConsInit
<1>2. CASE BufferCall \/ BufferSpinExit
  <2>1. UNCHANGED <<InFlight, chan, queue>>
        BY <1>2 DEF BufferCall, BufferSpinExit, InFlight, ChanSeq, qvars
  <2> QED
      BY <1>0, <1>2, <2>1 DEF BufferCall, BufferSpinExit
<1>9. CASE IsrWrite
  <2>1. UNCHANGED <<InFlight, chan, queue>>
        BY <1>9 DEF IsrWrite, InFlight, ChanSeq, qvars
  <2>2. buf' = buf + 1 /\ buf' \in Nat /\ fgw <= buf'
        BY <1>9, SMT DEF IsrWrite
  <2> QED
      BY <1>0, <1>9, <2>1, <2>2 DEF IsrWrite
<1>3. CASE BufferWrite
  <2>1. UNCHANGED <<InFlight, chan, queue>>
        BY <1>3 DEF BufferWrite, InFlight, ChanSeq, qvars
  <2>2. ~(chan # NoReq /\ chan.client = PageXfer)
        BY <1>3, ChanInFlight DEF BufferWrite
  <2> QED
      BY <1>0, <1>3, <2>1, <2>2 DEF BufferWrite
<1>4. CASE Flush
  <2>1. CASE dirty /\ ~flushing
    <3>1. ~HasPage(InFlight) /\ OnePage(InFlight) /\ pc = "app"
          BY <1>4, <2>1 DEF Flush
    <3>2. /\ QEnqueue(VblankIn, PageXfer)
          /\ flushing' = TRUE
          /\ UNCHANGED <<dirty, buf, snap, shown, pc, isr, fgw>>
          BY <1>4, <2>1, ConsAssumption, NoRefusal DEF Flush, EnqueueIgnored
    <3>3. /\ HasPage(InFlight') /\ OnePage(InFlight')
          /\ \A u \in Tags \ {VblankIn} : ~HasPage(queue'[u])
          BY <3>1, <3>2, ConsAssumption, EnqueuePages
    <3>4. UNCHANGED chan
          BY <3>2 DEF QEnqueue
    <3>5. ConsTypes'
          BY <3>2
    <3>6. PageInv'
          BY <3>1, <3>2, <3>3
    <3>7. ShownInv'
          BY <3>1, <3>2, <3>4
    <3> QED
        BY <1>0, <3>5, <3>6, <3>7
  <2>2. CASE ~(dirty /\ ~flushing)
    <3>1. UNCHANGED vars
          BY <1>4, <2>2 DEF Flush
    <3> QED
        BY <1>0, <3>1 DEF vars, qvars, cvars, InFlight, ChanSeq
  <2> QED
      BY <2>1, <2>2
<1>5. CASE OtherEnqueue
  <2>1. /\ HasPage(InFlight') <=> HasPage(InFlight)
        /\ OnePage(InFlight') <=> OnePage(InFlight)
        /\ \A u \in Tags : HasPage(queue'[u]) <=> HasPage(queue[u])
        /\ UNCHANGED chan
        BY <1>5, ConsAssumption, EnqueueNoPage DEF OtherEnqueue
  <2> QED
      BY <1>0, <1>5, <2>1 DEF OtherEnqueue, cvars
<1>6. ASSUME NEW t \in Tags, Trigger(t) PROVE ConsInv'
  <2>1. CASE QTrigger(t) /\ CopyOnStart
             /\ UNCHANGED <<dirty, flushing, buf, shown, pc, isr, fgw>>
    <3>1. /\ HasPage(InFlight') <=> HasPage(InFlight)
          /\ OnePage(InFlight') <=> OnePage(InFlight)
          /\ \A u \in Tags \ {VblankIn} : ~HasPage(queue'[u])
          BY <2>1, TriggerPages
    <3>2. /\ ((chan # NoReq /\ chan.client = PageXfer) => snap >= fgw)'
          /\ snap' \in Int
          BY <2>1, SnapStep
    <3> QED
        BY <1>0, <2>1, <3>1, <3>2
  <2>2. CASE QTriggerEmpty(t) /\ UNCHANGED cvars
        BY <1>0, <2>2 DEF QTriggerEmpty, qvars, cvars, InFlight, ChanSeq
  <2> QED
      BY <1>6, <2>1, <2>2 DEF Trigger
<1>7. CASE Complete
  <2>1. /\ HasPage(InFlight) <=> chan.client = PageXfer \/ HasPage(InFlight')
        /\ OnePage(InFlight) <=>
              OnePage(InFlight') /\ ~(chan.client = PageXfer /\ HasPage(InFlight'))
        /\ UNCHANGED queue
        BY <1>7, CompletePages DEF Complete
  <2>2. chan # NoReq
        BY <1>7 DEF Complete, QComplete
  <2>3. /\ ((chan # NoReq /\ chan.client = PageXfer) => snap >= fgw)'
        /\ snap' \in Int
        BY <1>7, SnapStep DEF Complete
  <2>4. CASE chan.client = PageXfer
    <3>1. shown' = snap /\ dirty' = FALSE /\ flushing' = FALSE /\ UNCHANGED <<buf, pc, fgw>>
          BY <1>7, <2>4 DEF Complete, DmaHandler
    <3>2. ~HasPage(InFlight') /\ OnePage(InFlight') /\ snap >= fgw
          BY <2>1, <2>2, <2>4
    <3>3. ConsTypes'
          BY <2>3, <3>1
    <3>4. PageInv'
          BY <2>1, <3>1, <3>2
    <3>5. ShownInv'
          BY <2>3, <3>1, <3>2
    <3> QED
        BY <1>0, <3>3, <3>4, <3>5
  <2>5. CASE chan.client # PageXfer
    <3>1. UNCHANGED <<shown, dirty, flushing, buf, pc, fgw>>
          BY <1>7, <2>5 DEF Complete
    <3> QED
        BY <1>0, <2>1, <2>3, <2>5, <3>1
  <2> QED
      BY <2>4, <2>5
<1>8. CASE UNCHANGED vars
      BY <1>0, <1>8 DEF vars, qvars, cvars, InFlight, ChanSeq
<1> QED
    BY <1>1, <1>2, <1>3, <1>4, <1>5, <1>6, <1>7, <1>8, <1>9 DEF Next

(* The console's initial state satisfies the inductive invariant: the     *)
(* queue is empty and idle, nothing is dirty or flushing and no write has *)
(* been made.                                                              *)
LEMMA InitConsInv == Init => ConsInv
<1> SUFFICES ASSUME Init PROVE ConsInv
    OBVIOUS
<1>1. QInv
      BY InitQInv DEF Init
<1>2. chan = NoReq /\ running = <<>> /\ \A t \in Tags : queue[t] = <<>>
      BY DEF Init, QInit
<1>3. InFlight = <<>>
      BY <1>2, ConsAssumption DEF InFlight, ChanSeq
<1>4. ConsTypes
  <2>1. dirty = FALSE /\ flushing = FALSE /\ pc = "boot"
        BY DEF Init
  <2>2. buf = 0 /\ fgw = 0 /\ snap = -1 /\ shown = -1
        BY DEF Init, NoVersion
  <2>3. dirty \in BOOLEAN /\ flushing \in BOOLEAN /\ pc \in {"boot", "app", "spin", "write"}
        BY <2>1, Zenon
  <2>4. buf \in Nat /\ fgw \in Nat /\ snap \in Int /\ shown \in Int
        BY <2>2, SMT
  <2> QED
      BY <2>3, <2>4 DEF ConsTypes
<1>5. PageInv
      BY <1>2, <1>3 DEF Init, PageInv, OneFlushInFlight, HasPage, OnePage
<1>6. ShownInv
      BY <1>2, ReqNotNoReq DEF Init, ShownInv
<1> QED
    BY <1>1, <1>4, <1>5, <1>6 DEF ConsInv

(* When the queue is deep enough for every request the run can make       *)
(* (QueueFits), the console's page is in flight at most once, and         *)
(* FLUSHING is set exactly while it is (OneFlushInFlight, checked by the  *)
(* cons_vdp2 run): cons_flush never queues a second page transfer while   *)
(* one is pending, and the completion callback clears the flag only with  *)
(* the transfer that set it. This holds for every set of tags and         *)
(* clients, every queue depth and every bound on the writes.              *)
THEOREM FlushesInFlight == ASSUME QueueFits PROVE Spec => []OneFlushInFlight
<1>1. Init => ConsInv
      BY InitConsInv
<1>2. ConsInv /\ [Next]_vars => ConsInv'
      BY ConsInvStep
<1>3. ConsInv => OneFlushInFlight
      BY DEF ConsInv, PageInv
<1> QED
    BY <1>1, <1>2, <1>3, PTL DEF Spec

(* When the queue is deep enough (QueueFits), every character written by  *)
(* the application is on VDP2 once the console is neither dirty nor       *)
(* flushing (ForegroundShown, checked by the cons_vdp2 run): the page the *)
(* last flush copied is the one the completion callback shows, and a      *)
(* write made while a page is in flight marks the buffer dirty again.     *)
THEOREM ForegroundWritesShown == ASSUME QueueFits PROVE Spec => []ForegroundShown
<1>1. Init => ConsInv
      BY InitConsInv
<1>2. ConsInv /\ [Next]_vars => ConsInv'
      BY ConsInvStep
<1>3. ConsInv => ForegroundShown
      BY DEF ConsInv, ShownInv, ForegroundShown
<1> QED
    BY <1>1, <1>2, <1>3, PTL DEF Spec
=============================================================================
