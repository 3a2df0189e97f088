------------------------------ MODULE Dbgio_proofs -----------------------------
(***************************************************************************)
(* The transfer queue's conservation of requests, carried over to the     *)
(* queue as dbgio and its other clients drive it.                          *)
(***************************************************************************)
EXTENDS Dbgio, DmaQueue_proofs, TLAPS

(* The ids of the font callback's requests in a sequence of requests.     *)
FontIdsOf(s) == {s[i].id : i \in {j \in DOMAIN s : s[j].client = FontCb}}

(* The font callback's requests whose callback has not run yet: on the    *)
(* channel, dispatched, or queued under some tag.                         *)
FontIds == FontIdsOf(ChanSeq \o running) \cup UNION {FontIdsOf(queue[t]) : t \in Tags}

(* LoadedWhenCompleted strengthened to an inductive invariant: with no    *)
(* load requested no font transfer is pending; a synchronous load leaves  *)
(* none pending and COMPLETED set; an asynchronous load's transfer is the *)
(* only font transfer pending, and COMPLETED is set only once it has run. *)
LoadInv ==
    /\ requested \in BOOLEAN /\ completed \in BOOLEAN
    /\ ~requested => FontIds = {}
    /\ (requested /\ load_req = 0) => completed /\ FontIds = {}
    /\ (requested /\ load_req # 0) =>
           /\ FontIds \subseteq {load_req}
           /\ completed => load_req \in Ids(finished)

DInv == QInv /\ LoadInv

-----------------------------------------------------------------------------
(* Lemmas on the font callback's ids in sequences of requests.            *)

LEMMA FontIdsConcat ==
    \A s, t \in Seq(Req) : FontIdsOf(s \o t) = FontIdsOf(s) \cup FontIdsOf(t)
<1> SUFFICES ASSUME NEW s \in Seq(Req), NEW t \in Seq(Req)
             PROVE  FontIdsOf(s \o t) = FontIdsOf(s) \cup FontIdsOf(t)
    OBVIOUS
<1>1. /\ Len(s \o t) = Len(s) + Len(t)
      /\ \A i \in 1 .. Len(s) + Len(t) :
            (s \o t)[i] = IF i <= Len(s) THEN s[i] ELSE t[i - Len(s)]
      BY ConcatProperties
<1>2. DOMAIN (s \o t) = 1 .. Len(s) + Len(t) /\ DOMAIN s = 1 .. Len(s)
      /\ DOMAIN t = 1 .. Len(t) /\ Len(s) \in Nat /\ Len(t) \in Nat
      BY <1>1, ConcatProperties
<1>3. ASSUME NEW i \in 1 .. Len(s) + Len(t), (s \o t)[i].client = FontCb
      PROVE  (s \o t)[i].id \in FontIdsOf(s) \cup FontIdsOf(t)
  <2>1. CASE i <= Len(s)
        BY <1>1, <1>2, <1>3, <2>1 DEF FontIdsOf
  <2>2. CASE ~(i <= Len(s))
    <3>1. i - Len(s) \in 1 .. Len(t) /\ (s \o t)[i] = t[i - Len(s)]
          BY <1>1, <1>2, <2>2
    <3> QED
        BY <1>2, <1>3, <3>1 DEF FontIdsOf
  <2> QED
      BY <2>1, <2>2
<1>4. ASSUME NEW i \in 1 .. Len(s), s[i].client = FontCb
      PROVE  s[i].id \in FontIdsOf(s \o t)
  <2>1. i \in 1 .. Len(s) + Len(t) /\ (s \o t)[i] = s[i]
        BY <1>1, <1>2
  <2> QED
      BY <1>2, <1>4, <2>1 DEF FontIdsOf
<1>5. ASSUME NEW j \in 1 .. Len(t), t[j].client = FontCb
      PROVE  t[j].id \in FontIdsOf(s \o t)
  <2>1. Len(s) + j \in 1 .. Len(s) + Len(t) /\ (s \o t)[Len(s) + j] = t[j]
        BY <1>1, <1>2
  <2> QED
      BY <1>2, <1>5, <2>1 DEF FontIdsOf
<1> QED
    BY <1>2, <1>3, <1>4, <1>5 DEF FontIdsOf

LEMMA FontIdsSingle ==
    \A x : FontIdsOf(<<x>>) = IF x.client = FontCb THEN {x.id} ELSE {}
BY DEF FontIdsOf

LEMMA FontIdsEmpty == FontIdsOf(<<>>) = {}
BY DEF FontIdsOf

LEMMA FontIdsInIds == \A s \in Seq(Req) : FontIdsOf(s) \subseteq Ids(s)
BY DEF FontIdsOf, Ids

(* Two sequences whose concatenation repeats no id have no id in common.  *)
LEMMA NoDupApart ==
    \A s, t \in Seq(Req) : NoDup(s \o t) => Ids(s) \cap Ids(t) = {}
<1> SUFFICES ASSUME NEW s \in Seq(Req), NEW t \in Seq(Req), NoDup(s \o t),
                    NEW i \in 1 .. Len(s), NEW j \in 1 .. Len(t)
             PROVE  s[i].id # t[j].id
    BY DEF Ids
<1>1. /\ Len(s \o t) = Len(s) + Len(t) /\ Len(s) \in Nat /\ Len(t) \in Nat
      /\ DOMAIN (s \o t) = 1 .. Len(s) + Len(t)
      /\ \A k \in 1 .. Len(s) + Len(t) :
            (s \o t)[k] = IF k <= Len(s) THEN s[k] ELSE t[k - Len(s)]
      BY ConcatProperties
<1>2. /\ i \in 1 .. Len(s) + Len(t) /\ (s \o t)[i] = s[i]
      /\ Len(s) + j \in 1 .. Len(s) + Len(t) /\ (s \o t)[Len(s) + j] = t[j]
      /\ i # Len(s) + j
      BY <1>1
<1> QED
    BY <1>1, <1>2 DEF NoDup

-----------------------------------------------------------------------------
(* Where the font callback's requests go in each step of the queue.       *)

(* No pending request shares its id with one whose callback has run.      *)
LEMMA FinishedApart == QInv => FontIds \cap Ids(finished) = {}
<1> SUFFICES ASSUME QInv PROVE FontIds \cap Ids(finished) = {}
    OBVIOUS
<1>1. /\ finished \in Seq(Req) /\ ChanSeq \o running \in Seq(Req)
      /\ \A t \in Tags : queue[t] \in Seq(Req)
      BY ChanSeqType DEF QInv, QTypeOK
<1>2. Dispatched = finished \o (ChanSeq \o running)
      BY <1>1, ChanSeqType, AssocReq, DispatchedIs DEF QInv, QTypeOK
<1>3. Ids(finished) \cap Ids(ChanSeq \o running) = {}
      BY <1>1, <1>2, NoDupApart DEF QInv, Conserved
<1>4. Ids(finished) \subseteq Ids(Dispatched)
      BY <1>1, <1>2, IdsConcatReq
<1>5. \A t \in Tags : Ids(queue[t]) \cap Ids(finished) = {}
      BY <1>4 DEF QInv, Conserved
<1>6. FontIdsOf(ChanSeq \o running) \subseteq Ids(ChanSeq \o running)
      /\ \A t \in Tags : FontIdsOf(queue[t]) \subseteq Ids(queue[t])
      BY <1>1, FontIdsInIds
<1> QED
    BY <1>3, <1>5, <1>6 DEF FontIds

(* A successful enqueue adds its id to FontIds if it is the font's.       *)
LEMMA EnqueueFont ==
    ASSUME QInv, NEW t \in Tags, NEW c \in Clients, QEnqueue(t, c)
    PROVE  FontIds' = FontIds \cup (IF c = FontCb THEN {nreq + 1} ELSE {})
<1> DEFINE r == [id |-> nreq + 1, tag |-> t, client |-> c]
<1>1. /\ queue' = [queue EXCEPT ![t] = Append(queue[t], r)]
      /\ UNCHANGED <<running, chan>>
      BY Zenon DEF QEnqueue
<1>2. r \in Req /\ queue[t] \in Seq(Req) /\ queue \in [Tags -> Seq(Req)]
  <2>1. nreq + 1 \in 1 .. MaxReq
        BY QueueAssumption, SMT DEF QInv, QTypeOK, QEnqueue
  <2> QED
      BY <2>1, Zenon DEF QInv, QTypeOK, Req
<1>3. queue'[t] = queue[t] \o <<r>> /\ <<r>> \in Seq(Req)
      /\ \A u \in Tags \ {t} : queue'[u] = queue[u]
      BY <1>1, <1>2, AppendIsConcat
<1>4. FontIdsOf(queue'[t]) = FontIdsOf(queue[t]) \cup (IF c = FontCb THEN {nreq + 1} ELSE {})
  <2>1. FontIdsOf(<<r>>) = IF c = FontCb THEN {nreq + 1} ELSE {}
        BY FontIdsSingle
  <2>2. FontIdsOf(queue[t] \o <<r>>) = FontIdsOf(queue[t]) \cup FontIdsOf(<<r>>)
        BY <1>2, <1>3, FontIdsConcat
  <2> QED
      BY <1>3, <2>1, <2>2
<1>5. ChanSeq' \o running' = ChanSeq \o running
      BY <1>1 DEF ChanSeq
<1> HIDE DEF r
<1> QED
    BY <1>3, <1>4, <1>5 DEF FontIds

(* A trigger moves the font's requests of its tag to the channel's side.  *)
LEMMA TriggerFont ==
    ASSUME QInv, NEW t \in Tags, QTrigger(t)
    PROVE  FontIds' = FontIds
<1>1. ChanSeq' \o running' = (ChanSeq \o running) \o queue[t]
      BY TriggerTakes
<1>2. ChanSeq \o running \in Seq(Req) /\ queue[t] \in Seq(Req)
      /\ queue \in [Tags -> Seq(Req)]
      BY ChanSeqType DEF QInv, QTypeOK
<1>3. FontIdsOf(ChanSeq' \o running') = FontIdsOf(ChanSeq \o running) \cup FontIdsOf(queue[t])
  <2>1. FontIdsOf((ChanSeq \o running) \o queue[t])
           = FontIdsOf(ChanSeq \o running) \cup FontIdsOf(queue[t])
        BY <1>2, FontIdsConcat
  <2> QED
      BY <1>1, <2>1
<1>4. queue'[t] = <<>> /\ \A u \in Tags \ {t} : queue'[u] = queue[u]
      BY <1>2 DEF QTrigger
<1>5. FontIdsOf(queue'[t]) = {}
      BY <1>4, FontIdsEmpty
<1> QED
    BY <1>3, <1>4, <1>5 DEF FontIds

(* A completion takes the channel's request out of FontIds and appends it *)
(* to the finished ones.                                                  *)
LEMMA CompleteFont ==
    ASSUME QInv, QComplete
    PROVE  /\ FontIds = FontIds' \cup FontIdsOf(<<chan>>)
           /\ Ids(finished') = Ids(finished) \cup {chan.id}
<1>1. /\ ChanSeq = <<chan>> /\ chan \in Req
      /\ ChanSeq' \o running' = running
      BY CompleteTakes
<1>2. running \in Seq(Req) /\ <<chan>> \in Seq(Req) /\ finished \in Seq(Req)
      BY <1>1 DEF QInv, QTypeOK
<1>3. FontIdsOf(ChanSeq \o running) = FontIdsOf(<<chan>>) \cup FontIdsOf(ChanSeq' \o running')
  <2>1. FontIdsOf(<<chan>> \o running) = FontIdsOf(<<chan>>) \cup FontIdsOf(running)
        BY <1>2, FontIdsConcat
  <2> QED
      BY <1>1, <2>1
<1>4. queue' = queue
      BY DEF QComplete
<1>5. finished' = finished \o <<chan>>
      BY <1>2, AppendIsConcat DEF QComplete
<1>6. Ids(finished') = Ids(finished) \cup {chan.id}
      BY <1>2, <1>5, IdsConcatReq, IdsSingle
<1> QED
    BY <1>3, <1>4, <1>6 DEF FontIds

(* Every step of dbgio, of its font loads and of the other clients is a   *)
(* step of the queue on its own, or leaves the queue alone: the font's    *)
(* enqueue is one of a client the queue knows (FontCb is in Clients).     *)
LEMMA QueueStepOfDbgio == [Next]_vars => [QNext]_qvars
<1> SUFFICES ASSUME [Next]_vars PROVE [QNext]_qvars
    OBVIOUS
<1>1. CASE \E d \in Devs : DevInit(d)
      BY <1>1 DEF DevInit
<1>2. CASE DevDeinit
      BY <1>2 DEF DevDeinit
<1>3. CASE FontLoad
  <2>1. CASE dev_ops \in AsyncDevs
    <3>1. \E t \in Tags : QEnqueue(t, FontCb) \/ QEnqueueFull(t, FontCb)
          BY <1>3, <2>1 DEF FontLoad, DeviceFontLoad
    <3> QED
        BY <3>1, DbgioAssumption DEF QNext
  <2>2. CASE dev_ops \notin AsyncDevs
        BY <1>3, <2>2 DEF FontLoad, DeviceFontLoad
  <2> QED
      BY <2>1, <2>2
<1>4. CASE FontLoadWait \/ FontLoadWaitExit
      BY <1>4 DEF FontLoadWait, FontLoadWaitExit
<1>5. CASE OtherEnqueue
      BY <1>5 DEF OtherEnqueue, QNext
<1>6. CASE \E t \in Tags : Trigger(t)
      BY <1>6 DEF Trigger, QNext
<1>7. CASE Complete
      BY <1>7 DEF Complete, QNext
<1>8. CASE UNCHANGED vars
      BY <1>8 DEF vars, qvars
<1> QED
    BY <1>1, <1>2, <1>3, <1>4, <1>5, <1>6, <1>7, <1>8 DEF Next

(* The usage rule only removes steps.                                     *)
LEMMA WaitedIsNext == [WaitedNext]_vars => [Next]_vars
BY Zenon DEF WaitedNext, Next

-----------------------------------------------------------------------------
(* LoadedWhenCompleted under the usage rule.                               *)

(* A step that leaves the queue's requests where they are leaves FontIds. *)
LEMMA FontIdsStay ==
    UNCHANGED <<queue, running, chan>> => FontIds' = FontIds
BY DEF FontIds, ChanSeq

(* Every step of WaitedNext keeps LoadInv.                                 *)
LEMMA LoadInvStep == DInv /\ [WaitedNext]_vars => LoadInv'
<1> SUFFICES ASSUME DInv, [WaitedNext]_vars PROVE LoadInv'
    OBVIOUS
<1>0. QInv /\ LoadInv
      BY DEF DInv
<1>1. CASE ~requested /\ \E d \in Devs : DevInit(d)
  <2>1. requested' = FALSE /\ completed' \in BOOLEAN /\ UNCHANGED qvars
        BY <1>0, <1>1 DEF DevInit, LoadInv
  <2>2. FontIds' = FontIds /\ FontIds = {}
        BY <1>0, <1>1, <2>1, FontIdsStay DEF qvars, LoadInv
  <2> QED
      BY <2>1, <2>2 DEF LoadInv
<1>2. CASE ~requested /\ DevDeinit
  <2>1. requested' = FALSE /\ completed' = FALSE /\ UNCHANGED qvars
        BY <1>2 DEF DevDeinit
  <2>2. FontIds' = FontIds /\ FontIds = {}
        BY <1>0, <1>2, <2>1, FontIdsStay DEF qvars, LoadInv
  <2> QED
      BY <2>1, <2>2 DEF LoadInv
<1>3. CASE FontLoad
  <2>1. requested' = TRUE /\ FontIds = {} /\ nreq \in Nat
        BY <1>0, <1>3 DEF FontLoad, LoadInv, QInv, QTypeOK
  <2>2. CASE dev_ops \in AsyncDevs
    <3>1. completed' = FALSE /\ load_req' = nreq + 1 /\ load_req' # 0
          BY <1>3, <2>1, <2>2 DEF FontLoad, DeviceFontLoad
    <3>2. PICK t \in Tags : QEnqueue(t, FontCb) \/ QEnqueueFull(t, FontCb)
          BY <1>3, <2>2 DEF FontLoad, DeviceFontLoad
    <3>3. FontIds' \subseteq {nreq + 1}
      <4>1. CASE QEnqueue(t, FontCb)
            BY <1>0, <2>1, <4>1, EnqueueFont, DbgioAssumption
      <4>2. CASE QEnqueueFull(t, FontCb)
            BY <2>1, <4>2, FontIdsStay DEF QEnqueueFull
      <4> QED
          BY <3>2, <4>1, <4>2
    <3> QED
        BY <2>1, <3>1, <3>3 DEF LoadInv
  <2>3. CASE dev_ops \notin AsyncDevs
    <3>1. completed' = TRUE /\ load_req' = 0 /\ UNCHANGED qvars
          BY <1>3, <2>3 DEF FontLoad, DeviceFontLoad
    <3>2. FontIds' = {}
          BY <2>1, <3>1, FontIdsStay DEF qvars
    <3> QED
        BY <2>1, <3>1, <3>2 DEF LoadInv
  <2> QED
      BY <2>2, <2>3
<1>4. CASE FontLoadWait
  <2>1. UNCHANGED <<requested, completed, load_req, finished>> /\ FontIds' = FontIds
        BY <1>4, FontIdsStay DEF FontLoadWait, qvars
  <2> QED
      BY <1>0, <2>1 DEF LoadInv
<1>5. CASE FontLoadWaitExit
  <2>0. completed /\ requested' = FALSE /\ completed' = completed
        /\ UNCHANGED <<queue, running, chan>>
        BY <1>5 DEF FontLoadWaitExit, qvars
  <2>1. requested' = FALSE /\ FontIds' = FontIds
        BY <2>0, FontIdsStay
  <2>2. FontIds = {}
    <3>1. CASE ~requested
          BY <1>0, <3>1 DEF LoadInv
    <3>2. CASE requested /\ load_req = 0
          BY <1>0, <3>2 DEF LoadInv
    <3>3. CASE requested /\ load_req # 0
          BY <1>0, <2>0, <3>3, FinishedApart DEF LoadInv
    <3> QED
        BY <3>1, <3>2, <3>3
  <2> QED
      BY <1>0, <2>0, <2>1, <2>2 DEF LoadInv
<1>6. CASE OtherEnqueue
  <2>1. UNCHANGED <<requested, completed, load_req, finished>>
        BY <1>6 DEF OtherEnqueue, dvars, QEnqueue, QEnqueueFull
  <2>2. PICK t \in Tags, c \in Clients \ {FontCb} : QEnqueue(t, c) \/ QEnqueueFull(t, c)
        BY <1>6 DEF OtherEnqueue
  <2>3. FontIds' = FontIds
    <3>1. CASE QEnqueue(t, c)
          BY <1>0, <2>2, <3>1, EnqueueFont
    <3>2. CASE QEnqueueFull(t, c)
          BY <3>2, FontIdsStay DEF QEnqueueFull
    <3> QED
        BY <2>2, <3>1, <3>2
  <2> QED
      BY <1>0, <2>1, <2>3 DEF LoadInv
<1>7. CASE \E t \in Tags : Trigger(t)
  <2>1. PICK t \in Tags : Trigger(t)
        BY <1>7
  <2>2. UNCHANGED <<requested, completed, load_req, finished>>
        BY <2>1 DEF Trigger, dvars, QTrigger, QTriggerEmpty, qvars
  <2>3. FontIds' = FontIds
    <3>1. CASE QTrigger(t)
          BY <1>0, <3>1, TriggerFont
    <3>2. CASE QTriggerEmpty(t)
          BY <3>2, FontIdsStay DEF QTriggerEmpty, qvars
    <3> QED
        BY <2>1, <3>1, <3>2 DEF Trigger
  <2> QED
      BY <1>0, <2>1, <2>2, <2>3 DEF LoadInv
<1>8. CASE Complete
  <2>1. /\ FontIds = FontIds' \cup FontIdsOf(<<chan>>)
        /\ Ids(finished') = Ids(finished) \cup {chan.id}
        BY <1>0, <1>8, CompleteFont DEF Complete
  <2>2. UNCHANGED <<requested, load_req>>
        BY <1>8 DEF Complete
  <2>3. CASE chan.client = FontCb
    <3>1. completed' = TRUE /\ chan.id \in FontIds
          BY <1>8, <2>1, <2>3, FontIdsSingle DEF Complete
    <3>2. requested /\ load_req # 0 /\ chan.id = load_req
          BY <1>0, <3>1 DEF LoadInv
    <3> QED
        BY <1>0, <2>1, <2>2, <3>1, <3>2 DEF LoadInv
  <2>4. CASE chan.client # FontCb
    <3>1. completed' = completed
          BY <1>8, <2>4 DEF Complete
    <3> QED
        BY <1>0, <2>1, <2>2, <3>1 DEF LoadInv
  <2> QED
      BY <2>3, <2>4
<1>9. CASE UNCHANGED vars
  <2>1. UNCHANGED <<requested, completed, load_req, finished>> /\ FontIds' = FontIds
        BY <1>9, FontIdsStay DEF vars, qvars, dvars
  <2> QED
      BY <1>0, <2>1 DEF LoadInv
<1> QED
    BY <1>1, <1>2, <1>3, <1>4, <1>5, <1>6, <1>7, <1>8, <1>9 DEF WaitedNext

(* Under the usage rule (WaitedSpec: a device is switched only after the  *)
(* font-load wait, the dbgio_font run's specification), while a font load *)
(* is requested COMPLETED means that load's font is in VRAM: it was       *)
(* loaded synchronously, or its transfer's callback has run              *)
(* (LoadedWhenCompleted, which that run checks). So                        *)
(* dbgio_dev_font_load_wait never returns on the callback of an earlier    *)
(* load, for every set of devices, tags and clients and every bound.      *)
THEOREM FontLoadedWhenCompleted == WaitedSpec => []LoadedWhenCompleted
<1>1. Init => DInv
  <2>1. Init => QInv
        BY InitQInv DEF Init
  <2>2. Init => FontIds = {}
        BY DEF Init, QInit, FontIds, FontIdsOf, ChanSeq
  <2> QED
      BY <2>1, <2>2 DEF Init, DInv, LoadInv
<1>2. DInv /\ [WaitedNext]_vars => DInv'
      BY LoadInvStep, QueueStepOfDbgio, WaitedIsNext, QInvStep DEF DInv
<1>3. DInv => LoadedWhenCompleted
      BY DEF DInv, LoadInv, LoadedWhenCompleted
<1> QED
    BY <1>1, <1>2, <1>3, PTL DEF WaitedSpec
=============================================================================
