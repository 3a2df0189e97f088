---------------------------- MODULE DmaQueue_proofs ----------------------------
(***************************************************************************)
(* Proofs about the transfer queue, for every set of tags and clients,    *)
(* every queue depth and every bound on the enqueue calls.                 *)
(***************************************************************************)
EXTENDS DmaQueue, SequenceTheorems, TLAPS

(* Conserved strengthened to an inductive invariant: the variables have   *)
(* their types, an idle channel has nothing dispatched behind it (a       *)
(* trigger starts the head of the list at once, a completion the next),  *)
(* every accepted id is one enqueue has handed out, and no tag's queue    *)
(* holds more requests than enqueue has been called.                      *)
QInv ==
    /\ QTypeOK
    /\ chan = NoReq => running = <<>>
    /\ accepted \subseteq 1 .. nreq
    /\ \A t \in Tags : Len(queue[t]) <= nreq
    /\ Conserved

-----------------------------------------------------------------------------
(* Lemmas on the ids of sequences of requests.                            *)

LEMMA ReqNotNoReq == \A r \in Req : r # NoReq
BY DEF Req, NoReq

LEMMA IdsConcat ==
    ASSUME NEW S, NEW s \in Seq(S), NEW t \in Seq(S)
    PROVE  Ids(s \o t) = Ids(s) \cup Ids(t)
<1>1. /\ Len(s \o t) = Len(s) + Len(t)
      /\ \A i \in 1 .. Len(s) + Len(t) :
            (s \o t)[i] = IF i <= Len(s) THEN s[i] ELSE t[i - Len(s)]
      BY ConcatProperties
<1>2. DOMAIN (s \o t) = 1 .. Len(s) + Len(t) /\ DOMAIN s = 1 .. Len(s)
      /\ DOMAIN t = 1 .. Len(t) /\ Len(s) \in Nat /\ Len(t) \in Nat
      BY <1>1, ConcatProperties
<1>3. ASSUME NEW i \in 1 .. Len(s) + Len(t) PROVE (s \o t)[i].id \in Ids(s) \cup Ids(t)
  <2>1. CASE i <= Len(s)
        BY <1>1, <1>2, <2>1 DEF Ids
  <2>2. CASE ~(i <= Len(s))
    <3>1. i - Len(s) \in 1 .. Len(t) /\ (s \o t)[i] = t[i - Len(s)]
          BY <1>1, <1>2, <2>2
    <3> QED
        BY <1>2, <3>1 DEF Ids
  <2> QED
      BY <2>1, <2>2
<1>4. ASSUME NEW i \in 1 .. Len(s) PROVE s[i].id \in Ids(s \o t)
  <2>1. i \in 1 .. Len(s) + Len(t) /\ (s \o t)[i] = s[i]
        BY <1>1, <1>2
  <2> QED
      BY <1>2, <2>1 DEF Ids
<1>5. ASSUME NEW j \in 1 .. Len(t) PROVE t[j].id \in Ids(s \o t)
  <2>1. Len(s) + j \in 1 .. Len(s) + Len(t) /\ (s \o t)[Len(s) + j] = t[j]
        BY <1>1, <1>2
  <2> QED
      BY <1>2, <2>1 DEF Ids
<1> QED
    BY <1>2, <1>3, <1>4, <1>5 DEF Ids

(* IdsConcat for sequences of requests, in the form the steps cite.      *)
LEMMA IdsConcatReq ==
    \A s, t \in Seq(Req) : Ids(s \o t) = Ids(s) \cup Ids(t)
BY IdsConcat

LEMMA IdsSingle == \A x : Ids(<<x>>) = {x.id}
BY DEF Ids

LEMMA IdsEmpty == Ids(<<>>) = {}
BY DEF Ids

(* Two sequences without repeated ids and with no id in common make one   *)
(* without repeated ids.                                                   *)
LEMMA NoDupConcat ==
    ASSUME NEW S, NEW s \in Seq(S), NEW t \in Seq(S),
           NoDup(s), NoDup(t), Ids(s) \cap Ids(t) = {}
    PROVE  NoDup(s \o t)
<1>1. /\ Len(s \o t) = Len(s) + Len(t)
      /\ \A i \in 1 .. Len(s) + Len(t) :
            (s \o t)[i] = IF i <= Len(s) THEN s[i] ELSE t[i - Len(s)]
      BY ConcatProperties
<1>2. \A i \in 1 .. Len(s), j \in 1 .. Len(t) : s[i].id # t[j].id
      BY DEF Ids
<1>3. DOMAIN (s \o t) = 1 .. Len(s) + Len(t) /\ Len(s) \in Nat /\ Len(t) \in Nat
      BY <1>1, ConcatProperties
<1>4. ASSUME NEW i \in 1 .. Len(s) + Len(t), NEW j \in 1 .. Len(s) + Len(t), i # j
      PROVE  (s \o t)[i].id # (s \o t)[j].id
  <2>1. CASE i <= Len(s) /\ j <= Len(s)
        BY <1>1, <1>3, <1>4, <2>1 DEF NoDup
  <2>2. CASE i <= Len(s) /\ ~(j <= Len(s))
        BY <1>1, <1>2, <1>3, <2>2
  <2>3. CASE ~(i <= Len(s)) /\ j <= Len(s)
        BY <1>1, <1>2, <1>3, <2>3
  <2>4. CASE ~(i <= Len(s)) /\ ~(j <= Len(s))
    <3>1. i - Len(s) \in 1 .. Len(t) /\ j - Len(s) \in 1 .. Len(t)
          /\ i - Len(s) # j - Len(s)
          BY <1>3, <1>4, <2>4
    <3> QED
        BY <1>1, <1>3, <2>4, <3>1 DEF NoDup
  <2> QED
      BY <2>1, <2>2, <2>3, <2>4
<1> QED
    BY <1>3, <1>4 DEF NoDup

(* A non-empty sequence is its head followed by its tail.                 *)
LEMMA HeadThenTail ==
    ASSUME NEW S, NEW s \in Seq(S), s # <<>>
    PROVE  <<Head(s)>> \o Tail(s) = s
<1>1. Head(s) \in S /\ Tail(s) \in Seq(S) /\ Len(Tail(s)) = Len(s) - 1
      BY HeadTailProperties
<1>2. <<Head(s)>> \o Tail(s) \in Seq(S)
      BY <1>1, ConcatProperties
<1> QED
    BY <1>1, <1>2, SeqEqual, SMT

-----------------------------------------------------------------------------
(* Where the requests go in each step.                                    *)

LEMMA DispatchedIs == Dispatched = (finished \o ChanSeq) \o running
BY DEF Dispatched, ChanSeq

LEMMA AssocReq ==
    \A a, b, c \in Seq(Req) : (a \o b) \o c = a \o (b \o c)
BY ConcatAssociative

LEMMA DispatchedIsPrimed == Dispatched' = (finished' \o ChanSeq') \o running'
BY DEF Dispatched, ChanSeq

LEMMA ChanSeqType == QTypeOK => ChanSeq \in Seq(Req)
BY DEF QTypeOK, ChanSeq

(* A successful enqueue adds a fresh id to its tag's queue and leaves the *)
(* channel's side alone.                                                  *)
LEMMA EnqueueStep ==
    ASSUME QInv, NEW t \in Tags, NEW c \in Clients, QEnqueue(t, c)
    PROVE  QInv'
<1> DEFINE r == [id |-> nreq + 1, tag |-> t, client |-> c]
           q == queue[t]
<1>1. /\ queue' = [queue EXCEPT ![t] = Append(q, r)]
      /\ accepted' = accepted \cup {nreq + 1} /\ nreq' = nreq + 1
      /\ UNCHANGED <<running, chan, finished>>
      BY Zenon DEF QEnqueue
<1>2. nreq \in Nat /\ nreq + 1 \in 1 .. MaxReq
      BY QueueAssumption, SMT DEF QInv, QTypeOK, QEnqueue
<1>3. nreq \in Nat /\ nreq + 1 \in 1 .. MaxReq /\ r \in Req /\ q \in Seq(Req)
      BY <1>2, Zenon DEF QInv, QTypeOK, Req
<1>4. QTypeOK'
      BY <1>1, <1>3, AppendProperties DEF QInv, QTypeOK
<1>5. Append(q, r) = q \o <<r>> /\ <<r>> \in Seq(Req)
      BY <1>3, AppendIsConcat
<1>6. queue'[t] = q \o <<r>>
      BY <1>1, <1>5 DEF QInv, QTypeOK
<1>7. Ids(queue'[t]) = Ids(q) \cup {nreq + 1}
  <2>1. Ids(q \o <<r>>) = Ids(q) \cup Ids(<<r>>)
    <3>1. q \in Seq(Req) /\ <<r>> \in Seq(Req)
          BY <1>3, <1>5
    <3> QED
        BY <3>1, IdsConcatReq
  <2>2. Ids(<<r>>) = {nreq + 1}
        BY IdsSingle
  <2> QED
      BY <1>6, <2>1, <2>2
<1>8. /\ nreq + 1 \notin accepted
      /\ \A u \in Tags : Ids(queue[u]) \subseteq accepted
      /\ Ids(Dispatched) \subseteq accepted
      BY <1>3 DEF QInv, Conserved
<1>9. NoDup(queue'[t])
  <2>1. NoDup(<<r>>)
        BY DEF NoDup
  <2>2. Ids(q) \cap Ids(<<r>>) = {}
        BY <1>8, IdsSingle
  <2>3. NoDup(q)
        BY DEF QInv, Conserved
  <2> QED
      BY <1>3, <1>5, <1>6, <2>1, <2>2, <2>3, NoDupConcat
<1>10. Dispatched' = Dispatched
      BY <1>1 DEF Dispatched, ChanSeq
<1>11. \A u \in Tags : u # t => queue'[u] = queue[u]
      BY <1>1
<1>12. Conserved'
  <2>1. (Ids(Dispatched) \cup UNION {Ids(queue[u]) : u \in Tags} = accepted)'
        BY <1>1, <1>7, <1>10, <1>11 DEF QInv, Conserved
  <2>2. \A u \in Tags : (NoDup(queue[u]) /\ Ids(queue[u]) \cap Ids(Dispatched) = {})'
        BY <1>7, <1>8, <1>9, <1>10, <1>11 DEF QInv, Conserved
  <2>3. \A u, v \in Tags : u # v => (Ids(queue[u]) \cap Ids(queue[v]) = {})'
        BY <1>7, <1>8, <1>11 DEF QInv, Conserved
  <2> QED
      BY <1>1, <1>10, <2>1, <2>2, <2>3 DEF QInv, Conserved
<1>13. \A u \in Tags : Len(queue'[u]) <= nreq'
  <2>1. Len(queue'[t]) = Len(q) + 1
        BY <1>1, <1>3, AppendProperties DEF QInv, QTypeOK
  <2> QED
      BY <1>1, <1>3, <1>11, <2>1 DEF QInv, QTypeOK
<1> QED
    BY <1>1, <1>3, <1>4, <1>12, <1>13 DEF QInv

(* A trigger moves its tag's queue, in order, to the end of the channel's *)
(* side: the channel, if idle, takes the first request and the rest wait  *)
(* in the dispatch list.                                                  *)
LEMMA TriggerMoves ==
    ASSUME QInv, NEW t \in Tags, QTrigger(t)
    PROVE  /\ QTypeOK' /\ (chan = NoReq => running = <<>>)'
           /\ Dispatched' = Dispatched \o queue[t]
<1> DEFINE q == queue[t]
<1>1. /\ q # <<>> /\ q \in Seq(Req) /\ running \in Seq(Req)
      /\ finished \in Seq(Req) /\ ChanSeq \in Seq(Req)
      /\ queue' = [queue EXCEPT ![t] = <<>>]
      /\ UNCHANGED <<nreq, accepted, finished>>
      BY ChanSeqType DEF QTrigger, QInv, QTypeOK
<1>2. CASE chan = NoReq
  <2>1. running = <<>> /\ running \o q = q /\ ChanSeq = <<>>
        BY <1>1, <1>2, ConcatEmptySeq DEF QInv, ChanSeq
  <2>2. chan' = Head(q) /\ running' = Tail(q)
        BY <1>1, <1>2, <2>1 DEF QTrigger, StartFrom
  <2>3. Head(q) \in Req /\ Tail(q) \in Seq(Req) /\ Head(q) # NoReq
        BY <1>1, HeadTailProperties, ReqNotNoReq
  <2>4. ChanSeq' = <<Head(q)>>
        BY <2>2, <2>3 DEF ChanSeq
  <2>5. Dispatched' = finished \o q
    <3>1. <<Head(q)>> \in Seq(Req)
          BY <2>3
    <3>2. (finished \o <<Head(q)>>) \o Tail(q) = finished \o (<<Head(q)>> \o Tail(q))
      <4>1. finished \in Seq(Req) /\ <<Head(q)>> \in Seq(Req) /\ Tail(q) \in Seq(Req)
            BY <1>1, <2>3, <3>1
      <4> QED
          BY <4>1, AssocReq, Zenon
    <3>3. <<Head(q)>> \o Tail(q) = q
          BY <1>1, HeadThenTail
    <3>4. Dispatched' = (finished \o <<Head(q)>>) \o Tail(q)
          BY <1>1, <2>2, <2>4, DispatchedIsPrimed
    <3> QED
        BY <3>2, <3>3, <3>4
  <2>6. Dispatched = finished
        BY <1>1, <2>1, DispatchedIs, ConcatEmptySeq
  <2> QED
      BY <1>1, <2>2, <2>3, <2>5, <2>6 DEF QInv, QTypeOK
<1>3. CASE chan # NoReq
  <2>1. chan' = chan /\ running' = running \o q
        BY <1>1, <1>3 DEF QTrigger, StartFrom
  <2>2. Dispatched' = ((finished \o ChanSeq) \o running) \o q
    <3>1. finished \o ChanSeq \in Seq(Req)
          BY <1>1, ConcatProperties
    <3>2. (finished \o ChanSeq) \o (running \o q) = ((finished \o ChanSeq) \o running) \o q
          BY <1>1, <3>1, AssocReq
    <3> QED
        BY <1>1, <2>1, <3>2, DispatchedIsPrimed DEF ChanSeq
  <2> QED
      BY <1>1, <1>3, <2>1, <2>2, DispatchedIs, ConcatProperties DEF QInv, QTypeOK
<1> QED
    BY <1>2, <1>3

(* After a trigger each accepted id is still in one place, once: the     *)
(* requests it moves were in no other queue and not yet dispatched.       *)
LEMMA TriggerStep ==
    ASSUME QInv, NEW t \in Tags, QTrigger(t)
    PROVE  QInv'
<1> DEFINE q == queue[t]
<1>1. /\ QTypeOK' /\ (chan = NoReq => running = <<>>)'
      /\ Dispatched' = Dispatched \o q
      BY TriggerMoves
<1>2. /\ queue' = [queue EXCEPT ![t] = <<>>]
      /\ UNCHANGED <<nreq, accepted>>
      BY Zenon DEF QTrigger
<1>3. Dispatched \in Seq(Req) /\ q \in Seq(Req)
      BY ChanSeqType, DispatchedIs, ConcatProperties DEF QInv, QTypeOK
<1>4. Ids(Dispatched') = Ids(Dispatched) \cup Ids(q)
      BY <1>1, <1>3, IdsConcatReq
<1>5. NoDup(Dispatched')
      BY <1>1, <1>3, NoDupConcat DEF QInv, Conserved
<1>6. /\ queue'[t] = <<>>
      /\ \A u \in Tags : u # t => queue'[u] = queue[u]
      BY <1>2 DEF QInv, QTypeOK
<1>7. Conserved'
  <2>1. (Ids(Dispatched) \cup UNION {Ids(queue[u]) : u \in Tags} = accepted)'
        BY <1>2, <1>4, <1>6, IdsEmpty DEF QInv, Conserved
  <2>2. \A u \in Tags : (NoDup(queue[u]) /\ Ids(queue[u]) \cap Ids(Dispatched) = {})'
        BY <1>4, <1>6, IdsEmpty DEF QInv, Conserved, NoDup
  <2>3. \A u, v \in Tags : u # v => (Ids(queue[u]) \cap Ids(queue[v]) = {})'
        BY <1>6, IdsEmpty DEF QInv, Conserved
  <2> QED
      BY <1>5, <2>1, <2>2, <2>3 DEF Conserved
<1>8. \A u \in Tags : Len(queue'[u]) <= nreq'
      BY <1>2, <1>6 DEF QInv, QTypeOK
<1> QED
    BY <1>1, <1>2, <1>7, <1>8 DEF QInv

(* A completion moves the request in flight to the finished ones and the  *)
(* head of the dispatch list, if any, to the channel: Dispatched, read    *)
(* oldest first, is the same sequence before and after.                   *)
LEMMA CompleteStep ==
    ASSUME QInv, QComplete
    PROVE  QInv'
<1>1. /\ chan # NoReq /\ chan \in Req /\ ChanSeq = <<chan>>
      /\ running \in Seq(Req) /\ finished \in Seq(Req)
      /\ finished' = Append(finished, chan)
      /\ UNCHANGED <<queue, nreq, accepted>>
      BY DEF QComplete, QInv, QTypeOK, ChanSeq
<1>2. finished' = finished \o <<chan>> /\ <<chan>> \in Seq(Req)
      /\ finished' \in Seq(Req)
      BY <1>1, AppendIsConcat, AppendProperties
<1>3. CASE running # <<>>
  <2>1. chan' = Head(running) /\ running' = Tail(running)
        BY <1>3 DEF QComplete
  <2>2. Head(running) \in Req /\ Tail(running) \in Seq(Req) /\ Head(running) # NoReq
        /\ <<Head(running)>> \in Seq(Req)
        BY <1>1, <1>3, HeadTailProperties, ReqNotNoReq
  <2>3. Dispatched' = (finished' \o <<Head(running)>>) \o Tail(running)
        BY <2>1, <2>2, DispatchedIsPrimed DEF ChanSeq
  <2>4. Dispatched' = Dispatched
    <3>1. finished \o <<chan>> \in Seq(Req)
          BY <1>1, <1>2, ConcatProperties
    <3>2. ((finished \o <<chan>>) \o <<Head(running)>>) \o Tail(running)
             = (finished \o <<chan>>) \o (<<Head(running)>> \o Tail(running))
          BY <2>2, <3>1, AssocReq
    <3>3. <<Head(running)>> \o Tail(running) = running
          BY <1>1, <1>3, HeadThenTail
    <3> QED
        BY <1>1, <1>2, <2>3, <3>2, <3>3, DispatchedIs
  <2> QED
      BY <1>1, <1>2, <2>1, <2>2, <2>4 DEF QInv, QTypeOK, Conserved
<1>4. CASE running = <<>>
  <2>1. chan' = NoReq /\ running' = <<>>
        BY <1>4 DEF QComplete
  <2>2. Dispatched' = Dispatched
    <3>1. Dispatched' = (finished' \o <<>>) \o <<>>
          BY <2>1, DispatchedIsPrimed DEF ChanSeq
    <3>2. Dispatched = (finished \o <<chan>>) \o <<>>
          BY <1>1, <1>4, DispatchedIs
    <3>3. finished \o <<chan>> \in Seq(Req)
          BY <1>1, <1>2, ConcatProperties
    <3>4. /\ (finished' \o <<>>) \o <<>> = finished'
          /\ (finished \o <<chan>>) \o <<>> = finished \o <<chan>>
          BY <1>2, <3>3, ConcatEmptySeq
    <3> QED
        BY <1>2, <3>1, <3>2, <3>4
  <2> QED
      BY <1>1, <1>2, <2>1, <2>2 DEF QInv, QTypeOK, Conserved
<1> QED
    BY <1>3, <1>4

(* The channel and its dispatch list, read in the order they will run:   *)
(* a trigger appends its tag's queue, a completion drops the request that *)
(* was on the channel.                                                    *)
LEMMA TriggerTakes ==
    ASSUME QInv, NEW t \in Tags, QTrigger(t)
    PROVE  ChanSeq' \o running' = (ChanSeq \o running) \o queue[t]
<1> DEFINE q == queue[t]
<1>1. /\ q # <<>> /\ q \in Seq(Req) /\ running \in Seq(Req) /\ ChanSeq \in Seq(Req)
      BY ChanSeqType DEF QTrigger, QInv, QTypeOK
<1>2. CASE chan = NoReq
  <2>1. running = <<>> /\ ChanSeq = <<>> /\ (<<>> \o <<>>) \o q = q
        BY <1>1, <1>2, ConcatEmptySeq DEF QInv, ChanSeq
  <2>2. chan' = Head(q) /\ running' = Tail(q)
        BY <1>1, <1>2, <2>1, ConcatEmptySeq DEF QTrigger, StartFrom
  <2>3. Head(q) \in Req /\ Head(q) # NoReq
        BY <1>1, HeadTailProperties, ReqNotNoReq
  <2>4. ChanSeq' = <<Head(q)>>
        BY <2>2, <2>3 DEF ChanSeq
  <2> QED
      BY <1>1, <2>1, <2>2, <2>4, HeadThenTail
<1>3. CASE chan # NoReq
  <2>1. chan' = chan /\ running' = running \o q
        BY <1>1, <1>3 DEF QTrigger, StartFrom
  <2> QED
      BY <1>1, <2>1, AssocReq DEF ChanSeq
<1> QED
    BY <1>2, <1>3

LEMMA CompleteTakes ==
    ASSUME QInv, QComplete
    PROVE  /\ ChanSeq = <<chan>> /\ chan \in Req
           /\ ChanSeq' \o running' = running
<1>1. chan # NoReq /\ chan \in Req /\ ChanSeq = <<chan>> /\ running \in Seq(Req)
      BY DEF QComplete, QInv, QTypeOK, ChanSeq
<1>2. CASE running # <<>>
  <2>1. chan' = Head(running) /\ running' = Tail(running)
        BY <1>2 DEF QComplete
  <2>2. Head(running) \in Req /\ Head(running) # NoReq
        BY <1>1, <1>2, HeadTailProperties, ReqNotNoReq
  <2> QED
      BY <1>1, <1>2, <2>1, <2>2, HeadThenTail DEF ChanSeq
<1>3. CASE running = <<>>
  <2>1. chan' = NoReq /\ running' = <<>>
        BY <1>3 DEF QComplete
  <2> QED
      BY <1>1, <1>3, <2>1, ConcatEmptySeq DEF ChanSeq
<1> QED
    BY <1>1, <1>2, <1>3

-----------------------------------------------------------------------------
LEMMA InitQInv == QInit => QInv
<1> SUFFICES ASSUME QInit PROVE QInv
    OBVIOUS
<1>1. QTypeOK
      BY QueueAssumption DEF QInit, QTypeOK
<1>2. Dispatched = <<>>
      BY DEF QInit, Dispatched, ChanSeq
<1>3. \A t \in Tags : queue[t] = <<>>
      BY DEF QInit
<1> QED
    BY <1>1, <1>2, <1>3, IdsEmpty DEF QInit, QInv, Conserved, NoDup

(* Every step of the queue, whatever its clients enqueue, keeps QInv.     *)
LEMMA QInvStep == QInv /\ [QNext]_qvars => QInv'
<1> SUFFICES ASSUME QInv, [QNext]_qvars PROVE QInv'
    OBVIOUS
<1>1. ASSUME NEW t \in Tags, NEW c \in Clients, QEnqueue(t, c) PROVE QInv'
      BY <1>1, EnqueueStep
<1>2. ASSUME NEW t \in Tags, NEW c \in Clients, QEnqueueFull(t, c) PROVE QInv'
  <2>1. nreq \in Nat /\ nreq < MaxReq /\ nreq' = nreq + 1
        /\ UNCHANGED <<queue, running, chan, accepted, finished>>
        BY <1>2, QueueAssumption DEF QEnqueueFull, QInv, QTypeOK
  <2>2. nreq' \in 0 .. MaxReq /\ 1 .. nreq \subseteq 1 .. nreq'
        BY <2>1, QueueAssumption, SMT
  <2>3. \A u \in Tags : Len(queue'[u]) <= nreq'
        BY <2>1 DEF QInv, QTypeOK
  <2> QED
      BY <2>1, <2>2, <2>3 DEF QInv, QTypeOK, Conserved, Dispatched, ChanSeq
<1>3. ASSUME NEW t \in Tags, QTrigger(t) PROVE QInv'
      BY <1>3, TriggerStep
<1>4. ASSUME NEW t \in Tags, QTriggerEmpty(t) PROVE QInv'
      BY <1>4 DEF QTriggerEmpty, qvars, QInv, QTypeOK, Conserved, Dispatched, ChanSeq
<1>5. CASE QComplete
      BY <1>5, CompleteStep
<1>6. CASE UNCHANGED qvars
      BY <1>6 DEF qvars, QInv, QTypeOK, Conserved, Dispatched, ChanSeq
<1> QED
    BY <1>1, <1>2, <1>3, <1>4, <1>5, <1>6 DEF QNext
=============================================================================
