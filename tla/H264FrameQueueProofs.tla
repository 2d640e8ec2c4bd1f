------------------------- MODULE H264FrameQueueProofs -------------------------
(***************************************************************************)
(* Proofs about the NALU queue for every number of threads, readers and    *)
(* triggers, every set of frames and every capacity.                       *)
(***************************************************************************)
EXTENDS H264FrameQueue, SequenceTheorems, TLAPS

\* What MadeRoom returns for a queue that is not over its capacity: the queue
\* without its first d NALUs, where d is 1 if it was full.
LEMMA MadeRoomDropsOldest ==
  ASSUME NEW S, NEW q \in Seq(S), Len(q) <= MaxQueuedNalus
  PROVE  /\ MadeRoom(q) \in Seq(S)
         /\ Len(MadeRoom(q)) < MaxQueuedNalus
         /\ \E d \in {0, 1} : /\ Len(MadeRoom(q)) = Len(q) - d
                              /\ d = 1 <=> Len(q) = MaxQueuedNalus
                              /\ \A i \in 1..Len(MadeRoom(q)) : MadeRoom(q)[i] = q[i + d]
<1>1. MaxQueuedNalus \in Nat /\ MaxQueuedNalus > 0 /\ Len(q) \in Nat
  BY QueueAssumption
<1>2. CASE Len(q) < MaxQueuedNalus
  BY <1>1, <1>2 DEF MadeRoom
<1>3. CASE ~(Len(q) < MaxQueuedNalus)
  <2> DEFINE r == SubSeq(q, 2, Len(q))
  <2>1. MadeRoom(q) = r
    BY <1>1, <1>3 DEF MadeRoom
  <2>2. \A i \in 2..Len(q) : q[i] \in S
    BY <1>1
  <2>3. /\ r \in Seq(S)
        /\ Len(r) = IF 2 <= Len(q) THEN Len(q) - 2 + 1 ELSE 0
        /\ \A i \in 1..Len(q) - 2 + 1 : r[i] = q[2 + i - 1]
    BY <1>1, <2>2, SubSeqProperties
  <2> HIDE DEF r
  <2>4. Len(q) = MaxQueuedNalus /\ Len(r) = Len(q) - 1
    <3>1. Len(q) = MaxQueuedNalus /\ Len(q) >= 1
      BY <1>1, <1>3
    <3>2. Len(r) = IF 2 <= Len(q) THEN Len(q) - 2 + 1 ELSE 0
      BY <2>3
    <3>3. CASE 2 <= Len(q)
      BY <1>1, <3>1, <3>2, <3>3
    <3>4. CASE ~(2 <= Len(q))
      BY <1>1, <3>1, <3>2, <3>4
    <3> QED
      BY <3>3, <3>4
  <2>5. \A i \in 1..Len(r) : r[i] = q[i + 1]
    BY <1>1, <2>3, <2>4
  <2>6. Len(r) < MaxQueuedNalus
    BY <1>1, <2>4
  <2> QED
    BY <1>1, <2>1, <2>3, <2>4, <2>5, <2>6
<1> QED
  BY <1>2, <1>3

\* What Head and Tail return, element by element.
LEMMA HeadAndTail ==
  ASSUME NEW S, NEW q \in Seq(S), q # <<>>
  PROVE  /\ Len(q) \in Nat /\ Len(q) >= 1
         /\ Head(q) \in S /\ Head(q) = q[1]
         /\ Tail(q) \in Seq(S) /\ Len(Tail(q)) = Len(q) - 1
         /\ \A i \in 1..Len(q) - 1 : Tail(q)[i] = q[i + 1]
         /\ Tail(q) = <<>> <=> Len(q) = 1
<1>1. /\ Len(q) \in Nat /\ Len(q) >= 1
      /\ Head(q) \in S /\ Head(q) = q[1]
      /\ Tail(q) \in Seq(S) /\ Len(Tail(q)) = Len(q) - 1
      /\ \A i \in 1..Len(q) - 1 : Tail(q)[i] = q[i + 1]
  OBVIOUS
<1>2. ASSUME NEW r \in Seq(S) PROVE r = <<>> <=> Len(r) = 0
  OBVIOUS
<1>3. Tail(q) = <<>> <=> Len(Tail(q)) = 0
  BY <1>1, <1>2
<1> QED
  BY <1>1, <1>3

\* The first NAL of a frame that was split is marked as first, and only its last
\* as last.
LEMMA SplitMarksEnds ==
  ASSUME NEW frame \in Seq(NalTypes), frame # <<>>
  PROVE  LET split == SplitAnnexB(frame)
         IN  /\ split \in Seq(Nals) /\ split # <<>> /\ split[1].first
             /\ \A i \in 1..Len(split) : (split[i].last <=> i = Len(split)) /\ (split[i].first => i = 1)
<1> DEFINE split == SplitAnnexB(frame)
<1>1. Len(frame) \in Nat /\ Len(frame) >= 1 /\ \A i \in 1..Len(frame) : frame[i] \in NalTypes
  OBVIOUS
<1>2. split = [i \in 1..Len(frame) |-> [type |-> frame[i], first |-> i = 1, last |-> i = Len(frame)]]
  BY DEF SplitAnnexB
<1> HIDE DEF split
<1>3. split \in Seq(Nals) /\ Len(split) = Len(frame)
  BY <1>1, <1>2 DEF Nals
<1>4. split # <<>>
  <2>1. split = <<>> => Len(split) = 0
    <3>1. Len(<<>>) = 0
      OBVIOUS
    <3> QED
      BY <3>1, Zenon
  <2> QED
    BY <1>1, <1>3, <2>1
<1>5. \A i \in 1..Len(split) : (split[i].last <=> i = Len(split)) /\ (split[i].first <=> i = 1)
  BY <1>2, <1>3
<1>6. split[1].first
  <2>1. 1 \in 1..Len(split)
    BY <1>1, <1>3
  <2> QED
    BY <1>5, <2>1, Zenon
<1> QED
  BY <1>3, <1>4, <1>5, <1>6, Zenon DEF split

--------------------------------------------------------------------------------
\* Only the last NAL a thread has still to enqueue ends a frame, and only the
\* first may begin one; it does unless the thread is in its critical section.
RestOfFrame ==
  \A p \in Producers :
    /\ \A i \in 1..Len(nals[p]) : /\ nals[p][i].last <=> i = Len(nals[p])
                                  /\ nals[p][i].first => i = 1
    /\ mutex # p /\ nals[p] # <<>> => nals[p][1].first

\* The holder of mutex_ has enqueued a part of its own frame, or nothing yet, and
\* its next NAL begins a frame exactly if nothing of the frame is in the queue.
UnitInProgress ==
  \A p \in Producers :
    mutex = p /\ queue # <<>> =>
      /\ ~queue[Len(queue)].last => queue[Len(queue)].by = p /\ nals[p] # <<>>
      /\ nals[p] # <<>> => (nals[p][1].first <=> queue[Len(queue)].last)

QueueInv == /\ TypeOK
            /\ HoldsNewest
            /\ ParameterSetsCached
            /\ FramesStayWhole
            /\ RestOfFrame
            /\ UnitInProgress

\* An empty queue, with no frame on its way, satisfies the invariant.
LEMMA InitInv == Init => QueueInv
<1> SUFFICES ASSUME Init PROVE QueueInv
  OBVIOUS
<1>1. TypeOK
  BY QueueAssumption DEF Init, TypeOK, NotCached
<1> QED
  BY <1>1, QueueAssumption DEF Init, QueueInv, HoldsNewest, ParameterSetsCached,
     FramesStayWhole, RestOfFrame, UnitInProgress, HasSps, HasPps, NotCached

\* What the steps share that leave the queue and the caches alone.
LEMMA QueueUntouched ==
  ASSUME QueueInv, TypeOK', RestOfFrame' /\ UnitInProgress',
         queue' = queue, sps' = sps, pps' = pps, pushed' = pushed, popped' = popped,
         mutex' = NoThread /\ queue # <<>> => queue[Len(queue)].last
  PROVE  QueueInv'
<1>1. HoldsNewest' /\ ParameterSetsCached'
  BY DEF QueueInv, HoldsNewest, ParameterSetsCached, HasSps, HasPps
<1>2. FramesStayWhole'
  BY DEF QueueInv, FramesStayWhole
<1> QED
  BY <1>1, <1>2 DEF QueueInv

--------------------------------------------------------------------------------
\* pushPureNaluLocked: room is made, the NALU goes to the end, and it is of the
\* same frame as the one before it unless that one ended its frame.
LEMMA EnqueueKeepsInv ==
  ASSUME QueueInv, NEW p \in Producers, PushPureNaluLocked(p)
  PROVE  QueueInv'
<1> DEFINE nal == Head(nals[p])
           type == nal.type
           nalu == [seq |-> pushed + 1, by |-> p, type |-> nal.type, first |-> nal.first,
                    last |-> nal.last]
           rest == MadeRoom(queue)
<1>1. /\ TypeOK /\ HoldsNewest /\ ParameterSetsCached /\ FramesStayWhole /\ RestOfFrame
      /\ UnitInProgress
  BY DEF QueueInv
<1>2. /\ mutex = p /\ mutex' = p /\ nals[p] \in Seq(Nals) /\ nals[p] # <<>>
      /\ pushed' = pushed + 1 /\ popped' = popped /\ pushed \in Nat /\ popped \in Nat
      /\ queue' = Append(rest, nalu) /\ queue \in Seq(Nalus)
      /\ nals' = [nals EXCEPT ![p] = Tail(@)]
      /\ sps' = Cached(sps, type, "SPS", pushed + 1)
      /\ pps' = Cached(pps, type, "PPS", pushed + 1)
      /\ sps \in Nat /\ pps \in Nat
  BY <1>1 DEF PushPureNaluLocked, TypeOK
<1>3. /\ nal \in Nals /\ nal = nals[p][1] /\ type \in NalTypes /\ nalu \in Nalus
      /\ Tail(nals[p]) \in Seq(Nals)
  <2>1. nal \in Nals /\ nal = nals[p][1] /\ Tail(nals[p]) \in Seq(Nals)
    BY <1>2, HeadAndTail
  <2> HIDE DEF nal
  <2> QED
    BY <1>2, <2>1 DEF Nalus, Nals
<1>4. PICK d \in {0, 1} : /\ Len(rest) = Len(queue) - d
                          /\ d = 1 <=> Len(queue) = MaxQueuedNalus
                          /\ \A i \in 1..Len(rest) : rest[i] = queue[i + d]
  BY <1>1, <1>2, MadeRoomDropsOldest DEF HoldsNewest
<1>5. rest \in Seq(Nalus) /\ Len(rest) < MaxQueuedNalus /\ MaxQueuedNalus \in Nat
  BY <1>1, <1>2, MadeRoomDropsOldest, QueueAssumption DEF HoldsNewest
<1> HIDE DEF nalu, type, rest, nal
<1>6. /\ queue' \in Seq(Nalus) /\ Len(queue') = Len(rest) + 1 /\ Len(rest) \in Nat
      /\ Len(queue) \in Nat
      /\ \A i \in 1..Len(rest) : queue'[i] = rest[i]
      /\ queue'[Len(rest) + 1] = nalu
  BY <1>2, <1>3, <1>5
<1>7. /\ nalu.seq = pushed + 1 /\ nalu.type = type /\ nalu.by = p
      /\ nalu.first = nal.first /\ nalu.last = nal.last
  BY DEF nalu, type
<1>8. \A i \in 1..Len(queue') :
        (i \in 1..Len(rest) /\ i + d \in 1..Len(queue) /\ queue'[i] = queue[i + d])
        \/ (i = Len(rest) + 1 /\ queue'[i] = nalu)
  BY <1>4, <1>6
<1>9. TypeOK'
  <2>1. nals' \in [Producers -> Seq(Nals)]
    BY <1>1, <1>2, <1>3 DEF TypeOK
  <2>2. sps' \in Nat /\ pps' \in Nat
    BY <1>2 DEF Cached
  <2> QED
    BY <1>1, <1>2, <1>6, <2>1, <2>2 DEF TypeOK, PushPureNaluLocked
<1>10. HoldsNewest'
  <2>1. ASSUME NEW i \in 1..Len(queue') PROVE queue'[i].seq = pushed' - Len(queue') + i
    <3>1. CASE i = Len(rest) + 1 /\ queue'[i] = nalu
      BY <1>2, <1>6, <1>7, <3>1
    <3>2. CASE i \in 1..Len(rest) /\ i + d \in 1..Len(queue) /\ queue'[i] = queue[i + d]
      <4>1. queue[i + d].seq = pushed - Len(queue) + (i + d)
        BY <1>1, <3>2 DEF HoldsNewest
      <4> QED
        BY <1>2, <1>4, <1>6, <3>2, <4>1
    <3> QED
      BY <1>8, <2>1, <3>1, <3>2
  <2>2. Len(queue') <= MaxQueuedNalus /\ popped' + Len(queue') <= pushed'
    BY <1>1, <1>2, <1>4, <1>5, <1>6 DEF HoldsNewest
  <2> QED
    BY <2>1, <2>2 DEF HoldsNewest
<1>11. ParameterSetsCached'
  <2>1. ASSUME NEW i \in 1..Len(queue'), queue'[i].type = "SPS"
        PROVE  HasSps' /\ sps' <= queue'[i].seq
    <3>1. CASE i = Len(rest) + 1 /\ queue'[i] = nalu
      <4>1. type = "SPS" /\ queue'[i].seq = pushed + 1
        BY <1>7, <2>1, <3>1
      <4> QED
        BY <1>1, <1>2, <4>1 DEF Cached, HasSps, NotCached, ParameterSetsCached
    <3>2. CASE i \in 1..Len(rest) /\ i + d \in 1..Len(queue) /\ queue'[i] = queue[i + d]
      <4>1. HasSps /\ sps <= queue[i + d].seq
        BY <1>1, <2>1, <3>2 DEF ParameterSetsCached
      <4> QED
        BY <1>2, <3>2, <4>1 DEF Cached, HasSps
    <3> QED
      BY <1>8, <2>1, <3>1, <3>2
  <2>2. ASSUME NEW i \in 1..Len(queue'), queue'[i].type = "PPS"
        PROVE  HasPps' /\ pps' <= queue'[i].seq
    <3>1. CASE i = Len(rest) + 1 /\ queue'[i] = nalu
      <4>1. type = "PPS" /\ queue'[i].seq = pushed + 1
        BY <1>7, <2>2, <3>1
      <4> QED
        BY <1>1, <1>2, <4>1 DEF Cached, HasPps, NotCached, ParameterSetsCached
    <3>2. CASE i \in 1..Len(rest) /\ i + d \in 1..Len(queue) /\ queue'[i] = queue[i + d]
      <4>1. HasPps /\ pps <= queue[i + d].seq
        BY <1>1, <2>2, <3>2 DEF ParameterSetsCached
      <4> QED
        BY <1>2, <3>2, <4>1 DEF Cached, HasPps
    <3> QED
      BY <1>8, <2>2, <3>1, <3>2
  <2>3. sps' <= pushed' /\ pps' <= pushed'
    BY <1>1, <1>2 DEF Cached, ParameterSetsCached
  <2>4. ASSUME NEW i \in 1..Len(queue')
        PROVE  /\ queue'[i].seq = sps' => queue'[i].type = "SPS"
               /\ queue'[i].seq = pps' => queue'[i].type = "PPS"
    <3>1. CASE i = Len(rest) + 1 /\ queue'[i] = nalu
      BY <1>1, <1>2, <1>7, <3>1 DEF Cached, ParameterSetsCached
    <3>2. CASE i \in 1..Len(rest) /\ i + d \in 1..Len(queue) /\ queue'[i] = queue[i + d]
      <4>1. /\ queue[i + d].seq = sps => queue[i + d].type = "SPS"
            /\ queue[i + d].seq = pps => queue[i + d].type = "PPS"
        BY <1>1, <3>2 DEF ParameterSetsCached
      <4>2. queue[i + d].seq \in Nat /\ queue[i + d].seq < pushed + 1
        BY <1>1, <1>2, <1>6, <3>2 DEF HoldsNewest
      <4> QED
        BY <1>2, <3>2, <4>1, <4>2 DEF Cached
    <3> QED
      BY <1>8, <2>4, <3>1, <3>2
  <2> QED
    BY <2>1, <2>2, <2>3, <2>4 DEF ParameterSetsCached
<1>12. FramesStayWhole'
  <2>1. mutex' # NoThread
    BY <1>2, ValuesAssumption
  <2>2. ASSUME NEW i \in 1..Len(queue') - 1
        PROVE  /\ queue'[i + 1].first <=> queue'[i].last
               /\ ~queue'[i].last => queue'[i + 1].by = queue'[i].by
    <3>1. i \in 1..Len(rest) /\ i + d \in 1..Len(queue) /\ queue'[i] = queue[i + d]
      BY <1>6, <1>8
    <3>2. CASE i < Len(rest)
      <4>1. /\ i + 1 \in 1..Len(rest) /\ i + d \in 1..Len(queue) - 1
            /\ (i + 1) + d = (i + d) + 1
        BY <1>4, <1>6, <3>1, <3>2
      <4>2. queue'[i + 1] = queue[(i + 1) + d]
        BY <1>4, <1>6, <4>1
      <4> QED
        BY <1>1, <3>1, <4>1, <4>2 DEF FramesStayWhole
    <3>3. CASE i = Len(rest)
      <4>1. i + d = Len(queue) /\ queue # <<>> /\ queue'[i + 1] = nalu
        BY <1>2, <1>4, <1>6, <3>1, <3>3
      <4>2. nal.first <=> queue[Len(queue)].last
        BY <1>1, <1>2, <1>3, <4>1 DEF UnitInProgress
      <4> QED
        BY <1>1, <1>2, <1>7, <3>1, <4>1, <4>2 DEF UnitInProgress
    <3> QED
      BY <1>6, <3>1, <3>2, <3>3
  <2> QED
    BY <2>1, <2>2 DEF FramesStayWhole
<1>13. /\ nals'[p] = Tail(nals[p]) /\ \A r \in Producers \ {p} : nals'[r] = nals[r]
       /\ Len(nals[p]) \in Nat /\ Len(nals[p]) >= 1 /\ Len(nals'[p]) = Len(nals[p]) - 1
       /\ \A i \in 1..Len(nals[p]) - 1 : nals'[p][i] = nals[p][i + 1]
       /\ nals'[p] = <<>> <=> Len(nals[p]) = 1
  <2>1. nals'[p] = Tail(nals[p]) /\ \A r \in Producers \ {p} : nals'[r] = nals[r]
    BY <1>1, <1>2 DEF TypeOK
  <2> QED
    BY <1>2, <2>1, HeadAndTail
<1>14. RestOfFrame'
  <2>1. ASSUME NEW i \in 1..Len(nals'[p])
        PROVE  (nals'[p][i].last <=> i = Len(nals'[p])) /\ ~nals'[p][i].first
    <3>1. i + 1 \in 1..Len(nals[p]) /\ i + 1 # 1
      BY <1>13
    <3>2. (nals[p][i + 1].last <=> i + 1 = Len(nals[p])) /\ ~nals[p][i + 1].first
      BY <1>1, <3>1 DEF RestOfFrame
    <3> QED
      BY <1>13, <3>2
  <2>2. \A r \in Producers \ {p} : mutex # r
    BY <1>2
  <2> QED
    BY <1>1, <1>2, <1>13, <2>1, <2>2 DEF RestOfFrame
<1>15. UnitInProgress'
  <2>1. queue'[Len(queue')] = nalu
    BY <1>6
  <2>2. nal.last <=> Len(nals[p]) = 1
    <3>1. 1 \in 1..Len(nals[p])
      BY <1>13
    <3>2. nals[p][1].last <=> 1 = Len(nals[p])
      BY <1>1, <3>1 DEF RestOfFrame
    <3> QED
      BY <1>3, <3>2
  <2>4. nals'[p] # <<>> => ~nals'[p][1].first /\ ~nal.last
    <3> SUFFICES ASSUME nals'[p] # <<>> PROVE ~nals'[p][1].first /\ ~nal.last
      OBVIOUS
    <3>1. Len(nals[p]) >= 2 /\ nals'[p][1] = nals[p][2] /\ 2 \in 1..Len(nals[p])
      BY <1>13
    <3> QED
      BY <1>1, <2>2, <3>1 DEF RestOfFrame
  <2>5. nals'[p] = <<>> => nal.last
    BY <1>13, <2>2
  <2> QED
    BY <1>2, <1>7, <2>1, <2>4, <2>5 DEF UnitInProgress
<1> QED
  BY <1>9, <1>10, <1>11, <1>12, <1>14, <1>15 DEF QueueInv

\* popNalu: the rest of the queue is still the newest, and its end is the same.
LEMMA PopKeepsInv ==
  ASSUME QueueInv, PopNalu
  PROVE  QueueInv'
<1>1. TypeOK /\ HoldsNewest /\ ParameterSetsCached /\ FramesStayWhole /\ RestOfFrame
  BY DEF QueueInv
<1>2. /\ mutex = NoThread /\ queue # <<>> /\ queue' = Tail(queue) /\ popped' = Head(queue).seq
      /\ UNCHANGED <<mutex, nals, readers, woken, sps, pps, pending, pushed>>
      /\ queue \in Seq(Nalus) /\ pushed \in Nat
  BY <1>1 DEF PopNalu, TypeOK
<1>3. /\ queue' \in Seq(Nalus) /\ Len(queue') = Len(queue) - 1
      /\ Len(queue) \in Nat /\ Len(queue) >= 1 /\ Head(queue) = queue[1]
      /\ \A i \in 1..Len(queue') : queue'[i] = queue[i + 1]
  BY <1>2
<1>4. queue[1].seq = pushed - Len(queue) + 1
  BY <1>1, <1>3 DEF HoldsNewest
<1>5. popped' \in Nat
  BY <1>1, <1>2, <1>3, <1>4 DEF HoldsNewest, TypeOK
<1>6. TypeOK'
  BY <1>1, <1>2, <1>3, <1>5 DEF TypeOK
<1>7. HoldsNewest'
  <2>1. \A i \in 1..Len(queue') : queue'[i].seq = pushed' - Len(queue') + i
    BY <1>1, <1>2, <1>3 DEF HoldsNewest
  <2>2. Len(queue') <= MaxQueuedNalus /\ popped' + Len(queue') <= pushed'
    BY <1>1, <1>2, <1>3, <1>4, QueueAssumption DEF HoldsNewest
  <2> QED
    BY <2>1, <2>2 DEF HoldsNewest
<1>8. ParameterSetsCached'
  BY <1>1, <1>2, <1>3 DEF ParameterSetsCached, HasSps, HasPps
<1>9. FramesStayWhole'
  <2>1. queue' # <<>> => queue'[Len(queue')] = queue[Len(queue)]
    BY <1>3
  <2>2. \A i \in 1..Len(queue') - 1 : /\ queue'[i + 1].first <=> queue'[i].last
                                       /\ ~queue'[i].last => queue'[i + 1].by = queue'[i].by
    BY <1>1, <1>3 DEF FramesStayWhole
  <2> QED
    BY <1>1, <1>2, <2>1, <2>2 DEF FramesStayWhole
<1>10. RestOfFrame' /\ UnitInProgress'
  BY <1>1, <1>2, ValuesAssumption DEF RestOfFrame, UnitInProgress
<1> QED
  BY <1>6, <1>7, <1>8, <1>9, <1>10 DEF QueueInv

\* clear: nothing is queued and the caches stay.
LEMMA ClearKeepsInv ==
  ASSUME QueueInv, Clear
  PROVE  QueueInv'
<1>1. TypeOK /\ HoldsNewest /\ ParameterSetsCached /\ RestOfFrame
  BY DEF QueueInv
<1>2. /\ queue' = <<>> /\ queue' \in Seq(Nalus) /\ Len(queue') = 0
      /\ UNCHANGED <<mutex, nals, readers, woken, sps, pps, pending, pushed, popped>>
  BY DEF Clear
<1>3. TypeOK'
  BY <1>1, <1>2 DEF TypeOK
<1>4. HoldsNewest'
  <2>1. popped <= pushed
    BY <1>1 DEF TypeOK, HoldsNewest
  <2> QED
    BY <1>1, <1>2, <2>1, QueueAssumption DEF TypeOK, HoldsNewest
<1>5. ParameterSetsCached' /\ FramesStayWhole' /\ RestOfFrame' /\ UnitInProgress'
  BY <1>1, <1>2 DEF ParameterSetsCached, FramesStayWhole, RestOfFrame, UnitInProgress
<1> QED
  BY <1>3, <1>4, <1>5 DEF QueueInv

\* The steps that leave the queue alone: what changes is who holds the lock, what
\* it has still to enqueue, the readers and the events.
LEMMA OtherStepsKeepInv ==
  ASSUME QueueInv,
         \/ \E p \in Producers : \/ \E frame \in Frames : PushAnnexBFrame(p, frame)
                                 \/ Lock(p)
                                 \/ WakeReaderLocked(p)
                                 \/ Unlock(p)
         \/ \E id \in TriggerIds \cup {NoTrigger}, s \in Sources : RegisterReader(id, s)
         \/ \E id \in TriggerIds : UnregisterReader(id)
         \/ \E id \in TriggerIds : HandleEvent(id)
         \/ UNCHANGED vars
  PROVE  QueueInv'
<1>1. TypeOK /\ FramesStayWhole /\ RestOfFrame /\ UnitInProgress
  BY DEF QueueInv
<1>2. ASSUME NEW p \in Producers, NEW frame \in Frames, PushAnnexBFrame(p, frame)
      PROVE  QueueInv'
  <2>1. frame \in Seq(NalTypes) /\ frame # <<>> /\ mutex # p
    BY <1>2, QueueAssumption DEF PushAnnexBFrame
  <2> DEFINE split == SplitAnnexB(frame)
  <2>2. nals' = [nals EXCEPT ![p] = split]
        /\ UNCHANGED <<mutex, queue, readers, woken, sps, pps, pending, pushed, popped>>
    BY <1>2 DEF PushAnnexBFrame
  <2>a. /\ split \in Seq(Nals) /\ split # <<>> /\ split[1].first
        /\ \A i \in 1..Len(split) : (split[i].last <=> i = Len(split)) /\ (split[i].first => i = 1)
    BY <2>1, SplitMarksEnds
  <2> HIDE DEF split
  <2>3. TypeOK'
    BY <1>1, <2>a, <2>2 DEF TypeOK
  <2>4. RestOfFrame' /\ UnitInProgress'
    BY <1>1, <2>1, <2>a, <2>2 DEF RestOfFrame, UnitInProgress, TypeOK
  <2>5. mutex' = NoThread /\ queue # <<>> => queue[Len(queue)].last
    BY <1>1, <2>2 DEF FramesStayWhole
  <2> QED
    BY <2>2, <2>3, <2>4, <2>5, QueueUntouched
<1>3. ASSUME NEW p \in Producers, Lock(p) PROVE QueueInv'
  <2>1. mutex = NoThread /\ mutex' = p
        /\ UNCHANGED <<nals, queue, readers, woken, sps, pps, pending, pushed, popped>>
    BY <1>3 DEF Lock
  <2>2. TypeOK' /\ RestOfFrame' /\ UnitInProgress'
    <3>1. TypeOK'
      BY <1>1, <2>1 DEF TypeOK
    <3> \A q \in Producers : mutex # q
      BY <2>1, ValuesAssumption
    <3>a. RestOfFrame'
      BY <1>1, <2>1 DEF RestOfFrame
    <3>2. p \in Producers /\ mutex # p
      BY <2>1, ValuesAssumption
    <3>3. queue # <<>> => queue[Len(queue)].last
      BY <1>1, <2>1 DEF FramesStayWhole
    <3>4. nals[p] # <<>> => nals[p][1].first
      BY <1>1, <3>2 DEF RestOfFrame
    <3>5. UnitInProgress'
      BY <2>1, <3>3, <3>4 DEF UnitInProgress
    <3> QED
      BY <3>1, <3>a, <3>5
  <2> QED
    BY <2>1, <2>2, QueueUntouched, ValuesAssumption
<1>4. ASSUME NEW p \in Producers, WakeReaderLocked(p) PROVE QueueInv'
  <2>1. PICK reader \in readers \ woken :
          /\ pending' = [pending EXCEPT ![reader.triggerId] = reader.clientData]
          /\ woken' = woken \cup {reader}
    BY <1>4 DEF WakeReaderLocked, TriggerEvent
  <2>2. UNCHANGED <<mutex, nals, queue, readers, sps, pps, pushed, popped>>
    BY <1>4 DEF WakeReaderLocked
  <2> mutex # NoThread
    BY <1>4, ValuesAssumption DEF WakeReaderLocked
  <2>3. reader.clientData \in Sources
    BY <1>1, <2>1 DEF TypeOK, Readers
  <2>4. TypeOK'
    BY <1>1, <2>1, <2>2, <2>3 DEF TypeOK
  <2>5. RestOfFrame' /\ UnitInProgress' /\ (mutex' = NoThread /\ queue # <<>> => queue[Len(queue)].last)
    BY <1>1, <2>2 DEF RestOfFrame, UnitInProgress, FramesStayWhole
  <2> QED
    BY <2>2, <2>4, <2>5, QueueUntouched
<1>5. ASSUME NEW p \in Producers, Unlock(p) PROVE QueueInv'
  <2>1. mutex = p /\ nals[p] = <<>> /\ mutex' = NoThread /\ woken' = {}
        /\ UNCHANGED <<nals, queue, readers, sps, pps, pending, pushed, popped>>
    BY <1>5 DEF Unlock
  <2>2. TypeOK' /\ RestOfFrame' /\ UnitInProgress'
    BY <1>1, <2>1, ValuesAssumption DEF TypeOK, RestOfFrame, UnitInProgress
  <2>3. queue # <<>> => queue[Len(queue)].last
    BY <1>1, <2>1 DEF UnitInProgress
  <2> QED
    BY <2>1, <2>2, <2>3, QueueUntouched
<1>6. ASSUME NEW id \in TriggerIds \cup {NoTrigger}, NEW s \in Sources, RegisterReader(id, s)
      PROVE  QueueInv'
  <2>1. readers' \subseteq Readers /\ woken' \subseteq readers'
    BY <1>1, <1>6 DEF RegisterReader, Reader, Readers, TypeOK
  <2>2. /\ TypeOK' /\ RestOfFrame' /\ UnitInProgress'
        /\ (mutex' = NoThread /\ queue # <<>> => queue[Len(queue)].last)
    BY <1>1, <1>6, <2>1 DEF RegisterReader, TypeOK, RestOfFrame, UnitInProgress,
       FramesStayWhole
  <2> QED
    BY <1>6, <2>2, QueueUntouched DEF RegisterReader
<1>7. ASSUME NEW id \in TriggerIds, UnregisterReader(id) PROVE QueueInv'
  <2>1. readers' \subseteq Readers /\ woken' \subseteq readers'
    BY <1>1, <1>7 DEF UnregisterReader, TypeOK
  <2>2. /\ TypeOK' /\ RestOfFrame' /\ UnitInProgress'
        /\ (mutex' = NoThread /\ queue # <<>> => queue[Len(queue)].last)
    BY <1>1, <1>7, <2>1 DEF UnregisterReader, TypeOK, RestOfFrame, UnitInProgress,
       FramesStayWhole
  <2> QED
    BY <1>7, <2>2, QueueUntouched DEF UnregisterReader
<1>8. ASSUME NEW id \in TriggerIds, HandleEvent(id) PROVE QueueInv'
  <2>1. /\ TypeOK' /\ RestOfFrame' /\ UnitInProgress'
        /\ (mutex' = NoThread /\ queue # <<>> => queue[Len(queue)].last)
    BY <1>1, <1>8 DEF HandleEvent, ClearEvent, TypeOK, RestOfFrame, UnitInProgress,
       FramesStayWhole
  <2> QED
    BY <1>8, <2>1, QueueUntouched DEF HandleEvent
<1>9. CASE UNCHANGED vars
  <2>1. /\ TypeOK' /\ RestOfFrame' /\ UnitInProgress'
        /\ (mutex' = NoThread /\ queue # <<>> => queue[Len(queue)].last)
    BY <1>1, <1>9 DEF vars, TypeOK, RestOfFrame, UnitInProgress, FramesStayWhole
  <2> QED
    BY <1>9, <2>1, QueueUntouched DEF vars
<1> QED
  BY <1>2, <1>3, <1>4, <1>5, <1>6, <1>7, <1>8, <1>9

\* Every step of any thread keeps the invariant.
LEMMA StepKeepsInv == QueueInv /\ [Next]_vars => QueueInv'
<1> SUFFICES ASSUME QueueInv, [Next]_vars PROVE QueueInv'
  OBVIOUS
<1>1. ASSUME NEW p \in Producers, PushPureNaluLocked(p) PROVE QueueInv'
  BY <1>1, EnqueueKeepsInv
<1>2. CASE PopNalu
  BY <1>2, PopKeepsInv
<1>3. CASE Clear
  BY <1>3, ClearKeepsInv
<1> QED
  BY <1>1, <1>2, <1>3, OtherStepsKeepInv DEF Next, Push, FinishPush

\* The invariant holds in every behaviour of the queue.
LEMMA QueueInductive == Spec => []QueueInv
  BY InitInv, StepKeepsInv, PTL DEF Spec

--------------------------------------------------------------------------------
\* Every value of every variable stays in its set, whatever the threads do.
THEOREM QueueTypeCorrect == Spec => []TypeOK
<1>1. QueueInv => TypeOK
  BY DEF QueueInv
<1> QED
  BY <1>1, QueueInductive, PTL

\* The queue holds at most maxQueuedNalus_ NALUs, and they are the newest ones.
THEOREM QueueHoldsNewest == Spec => []HoldsNewest
<1>1. QueueInv => HoldsNewest
  BY DEF QueueInv
<1> QED
  BY <1>1, QueueInductive, PTL

\* However many threads push, the NALs of a frame are adjacent in the queue and
\* the event loop never pops from a frame that is only partly in.
THEOREM QueueKeepsFramesWhole == Spec => []FramesStayWhole
<1>1. QueueInv => FramesStayWhole
  BY DEF QueueInv
<1> QED
  BY <1>1, QueueInductive, PTL

\* The first SPS that is pushed is cached and stays so, and so does the first PPS
\* (docs/DATA_FLOW.md), over whatever is pushed, popped and cleared.
THEOREM QueueCachesFirst == Spec => FirstParameterSets
<1>1. QueueInv => ParameterSetsCached
  BY DEF QueueInv
<1>2. [Next]_vars => [(HasSps => UNCHANGED sps) /\ (HasPps => UNCHANGED pps)]_vars
  <2>1. ASSUME NEW p \in Producers, PushPureNaluLocked(p)
        PROVE  (HasSps => UNCHANGED sps) /\ (HasPps => UNCHANGED pps)
    BY <2>1 DEF PushPureNaluLocked, Cached, HasSps, HasPps
  <2>2. ASSUME Next, ~\E p \in Producers : PushPureNaluLocked(p) PROVE UNCHANGED <<sps, pps>>
    BY <2>2 DEF Next, Push, FinishPush, PushAnnexBFrame, Lock, WakeReaderLocked, Unlock, PopNalu,
       Clear, RegisterReader, UnregisterReader, HandleEvent
  <2> QED
    BY <2>1, <2>2
<1> QED
  BY <1>1, <1>2, QueueInductive, PTL DEF Spec, FirstParameterSets

--------------------------------------------------------------------------------
\* A critical section of mutex_ only comes nearer to its end, however many threads
\* wait for it and whatever the event loop does meanwhile.
THEOREM QueueCriticalSectionsEnd == Spec => CriticalSectionEnds
<1> DEFINE Nearer(p) ==
             \/ mutex' = NoThread
             \/ /\ mutex' = p /\ readers' = readers
                /\ \/ UNCHANGED <<nals[p], woken>>
                   \/ Len(nals'[p]) < Len(nals[p]) /\ UNCHANGED woken
                   \/ UNCHANGED nals[p] /\ woken \subseteq woken' /\ woken' \subseteq readers
<1>1. ASSUME TypeOK, Next, NEW p \in Producers, mutex = p PROVE Nearer(p)
  <2>0. mutex # NoThread
    BY <1>1, ValuesAssumption
  <2>1. CASE PushPureNaluLocked(p)
    <3>1. nals[p] \in Seq(Nals) /\ nals[p] # <<>>
      BY <1>1, <2>1 DEF PushPureNaluLocked, TypeOK
    <3>2. Len(Tail(nals[p])) < Len(nals[p])
      BY <3>1, HeadAndTail
    <3>3. nals'[p] = Tail(nals[p])
      BY <1>1, <2>1 DEF PushPureNaluLocked, TypeOK
    <3> QED
      BY <1>1, <2>1, <3>2, <3>3 DEF PushPureNaluLocked
  <2>2. CASE WakeReaderLocked(p)
    BY <1>1, <2>2 DEF WakeReaderLocked, TypeOK
  <2>3. CASE Unlock(p)
    BY <2>3 DEF Unlock
  <2>4. ASSUME NEW q \in Producers, NEW frame \in Frames, PushAnnexBFrame(q, frame)
        PROVE  Nearer(p)
    BY <1>1, <2>4 DEF PushAnnexBFrame, TypeOK
  <2>5. ASSUME NEW id, NEW s \in Sources, RegisterReader(id, s) PROVE Nearer(p)
    BY <1>1, <2>0, <2>5 DEF RegisterReader
  <2>6. ASSUME NEW id \in TriggerIds, HandleEvent(id) PROVE Nearer(p)
    BY <1>1, <2>6 DEF HandleEvent
  <2>7. ~PopNalu /\ ~Clear /\ \A id \in TriggerIds : ~UnregisterReader(id)
    BY <2>0 DEF PopNalu, Clear, UnregisterReader
  <2>8. \A q \in Producers : FinishPush(q) => q = p
    BY <1>1, <2>0 DEF FinishPush, Lock, PushPureNaluLocked, WakeReaderLocked, Unlock
  <2>9. ~Lock(p)
    BY <2>0 DEF Lock
  <2> HIDE DEF Nearer
  <2> QED
    BY <1>1, <2>1, <2>2, <2>3, <2>4, <2>5, <2>6, <2>7, <2>8, <2>9 DEF Next, Push, FinishPush
<1>2. QueueInv /\ [Next]_vars => [\A p \in Producers : mutex = p => Nearer(p)]_vars
  <2> HIDE DEF Nearer
  <2> QED
    BY <1>1 DEF QueueInv
<1> QED
  BY <1>2, QueueInductive, PTL DEF Spec, CriticalSectionEnds

--------------------------------------------------------------------------------
(* Refinement *)

LEMMA InitIsFifo == Init => Fifo!Init
<1>1. Len(<<>>) = 0 /\ 0 - 0 = 0
  OBVIOUS
<1> QED
  BY <1>1, Zenon DEF Init, Fifo!Init

\* Every step is one of the channel's or leaves the channel as it is.
LEMMA StepRefines == QueueInv /\ [Next]_vars => [Fifo!Next]_Fifo!vars
<1> SUFFICES ASSUME QueueInv, [Next]_vars PROVE [Fifo!Next]_Fifo!vars
  OBVIOUS
<1> USE DEF Fifo!Next, Fifo!vars
<1>1. TypeOK /\ HoldsNewest /\ Len(queue) \in Nat
  BY DEF QueueInv, TypeOK
<1>2. ASSUME NEW p \in Producers, PushPureNaluLocked(p) PROVE Fifo!Put
  <2> DEFINE rest == MadeRoom(queue)
  <2>1. PICK nalu : queue' = Append(rest, nalu)
    BY <1>2 DEF PushPureNaluLocked
  <2>2. PICK d \in {0, 1} : Len(rest) = Len(queue) - d /\ (d = 1 <=> Len(queue) = MaxQueuedNalus)
    BY <1>1, MadeRoomDropsOldest DEF HoldsNewest, TypeOK
  <2>3. rest \in Seq(Nalus)
    BY <1>1, MadeRoomDropsOldest DEF HoldsNewest, TypeOK
  <2> HIDE DEF rest
  <2>4. Len(queue') = Len(rest) + 1
    BY <2>1, <2>3
  <2>5. pushed' = pushed + 1 /\ popped' = popped /\ pushed \in Nat
    BY <1>1, <1>2 DEF PushPureNaluLocked, TypeOK
  <2>6. pushed - (pushed - Len(queue)) = Len(queue)
    BY <1>1, <2>5
  <2>7. pushed' - Len(queue') = IF Len(queue) = MaxQueuedNalus THEN pushed - Len(queue) + 1
                                                           ELSE pushed - Len(queue)
    BY <1>1, <2>2, <2>4, <2>5
  <2> QED
    BY <2>5, <2>6, <2>7 DEF Fifo!Put
<1>3. CASE PopNalu
  <2>1. /\ Len(queue') = Len(queue) - 1 /\ Len(queue) >= 1
        /\ popped' = queue[1].seq /\ pushed' = pushed /\ pushed \in Nat
    BY <1>1, <1>3 DEF PopNalu, TypeOK
  <2>2. queue[1].seq = pushed - Len(queue) + 1
    BY <1>1, <2>1 DEF HoldsNewest
  <2>3. Fifo!Take
    BY <1>1, <2>1, <2>2 DEF Fifo!Take
  <2> QED
    BY <2>3
<1>4. CASE Clear
  <2>1. Fifo!Reset
    BY <1>1, <1>4 DEF Clear, Fifo!Reset, TypeOK
  <2> QED
    BY <2>1
<1>5. CASE UNCHANGED <<queue, pushed, popped>>
  BY <1>5
<1>6. \/ \E p \in Producers : PushPureNaluLocked(p)
      \/ PopNalu
      \/ Clear
      \/ UNCHANGED <<queue, pushed, popped>>
  BY DEF Next, Push, FinishPush, vars, PushAnnexBFrame, Lock, WakeReaderLocked, Unlock,
     RegisterReader, UnregisterReader, HandleEvent
<1> QED
  BY <1>2, <1>3, <1>4, <1>5, <1>6

\* H264FrameQueue is a lossy first-in first-out channel of maxQueuedNalus_ NALUs:
\* it loses the oldest and only when it is full, and delivers the others once and
\* in order.
THEOREM QueueImplementsLossyFifo == Spec => ImplementsLossyFifo
  BY InitIsFifo, StepRefines, QueueInductive, PTL DEF Spec, ImplementsLossyFifo, Fifo!Spec

===============================================================================
