---------------------------- MODULE H264FrameQueue ----------------------------
(***************************************************************************)
(* H264FrameQueue (src/src/h264FrameQueue.{hh,cpp}): the queue of NALUs    *)
(* between the threads that push encoded frames and the live555 event loop *)
(* thread, with the readers it wakes.                                      *)
(*                                                                         *)
(* A push is several steps, because the trigger events it raises are seen  *)
(* by the event loop before mutex_ is released; every other method is one  *)
(* critical section of mutex_ and one step.  A frame is the sequence of    *)
(* the types of the NALs splitAnnexB found in it (AnnexB.tla says what     *)
(* those are), or a single "other" when it found none.                     *)
(***************************************************************************)
EXTENDS EventTriggers, Sequences

CONSTANTS Producers,       \* threads that call pushAnnexBFrame
          Sources,         \* clientData of readers: the MyH264Source objects
          Frames,          \* the frames that are pushed
          MaxQueuedNalus,  \* maxQueuedNalus_
          MaxPushed,       \* bound: frames are pushed until so many NALUs have been
          NoThread

NalTypes == {"SPS", "PPS", "IDR", "slice", "other"}

ASSUME QueueAssumption == /\ MaxQueuedNalus \in Nat \ {0}
                          /\ MaxPushed \in Nat
                          /\ Frames \subseteq Seq(NalTypes) \ {<<>>}

ASSUME ValuesAssumption == NoThread \notin Producers /\ NoData \notin Sources

VARIABLES mutex,    \* the producer that holds mutex_, NoThread between critical sections
          nals,     \* for each producer: the NALs of its frame it has still to enqueue
          queue,    \* queue_
          readers,  \* readers_, a set: no property depends on the order they wake in
          woken,    \* the readers the loop of wakeReadersLocked has visited
          sps, pps, \* the NALUs in sps_ and pps_, NotCached while they are empty
          pending,  \* the events triggered and not yet handled (EventTriggers)
          pushed,   \* how many NALUs have been enqueued: they are numbered from 1
          popped    \* the number of the last NALU popNalu returned, 0 before

vars == <<mutex, nals, queue, readers, woken, sps, pps, pending, pushed, popped>>

NotCached == 0

\* "first" and "last" mark the ends of a frame, "by" is the producer that pushed it.
Nals == [type : NalTypes, first : BOOLEAN, last : BOOLEAN]

Nalus == [seq : Nat \ {0}, by : Producers, type : NalTypes, first : BOOLEAN, last : BOOLEAN]

Reader(id, clientData) == [triggerId |-> id, clientData |-> clientData]

Readers == [triggerId : TriggerIds, clientData : Sources]

Init == /\ mutex = NoThread
        /\ nals = [p \in Producers |-> <<>>]
        /\ queue = <<>>
        /\ readers = {}
        /\ woken = {}
        /\ sps = NotCached /\ pps = NotCached
        /\ pending = [id \in TriggerIds |-> NoData]
        /\ pushed = 0 /\ popped = 0

--------------------------------------------------------------------------------
(* pushAnnexBFrame *)

\* The NALs splitAnnexB finds in a frame.
SplitAnnexB(frame) ==
  [i \in 1..Len(frame) |-> [type |-> frame[i], first |-> i = 1, last |-> i = Len(frame)]]

\* The frame is split before mutex_ is taken.
PushAnnexBFrame(p, frame) ==
  /\ mutex # p /\ nals[p] = <<>>
  /\ pushed + Len(frame) <= MaxPushed
  /\ nals' = [nals EXCEPT ![p] = SplitAnnexB(frame)]
  /\ UNCHANGED <<mutex, queue, readers, woken, sps, pps, pending, pushed, popped>>

\* A slip: the lock_guard of pushAnnexBFrame is missing.
LockNothing(p) ==
  /\ nals[p] # <<>>
  /\ mutex' = p
  /\ UNCHANGED <<nals, queue, readers, woken, sps, pps, pending, pushed, popped>>

Lock(p) ==
  /\ mutex = NoThread /\ nals[p] # <<>>
  /\ mutex' = p
  /\ UNCHANGED <<nals, queue, readers, woken, sps, pps, pending, pushed, popped>>

\* A slip: one NALU too many is let in before the oldest is dropped.
MadeRoomLate(q) ==
  IF Len(q) <= MaxQueuedNalus THEN q
                              ELSE SubSeq(q, Len(q) - MaxQueuedNalus + 1, Len(q))

\* A slip: the newest NALUs are dropped, not the oldest.
MadeRoomAtBack(q) ==
  IF Len(q) < MaxQueuedNalus THEN q ELSE SubSeq(q, 1, MaxQueuedNalus - 1)

\* The loop that pops the front while the queue is full.
MadeRoom(q) ==
  IF Len(q) < MaxQueuedNalus THEN q
                             ELSE SubSeq(q, Len(q) - MaxQueuedNalus + 2, Len(q))

\* What sps_ (pps_) is after a NAL of a type: the first of its type is kept.
Cached(cache, type, wanted, seq) ==
  IF type = wanted /\ cache = NotCached THEN seq ELSE cache

\* One round of the loop over the NALs of the frame: pushPureNaluLocked.
PushPureNaluLocked(p) ==
  /\ mutex = p /\ nals[p] # <<>>
  /\ LET nal == Head(nals[p])
         nalu == [seq |-> pushed + 1, by |-> p, type |-> nal.type, first |-> nal.first,
                  last |-> nal.last]
     IN  /\ sps' = Cached(sps, nal.type, "SPS", pushed + 1)
         /\ pps' = Cached(pps, nal.type, "PPS", pushed + 1)
         /\ queue' = Append(MadeRoom(queue), nalu)
  /\ pushed' = pushed + 1
  /\ nals' = [nals EXCEPT ![p] = Tail(@)]
  /\ UNCHANGED <<mutex, readers, woken, pending, popped>>

\* One round of the loop of wakeReadersLocked.
WakeReaderLocked(p) ==
  /\ mutex = p /\ nals[p] = <<>>
  /\ \E reader \in readers \ woken :
       /\ pending' = TriggerEvent(pending, reader.triggerId, reader.clientData)
       /\ woken' = woken \cup {reader}
  /\ UNCHANGED <<mutex, nals, queue, readers, sps, pps, pushed, popped>>

\* A slip: the loop over the readers ends after the first.
UnlockAfterOne(p) ==
  /\ mutex = p /\ nals[p] = <<>> /\ (woken = readers \/ woken # {})
  /\ mutex' = NoThread
  /\ woken' = {}
  /\ UNCHANGED <<nals, queue, readers, sps, pps, pending, pushed, popped>>

Unlock(p) ==
  /\ mutex = p /\ nals[p] = <<>> /\ woken = readers
  /\ mutex' = NoThread
  /\ woken' = {}
  /\ UNCHANGED <<nals, queue, readers, sps, pps, pending, pushed, popped>>

--------------------------------------------------------------------------------
(* The methods the event loop thread calls *)

PopNalu ==
  /\ mutex = NoThread /\ queue # <<>>
  /\ queue' = Tail(queue)
  /\ popped' = Head(queue).seq
  /\ UNCHANGED <<mutex, nals, readers, woken, sps, pps, pending, pushed>>

\* popNalu returns false and changes nothing.
PopFails == mutex = NoThread /\ queue = <<>> /\ UNCHANGED vars

\* A slip: the parameter sets are forgotten with the NALUs.
ClearAll ==
  /\ mutex = NoThread
  /\ queue' = <<>>
  /\ sps' = NotCached /\ pps' = NotCached
  /\ UNCHANGED <<mutex, nals, readers, woken, pending, pushed, popped>>

\* sps_ and pps_ stay.
Clear ==
  /\ mutex = NoThread
  /\ queue' = <<>>
  /\ UNCHANGED <<mutex, nals, readers, woken, sps, pps, pending, pushed, popped>>

\* A slip: a reader without a trigger is not turned away.
RegisterAnyReader(id, clientData) ==
  /\ mutex = NoThread
  /\ readers' = readers \cup {Reader(id, clientData)}
  /\ UNCHANGED <<mutex, nals, queue, woken, sps, pps, pending, pushed, popped>>

\* A slip: a reader registers without the lock.
RegisterUnlocked(id, clientData) ==
  /\ readers' = IF id = NoTrigger THEN readers ELSE readers \cup {Reader(id, clientData)}
  /\ UNCHANGED <<mutex, nals, queue, woken, sps, pps, pending, pushed, popped>>

\* A reader the scheduler had no trigger for is ignored.
RegisterReader(id, clientData) ==
  /\ mutex = NoThread \/ id = NoTrigger
  /\ readers' = IF id = NoTrigger THEN readers ELSE readers \cup {Reader(id, clientData)}
  /\ UNCHANGED <<mutex, nals, queue, woken, sps, pps, pending, pushed, popped>>

UnregisterReader(id) ==
  /\ mutex = NoThread
  /\ readers' = {reader \in readers : reader.triggerId # id}
  /\ UNCHANGED <<mutex, nals, queue, woken, sps, pps, pending, pushed, popped>>

\* External: the event loop takes an event, or drops it with its trigger.
HandleEvent(id) ==
  /\ pending[id] # NoData
  /\ pending' = ClearEvent(pending, id)
  /\ UNCHANGED <<mutex, nals, queue, readers, woken, sps, pps, pushed, popped>>

--------------------------------------------------------------------------------
\* A source registers once, with a trigger it has just been given: one that no
\* reader has (the destructor of a source unregisters before it deletes).
Registered == {reader.triggerId : reader \in readers}

\* What a producer does on its own once it has a frame.
FinishPush(p) == \/ Lock(p)
                 \/ PushPureNaluLocked(p)
                 \/ WakeReaderLocked(p)
                 \/ Unlock(p)

Push(p) == FinishPush(p) \/ \E frame \in Frames : PushAnnexBFrame(p, frame)

Next == \/ \E p \in Producers : Push(p)
        \/ PopNalu
        \/ Clear
        \/ \E id \in (TriggerIds \ Registered) \cup {NoTrigger}, s \in Sources :
             RegisterReader(id, s)
        \/ \E id \in TriggerIds : UnregisterReader(id)
        \/ \E id \in TriggerIds : HandleEvent(id)

Spec == Init /\ [][Next]_vars

--------------------------------------------------------------------------------
TypeOK == /\ mutex \in Producers \cup {NoThread}
          /\ nals \in [Producers -> Seq(Nals)]
          /\ queue \in Seq(Nalus)
          /\ readers \subseteq Readers
          /\ woken \subseteq readers /\ (mutex = NoThread => woken = {})
          /\ sps \in Nat /\ pps \in Nat
          /\ pending \in [TriggerIds -> Sources \cup {NoData}]
          /\ pushed \in Nat /\ popped \in Nat

\* The queue never exceeds maxQueuedNalus_ and holds exactly the newest NALUs
\* that were pushed, in order and without a gap: what is dropped under pressure
\* is the oldest, and nothing that was popped is still there.
HoldsNewest ==
  /\ Len(queue) <= MaxQueuedNalus
  /\ \A i \in 1..Len(queue) : queue[i].seq = pushed - Len(queue) + i
  /\ popped + Len(queue) <= pushed

\* The NALs of a frame stay together whatever other thread pushes at the same
\* time, the event loop never sees a frame of which only a part is in, and where
\* the head of a frame was dropped, or popped, its rest is at the head of the
\* queue: dropping NALUs one by one cuts no other frame.
FramesStayWhole ==
  /\ \A i \in 1..Len(queue) - 1 : /\ queue[i + 1].first <=> queue[i].last
                                  /\ ~queue[i].last => queue[i + 1].by = queue[i].by
  /\ mutex = NoThread /\ queue # <<>> => queue[Len(queue)].last

\* Whoever holds mutex_ gives it back: what its push has still to do gets less with
\* every step and nobody adds to it, neither NALs nor readers, so the loops over both
\* end and see what they began with.  The event loop waits for no more than that.
CriticalSectionEnds ==
  [][\A p \in Producers : mutex = p =>
       \/ mutex' = NoThread
       \/ /\ mutex' = p /\ readers' = readers
          /\ \/ UNCHANGED <<nals[p], woken>>
             \/ Len(nals'[p]) < Len(nals[p]) /\ UNCHANGED woken
             \/ UNCHANGED nals[p] /\ woken \subseteq woken' /\ woken' \subseteq readers]_vars

HasSps == sps # NotCached
HasPps == pps # NotCached

\* As long as an SPS is queued one is cached, and it is not a later one; the same of a PPS.
ParameterSetsCached ==
  /\ \A i \in 1..Len(queue) : queue[i].type = "SPS" => HasSps /\ sps <= queue[i].seq
  /\ \A i \in 1..Len(queue) : queue[i].type = "PPS" => HasPps /\ pps <= queue[i].seq
  /\ \A i \in 1..Len(queue) : /\ queue[i].seq = sps => queue[i].type = "SPS"
                              /\ queue[i].seq = pps => queue[i].type = "PPS"
  /\ sps <= pushed /\ pps <= pushed

\* docs/DATA_FLOW.md: the first SPS and the first PPS are cached.  An SPS is cached
\* when it is enqueued, and the one that is cached stays for ever: no later one takes its
\* place, and it outlasts the NALU in the queue, every clear and so every restart.
FirstParameterSets ==
  /\ []ParameterSetsCached
  /\ [][(HasSps => UNCHANGED sps) /\ (HasPps => UNCHANGED pps)]_vars

\* The channel the queue is for its users.
Fifo == INSTANCE LossyFifo WITH Capacity <- MaxQueuedNalus,
                                put <- pushed,
                                low <- pushed - Len(queue),
                                taken <- popped

\* Pushing, popping and clearing are steps of a lossy first-in first-out
\* channel: only the oldest NALU is ever lost, only when the queue is full, and
\* no NALU reaches live555 twice or after a later one.
ImplementsLossyFifo == Fifo!Spec

===============================================================================
