--------------------------- MODULE LiveStreamProofs ---------------------------
(***************************************************************************)
(* Proofs about the event loop thread and the sources it runs, for every   *)
(* number of clients, sources, encoder threads and triggers.               *)
(***************************************************************************)
EXTENDS LiveStream, WellFoundedInduction, TLAPS

\* A nonempty set of naturals has a least element.
LEMMA LeastNatural ==
  ASSUME NEW T \in SUBSET Nat, T # {}
  PROVE  \E m \in T : \A n \in T : m <= n
<1> DEFINE R == OpToRel(<, Nat)
<1>1. IsWellFoundedOn(R, Nat)
  BY NatLessThanWellFounded, Zenon
<1>2. \A x \in Nat, y \in Nat : x < y => <<x, y>> \in R
  BY Zenon DEF OpToRel
<1> HIDE DEF R
<1>3. PICK x \in T : \A y \in T : ~(<<y, x>> \in R)
  BY <1>1, WFMin, Zenon
<1>4. \A y \in T : ~(y < x)
  BY <1>2, <1>3, Zenon
<1> QED
  BY <1>4

\* The scheduler takes one of the triggers it chooses from.
LEMMA FirstAfterIsOne ==
  ASSUME NEW last \in TriggerIds, NEW ids \in SUBSET TriggerIds, ids # {}
  PROVE  FirstAfter(last, ids) \in ids
<1>1. \A id \in ids : Distance(last, id) \in Nat
  BY NumTriggersAssumption DEF Distance, TriggerIds
<1> DEFINE distances == {Distance(last, id) : id \in ids}
<1>2. PICK m \in distances : \A n \in distances : m <= n
  <2>1. distances \in SUBSET Nat /\ distances # {}
    BY <1>1
  <2> QED
    BY <2>1, LeastNatural
<1>3. \E id \in ids : \A other \in ids : Distance(last, id) <= Distance(last, other)
  BY <1>2
<1> QED
  BY <1>3, Zenon DEF FirstAfter

\* A trigger the scheduler makes is a fresh one, as long as one is free.
LEMMA NewTriggerIsFree ==
  ASSUME NEW last \in TriggerIds, NEW used \in SUBSET TriggerIds, ~(TriggerIds \subseteq used)
  PROVE  CreateEventTrigger(used, last) \in TriggerIds \ used
<1>1. TriggerIds \ used # {}
  OBVIOUS
<1> QED
  BY <1>1, FirstAfterIsOne DEF CreateEventTrigger

LEMMA StopTriggerIsOne == StopTrigger \in TriggerIds
<1>1. NumTriggers \in TriggerIds /\ ~(TriggerIds \subseteq {})
  BY NumTriggersAssumption DEF TriggerIds
<1> QED
  BY <1>1, NewTriggerIsFree DEF StopTrigger

--------------------------------------------------------------------------------
(* The invariant of the loop thread *)

\* The types of what only the loop thread writes.
LoopTypes == /\ alive \subseteq Sources
             /\ trigger \in [Sources -> TriggerIds \cup {NoTrigger}]
             /\ awaiting \subseteq alive /\ playing \subseteq alive /\ sendTask \subseteq alive
             /\ handlers \subseteq TriggerIds /\ lastTrigger \in TriggerIds
             /\ sdp \in BOOLEAN
             /\ lastStream \in Sources \cup {NoSource}
             /\ streamOf \in [Clients -> Sources \cup {NoSource}]
             /\ dests \subseteq Clients
             /\ phase \in DOMAIN Following
             /\ call \in {"none", "register", "deliver", "unregister", "delete"}
             /\ src \in Sources \cup {NoSource} /\ (call = "none" <=> src = NoSource)

\* A source that is made or destroyed does not play, and one that is destroyed is
\* no longer the stream's.  No other source exists but the live one, so three
\* triggers are enough.
HandlerRuns == /\ call # "none" => src \in alive
               /\ call \in {"register", "unregister", "delete"} => src \notin playing
               /\ call \in {"unregister", "delete"} => src # lastStream
               /\ alive \subseteq {lastStream, src}
               /\ \A s \in alive : trigger[s] # StopTrigger

\* Whether the queue has the reader of a source, not yet or no longer while its
\* constructor or destructor runs.
IsReader(s) == s \in alive /\ ~(s = src /\ call \in {"register", "delete"})

\* ReadersAreSources, reader by reader.
ReadersMatch ==
  /\ \A s \in alive : IsReader(s) => Queue!Reader(trigger[s], s) \in readers
  /\ \A r \in readers : \E s \in alive : IsReader(s) /\ r = Queue!Reader(trigger[s], s)

StreamInv == /\ LoopTypes
             /\ TriggersSuffice
             /\ ReadersMatch
             /\ OneReadAtATime
             /\ OneLiveStream
             /\ HandlerRuns

LEMMA InitStream == Init => StreamInv
<1> SUFFICES ASSUME Init PROVE StreamInv
  OBVIOUS
<1>1. LoopTypes
  BY StreamAssumption, StopTriggerIsOne DEF Init, LoopTypes, Following
<1>2. ReadersMatch /\ OneReadAtATime /\ OneLiveStream /\ TriggersSuffice /\ HandlerRuns
  BY DEF Init, Queue!Init, ReadersMatch, OneReadAtATime, OneLiveStream, TriggersSuffice,
     HandlerRuns
<1> QED
  BY <1>1, <1>2 DEF StreamInv

\* What the constructor does with the table of triggers: there is a free one.
LEMMA NewSourceIsFresh ==
  ASSUME StreamInv, call = "none", NEW s \in Sources, NewSource(s)
  PROVE  \E id \in TriggerIds \ handlers :
           /\ id # NoTrigger /\ s \notin alive /\ alive' = alive \cup {s}
           /\ trigger' = [trigger EXCEPT ![s] = id]
           /\ handlers' = handlers \cup {id} /\ lastTrigger' = id
           /\ call' = "register" /\ src' = s /\ phase' = phase
<1>1. LoopTypes /\ TriggersSuffice /\ HandlerRuns
  BY DEF StreamInv
<1>2. \E t \in TriggerIds : handlers \subseteq {StopTrigger, t}
  BY <1>1, StopTriggerIsOne, StreamAssumption DEF LoopTypes, TriggersSuffice, HandlerRuns
<1>3. 1 \in TriggerIds /\ 2 \in TriggerIds /\ 3 \in TriggerIds
  BY StreamAssumption, NumTriggersAssumption DEF TriggerIds
<1>4. ~(TriggerIds \subseteq handlers)
  BY <1>2, <1>3
<1>5. CreateEventTrigger(handlers, lastTrigger) \in TriggerIds \ handlers
  BY <1>1, <1>4, NewTriggerIsFree DEF LoopTypes
<1>6. \A id \in TriggerIds : id # NoTrigger
  BY NumTriggersAssumption DEF TriggerIds, NoTrigger
<1> QED
  BY <1>5, <1>6 DEF NewSource, Continue

LEMMA RegisterSourceKeepsStream ==
  ASSUME StreamInv, RegisterSource
  PROVE  StreamInv'
<1>1. LoopTypes /\ TriggersSuffice /\ ReadersMatch /\ OneReadAtATime /\ OneLiveStream /\ HandlerRuns
  BY DEF StreamInv
<1>2. LoopTypes'
  BY <1>1 DEF RegisterSource, Return, Continue, sourceVars, readVars, tableVars, clientVars,
     LoopTypes, Following
<1>3. TriggersSuffice'
  BY <1>1 DEF RegisterSource, sourceVars, tableVars, TriggersSuffice
<1>4. ReadersMatch'
  <2>1. /\ alive' = alive /\ trigger' = trigger /\ src \in alive
        /\ readers' = readers \cup {Queue!Reader(trigger[src], src)}
    BY <1>1 DEF RegisterSource, Register, Queue!RegisterReader, sourceVars, TriggersSuffice,
       HandlerRuns, NoTrigger, Queue!NoTrigger
  <2>2. \A s : (s # src => (IsReader(s) <=> s \in alive)) /\ (IsReader(s)' <=> s \in alive)
    BY <2>1 DEF RegisterSource, Return, Continue, IsReader
  <2> QED
    BY <1>1, <2>1, <2>2 DEF ReadersMatch, Queue!Reader
<1>5. OneReadAtATime'
  BY <1>1 DEF RegisterSource, Return, Continue, readVars, OneReadAtATime
<1>6. OneLiveStream'
  BY <1>1 DEF RegisterSource, sourceVars, readVars, clientVars, OneLiveStream
<1>7. HandlerRuns'
  BY <1>1 DEF RegisterSource, Return, Continue, sourceVars, readVars, clientVars, LoopTypes,
     OneLiveStream, HandlerRuns
<1> QED
  BY <1>2, <1>3, <1>4, <1>5, <1>6, <1>7 DEF StreamInv

LEMMA UnregisterSourceKeepsStream ==
  ASSUME StreamInv, UnregisterSource
  PROVE  StreamInv'
<1>1. LoopTypes /\ TriggersSuffice /\ ReadersMatch /\ OneReadAtATime /\ OneLiveStream /\ HandlerRuns
  BY DEF StreamInv
<1>2. LoopTypes'
  BY <1>1 DEF UnregisterSource, Continue, sourceVars, readVars, tableVars, clientVars,
     LoopTypes
<1>3. TriggersSuffice'
  BY <1>1 DEF UnregisterSource, sourceVars, tableVars, TriggersSuffice
<1>4. ReadersMatch'
  BY <1>1 DEF UnregisterSource, Unregister, Queue!UnregisterReader, Continue, sourceVars,
     TriggersSuffice, HandlerRuns, ReadersMatch, IsReader, Queue!Reader
<1>5. OneReadAtATime'
  BY <1>1 DEF UnregisterSource, Continue, readVars, OneReadAtATime
<1>6. OneLiveStream'
  BY <1>1 DEF UnregisterSource, sourceVars, readVars, clientVars, OneLiveStream
<1>7. HandlerRuns'
  BY <1>1 DEF UnregisterSource, Continue, sourceVars, readVars, clientVars, HandlerRuns
<1> QED
  BY <1>2, <1>3, <1>4, <1>5, <1>6, <1>7 DEF StreamInv

LEMMA DeleteTriggerKeepsStream ==
  ASSUME StreamInv, DeleteTrigger
  PROVE  StreamInv'
<1>1. LoopTypes /\ TriggersSuffice /\ ReadersMatch /\ OneReadAtATime /\ OneLiveStream /\ HandlerRuns
  BY DEF StreamInv
<1>2. LoopTypes'
  BY <1>1 DEF DeleteTrigger, TriggerGivenBack, Return, readVars, clientVars, LoopTypes,
     OneReadAtATime, HandlerRuns, Following
<1>3. TriggersSuffice'
  BY <1>1 DEF DeleteTrigger, TriggerGivenBack, TriggersSuffice, HandlerRuns
<1>4. ReadersMatch'
  BY <1>1 DEF DeleteTrigger, EventDropped, Queue!HandleEvent, Return, queueVars,
     ReadersMatch, IsReader
<1>5. OneReadAtATime'
  BY <1>1 DEF DeleteTrigger, Return, readVars, OneReadAtATime
<1>6. OneLiveStream'
  BY <1>1 DEF DeleteTrigger, readVars, clientVars, OneLiveStream, HandlerRuns
<1>7. HandlerRuns'
  BY <1>1 DEF DeleteTrigger, Return, clientVars, HandlerRuns
<1> QED
  BY <1>2, <1>3, <1>4, <1>5, <1>6, <1>7 DEF StreamInv

LEMMA DeliverFrameKeepsStream ==
  ASSUME StreamInv, DeliverFrame
  PROVE  StreamInv'
<1>1. LoopTypes /\ TriggersSuffice /\ ReadersMatch /\ OneReadAtATime /\ OneLiveStream /\ HandlerRuns
  BY DEF StreamInv
<1>2. LoopTypes'
  BY <1>1 DEF DeliverFrame, AfterGetting, Return, sourceVars, tableVars, LoopTypes,
     OneReadAtATime, Following
<1>3. TriggersSuffice'
  BY <1>1 DEF DeliverFrame, sourceVars, tableVars, TriggersSuffice
<1>4. ReadersMatch'
  BY <1>1 DEF DeliverFrame, Queue!PopNalu, Return, sourceVars, ReadersMatch, IsReader
<1>5. OneReadAtATime'
  BY <1>1 DEF DeliverFrame, AfterGetting, Return, OneReadAtATime
<1>6. OneLiveStream'
  BY <1>1 DEF DeliverFrame, sourceVars, OneLiveStream
<1>7. HandlerRuns'
  BY <1>1 DEF DeliverFrame, Return, sourceVars, OneReadAtATime, OneLiveStream, HandlerRuns
<1> QED
  BY <1>2, <1>3, <1>4, <1>5, <1>6, <1>7 DEF StreamInv

LEMMA DescribeKeepsStream ==
  ASSUME StreamInv, NEW s \in Sources, Describe(s)
  PROVE  StreamInv'
<1> USE StreamAssumption
<1>1. LoopTypes /\ TriggersSuffice /\ ReadersMatch /\ OneReadAtATime /\ OneLiveStream /\ HandlerRuns
  BY DEF StreamInv
<1>0. PICK id \in TriggerIds \ handlers :
         /\ id # NoTrigger /\ s \notin alive /\ alive' = alive \cup {s}
         /\ trigger' = [trigger EXCEPT ![s] = id]
         /\ handlers' = handlers \cup {id} /\ lastTrigger' = id
         /\ call' = "register" /\ src' = s /\ phase' = phase
  BY <1>1, NewSourceIsFresh DEF Describe, InPhase
<1>2. LoopTypes'
  BY <1>1, <1>0 DEF Describe, readVars, clientVars, LoopTypes
<1>3. TriggersSuffice'
  BY <1>1, <1>0 DEF LoopTypes, TriggersSuffice
<1>4. ReadersMatch'
  BY <1>1, <1>0 DEF Describe, InPhase, queueVars, ReadersMatch, IsReader
<1>5. OneReadAtATime'
  BY <1>1, <1>0 DEF Describe, readVars, OneReadAtATime
<1>6. OneLiveStream'
  BY <1>1, <1>0 DEF Describe, readVars, clientVars, OneLiveStream
<1>7. HandlerRuns'
  BY <1>1, <1>0 DEF Describe, InPhase, readVars, clientVars, LoopTypes, TriggersSuffice,
     HandlerRuns
<1> QED
  BY <1>2, <1>3, <1>4, <1>5, <1>6, <1>7 DEF StreamInv

LEMMA SetupSharedKeepsStream ==
  ASSUME StreamInv, NEW c \in Clients, SetupShared(c)
  PROVE  StreamInv'
<1>1. LoopTypes /\ TriggersSuffice /\ ReadersMatch /\ OneReadAtATime /\ OneLiveStream /\ HandlerRuns
  BY DEF StreamInv
<1>2. LoopTypes'
  BY <1>1 DEF SetupShared, Return, sourceVars, readVars, tableVars, LoopTypes, Following
<1>3. TriggersSuffice'
  BY <1>1 DEF SetupShared, sourceVars, tableVars, TriggersSuffice
<1>4. ReadersMatch'
  BY <1>1 DEF SetupShared, InPhase, Return, queueVars, sourceVars, ReadersMatch, IsReader
<1>5. OneReadAtATime'
  BY <1>1 DEF SetupShared, Return, readVars, OneReadAtATime
<1>6. OneLiveStream'
  BY <1>1 DEF SetupShared, sourceVars, readVars, OneLiveStream
<1>7. HandlerRuns'
  BY <1>1 DEF SetupShared, InPhase, Return, sourceVars, LoopTypes, HandlerRuns
<1> QED
  BY <1>2, <1>3, <1>4, <1>5, <1>6, <1>7 DEF StreamInv

LEMMA SetupNewKeepsStream ==
  ASSUME StreamInv, NEW c \in Clients, NEW s \in Sources, SetupNew(c, s)
  PROVE  StreamInv'
<1> USE StreamAssumption
<1>1. LoopTypes /\ TriggersSuffice /\ ReadersMatch /\ OneReadAtATime /\ OneLiveStream /\ HandlerRuns
  BY DEF StreamInv
<1>0. PICK id \in TriggerIds \ handlers :
         /\ id # NoTrigger /\ s \notin alive /\ alive' = alive \cup {s}
         /\ trigger' = [trigger EXCEPT ![s] = id]
         /\ handlers' = handlers \cup {id} /\ lastTrigger' = id
         /\ call' = "register" /\ src' = s /\ phase' = phase
  BY <1>1, NewSourceIsFresh DEF SetupNew, InPhase
<1>2. LoopTypes'
  BY <1>1, <1>0 DEF SetupNew, readVars, LoopTypes
<1>3. TriggersSuffice'
  BY <1>1, <1>0 DEF LoopTypes, TriggersSuffice
<1>4. ReadersMatch'
  BY <1>1, <1>0 DEF SetupNew, InPhase, queueVars, ReadersMatch, IsReader
<1>5. OneReadAtATime'
  BY <1>1, <1>0 DEF SetupNew, readVars, OneReadAtATime
<1>6. OneLiveStream'
  BY <1>1, <1>0 DEF SetupNew, ReuseFirstSource, readVars, LoopTypes, OneLiveStream
<1>7. HandlerRuns'
  BY <1>1, <1>0 DEF SetupNew, ReuseFirstSource, InPhase, readVars, LoopTypes,
     TriggersSuffice, HandlerRuns
<1> QED
  BY <1>2, <1>3, <1>4, <1>5, <1>6, <1>7 DEF StreamInv

LEMMA PlayKeepsStream ==
  ASSUME StreamInv, NEW c \in Clients, Play(c)
  PROVE  StreamInv'
<1> USE StreamAssumption
<1>1. LoopTypes /\ TriggersSuffice /\ ReadersMatch /\ OneReadAtATime /\ OneLiveStream /\ HandlerRuns
  BY DEF StreamInv
<1>2. LoopTypes'
  BY <1>1 DEF Play, GetNextFrame, Return, Continue, sourceVars, tableVars, LoopTypes,
     OneLiveStream, Following
<1>3. TriggersSuffice'
  BY <1>1 DEF Play, sourceVars, tableVars, TriggersSuffice
<1>4. ReadersMatch'
  BY <1>1 DEF Play, InPhase, GetNextFrame, Return, Continue, queueVars, sourceVars,
     ReadersMatch, IsReader
<1>5. OneReadAtATime'
  BY <1>1 DEF Play, GetNextFrame, Return, Continue, OneReadAtATime
<1>6. OneLiveStream'
  BY <1>1 DEF Play, sourceVars, OneLiveStream
<1>7. HandlerRuns'
  BY <1>1 DEF Play, InPhase, GetNextFrame, Return, Continue, sourceVars, LoopTypes,
     OneLiveStream, HandlerRuns
<1> QED
  BY <1>2, <1>3, <1>4, <1>5, <1>6, <1>7 DEF StreamInv

LEMMA TeardownKeepsStream ==
  ASSUME StreamInv, NEW c \in Clients, Teardown(c)
  PROVE  StreamInv'
<1>1. LoopTypes /\ TriggersSuffice /\ ReadersMatch /\ OneReadAtATime /\ OneLiveStream /\ HandlerRuns
  BY DEF StreamInv
<1>2. LoopTypes'
  BY <1>1 DEF Teardown, CloseSink, ForgetStream, Return, Continue, sourceVars, readVars,
     tableVars, LoopTypes, Following
<1>3. TriggersSuffice'
  BY <1>1 DEF Teardown, sourceVars, tableVars, TriggersSuffice
<1>4. ReadersMatch'
  BY <1>1 DEF Teardown, InPhase, Return, Continue, queueVars, sourceVars, ReadersMatch,
     IsReader
<1>5. OneReadAtATime'
  BY <1>1 DEF Teardown, CloseSink, Return, Continue, readVars, OneReadAtATime
<1>6. OneLiveStream'
  BY <1>1 DEF Teardown, CloseSink, ForgetStream, sourceVars, readVars, LoopTypes,
     OneLiveStream
<1>7. HandlerRuns'
  BY <1>1 DEF Teardown, CloseSink, ForgetStream, InPhase, Return, Continue, sourceVars,
     LoopTypes, OneLiveStream, HandlerRuns
<1> QED
  BY <1>2, <1>3, <1>4, <1>5, <1>6, <1>7 DEF StreamInv

LEMMA RunTriggerKeepsStream ==
  ASSUME StreamInv, RunTrigger
  PROVE  StreamInv'
<1> USE StreamAssumption
<1>1. LoopTypes /\ TriggersSuffice /\ ReadersMatch /\ OneReadAtATime /\ OneLiveStream /\ HandlerRuns
  BY DEF StreamInv
<1>0. FirstAfter(lastTrigger, Awaiting(pending)) \in TriggerIds
  <2>1. Awaiting(pending) \in SUBSET TriggerIds /\ Awaiting(pending) # {}
    BY DEF RunTrigger, Awaiting
  <2> QED
    BY <1>1, <2>1, FirstAfterIsOne DEF LoopTypes
<1>2. LoopTypes'
  BY <1>1, <1>0 DEF RunTrigger, Return, Continue, sourceVars, readVars, clientVars,
     LoopTypes, Following
<1>3. TriggersSuffice'
  BY <1>1, <1>0 DEF RunTrigger, sourceVars, TriggersSuffice
<1>4. ReadersMatch'
  BY <1>1, <1>0 DEF RunTrigger, InPhase, Queue!HandleEvent, Return, Continue, sourceVars,
     ReadersMatch, IsReader
<1>5. OneReadAtATime'
  BY <1>1, <1>0 DEF RunTrigger, Return, Continue, readVars, OneReadAtATime
<1>6. OneLiveStream'
  BY <1>1, <1>0 DEF RunTrigger, sourceVars, readVars, clientVars, OneLiveStream
<1>7. HandlerRuns'
  BY <1>1, <1>0 DEF RunTrigger, InPhase, Return, Continue, sourceVars, clientVars,
     LoopTypes, HandlerRuns
<1> QED
  BY <1>2, <1>3, <1>4, <1>5, <1>6, <1>7 DEF StreamInv

LEMMA SendNextKeepsStream ==
  ASSUME StreamInv, NEW s \in Sources, SendNext(s)
  PROVE  StreamInv'
<1> USE StreamAssumption
<1>1. LoopTypes /\ TriggersSuffice /\ ReadersMatch /\ OneReadAtATime /\ OneLiveStream /\ HandlerRuns
  BY DEF StreamInv
<1>2. LoopTypes'
  BY <1>1 DEF SendNext, GetNextFrame, Continue, sourceVars, tableVars, clientVars, LoopTypes
<1>3. TriggersSuffice'
  BY <1>1 DEF SendNext, sourceVars, tableVars, TriggersSuffice
<1>4. ReadersMatch'
  BY <1>1 DEF SendNext, InPhase, GetNextFrame, Continue, queueVars, sourceVars,
     ReadersMatch, IsReader
<1>5. OneReadAtATime'
  BY <1>1 DEF SendNext, GetNextFrame, Continue, OneReadAtATime
<1>6. OneLiveStream'
  BY <1>1 DEF SendNext, sourceVars, clientVars, OneLiveStream
<1>7. HandlerRuns'
  BY <1>1 DEF SendNext, InPhase, GetNextFrame, Continue, sourceVars, LoopTypes, HandlerRuns
<1> QED
  BY <1>2, <1>3, <1>4, <1>5, <1>6, <1>7 DEF StreamInv

\* A handler that ends, a phase in which nothing is to do, and the steps of other
\* threads.
LEMMA OtherStepsKeepStream ==
  ASSUME StreamInv,
         UNCHANGED <<readers, sourceVars, readVars, tableVars, sdp, lastStream, streamOf, dests>>,
         phase' \in DOMAIN Following,
         \/ UNCHANGED <<call, src>>
         \/ call \in {"none", "deliver"} /\ call' = "none" /\ src' = NoSource
  PROVE  StreamInv'
<1>1. LoopTypes /\ TriggersSuffice /\ ReadersMatch /\ OneReadAtATime /\ OneLiveStream /\ HandlerRuns
  BY DEF StreamInv
<1> USE DEF sourceVars, readVars, tableVars, LoopTypes
<1>2. LoopTypes'
  BY <1>1
<1>3. TriggersSuffice'
  BY <1>1 DEF TriggersSuffice
<1>4. ReadersMatch'
  BY <1>1 DEF ReadersMatch, IsReader, Queue!Reader
<1>5. OneReadAtATime'
  BY <1>1 DEF OneReadAtATime
<1>6. OneLiveStream'
  BY <1>1 DEF OneLiveStream
<1>7. HandlerRuns'
  BY <1>1, StreamAssumption DEF HandlerRuns, OneReadAtATime, OneLiveStream
<1> QED
  BY <1>2, <1>3, <1>4, <1>5, <1>6, <1>7 DEF StreamInv

\* A push changes nothing but the queue, and not its readers.
LEMMA PushKeepsReaders ==
  ASSUME NEW p \in Producers, Queue!Push(p)
  PROVE  UNCHANGED readers
  BY DEF Queue!Push, Queue!FinishPush, Queue!PushAnnexBFrame, Queue!Lock,
     Queue!PushPureNaluLocked, Queue!WakeReaderLocked, Queue!Unlock

LEMMA StepKeepsStream == StreamInv /\ [Next]_vars => StreamInv'
<1> SUFFICES ASSUME StreamInv, [Next]_vars PROVE StreamInv'
  OBVIOUS
<1>1. phase \in DOMAIN Following /\ Following[phase] \in DOMAIN Following
  BY DEF StreamInv, LoopTypes, Following
<1>2. CASE Loop
  <2>1. CASE RegisterSource
    BY <2>1, RegisterSourceKeepsStream
  <2>2. CASE UnregisterSource
    BY <2>2, UnregisterSourceKeepsStream
  <2>3. CASE DeleteTrigger
    BY <2>3, DeleteTriggerKeepsStream
  <2>4. CASE DeliverFrame
    BY <2>4, DeliverFrameKeepsStream
  <2>5. CASE DeliverNothing
    BY <1>1, <2>5, OtherStepsKeepStream DEF DeliverNothing, Queue!PopFails, Queue!vars,
       Return, clientVars
  <2>6. CASE NoRequest \/ NoEvent \/ NoAlarm
    BY <1>1, <2>6, OtherStepsKeepStream DEF NoRequest, NoEvent, NoAlarm, InPhase, Return,
       queueVars, clientVars
  <2>7. CASE RunTrigger
    BY <2>7, RunTriggerKeepsStream
  <2>8. ASSUME NEW s \in Sources, SendNext(s) PROVE StreamInv'
    BY <2>8, SendNextKeepsStream
  <2> QED
    BY <1>2, <2>1, <2>2, <2>3, <2>4, <2>5, <2>6, <2>7, <2>8 DEF Loop
<1>3. CASE Request
  BY <1>3, DescribeKeepsStream, SetupSharedKeepsStream, SetupNewKeepsStream,
     PlayKeepsStream, TeardownKeepsStream DEF Request
<1>4. CASE EndLoop
  BY <1>4, OtherStepsKeepStream DEF EndLoop, queueVars, clientVars, Following
<1>5. ASSUME NEW p \in Producers, Queue!Push(p), UNCHANGED otherVars PROVE StreamInv'
  BY <1>1, <1>5, PushKeepsReaders, OtherStepsKeepStream DEF otherVars, clientVars, loopVars
<1>6. CASE UNCHANGED vars
  BY <1>1, <1>6, OtherStepsKeepStream DEF vars, queueVars, clientVars, loopVars
<1> QED
  BY <1>2, <1>3, <1>4, <1>5, <1>6 DEF Next

LEMMA StreamInductive == Spec => []StreamInv
  BY InitStream, StepKeepsStream, PTL DEF Spec

--------------------------------------------------------------------------------
(* The queue under the loop *)

LEMMA StepUsesTheQueue == StreamInv /\ [Next]_vars => [Queue!Next]_Queue!vars
<1> SUFFICES ASSUME StreamInv, Next PROVE Queue!Next \/ UNCHANGED queueVars
  BY DEF vars, queueVars, Queue!vars
<1>1. LoopTypes /\ TriggersSuffice /\ ReadersMatch
  BY DEF StreamInv
<1>2. CASE RegisterSource
  <2>1. src \in alive /\ src \in Sources /\ trigger[src] \in TriggerIds
    BY <1>1, <1>2 DEF StreamInv, HandlerRuns, LoopTypes, TriggersSuffice, RegisterSource
  <2>2. \A r \in readers : r.triggerId # trigger[src]
    BY <1>1, <1>2, <2>1 DEF ReadersMatch, IsReader, TriggersSuffice, RegisterSource,
       Queue!Reader
  <2>3. Queue!RegisterReader(trigger[src], src)
    BY <1>2 DEF RegisterSource, Register
  <2> QED
    BY <2>1, <2>2, <2>3 DEF Queue!Next, Queue!Registered, TriggerIds, Queue!TriggerIds
<1>3. CASE UnregisterSource
  BY <1>1, <1>3 DEF UnregisterSource, Unregister, Queue!Next, StreamInv, HandlerRuns,
     LoopTypes, TriggersSuffice, TriggerIds, Queue!TriggerIds
<1>4. CASE DeleteTrigger
  BY <1>1, <1>4 DEF DeleteTrigger, EventDropped, Queue!Next, StreamInv, HandlerRuns,
     LoopTypes, TriggersSuffice, TriggerIds, Queue!TriggerIds
<1>5. CASE DeliverFrame \/ DeliverNothing
  BY <1>5 DEF DeliverFrame, DeliverNothing, Queue!PopFails, Queue!vars, queueVars,
     Queue!Next
<1>6. CASE RunTrigger
  <2>1. lastTrigger \in TriggerIds
    BY <1>1 DEF LoopTypes
  <2>2. Awaiting(pending) \in SUBSET TriggerIds /\ Awaiting(pending) # {}
    BY <1>6 DEF RunTrigger, Awaiting
  <2>3. FirstAfter(lastTrigger, Awaiting(pending)) \in TriggerIds
    BY <2>1, <2>2, FirstAfterIsOne
  <2> QED
    BY <1>6, <2>3 DEF RunTrigger, Queue!Next, TriggerIds, Queue!TriggerIds
<1>7. CASE NoRequest \/ NoEvent \/ NoAlarm \/ \E s \in Sources : SendNext(s)
  BY <1>7 DEF NoRequest, NoEvent, NoAlarm, SendNext
<1>8. CASE Request \/ EndLoop
  BY <1>8 DEF Request, EndLoop, Describe, SetupShared, SetupNew, Play, Teardown
<1>9. CASE \E p \in Producers : Queue!Push(p)
  BY <1>9 DEF Queue!Next
<1> QED
  BY <1>2, <1>3, <1>4, <1>5, <1>6, <1>7, <1>8, <1>9 DEF Next, Loop

\* Whatever clients ask for and whenever the encoder pushes, the loop thread uses
\* the queue only as its methods allow: it registers fresh triggers and takes
\* events that were raised.
THEOREM StreamUsesTheQueue == Spec => UsesTheQueue
<1>1. Init => Queue!Init
  BY DEF Init
<1> QED
  BY <1>1, StepUsesTheQueue, StreamInductive, PTL DEF Spec, UsesTheQueue, Queue!Spec

\* What is proved of the queue on its own holds of it here: the two instances of
\* H264FrameQueue are the same.
QueueProofs == INSTANCE H264FrameQueueProofs

LEMMA QueuesAgree ==
  /\ Queue!Init <=> QueueProofs!Init
  /\ Queue!Next <=> QueueProofs!Next
  /\ Queue!vars = QueueProofs!vars
  /\ Queue!TypeOK <=> QueueProofs!TypeOK
  /\ Queue!HoldsNewest <=> QueueProofs!HoldsNewest
  /\ Queue!FramesStayWhole <=> QueueProofs!FramesStayWhole
<1>1. Queue!Init <=> QueueProofs!Init
  BY DEF Queue!Init, QueueProofs!Init, Queue!TriggerIds, QueueProofs!TriggerIds,
         Queue!NotCached, QueueProofs!NotCached
<1>2. Queue!Next <=> QueueProofs!Next
  BY Zenon DEF Queue!Next, QueueProofs!Next, Queue!TriggerIds, QueueProofs!TriggerIds,
     Queue!NoTrigger, QueueProofs!NoTrigger, Queue!Push, QueueProofs!Push, Queue!FinishPush,
     QueueProofs!FinishPush, Queue!PushAnnexBFrame, QueueProofs!PushAnnexBFrame,
     Queue!SplitAnnexB, QueueProofs!SplitAnnexB, Queue!Lock, QueueProofs!Lock,
     Queue!MadeRoom, QueueProofs!MadeRoom, Queue!Cached, QueueProofs!Cached,
     Queue!NotCached, QueueProofs!NotCached, Queue!PushPureNaluLocked,
     QueueProofs!PushPureNaluLocked, Queue!WakeReaderLocked, QueueProofs!WakeReaderLocked,
     Queue!TriggerEvent, QueueProofs!TriggerEvent, Queue!Unlock, QueueProofs!Unlock,
     Queue!PopNalu, QueueProofs!PopNalu, Queue!Clear, QueueProofs!Clear,
     Queue!RegisterReader, QueueProofs!RegisterReader, Queue!UnregisterReader,
     QueueProofs!UnregisterReader, Queue!HandleEvent, QueueProofs!HandleEvent,
     Queue!ClearEvent, QueueProofs!ClearEvent, Queue!Registered, QueueProofs!Registered,
     Queue!Reader, QueueProofs!Reader
<1>3. Queue!vars = QueueProofs!vars
  BY DEF Queue!vars, QueueProofs!vars
<1>4. Queue!TypeOK <=> QueueProofs!TypeOK
  BY DEF Queue!TypeOK, QueueProofs!TypeOK, Queue!TriggerIds, QueueProofs!TriggerIds,
     Queue!Nals, QueueProofs!Nals, Queue!Nalus, QueueProofs!Nalus, Queue!Readers,
     QueueProofs!Readers, Queue!NalTypes, QueueProofs!NalTypes
<1>5. Queue!HoldsNewest <=> QueueProofs!HoldsNewest
  BY DEF Queue!HoldsNewest, QueueProofs!HoldsNewest
<1>6. Queue!FramesStayWhole <=> QueueProofs!FramesStayWhole
  BY Zenon DEF Queue!FramesStayWhole, QueueProofs!FramesStayWhole
<1> QED
  BY <1>1, <1>2, <1>3, <1>4, <1>5, <1>6

\* What H264FrameQueue assumes of its constants.
LEMMA QueueParameters ==
  /\ MaxQueuedNalus \in Nat \ {0}
  /\ MaxPushed \in Nat
  /\ Frames \subseteq Seq(QueueProofs!NalTypes) \ {<<>>}
  /\ NoThread \notin Producers /\ NoData \notin Sources
  /\ NumTriggers \in Nat \ {0}
  BY StreamAssumption, NumTriggersAssumption DEF Queue!NalTypes, QueueProofs!NalTypes,
     NoSource

LEMMA StreamImpliesQueue == Spec => QueueProofs!Spec
<1>1. Queue!Init <=> QueueProofs!Init
  BY QueuesAgree
<1>2. [Queue!Next]_Queue!vars <=> [QueueProofs!Next]_QueueProofs!vars
  BY QueuesAgree DEF Queue!vars, QueueProofs!vars
<1> QED
  BY <1>1, <1>2, StreamUsesTheQueue, PTL DEF UsesTheQueue, Queue!Spec, QueueProofs!Spec

LEMMA QueueTyped == Spec => []Queue!TypeOK
<1>1. QueueProofs!TypeOK <=> Queue!TypeOK
  BY QueuesAgree
<1> QED
  BY <1>1, StreamImpliesQueue, QueueParameters, QueueProofs!QueueTypeCorrect, PTL

\* The guarantees of the queue hold with the sources plugged in: the event loop
\* reads the newest NALUs, in order, and only whole frames.
THEOREM StreamKeepsQueueGuarantees == Spec => [](Queue!HoldsNewest /\ Queue!FramesStayWhole)
<1>1. /\ QueueProofs!HoldsNewest <=> Queue!HoldsNewest
      /\ QueueProofs!FramesStayWhole <=> Queue!FramesStayWhole
  BY QueuesAgree
<1> QED
  BY <1>1, StreamImpliesQueue, QueueParameters, QueueProofs!QueueHoldsNewest,
     QueueProofs!QueueKeepsFramesWhole, PTL

\* What the encoder threads push and the sources read is a lossy first-in
\* first-out channel.
THEOREM StreamReadsLossyFifo == Spec => QueueProofs!ImplementsLossyFifo
  BY StreamImpliesQueue, QueueParameters, QueueProofs!QueueImplementsLossyFifo, PTL

--------------------------------------------------------------------------------
(* Wakeups *)

\* A push wakes no one before it has enqueued its whole frame.
WakesLast == \A p \in Producers : mutex = p /\ nals[p] # <<>> => woken = {}

SeenTypes == seen \in [Clients -> SUBSET Queue!NalTypes]

WakeInv == EventsReachLiveSources /\ NoLostWakeup /\ WakesLast /\ SeenTypes

LEMMA InitWake == Init => WakeInv
  BY DEF Init, Queue!Init, Queue!TriggerIds, TriggerIds, WakeInv, EventsReachLiveSources,
         NoLostWakeup, WakesLast, SeenTypes

LEMMA RegisterSourceKeepsWake ==
  ASSUME StreamInv, StreamInv', Queue!TypeOK, WakeInv, RegisterSource
  PROVE  WakeInv'
<1>1. EventsReachLiveSources /\ NoLostWakeup /\ WakesLast /\ SeenTypes
  BY DEF WakeInv
<1>2. EventsReachLiveSources'
  BY <1>1 DEF RegisterSource, Register, Queue!RegisterReader, sourceVars, tableVars,
     EventsReachLiveSources
<1>3. NoLostWakeup'
  BY <1>1 DEF RegisterSource, Register, Queue!RegisterReader, sourceVars, readVars,
     NoLostWakeup
<1>4. WakesLast'
  BY <1>1 DEF RegisterSource, Register, Queue!RegisterReader, WakesLast
<1>5. SeenTypes'
  BY <1>1 DEF RegisterSource, clientVars, SeenTypes
<1> QED
  BY <1>2, <1>3, <1>4, <1>5 DEF WakeInv

LEMMA UnregisterSourceKeepsWake ==
  ASSUME StreamInv, StreamInv', Queue!TypeOK, WakeInv, UnregisterSource
  PROVE  WakeInv'
<1>1. EventsReachLiveSources /\ NoLostWakeup /\ WakesLast /\ SeenTypes
  BY DEF WakeInv
<1>2. EventsReachLiveSources'
  BY <1>1 DEF UnregisterSource, Unregister, Queue!UnregisterReader, sourceVars, tableVars,
     EventsReachLiveSources
<1>3. NoLostWakeup'
  BY <1>1 DEF UnregisterSource, Unregister, Queue!UnregisterReader, sourceVars, readVars,
     NoLostWakeup
<1>4. WakesLast'
  BY <1>1 DEF UnregisterSource, Unregister, Queue!UnregisterReader, WakesLast
<1>5. SeenTypes'
  BY <1>1 DEF UnregisterSource, clientVars, SeenTypes
<1> QED
  BY <1>2, <1>3, <1>4, <1>5 DEF WakeInv

LEMMA DeleteTriggerKeepsWake ==
  ASSUME StreamInv, StreamInv', Queue!TypeOK, WakeInv, DeleteTrigger
  PROVE  WakeInv'
<1>1. EventsReachLiveSources /\ NoLostWakeup /\ WakesLast /\ SeenTypes
  BY DEF WakeInv
<1>0. /\ src \in alive /\ trigger[src] \in TriggerIds /\ src \notin awaiting
      /\ alive' = alive \ {src} /\ handlers' = handlers \ {trigger[src]}
      /\ trigger' = [trigger EXCEPT ![src] = NoTrigger]
      /\ UNCHANGED <<awaiting, queue, readers, woken, mutex, nals, seen>>
      /\ call = "delete"
      /\ \A s \in alive \ {src} : trigger[s] # trigger[src]
  BY DEF StreamInv, LoopTypes, HandlerRuns, TriggersSuffice, OneReadAtATime, DeleteTrigger,
         EventDropped, Queue!HandleEvent, queueVars, clientVars, readVars, TriggerGivenBack
<1>6. \A id \in TriggerIds : pending'[id] = IF id = trigger[src] THEN NoData ELSE pending[id]
  <2>1. pending \in [TriggerIds -> Sources \cup {NoData}]
    BY DEF Queue!TypeOK, Queue!TriggerIds, TriggerIds
  <2>2. trigger[src] # NoTrigger
    BY <1>0 DEF StreamInv, TriggersSuffice
  <2> QED
    BY <1>0, <2>1, <2>2 DEF DeleteTrigger, EventDropped, Queue!HandleEvent,
       Queue!ClearEvent, queueVars
<1>2. EventsReachLiveSources'
  BY <1>0, <1>1, <1>6 DEF EventsReachLiveSources, 
         NoLostWakeup, WakesLast, Queue!Reader
<1>3. NoLostWakeup'
  BY <1>0, <1>1, <1>6 DEF StreamInv, LoopTypes, TriggersSuffice, 
         NoLostWakeup, WakesLast, Queue!Reader
<1>4. WakesLast'
  BY <1>0, <1>1, <1>6 DEF NoLostWakeup, WakesLast, Queue!Reader
<1>5. SeenTypes'
  BY <1>0, <1>1, <1>6 DEF NoLostWakeup, WakesLast, Queue!Reader, SeenTypes
<1> QED
  BY <1>2, <1>3, <1>4, <1>5 DEF WakeInv

LEMMA DeliverFrameKeepsWake ==
  ASSUME StreamInv, StreamInv', Queue!TypeOK, WakeInv, DeliverFrame
  PROVE  WakeInv'
<1>1. EventsReachLiveSources /\ NoLostWakeup /\ WakesLast /\ SeenTypes
  BY DEF WakeInv
<1>2. EventsReachLiveSources'
  BY <1>1 DEF DeliverFrame, Queue!PopNalu, sourceVars, tableVars, EventsReachLiveSources
<1>3. NoLostWakeup'
  BY <1>1 DEF DeliverFrame, Queue!PopNalu, sourceVars, NoLostWakeup
<1>4. WakesLast'
  BY <1>1 DEF DeliverFrame, Queue!PopNalu, WakesLast
<1>5. SeenTypes'
  <2>1. Head(queue) \in Queue!Nalus
    BY DEF DeliverFrame, Queue!PopNalu, Queue!TypeOK
  <2>2. Head(queue).type \in Queue!NalTypes
    BY <2>1 DEF Queue!Nalus
  <2> QED
    BY <1>1, <2>2 DEF DeliverFrame, SeenTypes
<1> QED
  BY <1>2, <1>3, <1>4, <1>5 DEF WakeInv

LEMMA RunTriggerKeepsWake ==
  ASSUME StreamInv, StreamInv', Queue!TypeOK, WakeInv, RunTrigger
  PROVE  WakeInv'
<1>1. EventsReachLiveSources /\ NoLostWakeup /\ WakesLast /\ SeenTypes
  BY DEF WakeInv
<1>0. PICK id \in TriggerIds :
         /\ pending[id] # NoData /\ pending' = [pending EXCEPT ![id] = NoData]
         /\ id \in handlers /\ pending[id] \in awaiting => call' = "deliver" /\ src' = pending[id]
         /\ call = "none"
         /\ UNCHANGED <<alive, trigger, handlers, awaiting, queue, readers, woken, mutex, nals, seen>>
  <2>1. lastTrigger \in TriggerIds
    BY DEF StreamInv, LoopTypes
  <2>2. Awaiting(pending) \in SUBSET TriggerIds /\ Awaiting(pending) # {}
    BY DEF RunTrigger, Awaiting
  <2>3. FirstAfter(lastTrigger, Awaiting(pending)) \in Awaiting(pending)
    BY <2>1, <2>2, FirstAfterIsOne
  <2> QED
    BY <2>2, <2>3 DEF RunTrigger, InPhase, Queue!HandleEvent, Queue!ClearEvent, Return,
       Continue, sourceVars, readVars, clientVars
<1>6. \A i \in TriggerIds : pending'[i] = IF i = id THEN NoData ELSE pending[i]
  BY <1>0 DEF Queue!TypeOK, Queue!TriggerIds, TriggerIds
<1>2. EventsReachLiveSources'
  BY <1>0, <1>1, <1>6 DEF EventsReachLiveSources, 
         NoLostWakeup, WakesLast, Queue!Reader
<1>3. NoLostWakeup'
  BY <1>0, <1>1, <1>6 DEF EventsReachLiveSources, 
         NoLostWakeup, WakesLast, Queue!Reader
<1>4. WakesLast'
  BY <1>0, <1>1, <1>6 DEF NoLostWakeup, WakesLast, Queue!Reader
<1>5. SeenTypes'
  BY <1>0, <1>1, <1>6 DEF NoLostWakeup, WakesLast, Queue!Reader, SeenTypes
<1> QED
  BY <1>2, <1>3, <1>4, <1>5 DEF WakeInv

LEMMA NewSourceKeepsWake ==
  ASSUME StreamInv, StreamInv', Queue!TypeOK, WakeInv, NEW s \in Sources, call = "none",
          UNCHANGED <<queueVars, awaiting, seen>>, NewSource(s)
  PROVE  WakeInv'
<1>1. EventsReachLiveSources /\ NoLostWakeup /\ WakesLast /\ SeenTypes
  BY DEF WakeInv
<1>0. PICK id \in TriggerIds \ handlers :
         /\ id # NoTrigger /\ s \notin alive /\ alive' = alive \cup {s}
         /\ trigger' = [trigger EXCEPT ![s] = id]
         /\ handlers' = handlers \cup {id} /\ lastTrigger' = id
         /\ call' = "register" /\ src' = s /\ phase' = phase
  BY NewSourceIsFresh
<1>6. UNCHANGED <<pending, mutex, nals, queue, readers, woken, awaiting, seen>>
  BY DEF queueVars
<1>2. EventsReachLiveSources'
  BY <1>0, <1>1, <1>6 DEF EventsReachLiveSources, 
         NoLostWakeup, WakesLast, Queue!Reader
<1>3. NoLostWakeup'
  BY <1>0, <1>1, <1>6 DEF StreamInv, LoopTypes, 
         NoLostWakeup, WakesLast, Queue!Reader
<1>4. WakesLast'
  BY <1>0, <1>1, <1>6 DEF NoLostWakeup, WakesLast, Queue!Reader
<1>5. SeenTypes'
  BY <1>0, <1>1, <1>6 DEF NoLostWakeup, WakesLast, Queue!Reader, SeenTypes
<1> QED
  BY <1>2, <1>3, <1>4, <1>5 DEF WakeInv

LEMMA PushKeepsWake ==
  ASSUME StreamInv, StreamInv', Queue!TypeOK, WakeInv,
         NEW p \in Producers, UNCHANGED otherVars, Queue!Push(p)
  PROVE  WakeInv'
<1>1. EventsReachLiveSources /\ NoLostWakeup /\ WakesLast /\ SeenTypes
  BY DEF WakeInv
<1>2. UNCHANGED <<alive, trigger, handlers, awaiting, call, src, seen>>
  BY DEF otherVars, sourceVars, readVars, tableVars, clientVars, loopVars
<1>3. SeenTypes'
  BY <1>1, <1>2 DEF SeenTypes
<1>4. \A s \in awaiting : IsReader(s)
  BY DEF StreamInv, LoopTypes, HandlerRuns, OneReadAtATime, IsReader
<1> USE StreamAssumption DEF WakeInv, EventsReachLiveSources, NoLostWakeup, WakesLast
<1>5. ASSUME NEW frame \in Frames, Queue!PushAnnexBFrame(p, frame) PROVE WakeInv'
  <2>1. /\ UNCHANGED <<mutex, queue, readers, woken, pending>> /\ mutex # p
        /\ \A q \in Producers \ {p} : nals'[q] = nals[q]
    BY <1>5 DEF Queue!PushAnnexBFrame, Queue!TypeOK
  <2> QED
    BY <1>1, <1>2, <1>3, <2>1
<1>6. CASE Queue!Lock(p)
  <2>1. /\ UNCHANGED <<nals, queue, readers, woken, pending>>
        /\ mutex = NoThread /\ woken = {} /\ mutex' = p
    BY <1>6 DEF Queue!Lock, Queue!TypeOK
  <2> QED
    BY <1>1, <1>2, <1>3, <2>1
<1>7. CASE Queue!PushPureNaluLocked(p)
  <2>1. UNCHANGED <<mutex, readers, woken, pending>> /\ mutex = p /\ woken = {}
    BY <1>1, <1>7 DEF Queue!PushPureNaluLocked
  <2> QED
    BY <1>1, <1>2, <1>3, <1>4, <2>1 DEF StreamInv, ReadersMatch, LoopTypes
<1>8. CASE Queue!WakeReaderLocked(p)
  <2>1. PICK reader \in readers \ woken :
          /\ pending' = [pending EXCEPT ![reader.triggerId] = reader.clientData]
          /\ woken' = woken \cup {reader}
          /\ mutex = p /\ nals[p] = <<>> /\ UNCHANGED <<mutex, nals, queue, readers>>
    BY <1>8 DEF Queue!WakeReaderLocked, Queue!TriggerEvent
  <2>2. PICK s0 \in alive : reader = Queue!Reader(trigger[s0], s0)
    BY <2>1 DEF StreamInv, ReadersMatch
  <2>3. /\ reader.triggerId = trigger[s0] /\ reader.clientData = s0
        /\ trigger[s0] \in handlers /\ trigger[s0] \in TriggerIds
    BY <2>2 DEF Queue!Reader, StreamInv, LoopTypes, TriggersSuffice
  <2>4. \A id \in TriggerIds : pending'[id] = IF id = trigger[s0] THEN s0 ELSE pending[id]
    BY <2>1, <2>3 DEF Queue!TypeOK, Queue!TriggerIds, TriggerIds
  <2>5. EventsReachLiveSources'
    BY <1>1, <1>2, <2>3, <2>4
  <2>6. NoLostWakeup'
    <3> SUFFICES ASSUME NEW s \in awaiting, queue # <<>>, s # s0
                 PROVE  \/ pending'[trigger[s]] = s
                        \/ call = "deliver" /\ src = s
                        \/ mutex # NoThread /\ Queue!Reader(trigger[s], s) \in readers \ woken'
      BY <1>2, <2>1, <2>3, <2>4
    <3>1. /\ trigger[s] # trigger[s0] /\ trigger[s] \in TriggerIds
          /\ Queue!Reader(trigger[s], s) # reader
      BY <2>2, <2>3 DEF StreamInv, LoopTypes, TriggersSuffice, Queue!Reader
    <3> QED
      BY <1>1, <2>1, <2>4, <3>1
  <2>7. WakesLast'
    BY <1>1, <2>1
  <2> QED
    BY <1>3, <2>5, <2>6, <2>7
<1>9. CASE Queue!Unlock(p)
  <2>1. /\ UNCHANGED <<nals, queue, readers, pending>>
        /\ woken = readers /\ mutex' = NoThread /\ woken' = {}
    BY <1>9 DEF Queue!Unlock
  <2> QED
    BY <1>1, <1>2, <1>3, <2>1
<1> QED
  BY <1>5, <1>6, <1>7, <1>8, <1>9 DEF Queue!Push, Queue!FinishPush

\* A step that leaves the queue and the triggers alone and begins a read only to go
\* on with deliverFrame, which it ends only when the queue is empty.
LEMMA OtherKeepsWake ==
  ASSUME WakeInv, UNCHANGED <<queueVars, sourceVars, handlers>>, SeenTypes',
         \A s \in awaiting' : \/ call' = "deliver" /\ src' = s
                              \/ s \in awaiting /\ (call = "deliver" /\ src = s => queue = <<>>)
  PROVE  WakeInv'
<1>1. EventsReachLiveSources /\ NoLostWakeup /\ WakesLast
  BY DEF WakeInv
<1> USE DEF queueVars, sourceVars
<1>2. EventsReachLiveSources'
  BY <1>1 DEF EventsReachLiveSources
<1>3. NoLostWakeup'
  BY <1>1 DEF NoLostWakeup, Queue!Reader
<1>4. WakesLast'
  BY <1>1 DEF WakesLast
<1> QED
  BY <1>2, <1>3, <1>4 DEF WakeInv

LEMMA StepKeepsWake ==
  StreamInv /\ StreamInv' /\ Queue!TypeOK /\ WakeInv /\ [Next]_vars => WakeInv'
<1> SUFFICES ASSUME StreamInv, StreamInv', Queue!TypeOK, WakeInv, [Next]_vars PROVE WakeInv'
  OBVIOUS
<1>1. SeenTypes
  BY DEF WakeInv
<1>2. CASE Loop
  <2>1. CASE RegisterSource
    BY <2>1, RegisterSourceKeepsWake
  <2>2. CASE UnregisterSource
    BY <2>2, UnregisterSourceKeepsWake
  <2>3. CASE DeleteTrigger
    BY <2>3, DeleteTriggerKeepsWake
  <2>4. CASE DeliverFrame
    BY <2>4, DeliverFrameKeepsWake
  <2>5. CASE DeliverNothing
    BY <1>1, <2>5, OtherKeepsWake DEF DeliverNothing, Queue!PopFails, Queue!vars, queueVars,
       readVars, tableVars, clientVars, SeenTypes
  <2>6. CASE NoRequest \/ NoEvent \/ NoAlarm
    BY <1>1, <2>6, OtherKeepsWake DEF NoRequest, NoEvent, NoAlarm, InPhase, readVars,
       tableVars, clientVars, SeenTypes
  <2>7. CASE RunTrigger
    BY <2>7, RunTriggerKeepsWake
  <2>8. ASSUME NEW s \in Sources, SendNext(s) PROVE WakeInv'
    BY <1>1, <2>8, OtherKeepsWake DEF SendNext, GetNextFrame, Continue, InPhase, tableVars,
       clientVars, SeenTypes
  <2> QED
    BY <1>2, <2>1, <2>2, <2>3, <2>4, <2>5, <2>6, <2>7, <2>8 DEF Loop
<1>3. CASE Request
  <2>1. ASSUME NEW s \in Sources, Describe(s) PROVE WakeInv'
    BY <2>1, NewSourceKeepsWake DEF Describe, InPhase, readVars, clientVars
  <2>2. ASSUME NEW c \in Clients, SetupShared(c) PROVE WakeInv'
    BY <1>1, <2>2, OtherKeepsWake DEF SetupShared, InPhase, readVars, tableVars, SeenTypes
  <2>3. ASSUME NEW c \in Clients, NEW s \in Sources, SetupNew(c, s) PROVE WakeInv'
    BY <2>3, NewSourceKeepsWake DEF SetupNew, InPhase, readVars
  <2>4. ASSUME NEW c \in Clients, Play(c) PROVE WakeInv'
    BY <1>1, <2>4, OtherKeepsWake DEF Play, GetNextFrame, Continue, InPhase, tableVars,
       SeenTypes
  <2>5. ASSUME NEW c \in Clients, Teardown(c) PROVE WakeInv'
    <3>1. SeenTypes'
      BY <1>1, <2>5 DEF Teardown, SeenTypes
    <3>2. UNCHANGED <<queueVars, sourceVars, handlers>> /\ awaiting' \subseteq awaiting /\ call = "none"
      BY <2>5 DEF Teardown, InPhase, CloseSink, readVars, tableVars
    <3> QED
      BY <3>1, <3>2, OtherKeepsWake
  <2> QED
    BY <1>3, <2>1, <2>2, <2>3, <2>4, <2>5 DEF Request
<1>4. CASE EndLoop
  BY <1>1, <1>4, OtherKeepsWake DEF EndLoop, InPhase, readVars, tableVars, clientVars,
     SeenTypes
<1>5. ASSUME NEW p \in Producers, Queue!Push(p), UNCHANGED otherVars PROVE WakeInv'
  BY <1>5, PushKeepsWake
<1>6. CASE UNCHANGED vars
  <2>1. UNCHANGED <<queueVars, sourceVars, handlers, awaiting, call, src, seen, queue>>
    BY <1>6 DEF vars, readVars, tableVars, clientVars, loopVars, queueVars
  <2>2. \A s \in awaiting : call = "deliver" /\ src = s => call' = "deliver" /\ src' = s
    BY <2>1
  <2> QED
    BY <1>1, <2>1, <2>2, OtherKeepsWake DEF SeenTypes
<1> QED
  BY <1>2, <1>3, <1>4, <1>5, <1>6 DEF Next

LEMMA WakeInductive == Spec => []WakeInv
  BY InitWake, StepKeepsWake, StreamInductive, QueueTyped, PTL DEF Spec

--------------------------------------------------------------------------------
\* Every value of every variable stays in its set, for any number of clients, of
\* encoder threads and of sources.
THEOREM StreamTypeCorrect == Spec => []TypeOK
<1>1. StreamInv /\ WakeInv /\ Queue!TypeOK => TypeOK
  BY DEF StreamInv, LoopTypes, WakeInv, SeenTypes, TypeOK
<1> QED
  BY <1>1, StreamInductive, WakeInductive, QueueTyped, PTL

\* No order of a push and the event loop's handlers loses the wakeup of a source
\* that waits (wakeReadersLocked, frameArrivedCallback, deliverFrame).
THEOREM StreamLosesNoWakeup == Spec => []NoLostWakeup
<1>1. WakeInv => NoLostWakeup
  BY DEF WakeInv
<1> QED
  BY <1>1, WakeInductive, PTL

\* frameArrivedCallback never runs on a deleted MyH264Source, as its destructor
\* unregisters it before it deletes its trigger.
THEOREM StreamEventsReachLiveSources == Spec => []EventsReachLiveSources
<1>1. WakeInv => EventsReachLiveSources
  BY DEF WakeInv
<1> QED
  BY <1>1, WakeInductive, PTL

\* No reader is left behind by a destroyed source and no live source is without.
THEOREM StreamReadersAreSources == Spec => []ReadersAreSources
<1>1. StreamInv => ReadersAreSources
  BY DEF StreamInv, ReadersMatch, IsReader, ReadersAreSources
<1> QED
  BY <1>1, StreamInductive, PTL

\* Three triggers are enough for any number of clients.
THEOREM StreamTriggersSuffice == Spec => []TriggersSuffice
<1>1. StreamInv => TriggersSuffice
  BY DEF StreamInv
<1> QED
  BY <1>1, StreamInductive, PTL

\* getNextFrame is never called while a read is outstanding, and a stream that
\* plays never stands still.
THEOREM StreamReadsOneAtATime == Spec => []OneReadAtATime
<1>1. StreamInv => OneReadAtATime
  BY DEF StreamInv
<1> QED
  BY <1>1, StreamInductive, PTL

\* All clients share the one stream, which lives as long as any of them.
THEOREM StreamIsShared == Spec => []OneLiveStream
<1>1. StreamInv => OneLiveStream
  BY DEF StreamInv
<1> QED
  BY <1>1, StreamInductive, PTL

\* What the invariant says when no handler runs: the one source there can be is that
\* of a stream that some client has.
LEMMA NoClientNoSource == StreamInv => NoSourceWithoutClient
<1> SUFFICES ASSUME StreamInv, call = "none", \A c \in Clients : streamOf[c] = NoSource
             PROVE  alive = {} /\ readers = {}
  BY DEF NoSourceWithoutClient
<1>1. lastStream = NoSource
  BY DEF StreamInv, OneLiveStream
<1>2. src = NoSource /\ alive \subseteq Sources
  BY DEF StreamInv, LoopTypes
<1>3. alive = {}
  BY <1>1, <1>2, StreamAssumption DEF StreamInv, HandlerRuns
<1> QED
  BY <1>3 DEF StreamInv, ReadersMatch

\* With the last client the source and the reader go: a source that only described the
\* stream, or was closed while it was read, is not left behind.
THEOREM StreamEndsWithLastClient == Spec => []NoSourceWithoutClient
  BY NoClientNoSource, StreamInductive, PTL

===============================================================================
