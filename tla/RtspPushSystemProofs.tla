-------------------------- MODULE RtspPushSystemProofs --------------------------
(***************************************************************************)
(* Proofs about the whole program: it is the service of                    *)
(* Live555RtspService.tla with a real event loop, and what LiveStream.tla  *)
(* promises of one loop holds over stops and restarts.                     *)
(*                                                                         *)
(* Both follow from the proofs about the two parts.  A session is a run of *)
(* LiveStream but for the stop trigger, which cleanupLive555 deletes       *)
(* before the server is closed; the loop does not use it, so that its      *)
(* steps are the same when the trigger is taken to be there all the time.  *)
(***************************************************************************)
EXTENDS RtspPushSystem, TLAPS

Handlers == handlers \cup {Stream!StopTrigger}

StreamProofs == INSTANCE LiveStreamProofs WITH handlers <- Handlers

ServiceProofs == INSTANCE Live555RtspServiceProofs

\* What the modules of the two parts assume of their constants.
LEMMA StreamParameters ==
  /\ NumTriggers >= 3
  /\ MaxQueuedNalus \in Nat \ {0} /\ MaxPushed \in Nat
  /\ Frames \subseteq Seq(StreamProofs!Queue!NalTypes) \ {<<>>}
  /\ NoThread \notin Producers /\ StreamProofs!NoSource \notin Sources
  BY SystemAssumption DEF StreamProofs!NoSource, StreamProofs!Queue!NalTypes,
     Stream!Queue!NalTypes

LEMMA ServiceParameters ==
  /\ MaxPolls \in Nat /\ NoThread \notin Callers
  /\ MaxQueuedNalus \in Nat \ {0} /\ MaxPushed \in Nat
  /\ Frames \subseteq Seq(ServiceProofs!Queue!NalTypes) \ {<<>>}
  /\ NoThread \notin Producers /\ NoData \notin Sources
  BY SystemAssumption DEF ServiceProofs!Queue!NalTypes, Stream!Queue!NalTypes

--------------------------------------------------------------------------------
(* The parts as this module and as the proofs about them name them *)

\* Triggers are the same everywhere.
LEMMA TriggersAgree ==
  /\ StreamProofs!TriggerIds = TriggerIds /\ Stream!TriggerIds = TriggerIds
  /\ StreamProofs!NoTrigger = NoTrigger /\ Stream!NoTrigger = NoTrigger
  /\ StreamProofs!NoSource = NoData /\ Stream!NoSource = NoData
  /\ \A ids, last : /\ StreamProofs!FirstAfter(last, ids) = FirstAfter(last, ids)
                    /\ Stream!FirstAfter(last, ids) = FirstAfter(last, ids)
  /\ \A used, last : Stream!CreateEventTrigger(used, last)
                       = StreamProofs!CreateEventTrigger(used, last)
  /\ StreamProofs!StopTrigger = Stream!StopTrigger
  /\ StreamProofs!Awaiting(pending) = Awaiting(pending)
  /\ Stream!Awaiting(pending) = Awaiting(pending)
<1>1. /\ StreamProofs!TriggerIds = TriggerIds /\ Stream!TriggerIds = TriggerIds
      /\ StreamProofs!NoTrigger = NoTrigger /\ Stream!NoTrigger = NoTrigger
      /\ StreamProofs!NoSource = NoData /\ Stream!NoSource = NoData
  BY DEF TriggerIds, StreamProofs!TriggerIds, Stream!TriggerIds, NoTrigger,
     StreamProofs!NoTrigger, Stream!NoTrigger, StreamProofs!NoSource, Stream!NoSource
<1>2. \A ids, last : /\ StreamProofs!FirstAfter(last, ids) = FirstAfter(last, ids)
                     /\ Stream!FirstAfter(last, ids) = FirstAfter(last, ids)
  BY Zenon DEF FirstAfter, StreamProofs!FirstAfter, Stream!FirstAfter, Distance,
     StreamProofs!Distance, Stream!Distance
<1>3. \A used, last : Stream!CreateEventTrigger(used, last)
                        = StreamProofs!CreateEventTrigger(used, last)
  BY <1>1, <1>2, Zenon DEF Stream!CreateEventTrigger, StreamProofs!CreateEventTrigger
<1>4. StreamProofs!StopTrigger = Stream!StopTrigger
  BY <1>3, Zenon DEF StreamProofs!StopTrigger, Stream!StopTrigger
<1>5. /\ StreamProofs!Awaiting(pending) = Awaiting(pending)
      /\ Stream!Awaiting(pending) = Awaiting(pending)
  BY <1>1 DEF StreamProofs!Awaiting, Stream!Awaiting, Awaiting
<1> QED
  BY <1>1, <1>2, <1>3, <1>4, <1>5

\* So is the service, definition by definition: its callers, ...
LEMMA CallersAgree ==
  \A c \in Callers : /\ Service!Calls(c) <=> ServiceProofs!Calls(c)
                     /\ Service!Control(c) <=> ServiceProofs!Control(c)
  BY Zenon DEF Service!queueVars, Service!threads, Service!At, Service!Unlocked,
     Service!Goes, Service!Returns, Service!Free, Service!Polls, Service!StartWhileRunning,
     Service!NewSession, Service!Ended, Service!NotAThread, Service!Start, Service!StartAssign,
     Service!Terminate, Service!StartTerminates, Service!PollsLeft, Service!PollUrl,
     Service!PollResult, Service!PollRunning, Service!PollsOver, Service!GetUrl, Service!Exit,
     Service!EntersStop, Service!StopReturned, Service!StopNotRunning, Service!StopSet,
     Service!Stop, Service!StopReadScheduler, Service!StopReadTrigger, Service!Assigning,
     Service!StopTriggerEvent, Service!StopJoinable, Service!JoinFails, Service!StopJoin,
     Service!StopJoinThrows, Service!Joined, Service!StopJoined, Service!StopFinish,
     Service!Destroy, Service!Control, Service!Calls, ServiceProofs!queueVars,
     ServiceProofs!threads, ServiceProofs!At, ServiceProofs!Unlocked, ServiceProofs!Goes,
     ServiceProofs!Returns, ServiceProofs!Free, ServiceProofs!Polls,
     ServiceProofs!StartWhileRunning, ServiceProofs!NewSession, ServiceProofs!Ended,
     ServiceProofs!NotAThread, ServiceProofs!Start, ServiceProofs!StartAssign,
     ServiceProofs!Terminate, ServiceProofs!StartTerminates, ServiceProofs!PollsLeft,
     ServiceProofs!PollUrl, ServiceProofs!PollResult, ServiceProofs!PollRunning,
     ServiceProofs!PollsOver, ServiceProofs!GetUrl, ServiceProofs!Exit,
     ServiceProofs!EntersStop, ServiceProofs!StopReturned, ServiceProofs!StopNotRunning,
     ServiceProofs!StopSet, ServiceProofs!Stop, ServiceProofs!StopReadScheduler,
     ServiceProofs!StopReadTrigger, ServiceProofs!Assigning, ServiceProofs!StopTriggerEvent,
     ServiceProofs!StopJoinable, ServiceProofs!JoinFails, ServiceProofs!StopJoin,
     ServiceProofs!StopJoinThrows, ServiceProofs!Joined, ServiceProofs!StopJoined,
     ServiceProofs!StopFinish, ServiceProofs!Destroy, ServiceProofs!Control,
     ServiceProofs!Calls

\* ... its encoder threads, ...
LEMMA EncodersAgree ==
  \A p \in Producers : /\ Service!PushH264(p) <=> ServiceProofs!PushH264(p)
                       /\ Service!PushGoesOn(p) <=> ServiceProofs!PushGoesOn(p)
  BY Zenon DEF Service!threads, Service!PushH264, Service!PushGoesOn,
     Service!Queue!NotCached, Service!Queue!SplitAnnexB, Service!Queue!PushAnnexBFrame,
     Service!Queue!Lock, Service!Queue!MadeRoom, Service!Queue!Cached,
     Service!Queue!PushPureNaluLocked, Service!Queue!WakeReaderLocked, Service!Queue!Unlock,
     Service!Queue!FinishPush, Service!Queue!TriggerEvent, ServiceProofs!threads,
     ServiceProofs!PushH264, ServiceProofs!PushGoesOn, ServiceProofs!Queue!NotCached,
     ServiceProofs!Queue!SplitAnnexB, ServiceProofs!Queue!PushAnnexBFrame,
     ServiceProofs!Queue!Lock, ServiceProofs!Queue!MadeRoom, ServiceProofs!Queue!Cached,
     ServiceProofs!Queue!PushPureNaluLocked, ServiceProofs!Queue!WakeReaderLocked,
     ServiceProofs!Queue!Unlock, ServiceProofs!Queue!FinishPush,
     ServiceProofs!Queue!TriggerEvent

\* ... and its RTSP thread, also when it is overtaken.
LEMMA ThreadsAgree == Service!RtspThread <=> ServiceProofs!RtspThread
  BY Zenon DEF Service!queueVars, Service!Unlocked, Service!ThreadAt,
     Service!SetupScheduler, Service!SetupTrigger, Service!SetupServer,
     Service!FieldsOfFailure, Service!SetupFails, Service!SetupUrl, Service!LoopChecksWatch,
     Service!LoopStep, Service!CleanupTrigger, Service!CleanupSource, Service!SourcesClosed,
     Service!CleanupServer, Service!Freed, Service!CleanupScheduler, Service!CleanupForget,
     Service!CleanupQueue, Service!ThreadEnds, Service!Setup, Service!Cleanup,
     Service!RtspThread, Service!Queue!Reader, Service!Queue!PopNalu, Service!Queue!Clear,
     Service!Queue!RegisterReader, Service!Queue!UnregisterReader, Service!Queue!HandleEvent,
     Service!Queue!Registered, Service!Queue!NoTrigger, Service!Queue!ClearEvent,
     Service!TriggerIds, ServiceProofs!queueVars, ServiceProofs!Unlocked,
     ServiceProofs!ThreadAt, ServiceProofs!SetupScheduler, ServiceProofs!SetupTrigger,
     ServiceProofs!SetupServer, ServiceProofs!FieldsOfFailure, ServiceProofs!SetupFails,
     ServiceProofs!SetupUrl, ServiceProofs!LoopChecksWatch, ServiceProofs!LoopStep,
     ServiceProofs!CleanupTrigger, ServiceProofs!CleanupSource, ServiceProofs!SourcesClosed,
     ServiceProofs!CleanupServer, ServiceProofs!Freed, ServiceProofs!CleanupScheduler,
     ServiceProofs!CleanupForget, ServiceProofs!CleanupQueue, ServiceProofs!ThreadEnds,
     ServiceProofs!Setup, ServiceProofs!Cleanup, ServiceProofs!RtspThread,
     ServiceProofs!Queue!Reader, ServiceProofs!Queue!PopNalu, ServiceProofs!Queue!Clear,
     ServiceProofs!Queue!RegisterReader, ServiceProofs!Queue!UnregisterReader,
     ServiceProofs!Queue!HandleEvent, ServiceProofs!Queue!Registered,
     ServiceProofs!Queue!NoTrigger, ServiceProofs!Queue!ClearEvent, ServiceProofs!TriggerIds

LEMMA OvertakenAgree == Service!Overtaken!RtspThread <=> ServiceProofs!Overtaken!RtspThread
  BY Zenon DEF Service!Overtaken!queueVars, Service!Overtaken!Unlocked,
     Service!Overtaken!ThreadAt, Service!Overtaken!SetupScheduler,
     Service!Overtaken!SetupTrigger, Service!Overtaken!SetupServer,
     Service!Overtaken!FieldsOfFailure, Service!Overtaken!SetupFails,
     Service!Overtaken!SetupUrl, Service!Overtaken!LoopChecksWatch, Service!Overtaken!LoopStep,
     Service!Overtaken!CleanupTrigger, Service!Overtaken!CleanupSource,
     Service!Overtaken!SourcesClosed, Service!Overtaken!CleanupServer, Service!Overtaken!Freed,
     Service!Overtaken!CleanupScheduler, Service!Overtaken!CleanupForget,
     Service!Overtaken!CleanupQueue, Service!Overtaken!ThreadEnds, Service!Overtaken!Setup,
     Service!Overtaken!Cleanup, Service!Overtaken!RtspThread, Service!Overtaken!Queue!Reader,
     Service!Overtaken!Queue!PopNalu, Service!Overtaken!Queue!Clear,
     Service!Overtaken!Queue!RegisterReader, Service!Overtaken!Queue!UnregisterReader,
     Service!Overtaken!Queue!HandleEvent, Service!Overtaken!Queue!Registered,
     Service!Overtaken!Queue!NoTrigger, Service!Overtaken!Queue!ClearEvent,
     Service!Overtaken!TriggerIds, ServiceProofs!Overtaken!queueVars,
     ServiceProofs!Overtaken!Unlocked, ServiceProofs!Overtaken!ThreadAt,
     ServiceProofs!Overtaken!SetupScheduler, ServiceProofs!Overtaken!SetupTrigger,
     ServiceProofs!Overtaken!SetupServer, ServiceProofs!Overtaken!FieldsOfFailure,
     ServiceProofs!Overtaken!SetupFails, ServiceProofs!Overtaken!SetupUrl,
     ServiceProofs!Overtaken!LoopChecksWatch, ServiceProofs!Overtaken!LoopStep,
     ServiceProofs!Overtaken!CleanupTrigger, ServiceProofs!Overtaken!CleanupSource,
     ServiceProofs!Overtaken!SourcesClosed, ServiceProofs!Overtaken!CleanupServer,
     ServiceProofs!Overtaken!Freed, ServiceProofs!Overtaken!CleanupScheduler,
     ServiceProofs!Overtaken!CleanupForget, ServiceProofs!Overtaken!CleanupQueue,
     ServiceProofs!Overtaken!ThreadEnds, ServiceProofs!Overtaken!Setup,
     ServiceProofs!Overtaken!Cleanup, ServiceProofs!Overtaken!RtspThread,
     ServiceProofs!Overtaken!Queue!Reader, ServiceProofs!Overtaken!Queue!PopNalu,
     ServiceProofs!Overtaken!Queue!Clear, ServiceProofs!Overtaken!Queue!RegisterReader,
     ServiceProofs!Overtaken!Queue!UnregisterReader, ServiceProofs!Overtaken!Queue!HandleEvent,
     ServiceProofs!Overtaken!Queue!Registered, ServiceProofs!Overtaken!Queue!NoTrigger,
     ServiceProofs!Overtaken!Queue!ClearEvent, ServiceProofs!Overtaken!TriggerIds

LEMMA ServicesAgree ==
  /\ Service!Init <=> ServiceProofs!Init
  /\ Service!Next <=> ServiceProofs!Next
  /\ Service!vars = ServiceProofs!vars
<1>1. Service!Init <=> ServiceProofs!Init
  BY Zenon DEF Service!NotAThread, Service!Init, Service!Queue!NotCached,
     Service!Queue!Init, Service!Queue!TriggerIds, ServiceProofs!NotAThread,
     ServiceProofs!Init, ServiceProofs!Queue!NotCached, ServiceProofs!Queue!Init,
     ServiceProofs!Queue!TriggerIds
<1>2. Service!Next <=> ServiceProofs!Next
  BY CallersAgree, EncodersAgree, ThreadsAgree, OvertakenAgree, Zenon
     DEF Service!Next, ServiceProofs!Next
<1>3. Service!vars = ServiceProofs!vars
  BY DEF Service!vars, ServiceProofs!vars, Service!threads, ServiceProofs!threads,
     Service!queueVars, ServiceProofs!queueVars
<1> QED
  BY <1>1, <1>2, <1>3

\* Every source and every reader is gone at the start.
LEMMA InitStream == Init => StreamProofs!StreamInv /\ StreamProofs!WakeInv
<1>1. Init => StreamProofs!Init
  BY TriggersAgree DEF Init, Stream!Init, StreamProofs!Init, Stream!Queue!Init,
     StreamProofs!Queue!Init, Handlers, Stream!Queue!NotCached,
     StreamProofs!Queue!NotCached, Stream!Queue!TriggerIds, StreamProofs!Queue!TriggerIds
<1> QED
  BY <1>1, StreamParameters, NumTriggersAssumption, StreamProofs!InitStream,
     StreamProofs!InitWake, Zenon

\* What the loop does is the same when the stop trigger is taken to be there: it is
\* there while sources are made, and no destructor deletes it.
LEMMA LoopAgrees ==
  ASSUME StreamProofs!StreamInv, Stream!StopTrigger \in handlers \/ phase = "close",
         Stream!Loop
  PROVE  StreamProofs!Loop
<1>1. CASE Stream!RegisterSource
  <2>1. StreamProofs!RegisterSource
    BY <1>1, TriggersAgree DEF Handlers, Stream!RegisterSource, StreamProofs!RegisterSource,
       Stream!Register, StreamProofs!Register, Stream!Queue!RegisterReader,
       StreamProofs!Queue!RegisterReader, Stream!Queue!NoTrigger,
       StreamProofs!Queue!NoTrigger, Stream!Queue!Reader, StreamProofs!Queue!Reader,
       Stream!Return, StreamProofs!Return, Stream!Continue, StreamProofs!Continue,
       Stream!Following, StreamProofs!Following, Stream!sourceVars, StreamProofs!sourceVars,
       Stream!readVars, StreamProofs!readVars, Stream!tableVars, StreamProofs!tableVars,
       Stream!clientVars, StreamProofs!clientVars
  <2> QED
    BY <2>1 DEF StreamProofs!Loop
<1>2. CASE Stream!UnregisterSource
  <2>1. StreamProofs!UnregisterSource
    BY <1>2, TriggersAgree DEF Handlers, Stream!UnregisterSource,
       StreamProofs!UnregisterSource, Stream!Unregister, StreamProofs!Unregister,
       Stream!Queue!UnregisterReader, StreamProofs!Queue!UnregisterReader, Stream!Continue,
       StreamProofs!Continue, Stream!sourceVars, StreamProofs!sourceVars, Stream!readVars,
       StreamProofs!readVars, Stream!tableVars, StreamProofs!tableVars, Stream!clientVars,
       StreamProofs!clientVars
  <2> QED
    BY <2>1 DEF StreamProofs!Loop
<1>3. CASE Stream!DeliverFrame
  <2>1. StreamProofs!DeliverFrame
    BY <1>3, TriggersAgree DEF Handlers, Stream!DeliverFrame, StreamProofs!DeliverFrame,
       Stream!Queue!PopNalu, StreamProofs!Queue!PopNalu, Stream!AfterGetting,
       StreamProofs!AfterGetting, Stream!Return, StreamProofs!Return, Stream!Following,
       StreamProofs!Following, Stream!sourceVars, StreamProofs!sourceVars, Stream!readVars,
       StreamProofs!readVars, Stream!tableVars, StreamProofs!tableVars, Stream!clientVars,
       StreamProofs!clientVars
  <2> QED
    BY <2>1 DEF StreamProofs!Loop
<1>4. CASE Stream!DeliverNothing
  <2>1. StreamProofs!DeliverNothing
    BY <1>4, TriggersAgree DEF Handlers, Stream!DeliverNothing, StreamProofs!DeliverNothing,
       Stream!Queue!PopFails, StreamProofs!Queue!PopFails, Stream!Queue!vars,
       StreamProofs!Queue!vars, Stream!Return, StreamProofs!Return, Stream!Following,
       StreamProofs!Following, Stream!sourceVars, StreamProofs!sourceVars, Stream!readVars,
       StreamProofs!readVars, Stream!tableVars, StreamProofs!tableVars, Stream!clientVars,
       StreamProofs!clientVars
  <2> QED
    BY <2>1 DEF StreamProofs!Loop
<1>5. CASE Stream!NoRequest
  <2>1. StreamProofs!NoRequest
    BY <1>5, TriggersAgree DEF Handlers, Stream!NoRequest, StreamProofs!NoRequest,
       Stream!InPhase, StreamProofs!InPhase, Stream!queueVars, StreamProofs!queueVars,
       Stream!Return, StreamProofs!Return, Stream!Following, StreamProofs!Following,
       Stream!sourceVars, StreamProofs!sourceVars, Stream!readVars, StreamProofs!readVars,
       Stream!tableVars, StreamProofs!tableVars, Stream!clientVars, StreamProofs!clientVars
  <2> QED
    BY <2>1 DEF StreamProofs!Loop
<1>6. CASE Stream!NoEvent
  <2>1. StreamProofs!NoEvent
    BY <1>6, TriggersAgree DEF Handlers, Stream!NoEvent, StreamProofs!NoEvent,
       Stream!InPhase, StreamProofs!InPhase, Stream!queueVars, StreamProofs!queueVars,
       Stream!Return, StreamProofs!Return, Stream!Following, StreamProofs!Following,
       Stream!sourceVars, StreamProofs!sourceVars, Stream!readVars, StreamProofs!readVars,
       Stream!tableVars, StreamProofs!tableVars, Stream!clientVars, StreamProofs!clientVars
  <2> QED
    BY <2>1 DEF StreamProofs!Loop
<1>7. CASE Stream!NoAlarm
  <2>1. StreamProofs!NoAlarm
    BY <1>7, TriggersAgree DEF Handlers, Stream!NoAlarm, StreamProofs!NoAlarm,
       Stream!InPhase, StreamProofs!InPhase, Stream!queueVars, StreamProofs!queueVars,
       Stream!Return, StreamProofs!Return, Stream!Following, StreamProofs!Following,
       Stream!sourceVars, StreamProofs!sourceVars, Stream!readVars, StreamProofs!readVars,
       Stream!tableVars, StreamProofs!tableVars, Stream!clientVars, StreamProofs!clientVars
  <2> QED
    BY <2>1 DEF StreamProofs!Loop
<1>8. CASE Stream!DeleteTrigger
  <2>1. trigger[src] # Stream!StopTrigger
    BY <1>8, TriggersAgree DEF Stream!DeleteTrigger, StreamProofs!StreamInv,
       StreamProofs!HandlerRuns
  <2>2. StreamProofs!DeleteTrigger
    BY <1>8, <2>1, TriggersAgree DEF Handlers, Stream!DeleteTrigger,
       StreamProofs!DeleteTrigger, Stream!EventDropped, StreamProofs!EventDropped,
       Stream!TriggerGivenBack, StreamProofs!TriggerGivenBack, Stream!Queue!HandleEvent,
       StreamProofs!Queue!HandleEvent, Stream!Queue!ClearEvent,
       StreamProofs!Queue!ClearEvent, Stream!queueVars, StreamProofs!queueVars,
       Stream!Return, StreamProofs!Return, Stream!Following, StreamProofs!Following,
       Stream!readVars, StreamProofs!readVars, Stream!clientVars, StreamProofs!clientVars
  <2> QED
    BY <2>2 DEF StreamProofs!Loop
<1>9. CASE Stream!RunTrigger
  <2>1. handlers = Handlers
    BY <1>9 DEF Handlers, Stream!RunTrigger, Stream!InPhase
  <2>2. handlers' = handlers
    BY <1>9 DEF Stream!RunTrigger
  <2>3. StreamProofs!RunTrigger
    BY <1>9, <2>1, <2>2, TriggersAgree DEF Handlers, Stream!RunTrigger,
       StreamProofs!RunTrigger, Stream!InPhase, StreamProofs!InPhase,
       Stream!Queue!HandleEvent, StreamProofs!Queue!HandleEvent, Stream!Queue!ClearEvent,
       StreamProofs!Queue!ClearEvent, Stream!Return, StreamProofs!Return, Stream!Continue,
       StreamProofs!Continue, Stream!Following, StreamProofs!Following, Stream!sourceVars,
       StreamProofs!sourceVars, Stream!readVars, StreamProofs!readVars, Stream!clientVars,
       StreamProofs!clientVars
  <2> QED
    BY <2>3 DEF StreamProofs!Loop
<1>10. ASSUME NEW s \in Sources, Stream!SendNext(s) PROVE StreamProofs!Loop
  <2>1. StreamProofs!SendNext(s)
    BY <1>10 DEF Handlers, Stream!SendNext, StreamProofs!SendNext, Stream!InPhase,
       StreamProofs!InPhase, Stream!queueVars, StreamProofs!queueVars, Stream!GetNextFrame,
       StreamProofs!GetNextFrame, Stream!Continue, StreamProofs!Continue, Stream!sourceVars,
       StreamProofs!sourceVars, Stream!readVars, StreamProofs!readVars, Stream!tableVars,
       StreamProofs!tableVars, Stream!clientVars, StreamProofs!clientVars
  <2> QED
    BY <2>1 DEF StreamProofs!Loop
<1> QED
  BY <1>1, <1>2, <1>3, <1>4, <1>5, <1>6, <1>7, <1>8, <1>9, <1>10 DEF Stream!Loop

\* The same of the requests, ...
LEMMA TeardownAgrees ==
  ASSUME NEW c \in Clients, Stream!Teardown(c)
  PROVE  StreamProofs!Teardown(c)
  BY TriggersAgree DEF Handlers, Stream!Teardown, StreamProofs!Teardown, Stream!InPhase,
     StreamProofs!InPhase, Stream!CloseSink, StreamProofs!CloseSink, Stream!ForgetStream,
     StreamProofs!ForgetStream, Stream!Return, StreamProofs!Return, Stream!Continue,
     StreamProofs!Continue, Stream!Following, StreamProofs!Following, Stream!queueVars,
     StreamProofs!queueVars, Stream!sourceVars, StreamProofs!sourceVars, Stream!readVars,
     StreamProofs!readVars, Stream!tableVars, StreamProofs!tableVars

LEMMA NewSourceAgrees ==
  ASSUME Stream!StopTrigger \in handlers, NEW s \in Sources, Stream!NewSource(s)
  PROVE  StreamProofs!NewSource(s)
<1>1. handlers = Handlers /\ handlers' = Handlers'
  BY DEF Handlers, Stream!NewSource
<1> QED
  BY <1>1, TriggersAgree DEF Stream!NewSource, StreamProofs!NewSource, Stream!Continue,
     StreamProofs!Continue

LEMMA RequestAgrees ==
  ASSUME Stream!StopTrigger \in handlers, Stream!Request
  PROVE  StreamProofs!Request
<1>1. ASSUME NEW s \in Sources, Stream!Describe(s) PROVE StreamProofs!Describe(s)
  BY <1>1, NewSourceAgrees DEF Handlers, Stream!Describe, StreamProofs!Describe,
     Stream!InPhase, StreamProofs!InPhase, Stream!queueVars, StreamProofs!queueVars,
     Stream!readVars, StreamProofs!readVars, Stream!clientVars, StreamProofs!clientVars
<1>2. ASSUME NEW c \in Clients, Stream!SetupShared(c) PROVE StreamProofs!SetupShared(c)
  BY <1>2, TriggersAgree DEF Handlers, Stream!SetupShared, StreamProofs!SetupShared,
     Stream!ReuseFirstSource, StreamProofs!ReuseFirstSource, Stream!InPhase,
     StreamProofs!InPhase, Stream!Return, StreamProofs!Return, Stream!Following,
     StreamProofs!Following, Stream!queueVars, StreamProofs!queueVars, Stream!sourceVars,
     StreamProofs!sourceVars, Stream!readVars, StreamProofs!readVars, Stream!tableVars,
     StreamProofs!tableVars
<1>3. ASSUME NEW c \in Clients, NEW s \in Sources, Stream!SetupNew(c, s)
      PROVE  StreamProofs!SetupNew(c, s)
  BY <1>3, NewSourceAgrees, TriggersAgree DEF Handlers, Stream!SetupNew,
     StreamProofs!SetupNew, Stream!ReuseFirstSource, StreamProofs!ReuseFirstSource,
     Stream!InPhase, StreamProofs!InPhase, Stream!queueVars, StreamProofs!queueVars,
     Stream!readVars, StreamProofs!readVars
<1>4. ASSUME NEW c \in Clients, Stream!Play(c) PROVE StreamProofs!Play(c)
  BY <1>4, TriggersAgree DEF Handlers, Stream!Play, StreamProofs!Play, Stream!InPhase,
     StreamProofs!InPhase, Stream!GetNextFrame, StreamProofs!GetNextFrame, Stream!Continue,
     StreamProofs!Continue, Stream!Return, StreamProofs!Return, Stream!Following,
     StreamProofs!Following, Stream!queueVars, StreamProofs!queueVars, Stream!sourceVars,
     StreamProofs!sourceVars, Stream!tableVars, StreamProofs!tableVars
<1> QED
  BY <1>1, <1>2, <1>3, <1>4, TeardownAgrees DEF Stream!Request, StreamProofs!Request

\* ... the pushes of the encoder threads ...
LEMMA PushesAgree ==
  \A p \in Producers :
    /\ Service!Queue!FinishPush(p) => StreamProofs!Queue!Push(p)
    /\ \A frame \in Frames :
         Service!Queue!PushAnnexBFrame(p, frame) => StreamProofs!Queue!Push(p)
  BY Zenon DEF Service!Queue!Push, StreamProofs!Queue!Push, Service!Queue!FinishPush,
     StreamProofs!Queue!FinishPush, Service!Queue!PushAnnexBFrame,
     StreamProofs!Queue!PushAnnexBFrame, Service!Queue!SplitAnnexB,
     StreamProofs!Queue!SplitAnnexB, Service!Queue!Lock, StreamProofs!Queue!Lock,
     Service!Queue!MadeRoom, StreamProofs!Queue!MadeRoom, Service!Queue!Cached,
     StreamProofs!Queue!Cached, Service!Queue!NotCached, StreamProofs!Queue!NotCached,
     Service!Queue!PushPureNaluLocked, StreamProofs!Queue!PushPureNaluLocked,
     Service!Queue!WakeReaderLocked, StreamProofs!Queue!WakeReaderLocked,
     Service!Queue!TriggerEvent, StreamProofs!Queue!TriggerEvent, Service!Queue!Unlock,
     StreamProofs!Queue!Unlock

\* ... and the end of the loop.
LEMMA EndLoopAgrees == Stream!EndLoop => StreamProofs!EndLoop
  BY DEF Handlers, Stream!EndLoop, StreamProofs!EndLoop, Stream!InPhase,
     StreamProofs!InPhase, Stream!queueVars, StreamProofs!queueVars, Stream!sourceVars,
     StreamProofs!sourceVars, Stream!readVars, StreamProofs!readVars, Stream!tableVars,
     StreamProofs!tableVars, Stream!clientVars, StreamProofs!clientVars

--------------------------------------------------------------------------------
(* The loop and the service *)

\* How the destructor of a source uses the queue, ...
DestroysSource == \/ UNCHANGED queueVars
                  \/ \E id \in Service!Queue!Registered : Service!Queue!UnregisterReader(id)
                  \/ \E id \in TriggerIds : Service!Queue!HandleEvent(id)

\* ... and how the loop does.
UsesQueue == \/ DestroysSource
             \/ \E id \in TriggerIds \ Service!Queue!Registered, s \in Sources :
                  Service!Queue!RegisterReader(id, s)
             \/ Service!Queue!PopNalu

\* A source that is destroyed is registered until it unregisters.
LEMMA DestructorUsesQueue ==
  ASSUME StreamProofs!StreamInv, Stream!UnregisterSource \/ Stream!DeleteTrigger
  PROVE  DestroysSource
<1>1. /\ src \in alive /\ trigger[src] \in TriggerIds
  BY TriggersAgree DEF StreamProofs!StreamInv, StreamProofs!LoopTypes,
     StreamProofs!HandlerRuns, StreamProofs!TriggersSuffice, Stream!UnregisterSource,
     Stream!DeleteTrigger
<1>2. CASE Stream!UnregisterSource
  <2>1. StreamProofs!Queue!Reader(trigger[src], src) \in readers
    BY <1>1, <1>2 DEF StreamProofs!StreamInv, StreamProofs!ReadersMatch,
       StreamProofs!IsReader, Stream!UnregisterSource
  <2>2. trigger[src] \in Service!Queue!Registered
    BY <2>1 DEF StreamProofs!Queue!Reader, Service!Queue!Registered
  <2>3. Service!Queue!UnregisterReader(trigger[src])
    BY <1>2 DEF Stream!UnregisterSource, Stream!Unregister, Stream!Queue!UnregisterReader,
       Service!Queue!UnregisterReader
  <2> QED
    BY <2>2, <2>3 DEF DestroysSource
<1>3. CASE Stream!DeleteTrigger
  <2>1. Service!Queue!HandleEvent(trigger[src]) \/ UNCHANGED queueVars
    BY <1>3 DEF Stream!DeleteTrigger, Stream!EventDropped, Stream!Queue!HandleEvent,
       Stream!Queue!ClearEvent, Service!Queue!HandleEvent, Service!Queue!ClearEvent,
       Stream!queueVars, queueVars
  <2> QED
    BY <1>1, <2>1 DEF DestroysSource
<1> QED
  BY <1>2, <1>3

\* A source registers with a trigger no reader has, and takes events and NALUs.
LEMMA LoopUsesQueue ==
  ASSUME StreamProofs!StreamInv, Stream!Loop \/ Stream!Request
  PROVE  UsesQueue
<1>1. CASE Stream!RegisterSource
  <2>1. src \in alive /\ src \in Sources /\ trigger[src] \in TriggerIds
    BY <1>1, TriggersAgree DEF StreamProofs!StreamInv, StreamProofs!LoopTypes,
       StreamProofs!HandlerRuns, StreamProofs!TriggersSuffice, Stream!RegisterSource
  <2>2. \A r \in readers : r.triggerId # trigger[src]
    BY <1>1, <2>1 DEF StreamProofs!StreamInv, StreamProofs!ReadersMatch,
       StreamProofs!IsReader, StreamProofs!TriggersSuffice, StreamProofs!Queue!Reader,
       Stream!RegisterSource
  <2>3. Service!Queue!RegisterReader(trigger[src], src)
    BY <1>1 DEF Stream!RegisterSource, Stream!Register, Stream!Queue!RegisterReader,
       Service!Queue!RegisterReader, Stream!Queue!Reader, Service!Queue!Reader,
       Stream!Queue!NoTrigger, Service!Queue!NoTrigger
  <2>4. trigger[src] \notin Service!Queue!Registered
    BY <2>2 DEF Service!Queue!Registered
  <2> QED
    BY <2>1, <2>3, <2>4 DEF UsesQueue
<1>2. CASE Stream!UnregisterSource \/ Stream!DeleteTrigger
  BY <1>2, DestructorUsesQueue DEF UsesQueue
<1>3. CASE Stream!DeliverFrame
  BY <1>3 DEF Stream!DeliverFrame, Stream!Queue!PopNalu, Service!Queue!PopNalu, UsesQueue
<1>4. CASE Stream!DeliverNothing
  BY <1>4 DEF Stream!DeliverNothing, Stream!Queue!PopFails, Stream!Queue!vars, queueVars,
     UsesQueue, DestroysSource
<1>5. CASE Stream!RunTrigger
  <2>1. /\ Awaiting(pending) # {}
        /\ Stream!Queue!HandleEvent(FirstAfter(lastTrigger, Awaiting(pending)))
    BY <1>5, TriggersAgree DEF Stream!RunTrigger
  <2>2. lastTrigger \in StreamProofs!TriggerIds
    BY DEF StreamProofs!StreamInv, StreamProofs!LoopTypes
  <2>3. FirstAfter(lastTrigger, Awaiting(pending)) \in TriggerIds
    BY <2>1, <2>2, TriggersAgree, NumTriggersAssumption, StreamParameters,
       StreamProofs!FirstAfterIsOne DEF Awaiting
  <2> QED
    BY <2>1, <2>3 DEF Stream!Queue!HandleEvent, Stream!Queue!ClearEvent,
       Service!Queue!HandleEvent, Service!Queue!ClearEvent, UsesQueue, DestroysSource
<1>6. CASE \/ Stream!NoRequest \/ Stream!NoEvent \/ Stream!NoAlarm
           \/ \E s \in Sources : Stream!SendNext(s)
  BY <1>6 DEF Stream!NoRequest, Stream!NoEvent, Stream!NoAlarm, Stream!SendNext,
     Stream!queueVars, queueVars, UsesQueue, DestroysSource
<1>7. CASE Stream!Request
  <2>1. UNCHANGED Stream!queueVars
    BY <1>7 DEF Stream!Request, Stream!Describe, Stream!SetupShared, Stream!SetupNew,
       Stream!Play, Stream!Teardown
  <2> QED
    BY <2>1 DEF Stream!queueVars, queueVars, UsesQueue, DestroysSource
<1> QED
  BY <1>1, <1>2, <1>3, <1>4, <1>5, <1>6, <1>7 DEF Stream!Loop

--------------------------------------------------------------------------------
(* The invariant of the whole *)

\* The scheduler has the stop trigger from setupLive555 to cleanupLive555, no server is
\* closed while the loop runs, and one that is closed only destroys.
TableFollowsThread ==
  /\ thread.at \in {"server", "url", "loop", "step", "cleanup"} =>
       Stream!StopTrigger \in handlers
  /\ thread.at \in {"loop", "step"} => phase # "close"
  /\ phase = "close" => call \in {"none", "unregister", "delete"}

SystemInv == /\ ServiceProofs!ServiceInv
             /\ StreamProofs!StreamInv
             /\ StreamProofs!WakeInv
             /\ TableFollowsThread
             /\ NoStreamWithoutServer

LEMMA InitSystem == Init => SystemInv
<1> SUFFICES ASSUME Init PROVE SystemInv
  OBVIOUS
<1>1. ServiceProofs!ServiceInv
  BY ServicesAgree, ServiceParameters, NumTriggersAssumption, ServiceProofs!InitService
     DEF Init
<1>2. TableFollowsThread
  BY DEF Init, Service!Init, Stream!Init, TableFollowsThread
<1>3. NoStreamWithoutServer
  BY TriggersAgree DEF Init, Service!Init, Stream!Init, Stream!Queue!Init,
     Stream!Queue!TriggerIds, TriggerIds, Awaiting, NoStreamWithoutServer
<1> QED
  BY <1>1, <1>2, <1>3, InitStream DEF SystemInv

\* With one caller the fields follow the RTSP thread.
LEMMA SystemFields ==
  ASSUME SystemInv
  PROVE  /\ ServiceProofs!FieldTypes /\ ServiceProofs!Fields
         /\ ServiceProofs!SessionOfOneCaller
<1>1. ServiceProofs!OneCaller
  BY SystemAssumption DEF ServiceProofs!OneCaller
<1> QED
  BY <1>1 DEF SystemInv, ServiceProofs!ServiceInv, ServiceProofs!SessionOfOneCaller

\* Without a server there is no stream, and the loop does not run.
LEMMA NoServerNoStream ==
  ASSUME SystemInv, ~svc.server
  PROVE  /\ alive = {} /\ awaiting = {} /\ Handlers = {Stream!StopTrigger}
         /\ thread.at \notin {"url", "loop", "step"}
<1>1. alive = {} /\ thread.at \notin {"url", "loop", "step"}
  BY SystemFields DEF SystemInv, NoStreamWithoutServer, ServiceProofs!Fields,
     ServiceProofs!FieldsFollowThread
<1> QED
  BY <1>1, TriggersAgree DEF SystemInv, StreamProofs!StreamInv, StreamProofs!LoopTypes,
     StreamProofs!TriggersSuffice

LEMMA ThreadTyped ==
  ASSUME SystemInv
  PROVE  /\ thread \in ServiceProofs!Thread /\ svc \in ServiceProofs!Service
         /\ thread = [thread EXCEPT !.at = @]
  BY SystemFields DEF ServiceProofs!FieldTypes, ServiceProofs!Thread

\* What a server that is closed does.
LEMMA CloseDestroys ==
  ASSUME SystemInv, CloseStep
  PROVE  /\ phase' = "close" /\ call' \in {"none", "unregister", "delete"}
         /\ DestroysSource
         /\ StreamProofs!Next
<1>1. phase = "close" /\ call \in {"none", "unregister", "delete"}
  BY DEF CloseStep, SystemInv, TableFollowsThread
<1>2. CASE Stream!Loop
  <2>1. Stream!UnregisterSource \/ Stream!DeleteTrigger
    BY <1>1, <1>2 DEF Stream!Loop, Stream!RegisterSource, Stream!DeliverFrame,
       Stream!DeliverNothing, Stream!NoRequest, Stream!NoEvent, Stream!RunTrigger,
       Stream!NoAlarm, Stream!SendNext, Stream!InPhase
  <2>2. StreamProofs!Loop
    BY <1>1, <1>2, LoopAgrees DEF SystemInv
  <2>3. phase' = "close" /\ call' \in {"none", "unregister", "delete"}
    BY <1>1, <2>1 DEF Stream!UnregisterSource, Stream!DeleteTrigger, Stream!Continue,
       Stream!Return, Stream!Following
  <2> QED
    BY <2>1, <2>2, <2>3, DestructorUsesQueue DEF SystemInv, StreamProofs!Next
<1>3. ASSUME NEW c \in Clients, Stream!Teardown(c)
      PROVE  /\ phase' = "close" /\ call' \in {"none", "unregister", "delete"}
             /\ DestroysSource
             /\ StreamProofs!Next
  <2>1. phase' = "close" /\ call' \in {"none", "unregister", "delete"}
    BY <1>1, <1>3 DEF Stream!Teardown, Stream!Continue, Stream!Return, Stream!Following
  <2>2. DestroysSource
    BY <1>3 DEF Stream!Teardown, Stream!queueVars, queueVars, DestroysSource
  <2>3. StreamProofs!Next
    BY <1>3, TeardownAgrees DEF StreamProofs!Next, StreamProofs!Request
  <2> QED
    BY <2>1, <2>2, <2>3
<1> QED
  BY <1>2, <1>3 DEF CloseStep

\* What the service does by itself leaves the streams alone, and so does the RTSP
\* thread outside of the loop.
LEMMA StepIsService ==
  ASSUME SystemInv, Next
  PROVE  Service!Next \/ UNCHANGED Service!vars
<1>1. CASE ServiceStep
  BY <1>1 DEF ServiceStep, Service!Next
<1>2. CASE ThreadStep
  BY <1>2 DEF ThreadStep, Service!Next, Service!RtspThread, Service!Setup, Service!Cleanup
<1>3. CASE SetupTrigger \/ SetupUrl \/ LoopChecksWatch \/ CleanupTrigger \/ CleanupServer
  BY <1>3 DEF SetupTrigger, SetupUrl, LoopChecksWatch, CleanupTrigger, CleanupServer,
     Service!Next, Service!RtspThread, Service!Setup, Service!Cleanup
<1>4. CASE HandleStopEvent
  <2>1. thread' = [thread EXCEPT !.at = "step", !.stopEvent = FALSE]
    BY <1>4, ThreadTyped DEF HandleStopEvent, ServiceProofs!Thread
  <2>2. Service!LoopStep
    BY <1>4, <2>1 DEF HandleStopEvent, Service!LoopStep, queueVars, Service!queueVars
  <2> QED
    BY <2>2 DEF Service!Next, Service!RtspThread
<1>5. CASE LoopStep(Stream!Loop) \/ LoopStep(Stream!Request)
  <2>1. UsesQueue
    BY <1>5, LoopUsesQueue DEF LoopStep, SystemInv
  <2>2. \E next \in {"step", "loop"} : thread' = [thread EXCEPT !.at = next]
    BY <1>5 DEF LoopStep
  <2>3. Service!LoopStep
    BY <1>5, <2>1, <2>2 DEF LoopStep, UsesQueue, DestroysSource, Service!LoopStep,
       queueVars, Service!queueVars, TriggerIds, Service!TriggerIds
  <2> QED
    BY <2>3 DEF Service!Next, Service!RtspThread
<1>6. CASE CloseStep
  <2>1. DestroysSource /\ thread = [thread EXCEPT !.at = "close"]
    BY <1>6, CloseDestroys, ThreadTyped DEF CloseStep, ServiceProofs!Thread
  <2>2. Service!CleanupSource \/ UNCHANGED Service!vars
    BY <1>6, <2>1 DEF CloseStep, DestroysSource, Service!CleanupSource, Service!ThreadAt,
       queueVars, Service!queueVars, Service!vars, Service!threads, TriggerIds,
       Service!TriggerIds
  <2> QED
    BY <2>2 DEF Service!Next, Service!RtspThread, Service!Cleanup
<1> QED
  BY <1>1, <1>2, <1>3, <1>4, <1>5, <1>6 DEF Next, RtspThread

\* What happens to the streams between two sessions and between two rounds: the
\* scheduler is made anew, the subsession too, and the queue is cleared.
BetweenRounds ==
  /\ UNCHANGED <<mutex, nals, readers, woken, alive, trigger, awaiting, playing, sendTask,
                 Handlers, lastStream, streamOf, dests, seen, call, src>>
  /\ lastTrigger' \in TriggerIds /\ sdp' \in BOOLEAN
  /\ phase' \in DOMAIN StreamProofs!Following
  /\ queue' \in {queue, <<>>}
  /\ pending' # pending => awaiting = {} /\ pending' = [id \in TriggerIds |-> NoData]

\* Every other step is one of LiveStream.tla, with the stop trigger as if it were
\* there all the time.
LEMMA StepIsStream ==
  ASSUME SystemInv, Next
  PROVE  StreamProofs!Next \/ BetweenRounds
<1>0. /\ lastTrigger \in TriggerIds /\ sdp \in BOOLEAN
      /\ phase \in DOMAIN StreamProofs!Following
      /\ call = "none" => src = NoData
      /\ StreamProofs!Following = Stream!Following
      /\ "select" \in DOMAIN StreamProofs!Following
      /\ Stream!StopTrigger \in TriggerIds
  <2>1. Stream!StopTrigger \in TriggerIds
    BY TriggersAgree DEF SystemInv, StreamProofs!StreamInv, StreamProofs!LoopTypes, Handlers
  <2> QED
    BY <2>1, TriggersAgree DEF SystemInv, StreamProofs!StreamInv, StreamProofs!LoopTypes,
       StreamProofs!Following, Stream!Following
<1>1. ASSUME UNCHANGED streamVars, UNCHANGED queueVars PROVE BetweenRounds
  BY <1>0, <1>1 DEF BetweenRounds, streamVars, sourceVars, queueVars, Handlers
<1>2. CASE ServiceStep /\ UNCHANGED streamVars
  <2>1. ASSUME NEW c \in Callers, Service!Calls(c) \/ Service!Control(c)
        PROVE  UNCHANGED queueVars
    BY <2>1 DEF Service!Calls, Service!Control, Service!StartWhileRunning, Service!Start,
       Service!StartAssign, Service!StartTerminates, Service!PollUrl, Service!PollRunning,
       Service!PollsOver, Service!GetUrl, Service!Exit, Service!StopNotRunning, Service!Stop,
       Service!StopReadScheduler, Service!StopReadTrigger, Service!StopTriggerEvent,
       Service!StopJoinable, Service!StopJoin, Service!StopJoinThrows, Service!StopJoined,
       Service!StopFinish, Service!Destroy, queueVars, Service!queueVars
  <2>2. ASSUME NEW p \in Producers, Service!PushH264(p) \/ Service!PushGoesOn(p)
        PROVE  StreamProofs!Next
    <3>1. StreamProofs!Queue!Push(p)
      BY <2>2, PushesAgree DEF Service!PushH264, Service!PushGoesOn
    <3>2. UNCHANGED StreamProofs!otherVars
      BY <1>2 DEF streamVars, sourceVars, Handlers, StreamProofs!otherVars,
         StreamProofs!sourceVars, StreamProofs!readVars, StreamProofs!tableVars,
         StreamProofs!clientVars, StreamProofs!loopVars
    <3> QED
      BY <3>1, <3>2 DEF StreamProofs!Next
  <2> QED
    BY <1>1, <1>2, <2>1, <2>2 DEF ServiceStep
<1>3. CASE ThreadStep /\ UNCHANGED streamVars
  <2>1. CASE Service!CleanupScheduler
    <3>1. awaiting = {}
      BY <2>1, NoServerNoStream, SystemFields DEF Service!CleanupScheduler,
         ServiceProofs!Fields, ServiceProofs!FieldsFollowThread
    <3> QED
      BY <1>0, <1>3, <2>1, <3>1 DEF Service!CleanupScheduler, BetweenRounds, streamVars,
         sourceVars, Handlers, TriggerIds, Service!TriggerIds
  <2>2. CASE Service!CleanupQueue
    BY <1>0, <1>3, <2>2 DEF Service!CleanupQueue, Service!Queue!Clear, BetweenRounds,
       streamVars, sourceVars, Handlers
  <2>3. CASE UNCHANGED queueVars
    BY <1>1, <1>3, <2>3
  <2> QED
    BY <1>3, <2>1, <2>2, <2>3 DEF ThreadStep, Service!SetupScheduler, Service!SetupServer,
       Service!SetupFails, Service!CleanupForget, Service!ThreadEnds, queueVars,
       Service!queueVars
<1>4. CASE SetupTrigger
  <2>1. Handlers = {Stream!StopTrigger} /\ UNCHANGED queueVars
    BY <1>4, NoServerNoStream, SystemFields DEF SetupTrigger, Service!SetupTrigger,
       Service!ThreadAt, ServiceProofs!Fields, ServiceProofs!FieldsFollowThread, queueVars,
       Service!queueVars
  <2> QED
    BY <1>0, <1>4, <2>1 DEF SetupTrigger, BetweenRounds, sourceVars, queueVars, Handlers
<1>5. CASE SetupUrl
  BY <1>0, <1>5 DEF SetupUrl, Service!SetupUrl, BetweenRounds, sourceVars, queueVars,
     Handlers, Service!queueVars
<1>6. CASE LoopChecksWatch
  <2>1. UNCHANGED queueVars
    BY <1>6 DEF LoopChecksWatch, Service!LoopChecksWatch, queueVars, Service!queueVars
  <2>2. CASE Stream!EndLoop
    BY <2>2, EndLoopAgrees DEF StreamProofs!Next
  <2> QED
    BY <1>1, <1>6, <2>1, <2>2 DEF LoopChecksWatch
<1>7. CASE HandleStopEvent
  BY <1>0, <1>7, TriggersAgree DEF HandleStopEvent, StopEventIsNext, Stream!InPhase,
     Stream!Return, Stream!Following, BetweenRounds, queueVars, Handlers
<1>8. CASE LoopStep(Stream!Loop) \/ LoopStep(Stream!Request)
  <2>1. Stream!StopTrigger \in handlers /\ (Stream!Loop \/ Stream!Request)
    BY <1>8 DEF LoopStep, SystemInv, TableFollowsThread
  <2> QED
    BY <2>1, LoopAgrees, RequestAgrees DEF SystemInv, StreamProofs!Next
<1>9. CASE CleanupTrigger
  BY <1>0, <1>9 DEF CleanupTrigger, Service!CleanupTrigger, BetweenRounds, sourceVars,
     queueVars, Handlers, Service!queueVars
<1>10. CASE CloseStep
  BY <1>10, CloseDestroys
<1>11. CASE CleanupServer
  BY <1>1, <1>11 DEF CleanupServer, Service!CleanupServer, queueVars, Service!queueVars
<1> QED
  BY <1>2, <1>3, <1>4, <1>5, <1>6, <1>7, <1>8, <1>9, <1>10, <1>11 DEF Next, RtspThread

--------------------------------------------------------------------------------
(* The invariant is kept *)

\* Nothing that is between two sessions or two rounds matters to a source.
LEMMA BetweenKeepsStream ==
  ASSUME SystemInv, BetweenRounds
  PROVE  StreamProofs!StreamInv' /\ StreamProofs!WakeInv'
<1>1. /\ StreamProofs!LoopTypes /\ StreamProofs!TriggersSuffice /\ StreamProofs!ReadersMatch
      /\ StreamProofs!OneReadAtATime /\ StreamProofs!OneLiveStream /\ StreamProofs!HandlerRuns
  BY DEF SystemInv, StreamProofs!StreamInv
<1>2. StreamProofs!LoopTypes'
  BY <1>1, TriggersAgree DEF BetweenRounds, StreamProofs!LoopTypes
<1>3. StreamProofs!TriggersSuffice'
  BY <1>1 DEF BetweenRounds, StreamProofs!TriggersSuffice
<1>4. StreamProofs!ReadersMatch'
  BY <1>1 DEF BetweenRounds, StreamProofs!ReadersMatch, StreamProofs!IsReader,
     StreamProofs!Queue!Reader
<1>5. StreamProofs!OneReadAtATime' /\ StreamProofs!OneLiveStream' /\ StreamProofs!HandlerRuns'
  BY <1>1 DEF BetweenRounds, StreamProofs!OneReadAtATime, StreamProofs!OneLiveStream,
     StreamProofs!HandlerRuns
<1>6. /\ StreamProofs!EventsReachLiveSources /\ StreamProofs!NoLostWakeup
      /\ StreamProofs!WakesLast /\ StreamProofs!SeenTypes
  BY DEF SystemInv, StreamProofs!WakeInv
<1>7. StreamProofs!EventsReachLiveSources'
  BY <1>6, TriggersAgree DEF BetweenRounds, StreamProofs!EventsReachLiveSources
<1>8. StreamProofs!NoLostWakeup'
  BY <1>6 DEF BetweenRounds, StreamProofs!NoLostWakeup, StreamProofs!Queue!Reader
<1>9. StreamProofs!WakesLast' /\ StreamProofs!SeenTypes'
  BY <1>6 DEF BetweenRounds, StreamProofs!WakesLast, StreamProofs!SeenTypes
<1> QED
  BY <1>2, <1>3, <1>4, <1>5, <1>7, <1>8, <1>9 DEF StreamProofs!StreamInv,
     StreamProofs!WakeInv

LEMMA StepKeepsStream ==
  ASSUME SystemInv, Next
  PROVE  StreamProofs!StreamInv' /\ StreamProofs!WakeInv'
<1>1. StreamProofs!StreamInv /\ StreamProofs!WakeInv
  BY DEF SystemInv
<1>2. StreamProofs!Queue!TypeOK
  <2>1. ServiceProofs!QueueProofs!TypeOK
    BY DEF SystemInv, ServiceProofs!ServiceInv, ServiceProofs!QueueProofs!QueueInv
  <2> QED
    BY <2>1 DEF ServiceProofs!QueueProofs!TypeOK, StreamProofs!Queue!TypeOK,
       ServiceProofs!QueueProofs!TriggerIds, StreamProofs!Queue!TriggerIds,
       ServiceProofs!QueueProofs!Nals, StreamProofs!Queue!Nals,
       ServiceProofs!QueueProofs!Nalus, StreamProofs!Queue!Nalus,
       ServiceProofs!QueueProofs!Readers, StreamProofs!Queue!Readers,
       ServiceProofs!QueueProofs!NalTypes, StreamProofs!Queue!NalTypes
<1>3. CASE StreamProofs!Next
  <2>1. StreamProofs!StreamInv'
    BY <1>1, <1>3, StreamParameters, NumTriggersAssumption, StreamProofs!StepKeepsStream
  <2> QED
    BY <1>1, <1>2, <1>3, <2>1, StreamParameters, NumTriggersAssumption,
       StreamProofs!StepKeepsWake
<1> QED
  BY <1>3, StepIsStream, BetweenKeepsStream

LEMMA LoopKeepsTable ==
  ASSUME SystemInv, Stream!StopTrigger \in handlers, Stream!Loop \/ Stream!Request
  PROVE  /\ Stream!StopTrigger \in handlers'
         /\ phase # "close" => phase' # "close"
         /\ phase' = "close" => call' \in {"none", "unregister", "delete"}
<1>1. phase = "close" => call \in {"none", "unregister", "delete"}
  BY DEF SystemInv, TableFollowsThread
<1>2. phase \in DOMAIN Stream!Following
  BY DEF SystemInv, StreamProofs!StreamInv, StreamProofs!LoopTypes, StreamProofs!Following,
     Stream!Following
<1>3. Stream!StopTrigger \in handlers'
  <2>1. CASE Stream!DeleteTrigger
    <3>1. trigger[src] # Stream!StopTrigger
      BY <2>1, TriggersAgree DEF Stream!DeleteTrigger, SystemInv, StreamProofs!StreamInv,
         StreamProofs!HandlerRuns
    <3> QED
      BY <2>1, <3>1 DEF Stream!DeleteTrigger, Stream!TriggerGivenBack
  <2>2. CASE handlers \subseteq handlers'
    BY <2>2
  <2> QED
    BY <2>1, <2>2 DEF Stream!Loop, Stream!Request, Stream!RegisterSource,
       Stream!UnregisterSource, Stream!DeliverFrame, Stream!DeliverNothing,
       Stream!NoRequest, Stream!NoEvent, Stream!RunTrigger, Stream!NoAlarm, Stream!SendNext,
       Stream!Describe, Stream!SetupShared, Stream!SetupNew, Stream!NewSource, Stream!Play,
       Stream!Teardown, Stream!tableVars
<1>4. CASE Stream!Loop
  BY <1>1, <1>2, <1>3, <1>4 DEF Stream!Loop, Stream!RegisterSource, Stream!UnregisterSource,
     Stream!DeleteTrigger, Stream!DeliverFrame, Stream!DeliverNothing, Stream!NoRequest,
     Stream!NoEvent, Stream!RunTrigger, Stream!NoAlarm, Stream!SendNext,
     Stream!GetNextFrame, Stream!Return, Stream!Continue, Stream!InPhase, Stream!Following
<1>5. CASE Stream!Request
  BY <1>1, <1>2, <1>3, <1>5 DEF Stream!Request, Stream!Describe, Stream!SetupShared,
     Stream!SetupNew, Stream!NewSource, Stream!Play, Stream!Teardown, Stream!GetNextFrame,
     Stream!Return, Stream!Continue, Stream!InPhase, Stream!Following
<1> QED
  BY <1>4, <1>5

\* A caller begins a thread or leaves it where it is.
LEMMA CallsMoveThread ==
  ASSUME thread \in ServiceProofs!Thread, NEW c \in Callers,
         Service!Calls(c) \/ Service!Control(c)
  PROVE  /\ thread'.at = thread.at \/ thread'.at = "scheduler"
         /\ ~Service!Start(c) => thread'.at = thread.at
<1>1. CASE Service!Start(c)
  BY <1>1 DEF Service!Start, Service!NotAThread
<1>2. CASE Service!StopTriggerEvent(c)
  <2>1. thread' = thread \/ \E b : thread' = [thread EXCEPT !.stopEvent = b]
    BY <1>2 DEF Service!StopTriggerEvent
  <2> QED
    BY <2>1 DEF ServiceProofs!Thread
<1>3. CASE UNCHANGED thread
  BY <1>3
<1> QED
  BY <1>1, <1>2, <1>3 DEF Service!Calls, Service!Control, Service!StartWhileRunning,
     Service!StartAssign, Service!StartTerminates, Service!PollUrl, Service!PollRunning,
     Service!PollsOver, Service!GetUrl, Service!Exit, Service!StopNotRunning, Service!Stop,
     Service!StopReadScheduler, Service!StopReadTrigger, Service!StopJoinable,
     Service!StopJoin, Service!StopJoinThrows, Service!StopJoined, Service!StopFinish,
     Service!Destroy, Service!threads

\* The stop trigger is made before the loop begins and deleted after it has ended.
LEMMA StepKeepsTable ==
  ASSUME SystemInv, Next
  PROVE  TableFollowsThread'
<1> USE ThreadTyped DEF TableFollowsThread
<1>1. TableFollowsThread
  BY DEF SystemInv
<1>2. CASE ServiceStep /\ UNCHANGED streamVars
  <2>1. thread'.at = thread.at \/ thread'.at = "scheduler"
    BY <1>2, CallsMoveThread DEF ServiceStep, Service!PushH264, Service!PushGoesOn,
       Service!threads
  <2>2. UNCHANGED <<handlers, phase, call>>
    BY <1>2 DEF streamVars, sourceVars
  <2> QED
    BY <1>1, <2>1, <2>2
<1>3. CASE ThreadStep /\ UNCHANGED streamVars
  <2>1. UNCHANGED <<handlers, phase, call>>
    BY <1>3 DEF streamVars, sourceVars
  <2> QED
    BY <1>1, <1>3, <2>1 DEF ThreadStep, Service!SetupScheduler, Service!SetupServer,
       Service!SetupFails, Service!CleanupScheduler, Service!CleanupForget,
       Service!CleanupQueue, Service!ThreadEnds, Service!ThreadAt, ServiceProofs!Thread
<1>4. CASE SetupTrigger \/ SetupUrl \/ CleanupTrigger \/ CleanupServer
  BY <1>1, <1>4 DEF SetupTrigger, SetupUrl, CleanupTrigger, CleanupServer,
     Service!SetupTrigger, Service!SetupUrl, Service!CleanupTrigger, Service!CleanupServer,
     Service!ThreadAt, ServiceProofs!Thread, sourceVars, streamVars
<1>5. CASE LoopChecksWatch
  BY <1>1, <1>5 DEF LoopChecksWatch, Service!LoopChecksWatch, Service!ThreadAt,
     ServiceProofs!Thread, Stream!EndLoop, Stream!InPhase, Stream!tableVars, streamVars,
     sourceVars
<1>6. CASE HandleStopEvent
  BY <1>1, <1>6 DEF HandleStopEvent, StopEventIsNext, Stream!InPhase, Stream!Return,
     Stream!Following, ServiceProofs!Thread
<1>7. CASE LoopStep(Stream!Loop) \/ LoopStep(Stream!Request)
  BY <1>1, <1>7, LoopKeepsTable DEF LoopStep, ServiceProofs!Thread
<1>8. CASE CloseStep
  BY <1>1, <1>8, CloseDestroys DEF CloseStep
<1> QED
  BY <1>2, <1>3, <1>4, <1>5, <1>6, <1>7, <1>8 DEF Next, RtspThread

\* Only cleanupLive555 does without the server, once its sessions have ended, and
\* until the next is made nothing registers, plays or is woken.
LEMMA StepKeepsRest ==
  ASSUME SystemInv, Next, StreamProofs!StreamInv', StreamProofs!WakeInv'
  PROVE  NoStreamWithoutServer'
<1> SUFFICES ASSUME ~svc'.server PROVE NoStreamWithoutServer'
  BY DEF NoStreamWithoutServer
<1>1. svc \in ServiceProofs!Service
  BY ThreadTyped
<1>2. CASE CleanupServer
  <2>1. readers' = {} /\ call' = "none" /\ \A c \in Clients : streamOf'[c] = NoData
    BY <1>2, SystemFields DEF CleanupServer, Service!CleanupServer, Service!SourcesClosed,
       SessionsEnded, ServiceProofs!SessionOfOneCaller, ServiceProofs!Fields,
       ServiceProofs!FieldsFollowThread, Service!queueVars, streamVars, sourceVars
  <2>2. alive' = {}
    BY <2>1, TriggersAgree, SystemAssumption DEF StreamProofs!StreamInv,
       StreamProofs!OneLiveStream, StreamProofs!HandlerRuns, StreamProofs!LoopTypes
  <2>3. Awaiting(pending)' = {}
    BY <2>2, TriggersAgree DEF StreamProofs!WakeInv, StreamProofs!EventsReachLiveSources,
       Awaiting
  <2> QED
    BY <2>1, <2>2, <2>3 DEF NoStreamWithoutServer
<1>3. ASSUME ~svc.server, UNCHANGED streamVars,
             UNCHANGED readers, pending' \in {pending, [id \in TriggerIds |-> NoData]}
      PROVE  NoStreamWithoutServer'
  BY <1>3 DEF SystemInv, NoStreamWithoutServer, streamVars, sourceVars, Awaiting
<1>4. CASE ServiceStep /\ UNCHANGED streamVars
  <2>1. ASSUME NEW c \in Callers, Service!Calls(c) \/ Service!Control(c)
        PROVE  UNCHANGED queueVars /\ svc'.server = svc.server
    BY <1>1, <2>1 DEF Service!Calls, Service!Control, Service!StartWhileRunning,
       Service!Start, Service!StartAssign, Service!StartTerminates, Service!PollUrl,
       Service!PollRunning, Service!PollsOver, Service!GetUrl, Service!Exit,
       Service!StopNotRunning, Service!Stop, Service!StopSet, Service!StopReadScheduler,
       Service!StopReadTrigger,
       Service!StopTriggerEvent, Service!StopJoinable, Service!StopJoin, Service!StopJoinThrows,
       Service!StopJoined, Service!StopFinish, Service!Destroy, Service!NewSession,
       ServiceProofs!Service, queueVars, Service!queueVars
  <2>2. ASSUME NEW p \in Producers, Service!PushH264(p) \/ Service!PushGoesOn(p), ~svc.server
        PROVE  UNCHANGED <<readers, pending>>
    <3>1. readers = {}
      BY <2>2 DEF SystemInv, NoStreamWithoutServer
    <3> QED
      BY <2>2, <3>1 DEF Service!PushH264, Service!PushGoesOn, Service!Queue!PushAnnexBFrame,
         Service!Queue!FinishPush, Service!Queue!Lock, Service!Queue!PushPureNaluLocked,
         Service!Queue!WakeReaderLocked, Service!Queue!Unlock
  <2>3. CASE \E c \in Callers : Service!Calls(c) \/ Service!Control(c)
    BY <1>3, <1>4, <2>1, <2>3 DEF queueVars
  <2>4. CASE \E p \in Producers : Service!PushH264(p) \/ Service!PushGoesOn(p)
    <3>1. svc' = svc
      BY <2>4 DEF Service!PushH264, Service!PushGoesOn
    <3> QED
      BY <1>3, <1>4, <2>2, <2>4, <3>1
  <2> QED
    BY <1>4, <2>3, <2>4 DEF ServiceStep
<1>5. CASE ThreadStep /\ UNCHANGED streamVars
  <2>1. svc'.server = svc.server \/ svc'.server
    BY <1>1, <1>5 DEF ThreadStep, Service!SetupScheduler, Service!SetupServer,
       Service!SetupFails, Service!FieldsOfFailure, Service!CleanupScheduler,
       Service!CleanupForget, Service!CleanupQueue, Service!ThreadEnds,
       ServiceProofs!Service
  <2>2. UNCHANGED readers /\ pending' \in {pending, [id \in TriggerIds |-> NoData]}
    BY <1>5 DEF ThreadStep, Service!SetupScheduler, Service!SetupServer, Service!SetupFails,
       Service!CleanupScheduler, Service!CleanupForget, Service!CleanupQueue,
       Service!Queue!Clear, Service!ThreadEnds, Service!queueVars, Service!TriggerIds,
       TriggerIds
  <2> QED
    BY <1>3, <1>5, <2>1, <2>2
<1>6. CASE SetupTrigger \/ CleanupTrigger
  <2>1. /\ UNCHANGED <<readers, pending, alive, call, streamOf>>
        /\ svc'.server = svc.server
    BY <1>1, <1>6 DEF SetupTrigger, CleanupTrigger, Service!SetupTrigger,
       Service!CleanupTrigger, Service!queueVars, sourceVars, ServiceProofs!Service
  <2> QED
    BY <2>1 DEF SystemInv, NoStreamWithoutServer, Awaiting
<1>7. CASE SetupUrl \/ LoopChecksWatch \/ HandleStopEvent \/ CloseStep
           \/ LoopStep(Stream!Loop) \/ LoopStep(Stream!Request)
  <2>1. svc'.server = svc.server
    BY <1>1, <1>7 DEF SetupUrl, LoopChecksWatch, Service!SetupUrl, Service!LoopChecksWatch,
       HandleStopEvent, CloseStep, LoopStep, ServiceProofs!Service
  <2>2. thread.at \in {"url", "loop", "step"} \/ svc.server
    BY <1>7 DEF SetupUrl, LoopChecksWatch, Service!SetupUrl, Service!LoopChecksWatch,
       Service!ThreadAt, HandleStopEvent, CloseStep, LoopStep
  <2> QED
    BY <2>1, <2>2, NoServerNoStream
<1> QED
  BY <1>2, <1>4, <1>5, <1>6, <1>7 DEF Next, RtspThread

LEMMA StepKeepsSystem == SystemInv /\ [Next]_vars => SystemInv'
<1> SUFFICES ASSUME SystemInv, [Next]_vars PROVE SystemInv'
  OBVIOUS
<1>1. CASE Next
  <2>1. ServiceProofs!ServiceInv'
    <3>1. [ServiceProofs!Next]_ServiceProofs!vars
      BY <1>1, StepIsService, ServicesAgree DEF Service!vars, ServiceProofs!vars,
         Service!threads, ServiceProofs!threads, Service!queueVars, ServiceProofs!queueVars
    <3> QED
      BY <3>1, ServiceParameters, NumTriggersAssumption, ServiceProofs!StepKeepsService
         DEF SystemInv
  <2> QED
    BY <1>1, <2>1, StepKeepsStream, StepKeepsTable, StepKeepsRest DEF SystemInv
<1>2. CASE UNCHANGED vars
  <2>1. ServiceProofs!ServiceInv'
    <3>1. UNCHANGED ServiceProofs!vars
      BY <1>2 DEF vars, queueVars, ServiceProofs!vars, ServiceProofs!threads,
         ServiceProofs!queueVars
    <3> QED
      BY <3>1, ServiceParameters, NumTriggersAssumption, ServiceProofs!StepKeepsService
         DEF SystemInv
  <2>2. BetweenRounds
    BY <1>2, TriggersAgree DEF vars, queueVars, streamVars, sourceVars, Handlers,
       BetweenRounds, SystemInv, StreamProofs!StreamInv, StreamProofs!LoopTypes
  <2>3. TableFollowsThread' /\ NoStreamWithoutServer'
    BY <1>2 DEF vars, queueVars, streamVars, sourceVars, SystemInv, TableFollowsThread,
       NoStreamWithoutServer, Awaiting
  <2> QED
    BY <2>1, <2>2, <2>3, BetweenKeepsStream DEF SystemInv
<1> QED
  BY <1>1, <1>2

LEMMA SystemInductive == Spec => []SystemInv
  BY InitSystem, StepKeepsSystem, PTL DEF Spec

--------------------------------------------------------------------------------
\* The service with its real event loop, whatever clients do in it, is the service
\* of Live555RtspService.tla, so that all that is proved of that holds here.
THEOREM SystemImplementsService == Spec => ImplementsService
<1>1. Init => Service!Init
  BY DEF Init
<1>2. SystemInv /\ [Next]_vars => [Service!Next]_Service!vars
  <2>1. UNCHANGED vars => UNCHANGED Service!vars
    BY DEF vars, queueVars, Service!vars, Service!threads, Service!queueVars
  <2> QED
    BY <2>1, StepIsService
<1> QED
  BY <1>1, <1>2, SystemInductive, PTL DEF Spec, ImplementsService, Service!Spec

\* What a session leaves in the queue, and a close in the middle of a stream, break
\* nothing for the sources of the next session.
THEOREM StreamsStaySoundOverSessions == Spec => []StreamsOverSessions
<1>1. SystemInv => StreamsOverSessions
  <2> SUFFICES ASSUME SystemInv PROVE StreamsOverSessions
    OBVIOUS
  <2>1. Stream!NoLostWakeup
    BY DEF SystemInv, StreamProofs!WakeInv, StreamProofs!NoLostWakeup, Stream!NoLostWakeup,
       StreamProofs!Queue!Reader, Stream!Queue!Reader
  <2>2. Stream!EventsReachLiveSources
    BY TriggersAgree DEF SystemInv, StreamProofs!WakeInv,
       StreamProofs!EventsReachLiveSources, Stream!EventsReachLiveSources,
       StreamProofs!StreamInv, StreamProofs!HandlerRuns, Handlers
  <2>3. Stream!ReadersAreSources
    BY DEF SystemInv, StreamProofs!StreamInv, StreamProofs!ReadersMatch,
       StreamProofs!IsReader, StreamProofs!Queue!Reader, Stream!Queue!Reader,
       Stream!ReadersAreSources
  <2>4. Stream!OneReadAtATime /\ Stream!OneLiveStream
    BY TriggersAgree DEF SystemInv, StreamProofs!StreamInv, StreamProofs!OneReadAtATime,
       Stream!OneReadAtATime, StreamProofs!OneLiveStream, Stream!OneLiveStream
  <2>5. Stream!NoSourceWithoutClient
    <3>1. StreamProofs!NoSourceWithoutClient
      BY StreamParameters, NumTriggersAssumption, StreamProofs!NoClientNoSource DEF SystemInv
    <3> QED
      BY <3>1, TriggersAgree DEF StreamProofs!NoSourceWithoutClient,
         Stream!NoSourceWithoutClient
  <2> QED
    BY <2>1, <2>2, <2>3, <2>4, <2>5 DEF StreamsOverSessions
<1> QED
  BY <1>1, SystemInductive, PTL

\* cleanupLive555 leaves no source, no reader and no event to the next session.
THEOREM ClosedServerLeavesNoStream == Spec => []NoStreamWithoutServer
<1>1. SystemInv => NoStreamWithoutServer
  BY DEF SystemInv
<1> QED
  BY <1>1, SystemInductive, PTL

--------------------------------------------------------------------------------
(* The way of the RTSP thread *)

\* What the loop has left of a round, place by place.
LEMMA LeftOfRound ==
  ASSUME NEW p \in {"select", "trigger", "alarm", "close"},
         NEW k \in {"none", "register", "deliver", "unregister", "delete"}
  PROVE  [select |-> 10, trigger |-> 5, alarm |-> 0, close |-> 0][p]
           + [none |-> IF p = "close" THEN 0 ELSE 4,
              register |-> 3, unregister |-> 2, delete |-> 1, deliver |-> 1][k]
         = (IF p = "select" THEN 10 ELSE IF p = "trigger" THEN 5 ELSE 0)
             + (IF k = "none" THEN IF p = "close" THEN 0 ELSE 4
                ELSE IF k = "register" THEN 3 ELSE IF k = "unregister" THEN 2 ELSE 1)
  OBVIOUS

LEMMA PhaseTyped ==
  ASSUME SystemInv, phase # "close"
  PROVE  /\ phase \in {"select", "trigger", "alarm"}
         /\ call \in {"none", "register", "deliver", "unregister", "delete"}
  BY DEF SystemInv, StreamProofs!StreamInv, StreamProofs!LoopTypes, StreamProofs!Following

\* A handler that returns ends the round or takes the loop to its next phase, ...
LEMMA ReturnEndsPhase ==
  ASSUME SystemInv, phase # "close", Stream!Return
  PROVE  RoundOver \/ RoundLeft' < RoundLeft
<1>1. call' = "none"
  BY DEF Stream!Return
<1>2. \/ phase = "alarm" /\ phase' = "select"
      \/ phase = "select" /\ phase' = "trigger"
      \/ phase = "trigger" /\ phase' = "alarm"
  BY PhaseTyped DEF Stream!Return, Stream!Following
<1> QED
  BY <1>1, <1>2, PhaseTyped, LeftOfRound DEF RoundOver, RoundLeft

\* ... and one that goes on does it with less than it had before.
LEMMA HandlerGoesOn ==
  ASSUME SystemInv, phase # "close",
         NEW s, NEW k \in {"register", "unregister", "delete", "deliver"}, Stream!Continue(k, s),
         \/ call = "none"
         \/ call = "register" /\ k = "unregister"
         \/ call = "unregister" /\ k = "delete"
  PROVE  RoundLeft' < RoundLeft
<1>1. call' = k /\ phase' = phase
  BY DEF Stream!Continue
<1> QED
  BY <1>1, PhaseTyped, LeftOfRound DEF RoundLeft

LEMMA LoopEndsRound ==
  ASSUME SystemInv, phase # "close", Stream!Loop \/ Stream!Request
  PROVE  RoundOver \/ RoundLeft' < RoundLeft
<1> DEFINE Goal == RoundOver \/ RoundLeft' < RoundLeft
<1>1. CASE Stream!Return
  BY <1>1, ReturnEndsPhase
<1>2. ASSUME NEW s, call = "none",
             \E k \in {"register", "unregister", "deliver"} : Stream!Continue(k, s)
      PROVE  Goal
  BY <1>2, HandlerGoesOn
<1>3. CASE Stream!RegisterSource
  <2>1. Stream!Return \/ Stream!Continue("unregister", src)
    BY <1>3 DEF Stream!RegisterSource
  <2>2. call = "register"
    BY <1>3 DEF Stream!RegisterSource
  <2> QED
    BY <1>1, <2>1, <2>2, HandlerGoesOn
<1>4. CASE Stream!UnregisterSource
  <2>1. call = "unregister" /\ Stream!Continue("delete", src)
    BY <1>4 DEF Stream!UnregisterSource
  <2> QED
    BY <2>1, HandlerGoesOn
<1>5. CASE \/ Stream!DeleteTrigger \/ Stream!DeliverFrame \/ Stream!DeliverNothing
           \/ Stream!NoRequest \/ Stream!NoEvent \/ Stream!NoAlarm
  <2>1. Stream!Return
    BY <1>5 DEF Stream!DeleteTrigger, Stream!DeliverFrame, Stream!DeliverNothing,
       Stream!NoRequest, Stream!NoEvent, Stream!NoAlarm
  <2> QED
    BY <1>1, <2>1
<1>6. CASE Stream!RunTrigger
  <2>1. call = "none" /\ (Stream!Return \/ \E s : Stream!Continue("deliver", s))
    BY <1>6 DEF Stream!RunTrigger, Stream!InPhase
  <2> QED
    BY <1>1, <1>2, <2>1
<1>7. ASSUME NEW s \in Sources, Stream!SendNext(s) PROVE Goal
  <2>1. call = "none" /\ Stream!Continue("deliver", s)
    BY <1>7 DEF Stream!SendNext, Stream!InPhase, Stream!GetNextFrame
  <2> QED
    BY <1>2, <2>1
<1>8. ASSUME NEW s \in Sources,
             Stream!Describe(s) \/ \E c \in Clients : Stream!SetupNew(c, s)
      PROVE  Goal
  <2>1. call = "none" /\ Stream!Continue("register", s)
    BY <1>8 DEF Stream!Describe, Stream!SetupNew, Stream!InPhase, Stream!NewSource
  <2> QED
    BY <1>2, <2>1
<1>9. ASSUME NEW c \in Clients, Stream!SetupShared(c) \/ Stream!Play(c) \/ Stream!Teardown(c)
      PROVE  Goal
  <2>1. /\ call = "none"
        /\ \/ Stream!Return
           \/ Stream!Continue("deliver", streamOf[c])
           \/ Stream!Continue("unregister", streamOf[c])
    BY <1>9 DEF Stream!SetupShared, Stream!Play, Stream!Teardown, Stream!InPhase,
       Stream!GetNextFrame
  <2> QED
    BY <1>1, <1>2, <2>1
<1> QED
  BY <1>3, <1>4, <1>5, <1>6, <1>7, <1>8, <1>9 DEF Stream!Loop, Stream!Request

\* A server that is closed ends a session, or goes on with the end of one.
LEMMA CloseMovesOn ==
  ASSUME SystemInv, CloseStep
  PROVE  Sessions' \subseteq Sessions /\ (Sessions' = Sessions => RoundLeft' < RoundLeft)
<1>1. phase = "close" /\ call \in {"none", "unregister", "delete"}
  BY DEF CloseStep, SystemInv, TableFollowsThread
<1>2. ASSUME NEW c \in Clients, Stream!Teardown(c)
      PROVE  Sessions' \subseteq Sessions /\ Sessions' # Sessions
  <2>1. c \in Sessions /\ streamOf' = [streamOf EXCEPT ![c] = NoData]
    BY <1>2, TriggersAgree DEF Stream!Teardown, Sessions
  <2>2. streamOf \in [Clients -> Sources \cup {NoData}]
    BY TriggersAgree DEF SystemInv, StreamProofs!StreamInv, StreamProofs!LoopTypes
  <2>3. c \notin Sessions' /\ \A d \in Clients : d \in Sessions' => d \in Sessions
    BY <2>1, <2>2 DEF Sessions
  <2> QED
    BY <2>1, <2>3 DEF Sessions
<1>3. CASE Stream!Loop
  <2>1. Stream!UnregisterSource \/ Stream!DeleteTrigger
    BY <1>1, <1>3 DEF Stream!Loop, Stream!RegisterSource, Stream!DeliverFrame,
       Stream!DeliverNothing, Stream!NoRequest, Stream!NoEvent, Stream!RunTrigger,
       Stream!NoAlarm, Stream!SendNext, Stream!InPhase
  <2>2. phase' = "close" /\ \/ call = "unregister" /\ call' = "delete"
                            \/ call = "delete" /\ call' = "none"
    BY <1>1, <2>1 DEF Stream!UnregisterSource, Stream!DeleteTrigger, Stream!Continue,
       Stream!Return, Stream!Following
  <2>3. RoundLeft' < RoundLeft
    BY <1>1, <2>2, LeftOfRound DEF RoundLeft
  <2>4. UNCHANGED streamOf
    BY <2>1 DEF Stream!UnregisterSource, Stream!DeleteTrigger, Stream!clientVars
  <2> QED
    BY <2>3, <2>4 DEF Sessions
<1> QED
  BY <1>2, <1>3 DEF CloseStep

LEMMA StagesInOrder ==
  /\ StagesLeft["scheduler"] = 12 /\ StagesLeft["trigger"] = 11 /\ StagesLeft["server"] = 10
  /\ StagesLeft["url"] = 9 /\ StagesLeft["step"] = 8 /\ StagesLeft["loop"] = 7
  /\ StagesLeft["cleanup"] = 6 /\ StagesLeft["close"] = 5 /\ StagesLeft["delete"] = 4
  /\ StagesLeft["forget"] = 3 /\ StagesLeft["clear"] = 2 /\ StagesLeft["end"] = 1
  /\ StagesLeft["exited"] = 0
  BY DEF StagesLeft

\* Every step of the RTSP thread brings it nearer to its end, or begins a round since no
\* stop has been asked for; every other step but a start leaves it and the loop alone.
LEMMA StepMovesThread ==
  ASSUME SystemInv, Next
  PROVE  UNCHANGED <<thread.at, streamVars>> \/ MovesOn \/ NewRound \/ NewSession
<1> USE ThreadTyped
<1>1. CASE ServiceStep /\ UNCHANGED streamVars
  <2>1. ASSUME NEW c \in Callers, Service!Start(c) PROVE NewSession
    <3>1. ~svc.running /\ thread' = [Service!NotAThread EXCEPT !.at = "scheduler"]
      BY <2>1 DEF Service!Start
    <3>2. thread.at \in Service!Ended
      BY <3>1, SystemFields DEF Service!Ended, ServiceProofs!Ended,
         ServiceProofs!SessionOfOneCaller
    <3> QED
      BY <3>1, <3>2 DEF Service!NotAThread, NewSession
  <2>2. ASSUME NEW c \in Callers, Service!Calls(c) \/ Service!Control(c), ~Service!Start(c)
        PROVE  UNCHANGED thread.at
    BY <2>2, CallsMoveThread
  <2>3. ASSUME NEW p \in Producers, Service!PushH264(p) \/ Service!PushGoesOn(p)
        PROVE  UNCHANGED thread.at
    BY <2>3 DEF Service!PushH264, Service!PushGoesOn, Service!threads
  <2> QED
    BY <1>1, <2>1, <2>2, <2>3 DEF ServiceStep
<1>2. CASE ThreadStep
  <2>1. \/ thread.at = "scheduler" /\ thread'.at = "trigger"
        \/ thread.at = "server" /\ thread'.at \in {"url", "cleanup"}
        \/ thread.at = "delete" /\ thread'.at = "forget"
        \/ thread.at = "forget" /\ thread'.at = "clear"
        \/ thread.at = "clear" /\ thread'.at = "end"
        \/ thread.at = "end" /\ thread'.at = "exited"
    BY <1>2 DEF ThreadStep, Service!SetupScheduler, Service!SetupServer, Service!SetupFails,
       Service!CleanupScheduler, Service!CleanupForget, Service!CleanupQueue,
       Service!ThreadEnds, Service!ThreadAt, ServiceProofs!Thread
  <2> QED
    BY <2>1, StagesInOrder DEF MovesOn
<1>3. CASE SetupTrigger \/ SetupUrl \/ CleanupTrigger \/ CleanupServer
  <2>1. \/ thread.at = "trigger" /\ thread'.at = "server"
        \/ thread.at = "url" /\ thread'.at = "loop"
        \/ thread.at = "cleanup" /\ thread'.at = "close"
        \/ thread.at = "close" /\ thread'.at = "delete"
    BY <1>3 DEF SetupTrigger, SetupUrl, CleanupTrigger, CleanupServer, Service!SetupTrigger,
       Service!SetupUrl, Service!CleanupTrigger, Service!CleanupServer, Service!ThreadAt,
       ServiceProofs!Thread
  <2> QED
    BY <2>1, StagesInOrder DEF MovesOn
<1>4. CASE LoopChecksWatch
  <2>1. thread.at = "loop" /\ thread'.at = IF svc.watch THEN "cleanup" ELSE "step"
    BY <1>4 DEF LoopChecksWatch, Service!LoopChecksWatch, Service!ThreadAt, ServiceProofs!Thread
  <2> QED
    BY <2>1, StagesInOrder DEF MovesOn, NewRound
<1>5. CASE HandleStopEvent
  <2>1. thread.at = "step" /\ thread'.at = "step" /\ phase = "trigger" /\ Stream!Return
    BY <1>5 DEF HandleStopEvent, StopEventIsNext, Stream!InPhase, ServiceProofs!Thread
  <2>2. RoundOver \/ RoundLeft' < RoundLeft
    BY <2>1, ReturnEndsPhase
  <2>3. phase' = "alarm"
    BY <2>1 DEF Stream!Return, Stream!Following
  <2> QED
    BY <2>1, <2>2, <2>3 DEF MovesOn, RoundOver
<1>6. CASE LoopStep(Stream!Loop) \/ LoopStep(Stream!Request)
  <2>1. /\ thread.at = "step" /\ thread'.at = IF RoundOver THEN "loop" ELSE "step"
        /\ Stream!Loop \/ Stream!Request
    BY <1>6 DEF LoopStep, ServiceProofs!Thread
  <2>2. RoundOver \/ RoundLeft' < RoundLeft
    BY <2>1, LoopEndsRound DEF SystemInv, TableFollowsThread
  <2> QED
    BY <2>1, <2>2, StagesInOrder DEF MovesOn
<1>7. CASE CloseStep
  BY <1>7, CloseMovesOn DEF CloseStep, MovesOn
<1> QED
  BY <1>1, <1>2, <1>3, <1>4, <1>5, <1>6, <1>7 DEF Next, RtspThread

\* Whatever clients request and encoders push, the RTSP thread only moves on: rounds and
\* the close of the server are bounded, and after stop() has set the watch variable no
\* round begins.
THEOREM ThreadOnlyMovesOn == Spec => ThreadMovesOn
<1>1. SystemInv /\ [Next]_vars
        => [UNCHANGED <<thread.at, streamVars>> \/ MovesOn \/ NewRound \/ NewSession]_vars
  BY StepMovesThread
<1> QED
  BY <1>1, SystemInductive, PTL DEF Spec, ThreadMovesOn

--------------------------------------------------------------------------------
(* What holds of the service *)

LEMMA ServiceSpecsAgree == Service!Spec => ServiceProofs!Spec
<1>1. [Service!Next]_Service!vars <=> [ServiceProofs!Next]_ServiceProofs!vars
  BY ServicesAgree DEF Service!vars, ServiceProofs!vars, Service!threads,
     ServiceProofs!threads, Service!queueVars, ServiceProofs!queueVars
<1> QED
  BY <1>1, ServicesAgree, PTL DEF Service!Spec, ServiceProofs!Spec

\* A push in flight, however late, wakes no source on a deleted scheduler: as
\* proved of the service, now with the sources themselves.
THEOREM SystemWakesLiveScheduler == Spec => []Service!PushWakesLiveScheduler
<1>1. ServiceProofs!PushWakesLiveScheduler => Service!PushWakesLiveScheduler
  BY DEF ServiceProofs!PushWakesLiveScheduler, Service!PushWakesLiveScheduler
<1> QED
  BY <1>1, ServiceSpecsAgree, SystemImplementsService, ServiceParameters,
     NumTriggersAssumption, ServiceProofs!PushesWakeLiveScheduler, PTL DEF ImplementsService

================================================================================
