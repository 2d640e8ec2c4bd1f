------------------------------ MODULE LiveStream ------------------------------
(***************************************************************************)
(* The live555 event loop thread with what the program plugs into it       *)
(* (src/src/myH264Source.cpp, src/src/myH264Subsession.cpp), next to the   *)
(* threads that push into the H264FrameQueue.                              *)
(*                                                                         *)
(* A round of the loop is BasicTaskScheduler::SingleStep: at most one      *)
(* readable socket (an RTSP request), then at most one triggered event,    *)
(* then at most one delayed task that is due.  The loop ends between two   *)
(* rounds, and the server is closed.  A handler is one step up to each     *)
(* call of it that takes the mutex_ of the queue, which is a step of its   *)
(* own, as a push may come between.                                        *)
(*                                                                         *)
(* A stream is the chain source, framer, RTP sink of an                    *)
(* OnDemandServerMediaSubsession; it is named by its MyH264Source.         *)
(***************************************************************************)
EXTENDS EventTriggers, Sequences

CONSTANTS Clients,  \* RTSP client sessions
          Producers, Sources, Frames, MaxQueuedNalus, MaxPushed, NoThread

VARIABLES mutex, nals, queue, readers, woken, sps, pps, pending, pushed, popped

queueVars == <<mutex, nals, queue, readers, woken, sps, pps, pending, pushed, popped>>

Queue == INSTANCE H264FrameQueue

VARIABLES alive,        \* the MyH264Source objects that exist
          trigger,      \* frameArrivedTrigger_ of each
          awaiting,     \* those with isCurrentlyAwaitingData()
          playing,      \* streams with fAreCurrentlyPlaying
          sendTask,     \* streams whose sink has its sendNext task scheduled
          handlers,     \* triggers the scheduler has a handler for
          lastTrigger,  \* fLastUsedTriggerNum of the scheduler
          sdp,          \* fSDPLines of the subsession is known
          lastStream,   \* fLastStreamToken of the subsession
          streamOf,     \* the stream token of each client
          dests,        \* the clients RTP packets are sent to
          seen,         \* the types of NAL each of these was sent since its PLAY
          phase,        \* where SingleStep is, "close" after the last
          call,         \* what the handler that runs does next
          src           \* and for which source

sourceVars == <<alive, trigger>>
readVars   == <<awaiting, playing, sendTask>>
tableVars  == <<handlers, lastTrigger>>
clientVars == <<lastStream, streamOf, dests, seen>>
loopVars   == <<phase, call, src>>

vars == <<queueVars, sourceVars, readVars, tableVars, sdp, clientVars, loopVars>>

NoSource == NoData

\* setupLive555 makes the stop trigger first; no push ever raises it.
StopTrigger == CreateEventTrigger({}, NumTriggers)

\* Enough triggers for the stop trigger, the live source and one that is being
\* made or destroyed (MAX_NUM_EVENT_TRIGGERS is 32).
ASSUME StreamAssumption == /\ NumTriggers >= 3
                           /\ MaxQueuedNalus \in Nat \ {0} /\ MaxPushed \in Nat
                           /\ Frames \subseteq Seq(Queue!NalTypes) \ {<<>>}
                           /\ NoThread \notin Producers /\ NoSource \notin Sources

Init == /\ Queue!Init
        /\ alive = {} /\ trigger = [s \in Sources |-> NoTrigger]
        /\ awaiting = {} /\ playing = {} /\ sendTask = {}
        /\ handlers = {StopTrigger} /\ lastTrigger = StopTrigger
        /\ sdp = FALSE
        /\ lastStream = NoSource
        /\ streamOf = [c \in Clients |-> NoSource]
        /\ dests = {} /\ seen = [c \in Clients |-> {}]
        /\ phase = "select" /\ call = "none" /\ src = NoSource

--------------------------------------------------------------------------------
(* The loop *)

Following == [select |-> "trigger", trigger |-> "alarm", alarm |-> "select", close |-> "close"]

\* The handler has returned.
Return == /\ phase' = Following[phase]
          /\ call' = "none"
          /\ src' = NoSource

\* The handler goes on with a step that takes the queue's mutex_.
Continue(step, s) == /\ call' = step
                     /\ src' = s
                     /\ UNCHANGED phase

InPhase(p) == phase = p /\ call = "none"

--------------------------------------------------------------------------------
(* MyH264Source *)

\* The constructor up to registerReader.
NewSource(s) ==
  /\ s \notin alive
  /\ alive' = alive \cup {s}
  /\ LET id == CreateEventTrigger(handlers, lastTrigger)
     IN  /\ trigger' = [trigger EXCEPT ![s] = id]
         /\ handlers' = handlers \cup ({id} \ {NoTrigger})
         /\ lastTrigger' = IF id = NoTrigger THEN lastTrigger ELSE id
  /\ Continue("register", s)

\* A slip: registerReader does without the lock.
RegisterUnlocked(id, s) ==
  /\ readers' = readers \cup {Queue!Reader(id, s)}
  /\ UNCHANGED <<mutex, nals, queue, woken, sps, pps, pending, pushed, popped>>

Register(id, s) == Queue!RegisterReader(id, s)

\* The rest of it.  The source sdpLines makes only to describe the stream is
\* closed again at once; one made by SETUP belongs to a client by now.
RegisterSource ==
  /\ call = "register"
  /\ Register(trigger[src], src)
  /\ IF \E c \in Clients : streamOf[c] = src THEN Return ELSE Continue("unregister", src)
  /\ UNCHANGED <<sourceVars, readVars, tableVars, sdp, clientVars>>

\* A slip: the destructor leaves the reader to the queue.
UnregisterForgotten(id) == UNCHANGED queueVars

Unregister(id) == Queue!UnregisterReader(id)

\* The destructor: the reader goes first, under the queue's mutex_, ...
UnregisterSource ==
  /\ call = "unregister"
  /\ Unregister(trigger[src])
  /\ Continue("delete", src)
  /\ UNCHANGED <<sourceVars, readVars, tableVars, sdp, clientVars>>

\* A slip of the scheduler: an event that waits outlives its trigger.
EventKept(id) == UNCHANGED queueVars

\* deleteEventTrigger drops the event that may be waiting.
EventDropped(id) ==
  IF id # NoTrigger /\ pending[id] # NoData THEN Queue!HandleEvent(id) ELSE UNCHANGED queueVars

\* A slip: the destructor does not give the trigger back.
TriggerKept(id) == handlers

TriggerGivenBack(id) == handlers \ {id}

\* ... and then the trigger.
DeleteTrigger ==
  /\ call = "delete"
  /\ EventDropped(trigger[src])
  /\ handlers' = TriggerGivenBack(trigger[src])
  /\ trigger' = [trigger EXCEPT ![src] = NoTrigger]
  /\ alive' = alive \ {src}
  /\ Return
  /\ UNCHANGED <<readVars, lastTrigger, sdp, clientVars>>

\* External: FramedSource::getNextFrame, which calls doGetNextFrame.
GetNextFrame(s) == /\ awaiting' = awaiting \cup {s}
                   /\ Continue("deliver", s)

\* A slip: the source is not asked again after a NALU has been sent.
NeverAsksAgain(s) == sendTask

\* What afterGetting leads to: the sink schedules sendNext, which reads the next
\* NALU after the last packet of this one is out.
AfterGetting(s) == sendTask \cup {s}

\* deliverFrame with a NALU in the queue: the sink sends it to every destination.
DeliverFrame ==
  /\ call = "deliver"
  /\ Queue!PopNalu
  /\ awaiting' = awaiting \ {src}
  /\ sendTask' = AfterGetting(src)
  /\ seen' = [c \in Clients |-> IF c \in dests /\ streamOf[c] = src
                                  THEN seen[c] \cup {Head(queue).type} ELSE seen[c]]
  /\ Return
  /\ UNCHANGED <<sourceVars, playing, tableVars, sdp, lastStream, streamOf, dests>>

\* deliverFrame with an empty queue: the source keeps waiting for its trigger.
DeliverNothing ==
  /\ call = "deliver"
  /\ Queue!PopFails
  /\ Return
  /\ UNCHANGED <<sourceVars, readVars, tableVars, sdp, clientVars>>

--------------------------------------------------------------------------------
(* RTSP requests *)

NoRequest == /\ InPhase("select")
             /\ Return
             /\ UNCHANGED <<queueVars, sourceVars, readVars, tableVars, sdp, clientVars>>

\* External: DESCRIBE.  sdpLines makes a source with createNewStreamSource to
\* learn the SDP lines, and closes it unread; later requests find the lines.
Describe(s) ==
  /\ InPhase("select") /\ ~sdp
  /\ NewSource(s)
  /\ sdp' = TRUE
  /\ UNCHANGED <<queueVars, readVars, clientVars>>

\* A slip: the other value, the default of OnDemandServerMediaSubsession.
NoReuse == FALSE

\* The argument MyH264Subsession gives to OnDemandServerMediaSubsession.
ReuseFirstSource == TRUE

\* External: getStreamParameters.  A client joins the stream that is there, ...
SetupShared(c) ==
  /\ InPhase("select") /\ streamOf[c] = NoSource
  /\ ReuseFirstSource /\ lastStream # NoSource
  /\ streamOf' = [streamOf EXCEPT ![c] = lastStream]
  /\ Return
  /\ UNCHANGED <<queueVars, sourceVars, readVars, tableVars, sdp, lastStream, dests, seen>>

\* ... or gets a new one, made with createNewStreamSource.
SetupNew(c, s) ==
  /\ InPhase("select") /\ streamOf[c] = NoSource
  /\ ~(ReuseFirstSource /\ lastStream # NoSource)
  /\ NewSource(s)
  /\ streamOf' = [streamOf EXCEPT ![c] = s]
  /\ lastStream' = s
  /\ UNCHANGED <<queueVars, readVars, sdp, dests, seen>>

\* External: startStream.  The sink starts to read with the first PLAY.
Play(c) ==
  /\ InPhase("select") /\ streamOf[c] # NoSource /\ c \notin dests
  /\ dests' = dests \cup {c}
  /\ IF streamOf[c] \in playing
       THEN Return /\ UNCHANGED <<playing, awaiting>>
       ELSE playing' = playing \cup {streamOf[c]} /\ GetNextFrame(streamOf[c])
  /\ UNCHANGED <<queueVars, sourceVars, sendTask, tableVars, sdp, lastStream, streamOf, seen>>

\* External: what deleteStream does to fLastStreamToken.
ForgetStream(s) == lastStream' = IF lastStream = s THEN NoSource ELSE lastStream

\* A slip: the sink's delayed task is not unscheduled when the sink is closed.
SinkClosedKeepsTask(s) ==
  /\ playing' = playing \ {s} /\ awaiting' = awaiting \ {s}
  /\ UNCHANGED sendTask

\* External: Medium::close of the sink, which calls stopGettingFrames.
CloseSink(s) == /\ playing' = playing \ {s}
                /\ awaiting' = awaiting \ {s}
                /\ sendTask' = sendTask \ {s}

\* External: deleteStream, on TEARDOWN, when the connection breaks, from the
\* delayed task of the liveness timeout, or because the server is closed.  The last
\* client closes the stream.
Teardown(c) ==
  /\ \E p \in {"select", "alarm", "close"} : InPhase(p)
  /\ streamOf[c] # NoSource
  /\ streamOf' = [streamOf EXCEPT ![c] = NoSource]
  /\ dests' = dests \ {c}
  /\ seen' = [seen EXCEPT ![c] = {}]
  /\ IF \E d \in Clients \ {c} : streamOf[d] = streamOf[c]
       THEN Return /\ UNCHANGED <<readVars, lastStream>>
       ELSE /\ CloseSink(streamOf[c])
            /\ ForgetStream(streamOf[c])
            /\ Continue("unregister", streamOf[c])
  /\ UNCHANGED <<queueVars, sourceVars, tableVars, sdp>>

--------------------------------------------------------------------------------
(* Triggered events and delayed tasks *)

NoEvent == /\ InPhase("trigger") /\ Awaiting(pending) = {}
           /\ Return
           /\ UNCHANGED <<queueVars, sourceVars, readVars, tableVars, sdp, clientVars>>

\* One event: its flag is cleared before frameArrivedCallback runs, which calls
\* deliverFrame, which returns at once unless the source awaits data.
RunTrigger ==
  /\ InPhase("trigger") /\ Awaiting(pending) # {}
  /\ LET id == FirstAfter(lastTrigger, Awaiting(pending)) IN
       /\ Queue!HandleEvent(id)
       /\ lastTrigger' = id
       /\ IF id \in handlers /\ pending[id] \in awaiting THEN Continue("deliver", pending[id])
                                                        ELSE Return
  /\ UNCHANGED <<sourceVars, readVars, handlers, sdp, clientVars>>

\* External: no delayed task is due.
NoAlarm == /\ InPhase("alarm")
           /\ Return
           /\ UNCHANGED <<queueVars, sourceVars, readVars, tableVars, sdp, clientVars>>

\* External: the sink's delayed task is due and asks for the next NALU.
SendNext(s) ==
  /\ InPhase("alarm") /\ s \in sendTask
  /\ sendTask' = sendTask \ {s}
  /\ GetNextFrame(s)
  /\ UNCHANGED <<queueVars, sourceVars, playing, tableVars, sdp, clientVars>>

--------------------------------------------------------------------------------
\* The watch variable ends the loop, and Medium::close of the server ends what
\* sessions there are.
EndLoop == /\ InPhase("select")
           /\ phase' = "close"
           /\ UNCHANGED <<queueVars, sourceVars, readVars, tableVars, sdp, clientVars, call, src>>

otherVars == <<sourceVars, readVars, tableVars, sdp, clientVars, loopVars>>

Request == \/ \E s \in Sources : Describe(s)
           \/ \E c \in Clients : \/ SetupShared(c)
                                 \/ \E s \in Sources : SetupNew(c, s)
                                 \/ Play(c)
                                 \/ Teardown(c)

\* What the loop does on its own, until it comes round to a request.
Loop == \/ RegisterSource \/ UnregisterSource \/ DeleteTrigger
        \/ DeliverFrame \/ DeliverNothing
        \/ NoRequest \/ NoEvent \/ RunTrigger \/ NoAlarm
        \/ \E s \in Sources : SendNext(s)

Next == \/ Loop
        \/ Request
        \/ EndLoop
        \/ \E p \in Producers : Queue!Push(p) /\ UNCHANGED otherVars

Spec == Init /\ [][Next]_vars

\* The event loop thread runs on, and so does a thread that has a frame to push;
\* a delayed task that stays scheduled becomes due.
\* A server that is being closed ends all its sessions.  Nothing makes a client
\* send a request or the encoder produce a frame.
Fairness == /\ WF_vars(Loop)
            /\ WF_vars(phase = "close" /\ \E c \in Clients : Teardown(c))
            /\ \A s \in Sources : SF_vars(SendNext(s))
            /\ \A p \in Producers : WF_vars(Queue!FinishPush(p) /\ UNCHANGED otherVars)

FairSpec == Spec /\ Fairness

--------------------------------------------------------------------------------
TypeOK == /\ Queue!TypeOK
          /\ alive \subseteq Sources
          /\ trigger \in [Sources -> TriggerIds \cup {NoTrigger}]
          /\ awaiting \subseteq alive /\ playing \subseteq alive /\ sendTask \subseteq alive
          /\ handlers \subseteq TriggerIds /\ lastTrigger \in TriggerIds
          /\ sdp \in BOOLEAN
          /\ lastStream \in Sources \cup {NoSource}
          /\ streamOf \in [Clients -> Sources \cup {NoSource}]
          /\ dests \subseteq Clients
          /\ seen \in [Clients -> SUBSET Queue!NalTypes]
          /\ phase \in DOMAIN Following
          /\ call \in {"none", "register", "deliver", "unregister", "delete"}
          /\ src \in Sources \cup {NoSource} /\ (call = "none" <=> src = NoSource)

\* A source that waits while the queue holds a NALU is about to be told: its
\* event is raised, or deliverFrame is on its way to popNalu, or a push holds the
\* lock that has still to visit the reader.  The event loop clears an event before
\* it pops and pops outside the push's critical section; no order of these loses
\* the wakeup that a source with an outstanding read depends on.
NoLostWakeup ==
  \A s \in awaiting : queue # <<>> =>
    \/ pending[trigger[s]] = s
    \/ call = "deliver" /\ src = s
    \/ mutex # NoThread /\ Queue!Reader(trigger[s], s) \in readers \ woken

\* Every event that waits will be handed to the MyH264Source that registered for
\* it and that still exists: frameArrivedCallback never runs on a deleted source,
\* although pushes go on while a source is destroyed.
EventsReachLiveSources ==
  \A id \in TriggerIds : pending[id] # NoData =>
    /\ pending[id] \in alive
    /\ trigger[pending[id]] = id
    /\ id \in handlers

\* The readers a push wakes are the sources that exist, but for one whose
\* constructor or destructor runs: none is left behind, none is missing.
ReadersAreSources ==
  readers = {Queue!Reader(trigger[s], s) :
               s \in {s \in alive : ~(s = src /\ call \in {"register", "delete"})}}

\* As all clients share one source, the scheduler never runs out of triggers and
\* no source is left without one (it would never be woken); a trigger is given
\* back with its source.
TriggersSuffice == /\ \A s \in alive : trigger[s] # NoTrigger
                   /\ handlers = {StopTrigger} \cup {trigger[s] : s \in alive}
                   /\ \A s \in alive, t \in alive : trigger[s] = trigger[t] => s = t

\* A stream that plays has either one read outstanding or its next read
\* scheduled.  Not both, since getNextFrame aborts the program when it is called
\* while a read is outstanding; not neither, since then it would stand still.
\* One that does not play has none, and so its first PLAY may read.
OneReadAtATime ==
  /\ awaiting \cap sendTask = {}
  /\ awaiting \cup sendTask = playing
  /\ call = "deliver" => src \in awaiting

\* Every client that has set up receives the one live stream, whose source
\* exists until the last of them is gone.
OneLiveStream ==
  /\ \A c \in Clients : streamOf[c] # NoSource => streamOf[c] = lastStream
  /\ lastStream # NoSource => /\ lastStream \in alive
                             /\ \E c \in Clients : streamOf[c] = lastStream
  /\ playing \subseteq {lastStream}
  /\ \A c \in dests : streamOf[c] \in playing

\* When the last client has gone, and outside of a handler, no source is left and
\* no reader: neither the source that only described the stream nor one that was
\* closed while it waited or was about to read.
NoSourceWithoutClient ==
  call = "none" /\ (\A c \in Clients : streamOf[c] = NoSource) => alive = {} /\ readers = {}

\* The queue does what H264FrameQueue says, whatever the loop does with it: it
\* registers only fresh triggers and takes only events that were raised.
UsesTheQueue == Queue!Spec

\* A NALU in the queue does not stay there while a stream plays.
Delivery ==
  \A n \in 1..MaxPushed :
    (\E i \in 1..Len(queue) : queue[i].seq = n) /\ playing # {}
      ~> (\A i \in 1..Len(queue) : queue[i].seq # n) \/ playing = {}

\* Closing the server always comes to an end, and then every source is destroyed
\* and unregistered and its trigger given back, whatever it was doing when the loop
\* ended and whatever is pushed meanwhile.
CloseReleases ==
  phase = "close" ~> alive = {} /\ readers = {} /\ handlers = {StopTrigger}

\* docs/RTSP_PUSH_C_API.md: with the parameter sets before each IDR, a client
\* that joins can decode from the next IDR on.
DecodesFromFirstIdr ==
  \A c \in Clients : "IDR" \in seen[c] => {"SPS", "PPS"} \subseteq seen[c]

===============================================================================
