---------------------------- MODULE RtspPushSystem ----------------------------
(***************************************************************************)
(* The whole program: the callers, the encoder threads and the RTSP thread *)
(* of Live555RtspService.tla, whose event loop and cleanup are those of    *)
(* LiveStream.tla, over one H264FrameQueue.                                *)
(*                                                                         *)
(* A round of the loop begins when the RTSP thread has looked at the watch *)
(* variable and ends after the delayed tasks.  The scheduler's tables are  *)
(* made anew with the stop trigger, the subsession with the server.        *)
(***************************************************************************)
EXTENDS EventTriggers, Sequences

CONSTANTS Callers, Clients, Producers, Sources, Frames, MaxQueuedNalus, MaxPushed, NoThread,
          MaxPolls

\* Of H264FrameQueue.
VARIABLES mutex, nals, queue, readers, woken, sps, pps, pending, pushed, popped

\* Of Live555RtspService.
VARIABLES svc, thread, overtaken, caller, process

\* Of LiveStream.
VARIABLES alive, trigger, awaiting, playing, sendTask, handlers, lastTrigger, sdp, lastStream,
          streamOf, dests, seen, phase, call, src

queueVars == <<mutex, nals, queue, readers, woken, sps, pps, pending, pushed, popped>>

sourceVars == <<alive, trigger, awaiting, playing, sendTask, lastStream, streamOf, dests, seen,
                call, src>>

streamVars == <<sourceVars, handlers, lastTrigger, sdp, phase>>

vars == <<queueVars, svc, thread, overtaken, caller, process, streamVars>>

Service == INSTANCE Live555RtspService

Stream == INSTANCE LiveStream

\* What the two modules assume of their constants.  Callers take turns, as one: what two
\* of them may do to each other is the subject of Live555RtspService.tla.  Then no start()
\* overtakes an RTSP thread that is still running.
ASSUME SystemAssumption ==
  /\ \A c, d \in Callers : c = d
  /\ NumTriggers >= 3
  /\ MaxPolls \in Nat /\ MaxQueuedNalus \in Nat \ {0} /\ MaxPushed \in Nat
  /\ Frames \subseteq Seq(Stream!Queue!NalTypes) \ {<<>>}
  /\ NoThread \notin Callers \cup Producers /\ NoData \notin Sources

Init == Service!Init /\ Stream!Init

--------------------------------------------------------------------------------
(* Setup *)

\* A new scheduler has no handlers.
SetupTrigger ==
  /\ Service!SetupTrigger
  /\ handlers' = {Stream!StopTrigger} /\ lastTrigger' = Stream!StopTrigger
  /\ UNCHANGED <<sourceVars, sdp, phase>>

\* The new subsession has not been described, and the loop begins.
SetupUrl ==
  /\ Service!SetupUrl
  /\ sdp' = FALSE /\ phase' = "select"
  /\ UNCHANGED <<sourceVars, handlers, lastTrigger>>

--------------------------------------------------------------------------------
(* The event loop *)

\* A slip: doEventLoop is called without the watch variable.
LoopUnwatched ==
  /\ Service!ThreadAt("loop", "step")
  /\ UNCHANGED <<queueVars, svc, overtaken, caller, process, streamVars>>

LoopChecksWatch ==
  /\ Service!LoopChecksWatch
  /\ IF svc.watch THEN Stream!EndLoop ELSE UNCHANGED streamVars

\* The trigger phase comes to the stop event before any other.
StopEventIsNext ==
  /\ Stream!InPhase("trigger") /\ thread.stopEvent
  /\ FirstAfter(lastTrigger, Awaiting(pending) \cup {Stream!StopTrigger}) = Stream!StopTrigger

HandleStopEvent ==
  /\ ~process.gone /\ thread.at = "step" /\ StopEventIsNext
  /\ thread' = [thread EXCEPT !.stopEvent = FALSE]
  /\ lastTrigger' = Stream!StopTrigger
  /\ Stream!Return
  /\ UNCHANGED <<queueVars, svc, overtaken, caller, process, alive, trigger, awaiting, playing,
                 sendTask, handlers, sdp, lastStream, streamOf, dests, seen>>

\* The alarm phase ends the round.
RoundOver == phase' = "select" /\ call' = "none"

LoopStep(step) ==
  /\ ~process.gone /\ thread.at = "step" /\ ~StopEventIsNext
  /\ step
  /\ thread' = [thread EXCEPT !.at = IF RoundOver THEN "loop" ELSE "step"]
  /\ UNCHANGED <<svc, overtaken, caller, process>>

--------------------------------------------------------------------------------
(* Cleanup *)

CleanupTrigger ==
  /\ Service!CleanupTrigger
  /\ handlers' = handlers \ {Stream!StopTrigger}
  /\ UNCHANGED <<sourceVars, lastTrigger, sdp, phase>>

\* Medium::close of the server ends the sessions one after the other.
CloseStep ==
  /\ ~process.gone /\ thread.at = "close" /\ svc.server /\ phase = "close"
  /\ Stream!Loop \/ \E c \in Clients : Stream!Teardown(c)
  /\ UNCHANGED <<svc, thread, overtaken, caller, process>>

\* A slip: the sessions are left to the scheduler.
SessionsForgotten == TRUE

SessionsEnded == call = "none" /\ \A c \in Clients : streamOf[c] = NoData

CleanupServer ==
  /\ Service!CleanupServer /\ SessionsEnded
  /\ UNCHANGED streamVars

--------------------------------------------------------------------------------
ServiceStep == \/ \E c \in Callers : Service!Calls(c) \/ Service!Control(c)
               \/ \E p \in Producers : Service!PushH264(p) \/ Service!PushGoesOn(p)

ThreadStep == \/ Service!SetupScheduler \/ Service!SetupServer \/ Service!SetupFails
              \/ Service!CleanupScheduler \/ Service!CleanupForget \/ Service!CleanupQueue
              \/ Service!ThreadEnds

RtspThread == \/ ThreadStep /\ UNCHANGED streamVars
              \/ SetupTrigger \/ SetupUrl
              \/ LoopChecksWatch \/ HandleStopEvent \/ LoopStep(Stream!Loop)
              \/ CleanupTrigger \/ CloseStep \/ CleanupServer

Next == \/ ServiceStep /\ UNCHANGED streamVars
        \/ RtspThread
        \/ LoopStep(Stream!Request)

Spec == Init /\ [][Next]_vars

\* As in Live555RtspService, with the loop's rounds as they are.
Fairness ==
  /\ \A c \in Callers :
       WF_vars(/\ \/ Service!Control(c)
                  \/ Service!At(c, "stop") /\ (Service!Stop(c) \/ Service!StopNotRunning(c))
               /\ UNCHANGED streamVars)
  /\ WF_vars(RtspThread)
  /\ \A p \in Producers : WF_vars(Service!PushGoesOn(p) /\ UNCHANGED streamVars)

FairSpec == Spec /\ Fairness

--------------------------------------------------------------------------------
\* The service is what Live555RtspService.tla says although its loop is reduced
\* there to a few steps that may come in any order.
ImplementsService == Service!Spec

\* What holds of the streams of one event loop holds over stops and restarts, with
\* what the queue has left from the session before.
StreamsOverSessions == /\ Stream!NoLostWakeup
                       /\ Stream!EventsReachLiveSources
                       /\ Stream!ReadersAreSources
                       /\ Stream!OneReadAtATime
                       /\ Stream!OneLiveStream
                       /\ Stream!NoSourceWithoutClient

\* A session leaves no stream to the next: nothing of live555 is in use any more
\* when the server is closed and the scheduler deleted.
NoStreamWithoutServer ==
  ~svc.server => /\ alive = {} /\ call = "none"
                 /\ \A c \in Clients : streamOf[c] = NoData
                 /\ readers = {} /\ Awaiting(pending) = {}

\* How much of its way the RTSP thread has before it, and how much of a round, or of
\* the end of a session, the event loop.
StagesLeft == [none |-> 0, exited |-> 0, end |-> 1, clear |-> 2, forget |-> 3, delete |-> 4,
               close |-> 5, cleanup |-> 6, loop |-> 7, step |-> 8, url |-> 9, server |-> 10,
               trigger |-> 11, scheduler |-> 12]

RoundLeft ==
  [select |-> 10, trigger |-> 5, alarm |-> 0, close |-> 0][phase]
    + [none |-> IF phase = "close" THEN 0 ELSE 4,
       register |-> 3, unregister |-> 2, delete |-> 1, deliver |-> 1][call]

Sessions == {c \in Clients : streamOf[c] # NoData}

MovesOn == \/ StagesLeft[thread'.at] < StagesLeft[thread.at]
           \/ thread.at = "step" /\ thread'.at = "step" /\ RoundLeft' < RoundLeft
           \/ /\ thread.at = "close" /\ thread'.at = "close"
              /\ Sessions' \subseteq Sessions /\ (Sessions' = Sessions => RoundLeft' < RoundLeft)

NewRound == thread.at = "loop" /\ thread'.at = "step" /\ ~svc.watch

NewSession == thread.at \in Service!Ended /\ thread'.at = "scheduler"

\* The RTSP thread only moves on, whatever clients request and encoders push: a round
\* of the event loop has a fixed number of steps, the close of the server no more
\* than its sessions take, and nothing but a look at a watch variable that is not set
\* begins another round.  So after stop() has set it the thread has a bounded way to
\* its end.
ThreadMovesOn ==
  [][UNCHANGED <<thread.at, streamVars>> \/ MovesOn \/ NewRound \/ NewSession]_vars

\* stop() returns whatever the clients do meanwhile: a client that goes on with its
\* requests, and an encoder that goes on with its frames, do not keep the loop from
\* looking at the watch variable, nor the cleanup from its end.
StopReturns == Service!StopReturns

===============================================================================
