----------------------------- MODULE RtspThreadMain -----------------------------
(***************************************************************************)
(* rtspThreadMain of Live555RtspService (src/src/live555RtspService.cpp):  *)
(* one RTSP thread, from its setup over the event loop to its cleanup, on  *)
(* the fields it shares with the callers of the service.                   *)
(*                                                                         *)
(* It writes the fields without mutex_, except the URL, so each of them is *)
(* a step.  What clients do during the event loop is reduced to sources    *)
(* that come, read and go (LiveStream.tla).                                *)
(***************************************************************************)
EXTENDS EventTriggers, Sequences

CONSTANTS Callers, Producers, Sources, Frames, MaxQueuedNalus, MaxPushed, NoThread

VARIABLES mutex, nals, queue, readers, woken, sps, pps, pending, pushed, popped

queueVars == <<mutex, nals, queue, readers, woken, sps, pps, pending, pushed, popped>>

Queue == INSTANCE H264FrameQueue

VARIABLES svc,        \* the fields of Live555RtspService, each as what the code asks of it
          thread,     \* the RTSP thread
          overtaken,  \* the RTSP thread before it, while it is not known to have ended
          caller,     \* for each caller, the function of the C API it is in
          process     \* the rest of the process

\* A pointer is "null", "valid", or "dangling" after the object was deleted.
\* The server_, rtspURL_, stopTrigger_ are set or not; mutex is the caller that
\* holds mutex_ from one step to the next.
Service == [running : BOOLEAN, watch : BOOLEAN, scheduler : {"null", "valid", "dangling"},
            stopTrigger : BOOLEAN, server : BOOLEAN, rtspURL : BOOLEAN, joinable : BOOLEAN,
            mutex : Callers \cup {NoThread}]

\* failed: setupLive555 returned false.  stopEvent: the stop trigger is raised.
Thread == [at : {"none", "scheduler", "trigger", "server", "url", "loop", "step", "cleanup",
                 "close", "delete", "forget", "clear", "end", "exited"},
           failed : BOOLEAN, stopEvent : BOOLEAN]

Unlocked == svc.mutex = NoThread

--------------------------------------------------------------------------------
(* setupLive555 *)

ThreadAt(from, to) == /\ ~process.gone /\ thread.at = from
                      /\ thread' = [thread EXCEPT !.at = to]

\* createNew of the scheduler and of the environment allocate and cannot fail.
SetupScheduler ==
  /\ ThreadAt("scheduler", "trigger")
  /\ svc' = [svc EXCEPT !.scheduler = "valid"]
  /\ UNCHANGED <<queueVars, caller, process, overtaken>>

SetupTrigger ==
  /\ ThreadAt("trigger", "server")
  /\ svc' = [svc EXCEPT !.stopTrigger = TRUE]
  /\ UNCHANGED <<queueVars, caller, process, overtaken>>

SetupServer ==
  /\ ThreadAt("server", "url")
  /\ svc' = [svc EXCEPT !.server = TRUE]
  /\ UNCHANGED <<queueVars, caller, process, overtaken>>

\* A slip: running_ is reset before the thread has cleaned up.
NotRunningAtOnce == [svc EXCEPT !.running = FALSE]

\* The fields when RTSPServer::createNew has returned null: running_ stays.
FieldsOfFailure == svc

\* RTSPServer::createNew returns null, as when the port is in use.
SetupFails ==
  /\ ~process.gone /\ thread.at = "server"
  /\ thread' = [thread EXCEPT !.at = "cleanup", !.failed = TRUE]
  /\ svc' = FieldsOfFailure
  /\ UNCHANGED <<queueVars, caller, process, overtaken>>

SetupUrl ==
  /\ ThreadAt("url", "loop") /\ Unlocked
  /\ svc' = [svc EXCEPT !.rtspURL = TRUE]
  /\ UNCHANGED <<queueVars, caller, process, overtaken>>

--------------------------------------------------------------------------------
(* doEventLoop *)

LoopChecksWatch ==
  /\ ThreadAt("loop", IF svc.watch THEN "cleanup" ELSE "step")
  /\ UNCHANGED <<queueVars, svc, caller, process, overtaken>>

\* A step in a round of the loop, the last one or not: the stop event, whose
\* handler does nothing, or a call of a source that a client makes it make.
LoopStep ==
  /\ ~process.gone /\ thread.at = "step"
  /\ UNCHANGED <<svc, caller, process, overtaken>>
  /\ \E next \in {"step", "loop"} :
       \/ /\ thread' = [thread EXCEPT !.at = next, !.stopEvent = FALSE]
          /\ UNCHANGED queueVars
       \/ /\ thread' = [thread EXCEPT !.at = next]
          /\ \/ UNCHANGED queueVars
             \/ \E id \in TriggerIds \ Queue!Registered, s \in Sources : Queue!RegisterReader(id, s)
             \/ \E id \in Queue!Registered : Queue!UnregisterReader(id)
             \/ \E id \in TriggerIds : Queue!HandleEvent(id)
             \/ Queue!PopNalu

--------------------------------------------------------------------------------
(* cleanupLive555 *)

CleanupTrigger ==
  /\ ~process.gone /\ thread.at = "cleanup"
  /\ thread' = [thread EXCEPT !.at = "close", !.stopEvent = FALSE]
  /\ svc' = [svc EXCEPT !.stopTrigger = FALSE]
  /\ UNCHANGED <<queueVars, caller, process, overtaken>>

\* Medium::close of the server destroys the sources: each unregisters, and gives
\* its trigger back with the event that may be waiting.
CleanupSource ==
  /\ ThreadAt("close", "close") /\ svc.server
  /\ \/ \E id \in Queue!Registered : Queue!UnregisterReader(id)
     \/ \E id \in TriggerIds : Queue!HandleEvent(id)
  /\ UNCHANGED <<svc, caller, process, overtaken>>

\* A slip: the server is dropped without its sources being closed.
Dropped == TRUE

\* A server that is there is closed with its sources; while two RTSP threads run, the
\* server may be that of the other, and the sources of this one are left.
SourcesClosed == readers = {} \/ ~svc.server \/ process.overlap

CleanupServer ==
  /\ ThreadAt("close", "delete") /\ SourcesClosed
  /\ svc' = [svc EXCEPT !.server = FALSE]
  /\ UNCHANGED <<queueVars, caller, process, overtaken>>

Freed(pointer) == IF pointer = "valid" THEN "dangling" ELSE pointer

\* The scheduler goes with the events that are waiting; the copies of its address
\* are left.  While two RTSP threads run it may be that of the other, without events.
CleanupScheduler ==
  /\ ~process.gone /\ thread.at = "delete"
  /\ thread' = [thread EXCEPT !.at = "forget", !.stopEvent = FALSE]
  /\ svc' = [svc EXCEPT !.scheduler = Freed(@)]
  /\ caller' = [c \in Callers |-> [caller[c] EXCEPT !.scheduler = Freed(@)]]
  /\ \/ pending' = [id \in TriggerIds |-> NoData]
     \/ process.overlap /\ UNCHANGED pending
  /\ UNCHANGED <<mutex, nals, queue, readers, woken, sps, pps, pushed, popped, process,
                 overtaken>>

CleanupForget ==
  /\ ThreadAt("forget", "clear")
  /\ svc' = [svc EXCEPT !.scheduler = "null"]
  /\ UNCHANGED <<queueVars, caller, process, overtaken>>

CleanupQueue ==
  /\ ThreadAt("clear", "end")
  /\ Queue!Clear
  /\ UNCHANGED <<svc, caller, process, overtaken>>

\* A thread whose setup failed says so after it has cleaned up.
ThreadEnds ==
  /\ ThreadAt("end", "exited")
  /\ svc' = [svc EXCEPT !.running = @ /\ ~thread.failed]
  /\ UNCHANGED <<queueVars, caller, process, overtaken>>

--------------------------------------------------------------------------------
Setup == SetupScheduler \/ SetupTrigger \/ SetupServer \/ SetupFails \/ SetupUrl

Cleanup == \/ CleanupTrigger \/ CleanupSource \/ CleanupServer \/ CleanupScheduler
           \/ CleanupForget \/ CleanupQueue \/ ThreadEnds

RtspThread == Setup \/ LoopChecksWatch \/ LoopStep \/ Cleanup

===============================================================================
