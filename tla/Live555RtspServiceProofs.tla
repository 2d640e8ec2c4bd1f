----------------------- MODULE Live555RtspServiceProofs -----------------------
(***************************************************************************)
(* Proofs about the life cycle of the service, for every number of         *)
(* callers, encoder threads and sources.                                   *)
(***************************************************************************)
EXTENDS Live555RtspService, TLAPS

\* Every field has its type, and whoever asks whether the service runs is in one of the
\* rounds of its wait.
FieldTypes == /\ svc \in Service /\ thread \in Thread /\ overtaken \in Thread
              /\ process \in Process
              /\ caller \in [Callers -> Call]
              /\ \A c \in Callers : caller[c].at = "pollRunning" => caller[c].polls < MaxPolls

\* A thread is overtaken only while start() holds mutex_, and while it does the new one
\* cannot write its URL and begin its loop.
StartHoldsBack == /\ overtaken.at # "none" => Assigning
                  /\ Assigning => thread.at \notin {"loop", "step"}

\* Where the RTSP thread is tells what the fields hold: each is set and cleared at
\* one point of setupLive555 and cleanupLive555.
FieldsFollowThread ==
  /\ svc.scheduler = IF thread.at \in {"trigger", "server", "url", "loop", "step",
                                       "cleanup", "close", "delete"} THEN "valid"
                     ELSE IF thread.at = "forget" THEN "dangling" ELSE "null"
  /\ svc.stopTrigger => thread.at \in {"server", "url", "loop", "step", "cleanup"}
  /\ svc.server <=> \/ thread.at \in {"url", "loop", "step"}
                    \/ thread.at \in {"cleanup", "close"} /\ ~thread.failed
  /\ readers # {} => svc.server
  /\ thread.failed => thread.at \in {"cleanup", "close", "delete", "forget", "clear",
                                     "end", "exited"}

\* The URL is that of the server that runs, until a stop comes.
UrlOfServer == svc.rtspURL /\ ~svc.watch => thread.at \in {"loop", "step"}

\* What holds until a start() begins a thread while another is running.
Fields == overtaken.at \in Ended /\ FieldsFollowThread /\ UrlOfServer

OneCaller == \A c \in Callers, d \in Callers : c = d

\* With one caller no start() does so.  A session runs until its thread has ended, and
\* it is cleaned up only after a stop or a failure; a thread that has not ended is
\* joinable, and nobody else joins it.
SessionOfOneCaller ==
  /\ ~process.overlap
  /\ thread.at \notin Ended => svc.running
  /\ ~svc.joinable => thread.at \in Ended \/ Assigning
  /\ \A c \in Callers :
       /\ caller[c].at \in {"readScheduler", "readTrigger", "trigger", "joinable", "join",
                           "joining", "finish"} => svc.watch
       /\ caller[c].at = "join" => svc.joinable
       /\ caller[c].at = "finish" => thread.at \in Ended
  /\ thread.at \in {"cleanup", "close", "delete", "forget", "clear", "end"}
       => svc.watch \/ thread.failed
  /\ thread.at \in {"scheduler", "trigger", "server", "url"} \/ thread.failed => ~svc.rtspURL

\* With one caller a service that does not run has been stopped, and its thread joined,
\* or its setup has failed; and an answer 0 in time goes with the URL of the session.
OutcomeOfOneCaller ==
  /\ ~svc.running /\ (svc.joinable \/ Assigning) => thread.failed
  /\ svc.joinable /\ Assigning => overtaken.failed
  /\ process.terminated => process.gone /\ (thread.failed \/ overtaken.failed)
  /\ \A c \in Callers :
       /\ caller[c].at = "finish" => ~svc.joinable
       /\ caller[c].at = "destroy" => ~svc.running
       /\ caller[c].answer = "0" /\ caller[c].polls < MaxPolls => svc.rtspURL

--------------------------------------------------------------------------------
(* Types *)

\* Where a step takes a caller, after how many rounds of its wait and with which answer.
\* No other caller is touched.
Goto(c, at, polls, answer) ==
  /\ caller' \in [Callers -> Call]
  /\ caller'[c].at = at /\ caller'[c].polls = polls /\ caller'[c].answer = answer
  /\ \A d \in Callers \ {c} : caller'[d] = caller[d]

LEMMA CallerBecomes ==
  ASSUME caller \in [Callers -> Call], NEW c \in Callers, NEW new \in Call,
         caller' = [caller EXCEPT ![c] = new]
  PROVE  Goto(c, new.at, new.polls, new.answer)
<1>1. caller' \in [Callers -> Call] /\ caller'[c] = new
  OBVIOUS
<1> QED
  BY <1>1 DEF Goto

\* What the operators make of it that change caller.
LEMMA GoesTo ==
  ASSUME FieldTypes, NEW c \in Callers,
         NEW step \in {"poll", "pollRunning", "stop", "readScheduler", "join", "joining",
                       "finish"},
         Goes(c, step)
  PROVE  Goto(c, step, caller[c].polls, caller[c].answer)
<1> DEFINE new == [caller[c] EXCEPT !.at = step]
<1>1. /\ new \in Call
      /\ new.at = step /\ new.polls = caller[c].polls /\ new.answer = caller[c].answer
  BY DEF FieldTypes, Call
<1>2. caller' = [caller EXCEPT ![c] = new]
  BY DEF Goes, FieldTypes
<1> HIDE DEF new
<1>3. Goto(c, new.at, new.polls, new.answer)
  BY <1>1, <1>2, CallerBecomes DEF FieldTypes
<1> QED
  BY <1>1, <1>3

LEMMA ReturnsWith ==
  ASSUME FieldTypes, NEW c \in Callers, NEW answer \in {"0", "-2"}, Returns(c, answer)
  PROVE  Goto(c, "idle", caller[c].polls, answer)
<1> DEFINE new == [caller[c] EXCEPT !.at = "idle", !.answer = answer]
<1>1. new \in Call /\ new.at = "idle" /\ new.polls = caller[c].polls /\ new.answer = answer
  BY DEF FieldTypes, Call
<1>2. caller' = [caller EXCEPT ![c] = new]
  BY DEF Returns
<1> HIDE DEF new
<1>3. Goto(c, new.at, new.polls, new.answer)
  BY <1>1, <1>2, CallerBecomes DEF FieldTypes
<1> QED
  BY <1>1, <1>3

LEMMA PollsFromStart ==
  ASSUME FieldTypes, NEW c \in Callers, NEW step \in {"poll", "assign"},
         caller' = [caller EXCEPT ![c] = [@ EXCEPT !.at = step, !.polls = 0, !.answer = "none"]]
  PROVE  Goto(c, step, 0, "none")
<1> DEFINE new == [caller[c] EXCEPT !.at = step, !.polls = 0, !.answer = "none"]
<1>0. 0 \in 0..MaxPolls
  BY ServiceAssumption
<1>1. new \in Call /\ new.at = step /\ new.polls = 0 /\ new.answer = "none"
  BY <1>0 DEF FieldTypes, Call
<1>2. caller' = [caller EXCEPT ![c] = new]
  OBVIOUS
<1> HIDE DEF new
<1>3. Goto(c, new.at, new.polls, new.answer)
  BY <1>1, <1>2, CallerBecomes DEF FieldTypes
<1> QED
  BY <1>1, <1>3

LEMMA PollsOn ==
  ASSUME FieldTypes, NEW c \in Callers, svc.running, PollRunning(c)
  PROVE  Goto(c, "poll", caller[c].polls + 1, caller[c].answer)
<1> DEFINE new == [caller[c] EXCEPT !.at = "poll", !.polls = caller[c].polls + 1]
<1>0. caller[c].polls + 1 \in 0..MaxPolls
  BY ServiceAssumption DEF FieldTypes, PollRunning, At, Call
<1>1. /\ new \in Call
      /\ new.at = "poll" /\ new.polls = caller[c].polls + 1 /\ new.answer = caller[c].answer
  BY <1>0 DEF FieldTypes, Call
<1>2. caller' = [caller EXCEPT ![c] = new]
  BY DEF PollRunning, PollResult
<1> HIDE DEF new
<1>3. Goto(c, new.at, new.polls, new.answer)
  BY <1>1, <1>2, CallerBecomes DEF FieldTypes
<1> QED
  BY <1>1, <1>3

LEMMA StopReturnedTo ==
  ASSUME FieldTypes, NEW c \in Callers, StopReturned(c)
  PROVE  Goto(c, IF process.exiting THEN "destroy" ELSE "idle", caller[c].polls, "none")
<1> DEFINE to == IF process.exiting THEN "destroy" ELSE "idle"
           new == [caller[c] EXCEPT !.at = to, !.answer = "none"]
<1>1. caller' = [caller EXCEPT ![c] = new]
  BY DEF StopReturned
<1>2. to \in {"destroy", "idle"}
  OBVIOUS
<1> HIDE DEF to
<1>3. new \in Call /\ new.at = to /\ new.polls = caller[c].polls /\ new.answer = "none"
  BY <1>2 DEF FieldTypes, Call
<1> HIDE DEF new
<1>4. Goto(c, new.at, new.polls, new.answer)
  BY <1>1, <1>3, CallerBecomes DEF FieldTypes
<1> QED
  BY <1>3, <1>4 DEF to

LEMMA StopReads ==
  ASSUME FieldTypes, NEW c \in Callers
  PROVE  /\ StopReadScheduler(c) => Goto(c, "readTrigger", caller[c].polls, caller[c].answer)
         /\ StopReadTrigger(c) => Goto(c, "trigger", caller[c].polls, caller[c].answer)
<1> DEFINE first == [caller[c] EXCEPT !.at = "readTrigger", !.scheduler = svc.scheduler]
           second == [caller[c] EXCEPT !.at = "trigger", !.stopTrigger = svc.stopTrigger]
<1>0. svc.scheduler \in {"null", "valid", "dangling"} /\ svc.stopTrigger \in BOOLEAN
  BY DEF FieldTypes, Service
<1>1. /\ first \in Call /\ first.at = "readTrigger"
      /\ first.polls = caller[c].polls /\ first.answer = caller[c].answer
  BY <1>0 DEF FieldTypes, Call
<1>2. /\ second \in Call /\ second.at = "trigger"
      /\ second.polls = caller[c].polls /\ second.answer = caller[c].answer
  BY <1>0 DEF FieldTypes, Call
<1>3. /\ StopReadScheduler(c) => caller' = [caller EXCEPT ![c] = first]
      /\ StopReadTrigger(c) => caller' = [caller EXCEPT ![c] = second]
  BY DEF StopReadScheduler, StopReadTrigger
<1> HIDE DEF first, second
<1>4. /\ StopReadScheduler(c) => Goto(c, first.at, first.polls, first.answer)
      /\ StopReadTrigger(c) => Goto(c, second.at, second.polls, second.answer)
  BY <1>1, <1>2, <1>3, CallerBecomes DEF FieldTypes
<1> QED
  BY <1>1, <1>2, <1>4

LEMMA StopTriggers ==
  ASSUME FieldTypes, NEW c \in Callers, StopTriggerEvent(c)
  PROVE  Goto(c, "joinable", caller[c].polls, caller[c].answer)
<1> DEFINE new == [caller[c] EXCEPT !.at = "joinable", !.scheduler = "null", !.stopTrigger = FALSE]
<1>1. /\ new \in Call /\ new.at = "joinable"
      /\ new.polls = caller[c].polls /\ new.answer = caller[c].answer
  BY DEF FieldTypes, Call
<1>2. caller' = [caller EXCEPT ![c] = new]
  BY DEF StopTriggerEvent
<1> HIDE DEF new
<1>3. Goto(c, new.at, new.polls, new.answer)
  BY <1>1, <1>2, CallerBecomes DEF FieldTypes
<1> QED
  BY <1>1, <1>3

\* The event it raises is all it leaves behind.
LEMMA StopTriggersOnly ==
  ASSUME FieldTypes, NEW c \in Callers, StopTriggerEvent(c)
  PROVE  /\ UNCHANGED <<svc, thread.at, thread.failed, overtaken.at, overtaken.failed>>
         /\ UNCHANGED <<process.gone, process.terminated, process.overlap>>
<1>1. UNCHANGED <<process.gone, process.terminated, process.overlap>>
  BY DEF StopTriggerEvent, FieldTypes, Process
<1>2. UNCHANGED <<svc, thread.at, thread.failed, overtaken.at, overtaken.failed>>
  BY DEF StopTriggerEvent, FieldTypes, Thread
<1> QED
  BY <1>1, <1>2

LEMMA WhereCallersGo ==
  ASSUME FieldTypes, NEW c \in Callers
  PROVE  LET polls == caller[c].polls
             answer == caller[c].answer
         IN  /\ StartWhileRunning(c) => Goto(c, "poll", 0, "none")
             /\ Start(c) => Goto(c, "assign", 0, "none")
             /\ StartAssign(c) => Goto(c, "poll", polls, answer)
             /\ PollUrl(c) => IF svc.rtspURL THEN Goto(c, "idle", polls, "0")
                                             ELSE Goto(c, "pollRunning", polls, answer)
             /\ PollRunning(c) => IF svc.running THEN Goto(c, "poll", polls + 1, answer)
                                                 ELSE Goto(c, "idle", polls, "-2")
             /\ PollsOver(c) => Goto(c, "idle", polls, "0")
             /\ Exit(c) => Goto(c, "stop", polls, answer)
             /\ Stop(c) => Goto(c, "readScheduler", polls, answer)
             /\ StopNotRunning(c) \/ StopFinish(c)
                  => Goto(c, IF process.exiting THEN "destroy" ELSE "idle", polls, "none")
             /\ StopReadScheduler(c) => Goto(c, "readTrigger", polls, answer)
             /\ StopReadTrigger(c) => Goto(c, "trigger", polls, answer)
             /\ StopTriggerEvent(c) => Goto(c, "joinable", polls, answer)
             /\ StopJoinable(c) => IF svc.joinable THEN Goto(c, "join", polls, answer)
                                                   ELSE Goto(c, "finish", polls, answer)
             /\ StopJoin(c) => Goto(c, "joining", polls, answer)
             /\ StopJoined(c) => Goto(c, "finish", polls, answer)
<1>1. /\ StartWhileRunning(c) => Goto(c, "poll", 0, "none")
      /\ Start(c) => Goto(c, "assign", 0, "none")
  BY PollsFromStart DEF StartWhileRunning, Start, Polls
<1>2. PollUrl(c) => IF svc.rtspURL THEN Returns(c, "0") ELSE Goes(c, "pollRunning")
  BY DEF PollUrl
<1>3. PollRunning(c) /\ ~svc.running => Returns(c, "-2")
  BY DEF PollRunning, PollResult
<1>4. PollsOver(c) => Returns(c, "0")
  BY DEF PollsOver
<1>5. /\ StartAssign(c) => Goes(c, "poll")
      /\ Exit(c) => Goes(c, "stop")
      /\ Stop(c) => Goes(c, "readScheduler")
      /\ StopJoinable(c) => IF svc.joinable THEN Goes(c, "join") ELSE Goes(c, "finish")
      /\ StopJoin(c) => Goes(c, "joining")
      /\ StopJoined(c) => Goes(c, "finish")
  BY DEF StartAssign, Exit, Stop, StopJoinable, StopJoin, StopJoined
<1>6. StopNotRunning(c) \/ StopFinish(c) => StopReturned(c)
  BY DEF StopNotRunning, StopFinish
<1> QED
  BY <1>1, <1>2, <1>3, <1>4, <1>5, <1>6, GoesTo, ReturnsWith, PollsOn, StopReturnedTo,
     StopReads, StopTriggers

\* Whatever one caller does, it does nothing to another, and it asks whether the
\* service runs only while it has a round left.
LEMMA CallersMove ==
  ASSUME FieldTypes, NEW c \in Callers, Calls(c) \/ Control(c)
  PROVE  /\ caller' \in [Callers -> Call]
         /\ \A d \in Callers \ {c} : caller'[d] = caller[d]
         /\ caller'[c].at = "pollRunning" => caller'[c].polls < MaxPolls
<1>1. CASE PollUrl(c)
  BY <1>1, WhereCallersGo DEF PollUrl, PollsLeft, Goto
<1>2. CASE UNCHANGED caller
  BY <1>2 DEF FieldTypes
<1> QED
  BY <1>1, <1>2, WhereCallersGo DEF Calls, Control, StartTerminates, GetUrl, StopJoinThrows,
     Destroy, Goto

\* What a step of the RTSP thread leaves to the callers: the fields only they write,
\* and where they are.  It gets into its loop only when mutex_ is free.
LEMMA ThreadSteps ==
  ASSUME FieldTypes, RtspThread
  PROVE  /\ svc' \in Service /\ UNCHANGED <<svc.mutex, svc.joinable, svc.watch>>
         /\ thread' \in Thread /\ thread.at \notin Ended /\ thread'.at # "scheduler"
         /\ thread'.at \in {"loop", "step"} => thread.at \in {"loop", "step"} \/ Unlocked
         /\ UNCHANGED <<overtaken, process>>
         /\ caller' \in [Callers -> Call]
         /\ \A c \in Callers : UNCHANGED <<caller[c].at, caller[c].polls, caller[c].answer>>
<1> USE DEF FieldTypes
<1>1. svc' \in Service /\ UNCHANGED <<svc.mutex, svc.joinable, svc.watch>>
  BY DEF RtspThread, Setup, SetupScheduler, SetupTrigger, SetupServer, SetupFails,
     FieldsOfFailure, SetupUrl, LoopChecksWatch, LoopStep, Cleanup, CleanupTrigger,
     CleanupSource, CleanupServer, CleanupScheduler, Freed, CleanupForget, CleanupQueue,
     ThreadEnds, Service
<1>2. CASE LoopStep
  BY <1>1, <1>2 DEF LoopStep, Thread, Ended
<1>3. CASE RtspThread /\ ~LoopStep
  <2>1. /\ thread' \in Thread /\ thread.at \notin Ended /\ thread'.at # "scheduler"
        /\ thread'.at \in {"loop", "step"} => thread.at \in {"loop", "step"} \/ Unlocked
    BY <1>3 DEF RtspThread, Setup, SetupScheduler, SetupTrigger, SetupServer, SetupFails,
       SetupUrl, LoopChecksWatch, Cleanup, CleanupTrigger, CleanupSource, CleanupServer,
       CleanupScheduler, CleanupForget, CleanupQueue, ThreadEnds, ThreadAt, Thread, Ended
  <2>2. UNCHANGED <<overtaken, process>>
    BY <1>3 DEF RtspThread, Setup, SetupScheduler, SetupTrigger, SetupServer, SetupFails,
       SetupUrl, LoopChecksWatch, Cleanup, CleanupTrigger, CleanupSource, CleanupServer,
       CleanupScheduler, CleanupForget, CleanupQueue, ThreadEnds
  <2>3. /\ caller' \in [Callers -> Call]
        /\ \A c \in Callers : UNCHANGED <<caller[c].at, caller[c].polls, caller[c].answer>>
    <3>1. CASE CleanupScheduler
      BY <3>1 DEF CleanupScheduler, Freed, Call
    <3>2. CASE UNCHANGED caller
      BY <3>2
    <3> QED
      BY <1>3, <3>1, <3>2 DEF RtspThread, Setup, SetupScheduler, SetupTrigger, SetupServer,
         SetupFails, SetupUrl, LoopChecksWatch, Cleanup, CleanupTrigger, CleanupSource,
         CleanupServer, CleanupForget, CleanupQueue, ThreadEnds
  <2> QED
    BY <1>1, <2>1, <2>2, <2>3
<1> QED
  BY <1>2, <1>3

\* The same of the thread that is overtaken.
LEMMA OvertakenSteps ==
  ASSUME FieldTypes, Overtaken!RtspThread
  PROVE  /\ svc' \in Service /\ UNCHANGED <<svc.mutex, svc.joinable, svc.watch>>
         /\ overtaken' \in Thread /\ overtaken.at \notin Ended
         /\ UNCHANGED <<thread, process>>
         /\ caller' \in [Callers -> Call]
         /\ \A c \in Callers : UNCHANGED <<caller[c].at, caller[c].polls, caller[c].answer>>
<1> USE DEF FieldTypes
<1>1. svc' \in Service /\ UNCHANGED <<svc.mutex, svc.joinable, svc.watch>>
  BY DEF Overtaken!RtspThread, Overtaken!Setup, Overtaken!SetupScheduler,
     Overtaken!SetupTrigger, Overtaken!SetupServer, Overtaken!SetupFails,
     Overtaken!FieldsOfFailure, Overtaken!SetupUrl, Overtaken!LoopChecksWatch,
     Overtaken!LoopStep, Overtaken!Cleanup, Overtaken!CleanupTrigger,
     Overtaken!CleanupSource, Overtaken!CleanupServer, Overtaken!CleanupScheduler,
     Overtaken!Freed, Overtaken!CleanupForget, Overtaken!CleanupQueue,
     Overtaken!ThreadEnds, Service
<1>2. CASE Overtaken!LoopStep
  BY <1>1, <1>2 DEF Overtaken!LoopStep, Thread, Ended
<1>3. CASE Overtaken!RtspThread /\ ~Overtaken!LoopStep
  <2>1. overtaken' \in Thread /\ overtaken.at \notin Ended
    BY <1>3 DEF Overtaken!RtspThread, Overtaken!Setup, Overtaken!SetupScheduler,
       Overtaken!SetupTrigger, Overtaken!SetupServer, Overtaken!SetupFails,
       Overtaken!SetupUrl, Overtaken!LoopChecksWatch, Overtaken!Cleanup,
       Overtaken!CleanupTrigger, Overtaken!CleanupSource, Overtaken!CleanupServer,
       Overtaken!CleanupScheduler, Overtaken!CleanupForget, Overtaken!CleanupQueue,
       Overtaken!ThreadEnds, Overtaken!ThreadAt, Thread, Ended
  <2>2. UNCHANGED <<thread, process>>
    BY <1>3 DEF Overtaken!RtspThread, Overtaken!Setup, Overtaken!SetupScheduler,
       Overtaken!SetupTrigger, Overtaken!SetupServer, Overtaken!SetupFails,
       Overtaken!SetupUrl, Overtaken!LoopChecksWatch, Overtaken!Cleanup,
       Overtaken!CleanupTrigger, Overtaken!CleanupSource, Overtaken!CleanupServer,
       Overtaken!CleanupScheduler, Overtaken!CleanupForget, Overtaken!CleanupQueue,
       Overtaken!ThreadEnds
  <2>3. /\ caller' \in [Callers -> Call]
        /\ \A c \in Callers : UNCHANGED <<caller[c].at, caller[c].polls, caller[c].answer>>
    <3>1. CASE Overtaken!CleanupScheduler
      BY <3>1 DEF Overtaken!CleanupScheduler, Overtaken!Freed, Call
    <3>2. CASE UNCHANGED caller
      BY <3>2
    <3> QED
      BY <1>3, <3>1, <3>2 DEF Overtaken!RtspThread, Overtaken!Setup,
         Overtaken!SetupScheduler, Overtaken!SetupTrigger, Overtaken!SetupServer,
         Overtaken!SetupFails, Overtaken!SetupUrl, Overtaken!LoopChecksWatch,
         Overtaken!Cleanup, Overtaken!CleanupTrigger, Overtaken!CleanupSource,
         Overtaken!CleanupServer, Overtaken!CleanupForget, Overtaken!CleanupQueue,
         Overtaken!ThreadEnds
  <2> QED
    BY <1>1, <2>1, <2>2, <2>3
<1> QED
  BY <1>2, <1>3

LEMMA StepKeepsTypes ==
  ASSUME FieldTypes, Next
  PROVE  FieldTypes'
<1> DEFINE CallersTyped ==
             /\ caller \in [Callers -> Call]
             /\ \A c \in Callers : caller[c].at = "pollRunning" => caller[c].polls < MaxPolls
<1> USE DEF FieldTypes
<1>1. ASSUME NEW c \in Callers, Calls(c) \/ Control(c) PROVE CallersTyped'
  BY <1>1, CallersMove
<1>2. ASSUME NEW c \in Callers, Calls(c) \/ Control(c) PROVE svc' \in Service
  <2>1. CASE Start(c)
    BY <2>1 DEF Start, NewSession, Service
  <2>2. CASE StartAssign(c)
    BY <2>2 DEF StartAssign, Service
  <2>3. CASE Stop(c)
    BY <2>3 DEF Stop, StopSet, Service
  <2>4. CASE StopReadTrigger(c) \/ StopJoined(c) \/ StopFinish(c)
    BY <2>4 DEF StopReadTrigger, StopJoined, StopFinish, Service
  <2>5. CASE UNCHANGED svc
    BY <2>5
  <2> QED
    BY <1>2, <2>1, <2>2, <2>3, <2>4, <2>5 DEF Calls, Control, StartWhileRunning,
       StartTerminates, PollUrl, PollRunning, PollsOver, GetUrl, Exit, StopNotRunning,
       StopReadScheduler, StopTriggerEvent, StopJoinable, StopJoin, StopJoinThrows, Destroy
<1>3. ASSUME NEW c \in Callers, Calls(c) \/ Control(c)
      PROVE  thread' \in Thread /\ overtaken' \in Thread
  <2>1. CASE Start(c)
    BY <2>1 DEF Start, NotAThread, Thread
  <2>2. CASE StartAssign(c)
    BY <2>2 DEF StartAssign, NotAThread, Thread
  <2>3. CASE StopTriggerEvent(c)
    BY <2>3 DEF StopTriggerEvent, Thread
  <2>4. CASE UNCHANGED threads
    BY <2>4 DEF threads
  <2> QED
    BY <1>3, <2>1, <2>2, <2>3, <2>4 DEF Calls, Control, StartWhileRunning, StartTerminates,
       PollUrl, PollRunning, PollsOver, GetUrl, Exit, StopNotRunning, Stop,
       StopReadScheduler, StopReadTrigger, StopJoinable, StopJoin, StopJoinThrows,
       StopJoined, StopFinish, Destroy
<1>4. ASSUME NEW c \in Callers, Calls(c) \/ Control(c) PROVE process' \in Process
  <2>1. CASE StartTerminates(c) \/ StopJoinThrows(c)
    BY <2>1 DEF StartTerminates, StopJoinThrows, Terminate, Process
  <2>2. CASE Start(c)
    BY <2>2 DEF Start, Process
  <2>3. CASE PollUrl(c) \/ GetUrl(c) \/ Exit(c)
    BY <2>3 DEF PollUrl, GetUrl, Exit, Process, Service
  <2>4. CASE StopNotRunning(c) \/ StopFinish(c)
    BY <2>4 DEF StopNotRunning, StopFinish, StopReturned, Process
  <2>5. CASE StopTriggerEvent(c)
    BY <2>5 DEF StopTriggerEvent, Process
  <2>6. CASE Destroy(c)
    BY <2>6 DEF Destroy, Process, Service
  <2>7. CASE UNCHANGED process
    BY <2>7
  <2> QED
    BY <1>4, <2>1, <2>2, <2>3, <2>4, <2>5, <2>6, <2>7 DEF Calls, Control, StartWhileRunning,
       StartAssign, PollRunning, PollsOver, Stop, StopReadScheduler, StopReadTrigger,
       StopJoinable, StopJoin, StopJoined
<1>5. CASE RtspThread
  BY <1>5, ThreadSteps
<1>6. CASE Overtaken!RtspThread
  BY <1>6, OvertakenSteps
<1>7. ASSUME NEW p \in Producers, PushH264(p) \/ PushGoesOn(p) PROVE FieldTypes'
  BY <1>7 DEF PushH264, PushGoesOn, threads
<1> QED
  BY <1>1, <1>2, <1>3, <1>4, <1>5, <1>6, <1>7 DEF Next

--------------------------------------------------------------------------------
(* Waiting *)

\* mutex_ is held over the steps of a start() and over the two reads of a stop().
LEMMA StepKeepsLockOrder ==
  ASSUME FieldTypes, NoCircularWait, Next
  PROVE  NoCircularWait'
<1> USE DEF NoCircularWait
<1>0. NoThread \notin Callers
  BY ServiceAssumption
<1>1. ASSUME UNCHANGED svc.mutex, \A c \in Callers : UNCHANGED caller[c].at
      PROVE  NoCircularWait'
  BY <1>1
<1>2. ASSUME NEW c \in Callers, Calls(c) \/ Control(c) PROVE NoCircularWait'
  <2> DEFINE Holding == {"assign", "readScheduler", "readTrigger"}
  <2>1. \A d \in Callers \ {c} : caller'[d] = caller[d]
    BY <1>2, CallersMove
  <2>2. ASSUME UNCHANGED svc.mutex, caller[c].at \in Holding <=> caller'[c].at \in Holding
        PROVE  NoCircularWait'
    BY <2>1, <2>2
  <2>3. ASSUME svc.mutex = NoThread, svc'.mutex = c, caller'[c].at \in Holding
        PROVE  NoCircularWait'
    BY <1>0, <2>1, <2>3
  <2>4. ASSUME caller[c].at \in Holding, svc'.mutex = NoThread, caller'[c].at \notin Holding
        PROVE  NoCircularWait'
    BY <1>0, <2>1, <2>4
  <2> USE WhereCallersGo DEF Goto
  <2>5. CASE Start(c)
    BY <2>3, <2>5 DEF Start, Unlocked, NewSession, FieldTypes, Service
  <2>6. CASE StartAssign(c)
    BY <2>4, <2>6 DEF StartAssign, At, FieldTypes, Service
  <2>7. CASE \/ StartWhileRunning(c) \/ PollUrl(c) \/ PollRunning(c) \/ PollsOver(c) \/ Exit(c)
             \/ StopNotRunning(c) \/ StopTriggerEvent(c) \/ StopJoinable(c) \/ StopJoin(c)
    <3>1. caller[c].at \in {"idle", "poll", "pollRunning", "stop", "trigger", "joinable", "join"}
      BY <2>7 DEF StartWhileRunning, PollUrl, PollRunning, PollsOver, Exit, StopNotRunning,
         StopTriggerEvent, StopJoinable, StopJoin, EntersStop, Free, At
    <3>2. caller'[c].at \notin Holding
      BY <2>7
    <3>3. UNCHANGED svc
      BY <2>7 DEF StartWhileRunning, PollUrl, PollRunning, PollsOver, Exit, StopNotRunning,
         StopTriggerEvent, StopJoinable, StopJoin
    <3> QED
      BY <2>2, <3>1, <3>2, <3>3
  <2>8. CASE Stop(c)
    BY <2>3, <2>8 DEF Stop, EntersStop, Unlocked, StopSet, FieldTypes, Service
  <2>9. CASE StopReadScheduler(c)
    BY <2>2, <2>9 DEF StopReadScheduler, At
  <2>10. CASE StopReadTrigger(c)
    BY <2>4, <2>10 DEF StopReadTrigger, At, FieldTypes, Service
  <2>11. CASE StopJoined(c)
    BY <2>2, <2>11 DEF StopJoined, At, FieldTypes, Service
  <2>12. CASE StopFinish(c)
    <3>1. caller[c].at = "finish" /\ UNCHANGED svc.mutex
      BY <2>12 DEF StopFinish, At, FieldTypes, Service
    <3>2. caller'[c].at \in {"idle", "destroy"}
      BY <2>12
    <3> QED
      BY <2>2, <3>1, <3>2
  <2>13. CASE StartTerminates(c) \/ GetUrl(c) \/ StopJoinThrows(c) \/ Destroy(c)
    BY <1>1, <2>13 DEF StartTerminates, GetUrl, StopJoinThrows, Destroy
  <2> QED
    BY <1>2, <2>5, <2>6, <2>7, <2>8, <2>9, <2>10, <2>11, <2>12, <2>13 DEF Calls, Control
<1>3. CASE RtspThread
  BY <1>1, <1>3, ThreadSteps
<1>4. CASE Overtaken!RtspThread
  BY <1>1, <1>4, OvertakenSteps
<1>5. ASSUME NEW p \in Producers, PushH264(p) \/ PushGoesOn(p) PROVE NoCircularWait'
  BY <1>1, <1>5 DEF PushH264, PushGoesOn
<1> QED
  BY <1>2, <1>3, <1>4, <1>5 DEF Next

\* Who takes mutex_ for a start() is the only one, and the thread it begins cannot write
\* its URL until it gives mutex_ back.
LEMMA StepKeepsStartHoldsBack ==
  ASSUME FieldTypes, NoCircularWait, StartHoldsBack, Next
  PROVE  StartHoldsBack'
<1> USE DEF StartHoldsBack
<1>0. Assigning => ~Unlocked
  BY ServiceAssumption DEF NoCircularWait, Assigning, Unlocked
<1>1. ASSUME UNCHANGED <<thread, overtaken>>, \A c \in Callers : UNCHANGED caller[c].at
      PROVE  StartHoldsBack'
  BY <1>1 DEF Assigning
<1>2. ASSUME NEW c \in Callers, Calls(c) \/ Control(c) PROVE StartHoldsBack'
  <2>1. \A d \in Callers \ {c} : caller'[d] = caller[d]
    BY <1>2, CallersMove
  <2> USE WhereCallersGo DEF Goto
  <2>2. CASE Start(c)
    BY <2>2 DEF Start, NotAThread, Assigning
  <2>3. CASE StartAssign(c)
    <3>1. svc.mutex = c /\ caller'[c].at = "poll" /\ overtaken'.at = "none"
      BY <2>3 DEF StartAssign, At, NoCircularWait, NotAThread
    <3>2. \A d \in Callers \ {c} : caller'[d].at # "assign"
      BY <2>1, <3>1 DEF NoCircularWait
    <3> QED
      BY <3>1, <3>2 DEF Assigning
  <2>4. CASE ~Start(c) /\ ~StartAssign(c)
    <3>1. caller[c].at = "assign" <=> caller'[c].at = "assign"
      BY <1>2, <2>4 DEF Calls, Control, StartWhileRunning, StartTerminates, PollUrl,
         PollRunning, PollsOver, GetUrl, Exit, Stop, StopNotRunning, StopReadScheduler,
         StopReadTrigger, StopTriggerEvent, StopJoinable, StopJoin, StopJoinThrows,
         StopJoined, StopFinish, Destroy, EntersStop, Free, At
    <3>2. Assigning' <=> Assigning
      BY <2>1, <3>1 DEF Assigning
    <3>3. thread'.at = thread.at /\ overtaken'.at = overtaken.at
      <4>1. CASE StopTriggerEvent(c)
        BY <4>1 DEF StopTriggerEvent, FieldTypes, Thread
      <4>2. CASE UNCHANGED threads
        BY <4>2 DEF threads
      <4> QED
        BY <1>2, <2>4, <4>1, <4>2 DEF Calls, Control, StartWhileRunning, StartTerminates,
           PollUrl, PollRunning, PollsOver, GetUrl, Exit, StopNotRunning, Stop,
           StopReadScheduler, StopReadTrigger, StopJoinable, StopJoin, StopJoinThrows,
           StopJoined, StopFinish, Destroy
    <3> QED
      BY <3>2, <3>3
  <2> QED
    BY <2>2, <2>3, <2>4
<1>3. CASE RtspThread
  BY <1>0, <1>3, ThreadSteps DEF Assigning
<1>4. CASE Overtaken!RtspThread
  BY <1>4, OvertakenSteps DEF Assigning, Ended
<1>5. ASSUME NEW p \in Producers, PushH264(p) \/ PushGoesOn(p) PROVE StartHoldsBack'
  BY <1>1, <1>5 DEF PushH264, PushGoesOn, threads
<1> QED
  BY <1>2, <1>3, <1>4, <1>5 DEF Next

--------------------------------------------------------------------------------
(* Fields *)

LEMMA OverlapStays ==
  ASSUME FieldTypes, Next, process.overlap
  PROVE  process'.overlap
<1> USE DEF FieldTypes, Process
<1>1. ASSUME NEW c \in Callers, Calls(c) \/ Control(c) PROVE process'.overlap
  BY <1>1 DEF Calls, Control, StartWhileRunning, Start, StartAssign, StartTerminates,
     PollUrl, PollRunning, PollsOver, GetUrl, Exit, Stop, StopNotRunning, StopReadScheduler,
     StopReadTrigger, StopTriggerEvent, StopJoinable, StopJoin, StopJoinThrows, StopJoined,
     StopFinish, StopReturned, Terminate, Destroy
<1>2. CASE RtspThread \/ Overtaken!RtspThread
  BY <1>2, ThreadSteps, OvertakenSteps
<1>3. ASSUME NEW p \in Producers, PushH264(p) \/ PushGoesOn(p) PROVE process'.overlap
  BY <1>3 DEF PushH264, PushGoesOn
<1> QED
  BY <1>1, <1>2, <1>3 DEF Next

\* Without overlap the thread that is overtaken has ended.
LEMMA OvertakenIsStill ==
  ASSUME FieldTypes, Fields
  PROVE  ~Overtaken!RtspThread
  BY OvertakenSteps DEF Fields

LEMMA StepKeepsFields ==
  ASSUME FieldTypes, ~process.overlap => Fields, Next
  PROVE  ~process'.overlap => Fields'
<1> SUFFICES ASSUME ~process'.overlap PROVE Fields'
  OBVIOUS
<1>0. ~process.overlap /\ Fields
  BY OverlapStays
<1> USE <1>0 DEF Fields, FieldsFollowThread, UrlOfServer
<1>1. ASSUME UNCHANGED <<svc, thread, overtaken, readers>> PROVE Fields'
  BY <1>1
<1>2. ASSUME NEW c \in Callers, Calls(c) \/ Control(c) PROVE Fields'
  <2>1. CASE Start(c)
    <3>1. thread.at \in Ended
      BY <2>1 DEF Start, FieldTypes, Process
    <3>2. /\ overtaken' = thread /\ thread'.at = "scheduler" /\ ~thread'.failed
          /\ UNCHANGED <<readers, svc.scheduler, svc.stopTrigger, svc.server>> /\ ~svc'.rtspURL
      BY <2>1 DEF Start, NewSession, NotAThread, queueVars, FieldTypes, Service
    <3> QED
      BY <3>1, <3>2 DEF Ended
  <2>2. CASE StartAssign(c)
    BY <2>2 DEF StartAssign, NotAThread, Ended, FieldTypes, Service, queueVars
  <2>3. CASE Stop(c)
    BY <2>3 DEF Stop, StopSet, threads, FieldTypes, Service, queueVars
  <2>4. CASE StopReadTrigger(c)
    BY <2>4 DEF StopReadTrigger, threads, FieldTypes, Service, queueVars
  <2>5. CASE StopTriggerEvent(c)
    BY <2>5 DEF StopTriggerEvent, FieldTypes, Thread, queueVars
  <2>6. CASE StopJoined(c)
    BY <2>6 DEF StopJoined, threads, FieldTypes, Service, queueVars
  <2>7. CASE StopFinish(c)
    BY <2>7 DEF StopFinish, threads, FieldTypes, Service, queueVars
  <2>8. CASE UNCHANGED <<queueVars, svc, threads>>
    BY <1>1, <2>8 DEF queueVars, threads
  <2> QED
    BY <1>2, <2>1, <2>2, <2>3, <2>4, <2>5, <2>6, <2>7, <2>8 DEF Calls, Control,
       StartWhileRunning, StartTerminates, PollUrl, PollRunning, PollsOver, GetUrl, Exit,
       StopNotRunning, StopReadScheduler, StopJoinable, StopJoin, StopJoinThrows, Destroy
<1>3. CASE SetupScheduler
  BY <1>3 DEF SetupScheduler, ThreadAt, FieldTypes, Service, Thread, queueVars
<1>4. CASE SetupTrigger
  BY <1>4 DEF SetupTrigger, ThreadAt, FieldTypes, Service, Thread, queueVars
<1>5. CASE SetupServer
  BY <1>5 DEF SetupServer, ThreadAt, FieldTypes, Service, Thread, queueVars
<1>6. CASE SetupFails
  BY <1>6 DEF SetupFails, FieldsOfFailure, FieldTypes, Service, Thread, queueVars
<1>7. CASE SetupUrl
  BY <1>7 DEF SetupUrl, ThreadAt, FieldTypes, Service, Thread, queueVars
<1>8. CASE LoopChecksWatch
  BY <1>8 DEF LoopChecksWatch, ThreadAt, FieldTypes, Service, Thread, queueVars
<1>9. CASE LoopStep
  <2>1. /\ svc' = svc /\ overtaken' = overtaken
        /\ thread.at = "step" /\ thread'.at \in {"step", "loop"}
        /\ thread'.failed = thread.failed
    BY <1>9 DEF LoopStep, FieldTypes, Thread
  <2> QED
    BY <2>1
<1>10. CASE CleanupTrigger
  BY <1>10 DEF CleanupTrigger, FieldTypes, Service, Thread, queueVars
<1>11. CASE CleanupSource
  BY <1>11 DEF CleanupSource, ThreadAt, FieldTypes, Service, Thread
<1>12. CASE CleanupServer
  BY <1>12 DEF CleanupServer, SourcesClosed, ThreadAt, FieldTypes, Service, Thread,
     queueVars
<1>13. CASE CleanupScheduler
  BY <1>13 DEF CleanupScheduler, Freed, FieldTypes, Service, Thread
<1>14. CASE CleanupForget
  BY <1>14 DEF CleanupForget, ThreadAt, FieldTypes, Service, Thread, queueVars
<1>15. CASE CleanupQueue
  BY <1>15 DEF CleanupQueue, Queue!Clear, ThreadAt, FieldTypes, Service, Thread
<1>16. CASE ThreadEnds
  BY <1>16 DEF ThreadEnds, ThreadAt, FieldTypes, Service, Thread, queueVars
<1>17. ASSUME NEW p \in Producers, PushH264(p) \/ PushGoesOn(p) PROVE Fields'
  BY <1>1, <1>17 DEF PushH264, PushGoesOn, threads, Queue!PushAnnexBFrame, Queue!FinishPush,
     Queue!Lock, Queue!PushPureNaluLocked, Queue!WakeReaderLocked, Queue!Unlock
<1> QED
  BY <1>2, <1>3, <1>4, <1>5, <1>6, <1>7, <1>8, <1>9, <1>10, <1>11, <1>12, <1>13, <1>14,
     <1>15, <1>16, <1>17, OvertakenIsStill DEF Next, RtspThread, Setup, Cleanup

--------------------------------------------------------------------------------
(* One caller *)

LEMMA StepKeepsSession ==
  ASSUME FieldTypes, Fields, SessionOfOneCaller, OneCaller, Next
  PROVE  SessionOfOneCaller'
<1> USE DEF SessionOfOneCaller
<1>1. ASSUME UNCHANGED <<svc, thread, caller, process.overlap>> PROVE SessionOfOneCaller'
  BY <1>1 DEF Assigning
<1>2. ASSUME NEW c \in Callers, Calls(c) \/ Control(c) PROVE SessionOfOneCaller'
  <2>0. Callers = {c}
    BY DEF OneCaller
  <2>1. Assigning <=> caller[c].at = "assign"
    BY <2>0 DEF Assigning
  <2>2. Assigning' <=> caller'[c].at = "assign"
    BY <2>0 DEF Assigning
  <2> USE WhereCallersGo DEF Goto
  <2>3. CASE StartWhileRunning(c) \/ PollUrl(c) \/ PollRunning(c) \/ PollsOver(c) \/ Exit(c)
             \/ StopNotRunning(c)
    <3>1. caller[c].at \in {"idle", "poll", "pollRunning", "stop"}
      BY <2>3 DEF StartWhileRunning, PollUrl, PollRunning, PollsOver, Exit, StopNotRunning,
         EntersStop, Free, At
    <3>2. caller'[c].at \in {"idle", "poll", "pollRunning", "stop", "destroy"}
      BY <2>3
    <3>3. UNCHANGED <<svc, thread>> /\ ~process'.overlap
      BY <2>3 DEF StartWhileRunning, PollUrl, PollRunning, PollsOver, Exit, StopNotRunning,
         StopReturned, threads, FieldTypes, Process
    <3> QED
      BY <2>0, <2>1, <3>1, <3>2, <3>3
  <2>4. CASE Start(c)
    <3>1. thread.at \in Ended
      BY <2>4 DEF Start
    <3>2. /\ ~process'.overlap /\ svc'.running /\ ~svc'.rtspURL
          /\ thread'.at = "scheduler" /\ ~thread'.failed
      BY <2>4, <3>1 DEF Start, NewSession, NotAThread, FieldTypes, Service, Process
    <3> QED
      BY <2>0, <2>2, <2>4, <3>2
  <2>5. CASE StartAssign(c)
    BY <2>0, <2>5 DEF StartAssign, FieldTypes, Service
  <2>6. CASE Stop(c)
    <3>1. caller[c].at # "assign"
      BY <2>6 DEF Stop, EntersStop, Free, At
    <3>2. /\ svc'.watch /\ UNCHANGED <<svc.running, svc.joinable, svc.rtspURL, thread>>
          /\ UNCHANGED process
      BY <2>6 DEF Stop, StopSet, threads, FieldTypes, Service
    <3> QED
      BY <2>0, <2>1, <2>6, <3>1, <3>2
  <2>7. CASE StopReadScheduler(c)
    BY <2>0, <2>1, <2>7 DEF StopReadScheduler, At, threads
  <2>8. CASE StopReadTrigger(c)
    BY <2>0, <2>1, <2>8 DEF StopReadTrigger, At, threads, FieldTypes, Service
  <2>9. CASE StopTriggerEvent(c)
    <3>1. /\ caller[c].at = "trigger" /\ UNCHANGED <<svc, thread.at, thread.failed>>
          /\ ~process'.overlap
      BY <2>9, StopTriggersOnly DEF StopTriggerEvent, At
    <3> QED
      BY <2>0, <2>1, <2>9, <3>1
  <2>10. CASE StopJoinable(c)
    <3>1. caller[c].at = "joinable" /\ UNCHANGED <<svc, thread, process>>
      BY <2>10 DEF StopJoinable, At, threads
    <3>2. caller'[c].at = IF svc.joinable THEN "join" ELSE "finish"
      BY <2>10
    <3> QED
      BY <2>0, <2>1, <3>1, <3>2
  <2>11. CASE StopJoin(c)
    BY <2>0, <2>1, <2>11 DEF StopJoin, At, threads
  <2>12. CASE StopJoined(c)
    <3>1. caller[c].at = "joining" /\ thread.at \in Ended
      BY <2>1, <2>12 DEF StopJoined, At, Joined, Ended
    <3>2. UNCHANGED <<thread, process, svc.running, svc.watch, svc.rtspURL>>
      BY <2>12 DEF StopJoined, threads, FieldTypes, Service
    <3> QED
      BY <2>0, <2>12, <3>1, <3>2
  <2>13. CASE StopFinish(c)
    <3>1. caller[c].at = "finish" /\ caller'[c].at \in {"idle", "destroy"}
      BY <2>13 DEF StopFinish, At
    <3>2. UNCHANGED <<thread, svc.joinable, svc.watch, svc.rtspURL>> /\ ~process'.overlap
      BY <2>13 DEF StopFinish, StopReturned, threads, FieldTypes, Service, Process
    <3> QED
      BY <2>0, <2>1, <3>1, <3>2
  <2>14. CASE StartTerminates(c) \/ GetUrl(c) \/ StopJoinThrows(c) \/ Destroy(c)
    <3>1. UNCHANGED <<svc, thread, caller, process.overlap>>
      BY <2>14 DEF StartTerminates, GetUrl, StopJoinThrows, Destroy, Terminate, threads,
         FieldTypes, Process
    <3> QED
      BY <1>1, <3>1
  <2> QED
    BY <1>2, <2>3, <2>4, <2>5, <2>6, <2>7, <2>8, <2>9, <2>10, <2>11, <2>12, <2>13, <2>14
       DEF Calls, Control
<1>3. CASE RtspThread
  <2>1. /\ thread.at \notin Ended /\ UNCHANGED <<svc.joinable, svc.watch, process>>
        /\ \A c \in Callers : UNCHANGED caller[c].at
    BY <1>3, ThreadSteps
  <2>2. Assigning' <=> Assigning
    BY <2>1 DEF Assigning
  <2>3. \A c \in Callers : caller[c].at # "finish"
    BY <2>1
  <2> HIDE DEF SessionOfOneCaller
  <2>4. /\ thread'.at \notin Ended => svc'.running
        /\ thread'.at \in {"cleanup", "close", "delete", "forget", "clear", "end"}
             => svc'.watch \/ thread'.failed
        /\ thread'.at \in {"scheduler", "trigger", "server", "url"} \/ thread'.failed
             => ~svc'.rtspURL
    <3> USE DEF SessionOfOneCaller, FieldTypes, Service, Thread, Ended
    <3>1. CASE Setup
      BY <1>3, <3>1 DEF Setup, SetupScheduler, SetupTrigger, SetupServer, SetupFails,
         FieldsOfFailure, SetupUrl, ThreadAt, Fields, FieldsFollowThread
    <3>2. CASE LoopChecksWatch
      BY <3>2 DEF LoopChecksWatch, ThreadAt
    <3>3. CASE LoopStep
      <4>1. /\ UNCHANGED svc /\ thread.at = "step" /\ thread'.at \in {"step", "loop"}
            /\ thread'.failed = thread.failed
        BY <3>3 DEF LoopStep
      <4> QED
        BY <4>1
    <3>4. CASE CleanupTrigger \/ CleanupScheduler
      BY <3>4 DEF CleanupTrigger, CleanupScheduler
    <3>5. CASE CleanupSource \/ CleanupServer \/ CleanupForget \/ CleanupQueue
      BY <3>5 DEF CleanupSource, CleanupServer, CleanupForget, CleanupQueue, ThreadAt
    <3>6. CASE ThreadEnds
      BY <3>6 DEF ThreadEnds, ThreadAt
    <3> QED
      BY <1>3, <3>1, <3>2, <3>3, <3>4, <3>5, <3>6 DEF RtspThread, Cleanup
  <2> QED
    BY <2>1, <2>2, <2>3, <2>4 DEF SessionOfOneCaller
<1>4. ASSUME NEW p \in Producers, PushH264(p) \/ PushGoesOn(p) PROVE SessionOfOneCaller'
  BY <1>1, <1>4 DEF PushH264, PushGoesOn, threads
<1> QED
  BY <1>2, <1>3, <1>4, OvertakenIsStill DEF Next

\* Only start() touches the URL of a session, and only a failed setup leaves the thread
\* behind without a stop.
LEMMA StepKeepsOutcome ==
  ASSUME FieldTypes, Fields, SessionOfOneCaller, OutcomeOfOneCaller, OneCaller, Next
  PROVE  OutcomeOfOneCaller'
<1> USE DEF OutcomeOfOneCaller
<1>0. MaxPolls \in Nat
  BY ServiceAssumption
<1>1. ASSUME UNCHANGED <<svc, threads, caller, process>> PROVE OutcomeOfOneCaller'
  BY <1>1 DEF threads, Assigning
<1>2. ASSUME NEW c \in Callers, Calls(c) \/ Control(c) PROVE OutcomeOfOneCaller'
  <2>0. Callers = {c}
    BY DEF OneCaller
  <2>1. Assigning <=> caller[c].at = "assign"
    BY <2>0 DEF Assigning
  <2>2. Assigning' <=> caller'[c].at = "assign"
    BY <2>0 DEF Assigning
  <2> USE WhereCallersGo DEF Goto, At
  <2>3. CASE StartWhileRunning(c)
    BY <2>0, <2>2, <2>3 DEF StartWhileRunning, threads, Free
  <2>4. CASE Start(c)
    <3>1. /\ svc'.running /\ svc'.joinable = svc.joinable /\ overtaken' = thread
          /\ caller[c].at = "idle" /\ ~svc.running /\ ~process.gone
          /\ process'.terminated = process.terminated
      BY <2>4 DEF Start, Free, NewSession, FieldTypes, Service, Process
    <3> QED
      BY <2>0, <2>1, <2>2, <2>4, <3>1
  <2>5. CASE StartAssign(c)
    <3>1. /\ svc'.joinable /\ UNCHANGED <<svc.running, svc.rtspURL, thread, process>>
          /\ caller[c].at = "assign" /\ ~process.gone
      BY <2>5 DEF StartAssign, FieldTypes, Service
    <3> QED
      BY <2>0, <2>1, <2>2, <2>5, <3>1
  <2>6. CASE StartTerminates(c)
    <3>1. svc.joinable /\ Assigning /\ process'.gone /\ UNCHANGED <<svc, threads, caller>>
      BY <2>1, <2>6 DEF StartTerminates, Terminate, FieldTypes, Process
    <3> QED
      BY <3>1 DEF threads, Assigning
  <2>7. CASE PollUrl(c)
    <3>1. /\ UNCHANGED <<svc, threads>> /\ ~process'.terminated /\ caller[c].at = "poll"
      BY <2>7 DEF PollUrl, FieldTypes, Process
    <3> QED
      BY <2>0, <2>1, <2>2, <2>7, <3>1 DEF threads
  <2>8. CASE PollRunning(c)
    <3>1. /\ UNCHANGED <<svc, threads, process>> /\ caller[c].polls \in Nat
          /\ caller[c].at = "pollRunning" /\ caller'[c].at \in {"poll", "idle"}
          /\ caller'[c].polls \in {caller[c].polls, caller[c].polls + 1}
          /\ caller'[c].answer \in {caller[c].answer, "-2"}
      BY <1>0, <2>8 DEF PollRunning, FieldTypes, Call
    <3> QED
      BY <1>0, <2>0, <2>1, <2>2, <3>1 DEF threads
  <2>9. CASE PollsOver(c)
    BY <1>0, <2>0, <2>1, <2>2, <2>9 DEF PollsOver, threads
  <2>10. CASE GetUrl(c)
    <3>1. UNCHANGED <<svc, threads, caller, process.gone, process.terminated>>
      BY <2>10 DEF GetUrl, FieldTypes, Process
    <3> QED
      BY <2>1, <2>2, <3>1 DEF threads
  <2>11. CASE Exit(c)
    <3>1. /\ UNCHANGED <<svc, threads, process.gone, process.terminated>>
          /\ caller[c].at = "idle"
      BY <2>11 DEF Exit, Free, FieldTypes, Process
    <3> QED
      BY <2>0, <2>1, <2>2, <2>11, <3>1 DEF threads
  <2>12. CASE StopNotRunning(c)
    <3>1. /\ UNCHANGED <<svc, threads, process.gone, process.terminated>> /\ ~svc.running
          /\ caller[c].at \in {"idle", "stop"}
      BY <2>12 DEF StopNotRunning, StopReturned, EntersStop, Free, FieldTypes, Process
    <3>2. caller'[c].at \in {"idle", "destroy"}
      BY <2>12
    <3> QED
      BY <2>0, <2>1, <2>2, <2>12, <3>1, <3>2 DEF threads
  <2>13. CASE Stop(c)
    <3>1. /\ UNCHANGED <<svc.running, svc.joinable, svc.rtspURL, threads, process>>
          /\ caller[c].at \in {"idle", "stop"}
      BY <2>13 DEF Stop, EntersStop, Free, StopSet, FieldTypes, Service
    <3> QED
      BY <2>0, <2>1, <2>2, <2>13, <3>1 DEF threads
  <2>14. CASE StopReadScheduler(c)
    BY <2>0, <2>1, <2>2, <2>14 DEF StopReadScheduler, threads
  <2>15. CASE StopReadTrigger(c)
    <3>1. /\ UNCHANGED <<svc.running, svc.joinable, svc.rtspURL, threads, process>>
          /\ caller[c].at = "readTrigger"
      BY <2>15 DEF StopReadTrigger, FieldTypes, Service
    <3> QED
      BY <2>0, <2>1, <2>2, <2>15, <3>1 DEF threads
  <2>16. CASE StopTriggerEvent(c)
    <3>1. /\ UNCHANGED <<svc, overtaken.failed, thread.failed>> /\ caller[c].at = "trigger"
          /\ UNCHANGED <<process.gone, process.terminated>>
      BY <2>16, StopTriggersOnly DEF StopTriggerEvent
    <3> QED
      BY <2>0, <2>1, <2>2, <2>16, <3>1
  <2>17. CASE StopJoinable(c)
    <3>1. UNCHANGED <<svc, threads, process>> /\ caller[c].at = "joinable"
      BY <2>17 DEF StopJoinable
    <3>2. caller'[c].at = IF svc.joinable THEN "join" ELSE "finish"
      BY <2>17
    <3> QED
      BY <2>0, <2>1, <2>2, <2>17, <3>1, <3>2 DEF threads
  <2>18. CASE StopJoin(c)
    BY <2>0, <2>1, <2>2, <2>18 DEF StopJoin, threads
  <2>19. ~StopJoinThrows(c)
    BY <2>0 DEF StopJoinThrows, JoinFails, SessionOfOneCaller
  <2>20. CASE StopJoined(c)
    <3>1. /\ ~svc'.joinable /\ UNCHANGED <<svc.running, svc.rtspURL, threads, process>>
          /\ caller[c].at = "joining" /\ ~process.gone
      BY <2>20 DEF StopJoined, FieldTypes, Service
    <3> QED
      BY <2>0, <2>1, <2>2, <2>20, <3>1 DEF threads
  <2>21. CASE StopFinish(c)
    <3>1. /\ ~svc'.running /\ UNCHANGED <<svc.joinable, svc.rtspURL, threads>>
          /\ caller[c].at = "finish" /\ ~process.gone
          /\ process'.terminated = process.terminated
      BY <2>21 DEF StopFinish, StopReturned, FieldTypes, Service, Process
    <3>2. caller'[c].at \in {"idle", "destroy"}
      BY <2>21
    <3> QED
      BY <2>0, <2>1, <2>2, <2>21, <3>1, <3>2 DEF threads
  <2>22. CASE Destroy(c)
    <3>1. /\ UNCHANGED <<svc, threads, caller>> /\ ~svc.running /\ process'.gone
          /\ process'.terminated = svc.joinable
      BY <2>22 DEF Destroy, FieldTypes, Process
    <3> QED
      BY <2>1, <2>2, <3>1 DEF threads
  <2> QED
    BY <1>2, <2>3, <2>4, <2>5, <2>6, <2>7, <2>8, <2>9, <2>10, <2>11, <2>12, <2>13, <2>14,
       <2>15, <2>16, <2>17, <2>18, <2>19, <2>20, <2>21, <2>22 DEF Calls, Control
<1>3. CASE RtspThread
  <2>1. /\ UNCHANGED <<svc.joinable, overtaken, process>>
        /\ \A c \in Callers : UNCHANGED <<caller[c].at, caller[c].polls, caller[c].answer>>
    BY <1>3, ThreadSteps
  <2>2. Assigning' <=> Assigning
    BY <2>1 DEF Assigning
  <2>3. /\ ~svc'.running => ~svc.running \/ thread'.failed
        /\ thread.failed => thread'.failed
        /\ svc.rtspURL => svc'.rtspURL
    <3> USE DEF FieldTypes, Service, Thread
    <3>1. CASE LoopStep
      BY <3>1 DEF LoopStep
    <3>2. CASE RtspThread /\ ~LoopStep
      BY <3>2 DEF RtspThread, Setup, SetupScheduler, SetupTrigger, SetupServer, SetupFails,
         FieldsOfFailure, SetupUrl, LoopChecksWatch, Cleanup, CleanupTrigger, CleanupSource,
         CleanupServer, CleanupScheduler, CleanupForget, CleanupQueue, ThreadEnds, ThreadAt
    <3> QED
      BY <1>3, <3>1, <3>2
  <2>4. /\ ~svc'.running /\ (svc'.joinable \/ Assigning') => thread'.failed
        /\ svc'.joinable /\ Assigning' => overtaken'.failed
        /\ process'.terminated => process'.gone /\ (thread'.failed \/ overtaken'.failed)
    BY <2>1, <2>2, <2>3
  <2>5. ASSUME NEW c \in Callers
        PROVE  /\ caller'[c].at = "finish" => ~svc'.joinable
               /\ caller'[c].answer = "0" /\ caller'[c].polls < MaxPolls => svc'.rtspURL
    BY <2>1, <2>3
  <2>6. ASSUME NEW c \in Callers, caller'[c].at = "destroy" PROVE ~svc'.running
    <3>1. ~svc.running
      BY <2>1, <2>6
    <3>2. ~svc'.running
      BY <1>3, <3>1 DEF RtspThread, Setup, SetupScheduler, SetupTrigger, SetupServer,
         SetupFails, FieldsOfFailure, SetupUrl, LoopChecksWatch, LoopStep, Cleanup,
         CleanupTrigger, CleanupSource, CleanupServer, CleanupScheduler, CleanupForget,
         CleanupQueue, ThreadEnds, FieldTypes, Service
    <3> QED
      BY <3>2
  <2> QED
    BY <2>4, <2>5, <2>6
<1>4. ASSUME NEW p \in Producers, PushH264(p) \/ PushGoesOn(p) PROVE OutcomeOfOneCaller'
  BY <1>1, <1>4 DEF PushH264, PushGoesOn
<1> QED
  BY <1>2, <1>3, <1>4, OvertakenIsStill DEF Next

--------------------------------------------------------------------------------
(* The queue under the service *)

\* What is proved of the queue on its own holds of it here: the two instances of
\* H264FrameQueue are the same.
QueueProofs == INSTANCE H264FrameQueueProofs

LEMMA QueuesAgree ==
  /\ Queue!Init <=> QueueProofs!Init
  /\ Queue!Next <=> QueueProofs!Next
  /\ Queue!vars = QueueProofs!vars
  /\ Queue!TypeOK <=> QueueProofs!TypeOK
  /\ Queue!HoldsNewest <=> QueueProofs!HoldsNewest
  /\ Queue!FramesStayWhole <=> QueueProofs!FramesStayWhole
<1>1. Queue!Init <=> QueueProofs!Init
  BY DEF Queue!Init, QueueProofs!Init, Queue!TriggerIds, QueueProofs!TriggerIds,
         Queue!NotCached, QueueProofs!NotCached
<1>2. Queue!Next <=> QueueProofs!Next
  BY Zenon DEF Queue!Next, QueueProofs!Next, Queue!TriggerIds, QueueProofs!TriggerIds,
     Queue!NoTrigger, QueueProofs!NoTrigger, Queue!Push, QueueProofs!Push, Queue!FinishPush,
     QueueProofs!FinishPush, Queue!PushAnnexBFrame, QueueProofs!PushAnnexBFrame,
     Queue!SplitAnnexB, QueueProofs!SplitAnnexB, Queue!Lock, QueueProofs!Lock,
     Queue!MadeRoom, QueueProofs!MadeRoom, Queue!Cached, QueueProofs!Cached,
     Queue!NotCached, QueueProofs!NotCached, Queue!PushPureNaluLocked,
     QueueProofs!PushPureNaluLocked, Queue!WakeReaderLocked, QueueProofs!WakeReaderLocked,
     Queue!TriggerEvent, QueueProofs!TriggerEvent, Queue!Unlock, QueueProofs!Unlock,
     Queue!PopNalu, QueueProofs!PopNalu, Queue!Clear, QueueProofs!Clear,
     Queue!RegisterReader, QueueProofs!RegisterReader, Queue!UnregisterReader,
     QueueProofs!UnregisterReader, Queue!HandleEvent, QueueProofs!HandleEvent,
     Queue!ClearEvent, QueueProofs!ClearEvent, Queue!Registered, QueueProofs!Registered,
     Queue!Reader, QueueProofs!Reader
<1>3. Queue!vars = QueueProofs!vars
  BY DEF Queue!vars, QueueProofs!vars
<1>4. Queue!TypeOK <=> QueueProofs!TypeOK
  BY DEF Queue!TypeOK, QueueProofs!TypeOK, Queue!TriggerIds, QueueProofs!TriggerIds,
     Queue!Nals, QueueProofs!Nals, Queue!Nalus, QueueProofs!Nalus, Queue!Readers,
     QueueProofs!Readers, Queue!NalTypes, QueueProofs!NalTypes
<1>5. Queue!HoldsNewest <=> QueueProofs!HoldsNewest
  BY DEF Queue!HoldsNewest, QueueProofs!HoldsNewest
<1>6. Queue!FramesStayWhole <=> QueueProofs!FramesStayWhole
  BY Zenon DEF Queue!FramesStayWhole, QueueProofs!FramesStayWhole
<1> QED
  BY <1>1, <1>2, <1>3, <1>4, <1>5, <1>6


LEMMA QueueParameters ==
  /\ MaxQueuedNalus \in Nat \ {0}
  /\ MaxPushed \in Nat
  /\ Frames \subseteq Seq(QueueProofs!NalTypes) \ {<<>>}
  /\ NoThread \notin Producers /\ NoData \notin Sources
  /\ NumTriggers \in Nat \ {0}
  BY ServiceAssumption, NumTriggersAssumption DEF Queue!NalTypes, QueueProofs!NalTypes

\* A scheduler is deleted with the events that are waiting, or without any.
EventsDropped ==
  /\ UNCHANGED <<mutex, nals, queue, readers, woken, sps, pps, pushed, popped>>
  /\ pending' \in {pending, [id \in TriggerIds |-> NoData]}

\* What an RTSP thread does is a step of the queue, leaves it as it is, or deletes a
\* scheduler; the same of the thread that is overtaken.
LEMMA ThreadStepsOfQueue ==
  ASSUME Queue!Registered \subseteq Queue!TriggerIds, RtspThread
  PROVE  Queue!Next \/ UNCHANGED queueVars \/ EventsDropped
<1>1. CASE LoopStep
  BY <1>1 DEF LoopStep, Queue!Next, TriggerIds, Queue!TriggerIds
<1>2. CASE CleanupSource
  BY <1>2 DEF CleanupSource, Queue!Next, TriggerIds, Queue!TriggerIds
<1>3. CASE CleanupQueue
  BY <1>3 DEF CleanupQueue, Queue!Next
<1>4. CASE CleanupScheduler
  BY <1>4 DEF CleanupScheduler, EventsDropped
<1>5. CASE \/ Setup \/ LoopChecksWatch
           \/ CleanupTrigger \/ CleanupServer \/ CleanupForget \/ ThreadEnds
  BY <1>5 DEF Setup, SetupScheduler, SetupTrigger, SetupServer, SetupFails, SetupUrl,
     LoopChecksWatch, CleanupTrigger, CleanupServer, CleanupForget, ThreadEnds
<1> QED
  BY <1>1, <1>2, <1>3, <1>4, <1>5 DEF RtspThread, Cleanup

LEMMA OvertakenStepsOfQueue ==
  ASSUME Queue!Registered \subseteq Queue!TriggerIds, Overtaken!RtspThread
  PROVE  Queue!Next \/ UNCHANGED queueVars \/ EventsDropped
<1> USE DEF Overtaken!queueVars, queueVars
<1>1. CASE Overtaken!LoopStep
  BY <1>1 DEF Overtaken!LoopStep, Queue!Next, Overtaken!TriggerIds, Queue!TriggerIds,
     Overtaken!Queue!Registered, Queue!Registered, Overtaken!Queue!RegisterReader,
     Queue!RegisterReader, Overtaken!Queue!UnregisterReader, Queue!UnregisterReader,
     Overtaken!Queue!HandleEvent, Queue!HandleEvent, Overtaken!Queue!PopNalu,
     Queue!PopNalu, Overtaken!Queue!ClearEvent, Queue!ClearEvent, Overtaken!Queue!Reader,
     Queue!Reader, Overtaken!Queue!NoTrigger, Queue!NoTrigger
<1>2. CASE Overtaken!CleanupSource
  BY <1>2 DEF Overtaken!CleanupSource, Queue!Next, Overtaken!TriggerIds, Queue!TriggerIds,
     Overtaken!Queue!Registered, Queue!Registered, Overtaken!Queue!UnregisterReader,
     Queue!UnregisterReader, Overtaken!Queue!HandleEvent, Queue!HandleEvent,
     Overtaken!Queue!ClearEvent, Queue!ClearEvent
<1>3. CASE Overtaken!CleanupQueue
  BY <1>3 DEF Overtaken!CleanupQueue, Queue!Next, Overtaken!Queue!Clear, Queue!Clear
<1>4. CASE Overtaken!CleanupScheduler
  BY <1>4 DEF Overtaken!CleanupScheduler, Overtaken!TriggerIds, TriggerIds, EventsDropped
<1>5. CASE \/ Overtaken!Setup \/ Overtaken!LoopChecksWatch
           \/ Overtaken!CleanupTrigger \/ Overtaken!CleanupServer
           \/ Overtaken!CleanupForget \/ Overtaken!ThreadEnds
  BY <1>5 DEF Overtaken!Setup, Overtaken!SetupScheduler, Overtaken!SetupTrigger,
     Overtaken!SetupServer, Overtaken!SetupFails, Overtaken!SetupUrl,
     Overtaken!LoopChecksWatch, Overtaken!CleanupTrigger, Overtaken!CleanupServer,
     Overtaken!CleanupForget, Overtaken!ThreadEnds
<1> QED
  BY <1>1, <1>2, <1>3, <1>4, <1>5 DEF Overtaken!RtspThread, Overtaken!Cleanup

LEMMA StepsOfQueue ==
  ASSUME QueueProofs!TypeOK, Next
  PROVE  [QueueProofs!Next]_QueueProofs!vars \/ EventsDropped
<1>1. Queue!Registered \subseteq Queue!TriggerIds
  BY QueuesAgree DEF Queue!TypeOK, Queue!Readers, Queue!Registered
<1>2. ASSUME Queue!Next \/ UNCHANGED queueVars PROVE [QueueProofs!Next]_QueueProofs!vars
  BY <1>2, QueuesAgree DEF QueueProofs!vars, queueVars
<1>3. CASE RtspThread \/ Overtaken!RtspThread
  BY <1>1, <1>2, <1>3, ThreadStepsOfQueue, OvertakenStepsOfQueue
<1>4. ASSUME NEW p \in Producers, PushH264(p) \/ PushGoesOn(p) PROVE Queue!Next
  BY <1>4 DEF PushH264, PushGoesOn, Queue!Push, Queue!Next
<1>5. ASSUME NEW c \in Callers, Calls(c) \/ Control(c) PROVE UNCHANGED queueVars
  BY <1>5 DEF Calls, Control, StartWhileRunning, Start, StartAssign, StartTerminates,
     PollUrl, PollRunning, PollsOver, GetUrl, Exit, StopNotRunning, Stop, StopReadScheduler,
     StopReadTrigger, StopTriggerEvent, StopJoinable, StopJoin, StopJoinThrows, StopJoined,
     StopFinish, Destroy
<1> QED
  BY <1>2, <1>3, <1>4, <1>5 DEF Next

LEMMA StepKeepsQueue ==
  ASSUME QueueProofs!QueueInv, Next
  PROVE  QueueProofs!QueueInv'
<1>1. CASE EventsDropped
  <2>1. pending' \in [QueueProofs!TriggerIds -> Sources \cup {NoData}]
    BY <1>1 DEF EventsDropped, TriggerIds, QueueProofs!TriggerIds, QueueProofs!QueueInv,
       QueueProofs!TypeOK
  <2> QED
    BY <1>1, <2>1 DEF EventsDropped, QueueProofs!QueueInv, QueueProofs!TypeOK,
       QueueProofs!HoldsNewest, QueueProofs!ParameterSetsCached, QueueProofs!HasSps,
       QueueProofs!HasPps, QueueProofs!FramesStayWhole, QueueProofs!RestOfFrame,
       QueueProofs!UnitInProgress
<1>2. CASE [QueueProofs!Next]_QueueProofs!vars
  BY <1>2, QueueParameters, QueueProofs!StepKeepsInv
<1> QED
  BY <1>1, <1>2, StepsOfQueue DEF QueueProofs!QueueInv

--------------------------------------------------------------------------------
ServiceInv == /\ FieldTypes
              /\ NoCircularWait
              /\ StartHoldsBack
              /\ ~process.overlap => Fields
              /\ QueueProofs!QueueInv
              /\ OneCaller => SessionOfOneCaller /\ OutcomeOfOneCaller

LEMMA InitService == Init => ServiceInv
<1> SUFFICES ASSUME Init PROVE ServiceInv
  OBVIOUS
<1> USE DEF NotAThread
<1>1. FieldTypes
  BY ServiceAssumption DEF Init, FieldTypes, Service, Thread, Call, Process
<1>2. Fields
  BY DEF Init, Queue!Init, Fields, FieldsFollowThread, UrlOfServer, Ended
<1>3. SessionOfOneCaller /\ OutcomeOfOneCaller
  BY DEF Init, SessionOfOneCaller, OutcomeOfOneCaller, Ended, Assigning
<1>4. NoCircularWait /\ StartHoldsBack
  BY ServiceAssumption DEF Init, NoCircularWait, StartHoldsBack, Assigning
<1>5. QueueProofs!QueueInv
  BY QueuesAgree, QueueParameters, QueueProofs!InitInv DEF Init
<1> QED
  BY <1>1, <1>2, <1>3, <1>4, <1>5 DEF ServiceInv

LEMMA StepKeepsService == ServiceInv /\ [Next]_vars => ServiceInv'
<1> SUFFICES ASSUME ServiceInv, [Next]_vars PROVE ServiceInv'
  OBVIOUS
<1>1. /\ FieldTypes /\ NoCircularWait /\ StartHoldsBack /\ (~process.overlap => Fields)
      /\ QueueProofs!QueueInv
      /\ OneCaller => Fields /\ SessionOfOneCaller /\ OutcomeOfOneCaller
  BY DEF ServiceInv, SessionOfOneCaller
<1>2. CASE Next
  BY <1>1, <1>2, StepKeepsTypes, StepKeepsLockOrder, StepKeepsStartHoldsBack,
     StepKeepsFields, StepKeepsQueue, StepKeepsSession, StepKeepsOutcome
     DEF ServiceInv, OneCaller
<1>3. CASE UNCHANGED vars
  <2>1. /\ FieldTypes' /\ NoCircularWait' /\ StartHoldsBack' /\ (~process'.overlap => Fields')
        /\ OneCaller => SessionOfOneCaller' /\ OutcomeOfOneCaller'
    BY <1>1, <1>3 DEF vars, threads, queueVars, FieldTypes, Fields, FieldsFollowThread,
       UrlOfServer, NoCircularWait, StartHoldsBack, Assigning, SessionOfOneCaller,
       OutcomeOfOneCaller
  <2>2. QueueProofs!vars' = QueueProofs!vars
    BY <1>3 DEF vars, queueVars, QueueProofs!vars
  <2>3. QueueProofs!QueueInv'
    BY <1>1, <2>2, QueueParameters, QueueProofs!StepKeepsInv
  <2> QED
    BY <2>1, <2>3 DEF ServiceInv, OneCaller
<1> QED
  BY <1>2, <1>3

LEMMA ServiceInductive == Spec => []ServiceInv
  BY InitService, StepKeepsService, PTL DEF Spec

\* Every value of every variable stays in its set, for any number of callers.
THEOREM ServiceTypeCorrect == Spec => []TypeOK
<1>1. ServiceInv => TypeOK
  BY QueuesAgree DEF ServiceInv, FieldTypes, TypeOK, threads, QueueProofs!QueueInv
<1> QED
  BY <1>1, ServiceInductive, PTL

\* However many threads start and stop, the holder of mutex_ waits neither for another
\* caller nor in the join for the RTSP thread, which takes mutex_ to write the URL: start()
\* and stop() give it back before they wait.
THEOREM CallersNeverWaitInCircle == Spec => []NoCircularWait
<1>1. ServiceInv => NoCircularWait
  BY DEF ServiceInv
<1> QED
  BY <1>1, ServiceInductive, PTL

\* However many threads start and stop, two event loops never run on one queue, although
\* two RTSP threads may: the new one waits for mutex_ in setupLive555 as long as start()
\* has not assigned rtspThread_, which takes a thread there that has been joined.
THEOREM OneLoopAtATime == Spec => []OneEventLoop
<1>1. ServiceInv => OneEventLoop
  BY DEF ServiceInv, StartHoldsBack, OneEventLoop
<1> QED
  BY <1>1, ServiceInductive, PTL

\* How many steps a call has left when it is at a place of its code.
LEMMA StepsLeftAt ==
  ASSUME NEW call, call.polls \in Nat, call.polls <= MaxPolls
  PROVE  /\ call.at = "idle" => StepsLeft(call) = 0
         /\ call.at = "destroy" => StepsLeft(call) = 1
         /\ call.at = "finish" => StepsLeft(call) = 2
         /\ call.at = "joining" => StepsLeft(call) = 3
         /\ call.at = "join" => StepsLeft(call) = 4
         /\ call.at = "joinable" => StepsLeft(call) = 5
         /\ call.at = "trigger" => StepsLeft(call) = 6
         /\ call.at = "readTrigger" => StepsLeft(call) = 7
         /\ call.at = "readScheduler" => StepsLeft(call) = 8
         /\ call.at = "stop" => StepsLeft(call) = 9
         /\ call.at = "assign" => StepsLeft(call) = 2 * MaxPolls + 2
         /\ call.at = "poll" => StepsLeft(call) = 2 * (MaxPolls - call.polls) + 1
         /\ call.at = "pollRunning" => StepsLeft(call) = 2 * (MaxPolls - call.polls)
  BY DEF StepsLeft

\* A step of a caller inside a call is the next of its call, never one it has taken.
LEMMA CallMovesOn ==
  ASSUME FieldTypes, NEW c \in Callers, caller[c].at # "idle", Calls(c) \/ Control(c)
  PROVE  \/ UNCHANGED <<caller[c].at, caller[c].polls>>
         \/ StepsLeft(caller'[c]) < StepsLeft(caller[c])
<1>0. MaxPolls \in Nat
  BY ServiceAssumption
<1>1. /\ caller[c].polls \in Nat /\ caller[c].polls <= MaxPolls
      /\ caller[c].at = "pollRunning" => caller[c].polls < MaxPolls
  BY <1>0 DEF FieldTypes, Call
<1> USE WhereCallersGo DEF Goto, At, Free
<1>2. CASE PollUrl(c)
  <2>1. caller[c].at = "poll" /\ caller[c].polls < MaxPolls /\ caller'[c].polls = caller[c].polls
    BY <1>0, <1>1, <1>2 DEF PollUrl, PollsLeft
  <2>2. caller'[c].at \in {"idle", "pollRunning"}
    BY <1>2
  <2> QED
    BY <1>0, <1>1, <2>1, <2>2, StepsLeftAt
<1>3. CASE PollRunning(c)
  <2>1. caller[c].at = "pollRunning"
    BY <1>3 DEF PollRunning
  <2>2. CASE svc.running
    <3>1. caller'[c].at = "poll" /\ caller'[c].polls = caller[c].polls + 1
      BY <1>3, <2>2
    <3> QED
      BY <1>0, <1>1, <2>1, <3>1, StepsLeftAt
  <2>3. CASE ~svc.running
    <3>1. caller'[c].at = "idle" /\ caller'[c].polls = caller[c].polls
      BY <1>3, <2>3
    <3> QED
      BY <1>0, <1>1, <2>1, <3>1, StepsLeftAt
  <2> QED
    BY <2>2, <2>3
<1>4. CASE PollsOver(c)
  <2>1. caller[c].at = "poll" /\ caller'[c].at = "idle" /\ caller'[c].polls = caller[c].polls
    BY <1>4 DEF PollsOver
  <2> QED
    BY <1>0, <1>1, <2>1, StepsLeftAt
<1>5. CASE Stop(c) \/ StopNotRunning(c) \/ StopFinish(c)
  <2>1. caller[c].at \in {"stop", "finish"} /\ caller'[c].polls = caller[c].polls
    BY <1>5 DEF Stop, StopNotRunning, StopFinish, EntersStop
  <2>2. \/ caller[c].at = "stop" /\ caller'[c].at \in {"readScheduler", "destroy", "idle"}
        \/ caller[c].at = "finish" /\ caller'[c].at \in {"destroy", "idle"}
    BY <1>5 DEF Stop, StopNotRunning, StopFinish, EntersStop
  <2> QED
    BY <1>1, <2>1, <2>2, StepsLeftAt
<1>6. CASE StopReadScheduler(c) \/ StopReadTrigger(c) \/ StopTriggerEvent(c)
  <2>1. /\ caller'[c].polls = caller[c].polls
        /\ \/ caller[c].at = "readScheduler" /\ caller'[c].at = "readTrigger"
           \/ caller[c].at = "readTrigger" /\ caller'[c].at = "trigger"
           \/ caller[c].at = "trigger" /\ caller'[c].at = "joinable"
    BY <1>6 DEF StopReadScheduler, StopReadTrigger, StopTriggerEvent
  <2> QED
    BY <1>1, <2>1, StepsLeftAt
<1>7. CASE StopJoinable(c) \/ StopJoin(c) \/ StopJoined(c)
  <2>1. /\ caller'[c].polls = caller[c].polls
        /\ \/ caller[c].at = "joinable" /\ caller'[c].at \in {"join", "finish"}
           \/ caller[c].at = "join" /\ caller'[c].at = "joining"
           \/ caller[c].at = "joining" /\ caller'[c].at = "finish"
    BY <1>7 DEF StopJoinable, StopJoin, StopJoined
  <2> QED
    BY <1>1, <2>1, StepsLeftAt
<1>8. CASE StartAssign(c)
  <2>1. /\ caller[c].at = "assign" /\ caller'[c].at = "poll"
        /\ caller'[c].polls = caller[c].polls
    BY <1>8 DEF StartAssign
  <2> QED
    BY <1>0, <1>1, <2>1, StepsLeftAt
<1>9. CASE StartTerminates(c) \/ GetUrl(c) \/ StopJoinThrows(c) \/ Destroy(c)
  BY <1>9 DEF StartTerminates, GetUrl, StopJoinThrows, Destroy
<1>10. ~(StartWhileRunning(c) \/ Start(c) \/ Exit(c))
  BY DEF StartWhileRunning, Start, Exit
<1> QED
  BY <1>2, <1>3, <1>4, <1>5, <1>6, <1>7, <1>8, <1>9, <1>10 DEF Calls, Control

\* Every step of a call brings its end nearer, for any number of rounds of the wait in
\* live555_rtsp_start, and no step of anybody else takes it back.
THEOREM CallsOnlyMoveOn == Spec => CallsMoveOn
<1> DEFINE MovesOn(c) == \/ UNCHANGED <<caller[c].at, caller[c].polls>>
                        \/ StepsLeft(caller'[c]) < StepsLeft(caller[c])
<1>1. ServiceInv /\ [Next]_vars
        => [\A c \in Callers : caller[c].at # "idle" =>
              \/ UNCHANGED <<caller[c].at, caller[c].polls>>
              \/ StepsLeft(caller'[c]) < StepsLeft(caller[c])]_vars
  <2> SUFFICES ASSUME ServiceInv, Next, NEW c \in Callers, caller[c].at # "idle"
               PROVE  MovesOn(c)
    OBVIOUS
  <2>1. FieldTypes
    BY DEF ServiceInv
  <2>2. ASSUME NEW d \in Callers, Calls(d) \/ Control(d) PROVE MovesOn(c)
    <3>1. CASE d = c
      BY <2>1, <2>2, <3>1, CallMovesOn
    <3>2. CASE d # c
      BY <2>1, <2>2, <3>2, CallersMove
    <3> QED
      BY <3>1, <3>2
  <2>3. CASE RtspThread \/ Overtaken!RtspThread
    BY <2>1, <2>3, ThreadSteps, OvertakenSteps
  <2>4. ASSUME NEW p \in Producers, PushH264(p) \/ PushGoesOn(p) PROVE MovesOn(c)
    BY <2>4 DEF PushH264, PushGoesOn
  <2> QED
    BY <2>2, <2>3, <2>4 DEF Next
<1> QED
  BY <1>1, ServiceInductive, PTL DEF Spec, CallsMoveOn

\* As long as the queue knows a reader, the scheduler it would trigger exists
\* (cleanupLive555 closes the server before it deletes the scheduler), however many
\* threads start, stop and push, until two RTSP threads have run at once.
THEOREM PushesWakeLiveScheduler == Spec => []PushWakesLiveScheduler
<1>1. ServiceInv => PushWakesLiveScheduler
  <2> SUFFICES ASSUME ServiceInv, ~process.overlap PROVE PushWakesLiveScheduler
    BY DEF PushWakesLiveScheduler
  <2>1. woken \subseteq readers
    BY QueuesAgree DEF ServiceInv, QueueProofs!QueueInv, Queue!TypeOK
  <2>2. readers # {} => svc.scheduler = "valid"
    BY DEF ServiceInv, Fields, FieldsFollowThread
  <2> QED
    BY <2>1, <2>2 DEF PushWakesLiveScheduler
<1> QED
  BY <1>1, ServiceInductive, PTL

\* A URL that can be read while the service runs and is not being stopped is that
\* of the server that is up: start() clears the old one.  So it is until two RTSP
\* threads have run at once.
THEOREM UrlIsOfLiveServer == Spec => []UrlMeansServing
<1>1. ServiceInv => UrlMeansServing
  BY DEF ServiceInv, Fields, FieldsFollowThread, UrlOfServer, UrlMeansServing
<1> QED
  BY <1>1, ServiceInductive, PTL

\* With one caller nothing of a session is left when the service says it does not
\* run, neither after a stop nor after a setup that failed.
THEOREM OneCallerReleases == Spec => [](OneCaller => NotRunningMeansReleased)
<1>1. ServiceInv => (OneCaller => NotRunningMeansReleased)
  BY DEF ServiceInv, Fields, FieldsFollowThread, SessionOfOneCaller,
     NotRunningMeansReleased, Released, Ended
<1> QED
  BY <1>1, ServiceInductive, PTL

\* With one caller a start that returned 0 before its 100 rounds were over has started
\* the service, and its setup does not fail any more.
THEOREM ZeroInTimeIsTrue == Spec => [](OneCaller => ZeroInTimeMeansStarted)
<1>1. ServiceInv => (OneCaller => ZeroInTimeMeansStarted)
  BY DEF ServiceInv, SessionOfOneCaller, OutcomeOfOneCaller, ZeroInTimeMeansStarted
<1> QED
  BY <1>1, ServiceInductive, PTL

\* With one caller only a start whose setup failed leaves a thread that nobody joins: in
\* all other sessions neither the next start nor the exit calls std::terminate.
THEOREM OnlyFailureTerminates == Spec => [](OneCaller => OnlyFailedStartsTerminate)
<1>1. ServiceInv => (OneCaller => OnlyFailedStartsTerminate)
  BY DEF ServiceInv, OutcomeOfOneCaller, OnlyFailedStartsTerminate
<1> QED
  BY <1>1, ServiceInductive, PTL

--------------------------------------------------------------------------------
(* The contract *)

\* A step that changes nothing the contract sees is a stutter of it.
LEMMA ContractStutters ==
  ASSUME svc'.running = svc.running, svc'.watch = svc.watch, svc'.rtspURL = svc.rtspURL,
         svc'.server = svc.server
  PROVE  UNCHANGED Contract!vars
  BY DEF Contract!vars

\* What a caller does is a start, a stop, the end of a stop, or nothing the contract
\* sees.
LEMMA CallersFollowContract ==
  ASSUME FieldTypes, Fields, SessionOfOneCaller, OneCaller,
         NEW c \in Callers, Calls(c) \/ Control(c)
  PROVE  [Contract!Next]_Contract!vars
<1> USE DEF FieldTypes, Service
<1>1. CASE Start(c)
  <2>1. thread.at \in Ended /\ ~svc.server /\ ~svc.running
    BY <1>1 DEF Start, SessionOfOneCaller, Fields, FieldsFollowThread, Ended
  <2>2. Contract!Start
    BY <1>1, <2>1 DEF Start, NewSession, Contract!Start
  <2> QED
    BY <2>2 DEF Contract!Next
<1>2. CASE Stop(c)
  <2>1. CASE svc.watch
    BY <1>2, <2>1, ContractStutters DEF Stop, StopSet
  <2>2. CASE ~svc.watch
    BY <1>2, <2>2 DEF Stop, StopSet, Contract!Stop, Contract!Next
  <2> QED
    BY <2>1, <2>2
<1>3. CASE StopFinish(c)
  <2>1. svc.watch /\ thread.at \in Ended
    BY <1>3 DEF StopFinish, At, SessionOfOneCaller
  <2>2. ~svc.server
    BY <2>1 DEF Fields, FieldsFollowThread, Ended
  <2>3. CASE svc.running
    BY <1>3, <2>1, <2>2, <2>3 DEF StopFinish, Contract!Stopped, Contract!Next
  <2>4. CASE ~svc.running
    BY <1>3, <2>4, ContractStutters DEF StopFinish
  <2> QED
    BY <2>3, <2>4
<1>4. CASE StopReadTrigger(c)
  BY <1>4, ContractStutters DEF StopReadTrigger
<1>5. CASE StopJoined(c)
  BY <1>5, ContractStutters DEF StopJoined
<1>6. CASE StartAssign(c)
  BY <1>6, ContractStutters DEF StartAssign
<1>7. CASE UNCHANGED svc
  BY <1>7, ContractStutters
<1> QED
  BY <1>1, <1>2, <1>3, <1>4, <1>5, <1>6, <1>7 DEF Calls, Control, StartWhileRunning,
     StartTerminates, PollUrl, PollRunning, PollsOver, GetUrl, Exit, StopNotRunning,
     StopReadScheduler, StopTriggerEvent, StopJoinable, StopJoin, StopJoinThrows, Destroy

\* What the RTSP thread does is to open the port, to announce the URL, to close the
\* port, to give up, or nothing the contract sees.
LEMMA ThreadFollowsContract ==
  ASSUME FieldTypes, Fields, SessionOfOneCaller, OneCaller, RtspThread
  PROVE  [Contract!Next]_Contract!vars
<1> USE DEF FieldTypes, Service, Thread
<1>1. CASE SetupServer
  <2>1. thread.at = "server" /\ svc.running /\ ~svc.rtspURL /\ ~svc.server
    BY <1>1 DEF SetupServer, ThreadAt, SessionOfOneCaller, Fields, FieldsFollowThread, Ended
  <2>2. Contract!OpenPort
    BY <1>1, <2>1 DEF SetupServer, Contract!OpenPort
  <2> QED
    BY <2>2 DEF Contract!Next
<1>2. CASE SetupUrl
  <2>1. thread.at = "url" /\ svc.running /\ ~svc.rtspURL /\ svc.server
    BY <1>2 DEF SetupUrl, ThreadAt, SessionOfOneCaller, Fields, FieldsFollowThread, Ended
  <2>2. CASE svc.watch
    BY <1>2, <2>1, <2>2 DEF SetupUrl, Contract!vars
  <2>3. CASE ~svc.watch
    BY <1>2, <2>1, <2>3 DEF SetupUrl, Contract!Announce, Contract!Next
  <2> QED
    BY <2>2, <2>3
<1>3. CASE CleanupServer
  <2>1. thread.at = "close" /\ svc.running
    BY <1>3 DEF CleanupServer, ThreadAt, SessionOfOneCaller, Ended
  <2>2. CASE svc.server
    <3>1. svc.watch
      BY <2>1, <2>2 DEF Fields, FieldsFollowThread, SessionOfOneCaller
    <3> QED
      BY <1>3, <2>1, <2>2, <3>1 DEF CleanupServer, Contract!ClosePort, Contract!Next
  <2>3. CASE ~svc.server
    BY <1>3, <2>3, ContractStutters DEF CleanupServer
  <2> QED
    BY <2>2, <2>3
<1>4. CASE ThreadEnds
  <2>1. thread.at = "end" /\ svc.running /\ ~svc.server
    BY <1>4 DEF ThreadEnds, ThreadAt, SessionOfOneCaller, Fields, FieldsFollowThread, Ended
  <2>2. CASE ~thread.failed
    BY <1>4, <2>1, <2>2, ContractStutters DEF ThreadEnds
  <2>3. CASE thread.failed /\ svc.watch
    BY <1>4, <2>1, <2>3 DEF ThreadEnds, Contract!Stopped, Contract!Next
  <2>4. CASE thread.failed /\ ~svc.watch
    <3>1. ~svc.rtspURL
      BY <2>4 DEF SessionOfOneCaller
    <3> QED
      BY <1>4, <2>1, <2>4, <3>1 DEF ThreadEnds, Contract!Fail, Contract!Next
  <2> QED
    BY <2>2, <2>3, <2>4
<1>5. CASE SetupScheduler \/ SetupTrigger \/ CleanupTrigger \/ CleanupScheduler \/ CleanupForget
  BY <1>5, ContractStutters DEF SetupScheduler, SetupTrigger, CleanupTrigger,
     CleanupScheduler, CleanupForget
<1>6. CASE UNCHANGED svc
  BY <1>6, ContractStutters
<1> QED
  BY <1>1, <1>2, <1>3, <1>4, <1>5, <1>6 DEF RtspThread, Setup, SetupFails, FieldsOfFailure,
     LoopChecksWatch, LoopStep, Cleanup, CleanupSource, CleanupQueue

\* With one caller the service goes through the states of its contract: the port is
\* opened at most once per session, and it is closed when the service is stopped.
THEOREM ServiceImplementsContract == OneCaller => (Spec => ImplementsContract)
<1> SUFFICES ASSUME OneCaller PROVE Spec => ImplementsContract
  OBVIOUS
<1>1. Init => Contract!Init
  BY DEF Init, Contract!Init
<1>2. ServiceInv /\ [Next]_vars => [Contract!Next]_Contract!vars
  <2> SUFFICES ASSUME ServiceInv, [Next]_vars PROVE [Contract!Next]_Contract!vars
    OBVIOUS
  <2>1. FieldTypes /\ Fields /\ SessionOfOneCaller
    BY DEF ServiceInv, SessionOfOneCaller
  <2>2. CASE UNCHANGED vars
    BY <2>2, ContractStutters DEF vars
  <2>3. ASSUME NEW p \in Producers, PushH264(p) \/ PushGoesOn(p)
         PROVE  [Contract!Next]_Contract!vars
    BY <2>3, ContractStutters DEF PushH264, PushGoesOn
  <2> QED
    BY <2>1, <2>2, <2>3, CallersFollowContract, ThreadFollowsContract, OvertakenIsStill
       DEF Next
<1> QED
  BY <1>1, <1>2, ServiceInductive, PTL DEF Spec, Contract!Spec, ImplementsContract

===============================================================================
