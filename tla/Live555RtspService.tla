-------------------------- MODULE Live555RtspService --------------------------
(***************************************************************************)
(* The life cycle of the service: the C API (src/src/live555_rtsp_c_api.cpp) *)
(* on top of Live555RtspService (src/src/live555RtspService.{hh,cpp}), its  *)
(* RTSP thread (RtspThreadMain.tla), and the encoder threads that push      *)
(* through both.                                                           *)
(*                                                                         *)
(* Callers are the threads that start, stop and ask.  mutex_ keeps apart   *)
(* only what the callers do to the fields.  start() holds it while the new *)
(* RTSP thread already runs; stop() uses its copies and joins outside of   *)
(* it.  When several callers start and stop at once, a start() may begin a *)
(* thread while another still runs.                                        *)
(***************************************************************************)
EXTENDS RtspThreadMain

CONSTANT MaxPolls  \* the 100 rounds in which start waits for the URL

ASSUME ServiceAssumption == /\ MaxPolls \in Nat /\ NoThread \notin Callers
                            /\ MaxQueuedNalus \in Nat \ {0} /\ MaxPushed \in Nat
                            /\ Frames \subseteq Seq(Queue!NalTypes) \ {<<>>}
                            /\ NoThread \notin Producers /\ NoData \notin Sources

\* From the moment start() begins an RTSP thread until rtspThread_ refers to it, the one
\* before it, running or not, is the overtaken.
Overtaken == INSTANCE RtspThreadMain WITH thread <- overtaken, overtaken <- thread

threads == <<thread, overtaken>>

vars == <<queueVars, svc, threads, caller, process>>

\* scheduler and stopTrigger are the locals of stop(), polls is "i" of
\* live555_rtsp_start, and answer what the last of its calls returned.
Call == [at : {"idle", "assign", "poll", "pollRunning", "stop", "readScheduler", "readTrigger",
               "trigger", "joinable", "join", "joining", "finish", "destroy"},
         scheduler : {"null", "valid", "dangling"}, stopTrigger : BOOLEAN,
         polls : 0..MaxPolls, answer : {"none", "0", "-2"}]

\* url: g_rtspURL is not empty.  exiting: stop() runs in the destructor.  gone:
\* the process has ended, by std::terminate if terminated.  Ghosts: stale, stop() has
\* used a scheduler that was deleted; overlap, a start() has begun an RTSP thread
\* while another was running.  From then on each of the two uses what the other writes
\* and deletes without mutex_: it goes on with what it finds, or the process crashes,
\* which is to say that the behaviour ends there.
Process == [url : BOOLEAN, exiting : BOOLEAN, gone : BOOLEAN, terminated : BOOLEAN,
            stale : BOOLEAN, overlap : BOOLEAN]

NotAThread == [at |-> "none", failed |-> FALSE, stopEvent |-> FALSE]

Init == /\ Queue!Init
        /\ svc = [running |-> FALSE, watch |-> FALSE, scheduler |-> "null",
                  stopTrigger |-> FALSE, server |-> FALSE, rtspURL |-> FALSE,
                  joinable |-> FALSE, mutex |-> NoThread]
        /\ thread = NotAThread /\ overtaken = NotAThread
        /\ caller = [c \in Callers |-> [at |-> "idle", scheduler |-> "null",
                                      stopTrigger |-> FALSE, polls |-> 0, answer |-> "none"]]
        /\ process = [url |-> FALSE, exiting |-> FALSE, gone |-> FALSE, terminated |-> FALSE,
                      stale |-> FALSE, overlap |-> FALSE]

--------------------------------------------------------------------------------
(* live555_rtsp_start and Live555RtspService::start *)

At(c, step) == ~process.gone /\ caller[c].at = step

\* A caller goes on, and its call returns with an answer.
Goes(c, step) == caller' = [caller EXCEPT ![c].at = step]

Returns(c, answer) ==
  caller' = [caller EXCEPT ![c] = [@ EXCEPT !.at = "idle", !.answer = answer]]

\* A caller is not in a call, and the process does not exit.
Free(c) == At(c, "idle") /\ ~process.exiting

Polls(c) ==
  caller' = [caller EXCEPT ![c] = [@ EXCEPT !.at = "poll", !.polls = 0, !.answer = "none"]]

StartWhileRunning(c) ==
  /\ Free(c) /\ Unlocked /\ svc.running
  /\ Polls(c)
  /\ UNCHANGED <<queueVars, svc, threads, process>>

\* A slip: the URL of the last session is left in place.
OldUrlSession(c) == [svc EXCEPT !.watch = FALSE, !.running = TRUE, !.mutex = c]

\* A slip: mutex_ is given back before the thread is begun.
UnlockedSession(c) == [svc EXCEPT !.rtspURL = FALSE, !.watch = FALSE, !.running = TRUE]

\* What start() makes of the fields.  It holds mutex_ to its end.
NewSession(c) == [svc EXCEPT !.rtspURL = FALSE, !.watch = FALSE, !.running = TRUE, !.mutex = c]

Ended == {"none", "exited"}

\* The fields are written and the new thread begins, whatever has become of the last.
Start(c) ==
  /\ Free(c) /\ Unlocked /\ ~svc.running
  /\ svc' = NewSession(c)
  /\ thread' = [NotAThread EXCEPT !.at = "scheduler"] /\ overtaken' = thread
  /\ caller' = [caller EXCEPT ![c] = [@ EXCEPT !.at = "assign", !.polls = 0, !.answer = "none"]]
  /\ process' = [process EXCEPT !.overlap = @ \/ thread.at \notin Ended]
  /\ UNCHANGED queueVars

\* Only then is rtspThread_ assigned, ...
StartAssign(c) ==
  /\ At(c, "assign") /\ ~svc.joinable
  /\ svc' = [svc EXCEPT !.joinable = TRUE, !.mutex = NoThread]
  /\ overtaken' = NotAThread
  /\ Goes(c, "poll")
  /\ UNCHANGED <<queueVars, thread, process>>

Terminate == process' = [process EXCEPT !.terminated = TRUE, !.gone = TRUE]

\* ... and to assign it while it is joinable calls std::terminate.
StartTerminates(c) ==
  /\ At(c, "assign") /\ svc.joinable
  /\ Terminate
  /\ UNCHANGED <<queueVars, svc, threads, caller>>

\* A slip: one round too many.
OneMorePoll(c) == caller[c].polls <= MaxPolls

PollsLeft(c) == caller[c].polls < MaxPolls

\* One round of the loop that waits for the URL: the URL first, ...
PollUrl(c) ==
  /\ At(c, "poll") /\ PollsLeft(c) /\ Unlocked
  /\ process' = [process EXCEPT !.url = svc.rtspURL]
  /\ IF svc.rtspURL THEN Returns(c, "0") ELSE Goes(c, "pollRunning")
  /\ UNCHANGED <<queueVars, svc, threads>>

\* A slip: neither does the round count, nor is the answer of isRunning looked at.
PollAgain(c) == Goes(c, "poll")

\* ... and then whether the service has given up.
PollResult(c) ==
  IF svc.running
    THEN caller' = [caller EXCEPT ![c] = [@ EXCEPT !.at = "poll",
                                                   !.polls = caller[c].polls + 1]]
    ELSE Returns(c, "-2")

PollRunning(c) ==
  /\ At(c, "pollRunning")
  /\ PollResult(c)
  /\ UNCHANGED <<queueVars, svc, threads, process>>

\* After the last round the answer is 0 although there is no URL.
PollsOver(c) ==
  /\ At(c, "poll") /\ caller[c].polls = MaxPolls
  /\ Returns(c, "0")
  /\ UNCHANGED <<queueVars, svc, threads, process>>

\* live555_rtsp_get_url
GetUrl(c) ==
  /\ Free(c) /\ Unlocked /\ process.url # svc.rtspURL
  /\ process' = [process EXCEPT !.url = svc.rtspURL]
  /\ UNCHANGED <<queueVars, svc, threads, caller>>

--------------------------------------------------------------------------------
(* live555_rtsp_stop and Live555RtspService::stop, also from the destructor *)

\* The program ends when no caller is in a call any more.
Exit(c) ==
  /\ Free(c) /\ \A d \in Callers : caller[d].at = "idle"
  /\ process' = [process EXCEPT !.exiting = TRUE]
  /\ Goes(c, "stop")
  /\ UNCHANGED <<queueVars, svc, threads>>

EntersStop(c) == (Free(c) \/ At(c, "stop")) /\ Unlocked

\* live555_rtsp_stop forgets its copy of the URL after stop(), the destructor does not.
StopReturned(c) ==
  /\ caller' = [caller EXCEPT ![c] =
                  [@ EXCEPT !.at = IF process.exiting THEN "destroy" ELSE "idle",
                            !.answer = "none"]]
  /\ process' = [process EXCEPT !.url = @ /\ process.exiting]

\* stop() returns early.
StopNotRunning(c) ==
  /\ EntersStop(c) /\ ~svc.running
  /\ StopReturned(c)
  /\ UNCHANGED <<queueVars, svc, threads>>

\* A slip: the watch variable is not set, and only the trigger wakes the loop.
NoWatchSet(c) == [svc EXCEPT !.mutex = c]

StopSet(c) == [svc EXCEPT !.mutex = c, !.watch = TRUE]

Stop(c) ==
  /\ EntersStop(c) /\ svc.running
  /\ svc' = StopSet(c)
  /\ Goes(c, "readScheduler")
  /\ UNCHANGED <<queueVars, threads, process>>

StopReadScheduler(c) ==
  /\ At(c, "readScheduler")
  /\ caller' = [caller EXCEPT ![c] = [@ EXCEPT !.at = "readTrigger",
                                               !.scheduler = svc.scheduler]]
  /\ UNCHANGED <<queueVars, svc, threads, process>>

\* A slip: mutex_ is kept until the thread has been joined.
StopKeepsMutex(c) ==
  /\ At(c, "readTrigger")
  /\ caller' = [caller EXCEPT ![c] = [@ EXCEPT !.at = "trigger",
                                               !.stopTrigger = svc.stopTrigger]]
  /\ UNCHANGED <<queueVars, svc, threads, process>>

StopReadTrigger(c) ==
  /\ At(c, "readTrigger")
  /\ caller' = [caller EXCEPT ![c] = [@ EXCEPT !.at = "trigger",
                                               !.stopTrigger = svc.stopTrigger]]
  /\ svc' = [svc EXCEPT !.mutex = NoThread]
  /\ UNCHANGED <<queueVars, threads, process>>

\* While a start() has not returned, rtspThread_ refers to the thread before.
Assigning == \E c \in Callers : caller[c].at = "assign"

\* The copies are used without mutex_, while the RTSP thread may clean up.
StopTriggerEvent(c) ==
  /\ At(c, "trigger")
  /\ LET triggers == caller[c].scheduler # "null" /\ caller[c].stopTrigger
         raised(t) == [t EXCEPT !.stopEvent = @ \/ (triggers /\ caller[c].scheduler = "valid")]
     IN  /\ IF Assigning THEN overtaken' = raised(overtaken) /\ UNCHANGED thread
                         ELSE thread' = raised(thread) /\ UNCHANGED overtaken
         /\ process' = [process EXCEPT !.stale =
                          @ \/ (triggers /\ caller[c].scheduler = "dangling")]
  /\ caller' = [caller EXCEPT ![c] = [@ EXCEPT !.at = "joinable", !.scheduler = "null",
                                            !.stopTrigger = FALSE]]
  /\ UNCHANGED <<queueVars, svc>>

\* A slip: the join is forgotten.
StopWithoutJoin(c) ==
  /\ At(c, "joinable")
  /\ Goes(c, "finish")
  /\ UNCHANGED <<queueVars, svc, threads, process>>

\* rtspThread_ is joined if it is joinable, and both without mutex_.
StopJoinable(c) ==
  /\ At(c, "joinable")
  /\ Goes(c, IF svc.joinable THEN "join" ELSE "finish")
  /\ UNCHANGED <<queueVars, svc, threads, process>>

\* Another caller joins the thread, or has joined it since.
JoinFails == ~svc.joinable \/ \E d \in Callers : caller[d].at = "joining"

StopJoin(c) ==
  /\ At(c, "join") /\ ~JoinFails
  /\ Goes(c, "joining")
  /\ UNCHANGED <<queueVars, svc, threads, process>>

\* join() throws, and nobody catches it.
StopJoinThrows(c) ==
  /\ At(c, "join") /\ JoinFails
  /\ Terminate
  /\ UNCHANGED <<queueVars, svc, threads, caller>>

\* A slip: the thread is left to itself.
LetGo == TRUE

Joined == (IF Assigning THEN overtaken ELSE thread).at = "exited"

StopJoined(c) ==
  /\ At(c, "joining") /\ Joined
  /\ svc' = [svc EXCEPT !.joinable = FALSE]
  /\ Goes(c, "finish")
  /\ UNCHANGED <<queueVars, threads, process>>

StopFinish(c) ==
  /\ At(c, "finish") /\ Unlocked
  /\ svc' = [svc EXCEPT !.running = FALSE]
  /\ StopReturned(c)
  /\ UNCHANGED <<queueVars, threads>>

\* The members are destroyed after the destructor's body: a joinable std::thread
\* calls std::terminate.
Destroy(c) ==
  /\ At(c, "destroy")
  /\ process' = [process EXCEPT !.gone = TRUE, !.terminated = svc.joinable]
  /\ UNCHANGED <<queueVars, svc, threads, caller>>

--------------------------------------------------------------------------------
(* live555_rtsp_push_h264_annexb *)

\* isRunning() is asked before the frame is split and mutex_ of the queue taken.
PushH264(p) ==
  /\ svc.running /\ ~process.gone
  /\ \E frame \in Frames : Queue!PushAnnexBFrame(p, frame)
  /\ UNCHANGED <<svc, threads, caller, process>>

PushGoesOn(p) == /\ ~process.gone
                 /\ Queue!FinishPush(p)
                 /\ UNCHANGED <<svc, threads, caller, process>>

\* What a caller does on its own inside a call, and which calls it may make.
Control(c) == \/ StartAssign(c) \/ StartTerminates(c)
              \/ PollUrl(c) \/ PollRunning(c) \/ PollsOver(c)
              \/ StopReadScheduler(c) \/ StopReadTrigger(c) \/ StopTriggerEvent(c)
              \/ StopJoinable(c) \/ StopJoin(c) \/ StopJoinThrows(c) \/ StopJoined(c)
              \/ StopFinish(c) \/ Destroy(c)

Calls(c) == \/ StartWhileRunning(c) \/ Start(c)
            \/ GetUrl(c)
            \/ Stop(c) \/ StopNotRunning(c)
            \/ Exit(c)

Next == \/ \E c \in Callers : Calls(c) \/ Control(c)
        \/ RtspThread
        \/ Overtaken!RtspThread
        \/ \E p \in Producers : PushH264(p) \/ PushGoesOn(p)

Spec == Init /\ [][Next]_vars

\* Every thread runs on inside a call, and an RTSP thread comes to the end of a
\* round.  Nothing makes a caller call.
Fairness == /\ \A c \in Callers :
                 WF_vars(Control(c) \/ (At(c, "stop") /\ (Stop(c) \/ StopNotRunning(c))))
            /\ WF_vars(RtspThread /\ thread'.at # thread.at)
            /\ WF_vars(CleanupSource)
            /\ WF_vars(Overtaken!RtspThread /\ overtaken'.at # overtaken.at)
            /\ \A p \in Producers : WF_vars(PushGoesOn(p))

FairSpec == Spec /\ Fairness

--------------------------------------------------------------------------------
TypeOK == /\ Queue!TypeOK
          /\ svc \in Service /\ threads \in Thread \X Thread /\ process \in Process
          /\ caller \in [Callers -> Call]

\* Nothing of a session is left: no thread that could touch the fields, no server,
\* no scheduler, and no reader that a late push would wake.
Released == /\ thread.at \in Ended /\ overtaken.at \in Ended
            /\ svc.scheduler = "null" /\ ~svc.stopTrigger /\ ~svc.server
            /\ readers = {}

\* For one caller: when the service says it does not run, nothing of it does.  So
\* it holds after every stop, and after every start that returned -2.
NotRunningMeansReleased == ~svc.running => Released

\* A stop() that comes late may reset running_ of another session, and the next start()
\* then begins a second RTSP thread.  But however many threads start and stop, there
\* are never two event loops on one queue: the new thread has to wait for mutex_ with
\* its URL, and start() holds it until the old one has been joined or the process ends.
OneEventLoop == ~(thread.at \in {"loop", "step"} /\ overtaken.at \in {"loop", "step"})

\* A push in flight while the service stops never wakes a source on a scheduler that
\* is deleted: as long as the queue knows a reader, its scheduler is there.  That is
\* so until two RTSP threads have run at once.
PushWakesLiveScheduler ==
  ~process.overlap /\ (readers # {} \/ woken # {}) => svc.scheduler = "valid"

\* Whoever reads the URL of a service that runs and is not being stopped reads that
\* of the server that is up now, until two RTSP threads have run at once.
UrlMeansServing ==
  ~process.overlap /\ svc.running /\ svc.rtspURL /\ ~svc.watch =>
    svc.server /\ svc.scheduler = "valid" /\ thread.at \in {"loop", "step"}

\* Nobody waits in a circle, however many threads start and stop: mutex_ is held over a
\* step only where its holder waits for nobody, neither in the join for the RTSP thread,
\* which takes mutex_ to write the URL, nor for another caller.
NoCircularWait ==
  \A c \in Callers :
    svc.mutex = c <=> caller[c].at \in {"assign", "readScheduler", "readTrigger"}

\* How many steps a call has still to take.
StepsLeft(call) ==
  CASE call.at = "assign"      -> 2 * MaxPolls + 2
    [] call.at = "poll"        -> 2 * (MaxPolls - call.polls) + 1
    [] call.at = "pollRunning" -> 2 * (MaxPolls - call.polls)
    [] OTHER -> [idle |-> 0, destroy |-> 1, finish |-> 2, joining |-> 3, join |-> 4,
                 joinable |-> 5, trigger |-> 6, readTrigger |-> 7, readScheduler |-> 8,
                 stop |-> 9][call.at]

\* A call moves on towards its end whatever other callers and the RTSP thread do
\* meanwhile: the wait of live555_rtsp_start has its 100 rounds and stop() repeats
\* nothing, so that a call that does not return waits for mutex_ or in the join.
CallsMoveOn ==
  [][\A c \in Callers : caller[c].at # "idle" =>
       \/ UNCHANGED <<caller[c].at, caller[c].polls>>
       \/ StepsLeft(caller'[c]) < StepsLeft(caller[c])]_vars

\* For one caller: a 0 that live555_rtsp_start returns before its time is up is true.
\* The setup has succeeded and does not fail any more.
ZeroInTimeMeansStarted ==
  \A c \in Callers :
    caller[c].answer = "0" /\ caller[c].polls < MaxPolls => svc.rtspURL /\ ~thread.failed

\* For one caller: it takes a start that failed to make a later start, or the exit,
\* end the process; after every other session the thread has been joined.
OnlyFailedStartsTerminate == process.terminated => thread.failed \/ overtaken.failed

\* The life cycle callers may rely on.
Contract == INSTANCE ServiceContract
  WITH state <- IF ~svc.running THEN "stopped"
                ELSE IF svc.watch THEN "stopping"
                ELSE IF svc.rtspURL THEN "serving"
                ELSE "starting",
       port <- svc.server

\* For one caller: start, the RTSP thread and stop go through the states of the
\* contract together, also when a stop overtakes the setup or the setup fails: the
\* port is opened once per session and closed before the service counts as stopped.
ImplementsContract == Contract!Spec

\* For one caller: stop() always returns.  The loop sees the watch variable even
\* when the trigger came too early, too late or not at all.
StopReturns ==
  \A c \in Callers :
    caller[c].at = "readScheduler" ~> caller[c].at \in {"idle", "destroy"} \/ process.gone

\* For one caller: live555_rtsp_start always returns, or ends the process.
StartReturns ==
  \A c \in Callers :
    caller[c].at \in {"assign", "poll"} ~> caller[c].at = "idle" \/ process.gone

--------------------------------------------------------------------------------
\* docs/RTSP_PUSH_C_API.md: stop closes the event thread and empties the queue.
\* The RTSP thread has been joined here, so stop() has returned.
StopEmptiesQueue ==
  ~svc.running /\ thread.at = "exited" /\ ~svc.joinable /\ mutex = NoThread => queue = <<>>

\* docs/RTSP_PUSH_C_API.md: start returns 0 for success and a negative value for
\* failure, so a start that returned 0 does not turn out to have failed.
ZeroMeansStarted == \A c \in Callers : caller[c].answer = "0" => ~thread.failed

\* The same lines: a failed start is reported by its answer; it can be tried again.
NeverTerminates == ~process.terminated

\* UsageEnvironment.hh: triggerEvent may be called from another thread, for a
\* handler that is registered with the scheduler.
TriggersLiveScheduler == ~process.stale

\* docs/SUPERVISOR_INTEGRATION_GUIDE.md: live555_rtsp_is_running returns 0 when the
\* service does not run.  Then its event loop does not, and start may be called.
ZeroMeansNotRunning == ~svc.running => thread.at \notin {"loop", "step"}

===============================================================================
