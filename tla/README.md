# TLA+ models of the RTSP push module

The program takes H264 frames in Annex B format from an encoder and serves them as a live
RTSP stream. Its own code is in `src/src` (about 650 lines of C++ and their headers); the RTSP
server, the event loop and RTP come from live555, which is there as headers (`src/include`) and
a binary library. This directory models the program's own code, and of live555 what that code
depends on, checks the models with TLC and proves some of their properties with TLAPS.

## The system

| Part | State | Operations | Hard about it |
|---|---|---|---|
| Annex B splitter (`splitAnnexB`, `findStartCode` in `h264FrameQueue.cpp`) | positions in a buffer | split a frame into NALs | ends of the buffer, adjacent and mixed start codes |
| `H264FrameQueue` | `queue_`, `readers_`, `sps_`, `pps_`, `mutex_` | push, pop, clear, register and unregister a reader | many threads push; readers are woken inside the critical section of a push; a full queue |
| `MyH264Source` | its event trigger, whether a read is outstanding | constructor, destructor, `doGetNextFrame`, `deliverFrame`, `frameArrivedCallback` | an event is raised by another thread while the source reads, waits or is being destroyed |
| `MyH264Subsession` | (in live555's base class) the stream its clients share | make a source and a sink | clients come and go in any order |
| `Live555RtspService` | `running_`, watch variable, `scheduler_`, `stopTrigger_`, `server_`, `rtspURL_`, `rtspThread_` | start, stop, push, RTSP thread: setup, event loop, cleanup | stop during setup, setup that fails, unlocked fields, restart, several threads that start and stop |
| C API (`live555_rtsp_c_api.cpp`) | `g_rtspURL` | start (waits for the URL), push, get_url, stop | the wait has a limit; a push passes its check and is overtaken by a stop |
| live555 event loop (external) | pending events, handlers, delayed tasks | one round: a request, an event, a delayed task | `triggerEvent` is called from other threads |
| live555 RTSP server (external) | sessions, shared stream | DESCRIBE, SETUP, PLAY, TEARDOWN and timeouts | shares the program's source between clients |

How they interact: encoder threads call the C API, which calls the service, which calls
`pushAnnexBFrame`. That splits the frame, takes `mutex_`, enqueues the NALs and calls
`triggerEvent` for every registered reader. The event loop thread takes one event per round and
calls `frameArrivedCallback` of the source the event names; when the source has a read
outstanding, it pops one NALU and hands it through the framer to the RTP sink, which schedules
its next read. Callers of the C API start and stop the service. Start makes the RTSP thread
and polls for the URL; stop sets the watch variable, raises the stop trigger and joins. The
RTSP thread leaves the loop when it finds the watch variable set between two rounds, closes the
server with all its sessions and sources, deletes the scheduler and clears the queue.

What makes each part correct:

- Splitter: it finds the NALs of the buffer, all of them, and reads only inside it.
- Queue: a bounded fifo that loses only its oldest; the NALs of a frame stay together.
- Source and subsession: no wakeup is lost, no event runs on a deleted source, at most one
  read is outstanding, one stream for all clients, which goes with the last of them.
- Service: what is created is released before the service says it does not run; start and stop
  return, never wait in a circle and are never led back to where they were; the scheduler is there
  when somebody raises an event; no two event loops run on one queue; a start that answers 0
  before its wait has run out has started.
- The whole: what one session leaves in the queue does not disturb the next, and a stop ends
  whatever clients and encoders do.

`PROJECT.json` lists the parts, every hazard with its line, and for each definition the lines it
models.

## Modules

| Module | Models |
|---|---|
| `AnnexB` | the splitter: one step is one iteration of the loop of `findStartCode` with what `splitAnnexB` does when that loop returns |
| `EventTriggers` | external: live555's event triggers as operators (create, raise, clear, the order they are served in) |
| `LossyFifo` | abstract: a bounded fifo channel that drops its oldest item when it is full |
| `H264FrameQueue` | the queue, its pushing threads and its readers |
| `LiveStream` | the event loop with `MyH264Source` and `MyH264Subsession`, around an `H264FrameQueue` and the threads that push into it |
| `ServiceContract` | abstract: stopped, starting, serving, stopping, and when the port is open |
| `RtspThreadMain` | one RTSP thread of the service: setup, event loop, cleanup, on the fields it shares with the callers and the same `H264FrameQueue`; what clients do is reduced to sources that come, read and go |
| `Live555RtspService` | the service and the C API: callers, encoder threads, and one or two RTSP threads |
| `RtspPushSystem` | the whole program: the service with the event loop of `LiveStream` in place of the reduced one |
| `MCH264FrameQueue`, `MCLiveStream`, `MCLive555RtspService`, `MCRtspPushSystem` | the instances for TLC |
| `AnnexBProofs`, `LossyFifoProofs`, `H264FrameQueueProofs`, `LiveStreamProofs`, `Live555RtspServiceProofs`, `RtspPushSystemProofs` | theorems |

`LiveStream` and `Live555RtspService` both instantiate `H264FrameQueue` over their own
variables and use its actions for the calls the code makes; `UsesTheQueue` states that what
`LiveStream` does to these variables is a behaviour of the queue, so that theorems about the
queue hold there. `RtspPushSystem` instantiates both over one set of variables and implements
the reduced service (`ImplementsService`), so that what holds of the service holds of the whole.

### State and actions

`H264FrameQueue`. `nals[p]` are the NALs of the frame thread `p` has still to enqueue. A push is
`PushAnnexBFrame` (split, outside the lock), `Lock`, one `PushPureNaluLocked` per NAL, one
`WakeReaderLocked` per reader, `Unlock`. These are steps of their own since the event loop sees a
raised event before `mutex_` is released; all other methods are single critical sections and so
single steps. A NALU is a number, a type, the thread that pushed it and whether it ends its frame; the numbers,
and `popped`, exist only in the model. `readers` is a set, which is sound since a trigger is
registered once at a time and nothing depends on the order of waking. `pending` is the
scheduler's side: the events raised and not handled, each with its `clientData`.

`LiveStream`. `phase` is where `BasicTaskScheduler::SingleStep` is: a request, then an event,
then a delayed task. A handler is a step up to each call that takes the queue's `mutex_`;
`call` names the step that comes next and `src` its source, and pushes run in between. After the
last round `phase` is "close": the server ends its sessions one after the other. `awaiting`
is `isCurrentlyAwaitingData()`, `sendTask` the sink's delayed task, `streamOf` and `lastStream`
the stream tokens of `OnDemandServerMediaSubsession`. A stream is named by its `MyH264Source`.

`Live555RtspService`. `svc` holds the fields of the object, `thread` the RTSP thread, `caller`
the call of the C API each caller is in, `process` what else belongs to the process. A pointer is
null, valid, or dangling once its object is deleted: cleanup deletes the scheduler before it
resets the field, and copies in a `stop()` dangle with it. Everything the code does under `mutex_`
without touching what the RTSP thread writes unlocked is one step. `start()` holds `mutex_` over
two: `Start` writes the fields and begins the new thread, which runs from then on, and
`StartAssign` assigns `rtspThread_`, unless it is joinable, where the assignment calls
`std::terminate` (`StartTerminates`). `stop()` holds `mutex_` over three steps, since the RTSP
thread writes `scheduler_` and `stopTrigger_` without it. After that it raises the trigger, asks
`joinable()`, calls `join()`, comes back from it and takes `mutex_` again, each a step of its own
and all but the last without a lock: another caller may have joined the thread in between, or may
be joining it, and then `join()` throws and the process ends (`StopJoinThrows`). Destroying a
joinable thread ends it too. What clients do in the event loop is reduced to steps in any order: a
source registers, unregisters, reads, or takes its event.

Two RTSP threads. When one of several callers is late in its `stop()`, `running_` may be reset
while a session runs, and a `start()` then begins another thread. `thread` is the new one and
`overtaken` the old one, until `start()` has assigned `rtspThread_` or ended the process;
`Live555RtspService` instantiates `RtspThreadMain` a second time with the two exchanged
(`Overtaken`). Both threads then read and write `scheduler_`, `server_` and the rest without a lock,
which is undefined behaviour. The model lets each go on with what it finds in the fields; a crash
would be an early end of such a behaviour. The ghost `process.overlap` remembers that it has come to
that, and the properties that no longer hold then say so (`PushWakesLiveScheduler`,
`UrlMeansServing`). So sessions can overlap when several threads start and stop; with one caller
they cannot.

`RtspPushSystem` takes one caller, that is, callers that take turns: then no thread is overtaken, and there is one
event loop to put in place of the reduced one. It adds no behaviour of its own but the glue: a new scheduler has the stop trigger
only, a new subsession has not been described, a round of the loop follows each look at the watch
variable, the stop event takes its turn among the others, and the server is closed when all its
sessions are.

Definitions whose comment begins with "A slip:" are not part of any specification. Each is the
form one definition would take with a plausible mistake; substituting it breaks the property
`PROJECT.json` names for it under "mutants", which shows that the property can fail.

## What the runs show

| Run | Bounds | Shows |
|---|---|---|
| `annexb` | all buffers of 1 to 7 bytes over {0, 1, 9} | spans lie in the buffer, hold no start code, and are those of the reference definition |
| `queue` | 2 threads, 2 readers, key frames of 3 NALs and single slices, capacity 4, 6 NALUs | `HoldsNewest`, `FramesStayWhole`, `FirstParameterSets`, `CriticalSectionEnds`, refinement of `LossyFifo` |
| `stream` | 2 clients, 1 encoder thread, 2 sources, 3 triggers, frames of 1 and 2 NALs, capacity 2, 3 NALUs, with fairness | `NoLostWakeup`, `EventsReachLiveSources`, `ReadersAreSources`, `TriggersSuffice`, `OneReadAtATime`, `OneLiveStream`, `NoSourceWithoutClient`, `UsesTheQueue`; `Delivery`, `CloseReleases` |
| `service` | 1 caller, 1 encoder thread, 1 source, capacity 2, 3 NALUs, 2 polls, with fairness | `NotRunningMeansReleased`, `ZeroInTimeMeansStarted`, `OnlyFailedStartsTerminate`, refinement of `ServiceContract`; `StopReturns`, `StartReturns` |
| `callers` | 2 callers, 1 encoder thread, 1 source, 1 NALU, 1 poll, symmetry between callers | `PushWakesLiveScheduler`, `UrlMeansServing`, `NoCircularWait`, `OneEventLoop`, `CallsMoveOn` |
| `system` | 1 caller, 1 client, 1 encoder thread, 1 source, 3 triggers, capacity 1, 2 NALUs, 1 poll, with fairness | `StreamsOverSessions`, `NoStreamWithoutServer`, `ThreadMovesOn`, refinement of `Live555RtspService`; `StopReturns` |

`annexb`, `queue`, `stream` and `service` also check the type invariant of their module.

`FirstParameterSets` is about what `sps_` and `pps_` are at every moment and about every step: as long
as an SPS is queued one is cached, and it is not a later one; once cached it is never replaced and never
forgotten, neither by a later SPS nor by `clear()`. The same of the PPS. `OneEventLoop` is what is left of a
session's exclusiveness when callers do not take turns: `start()` holds `mutex_` until it has
assigned `rtspThread_`, which takes a thread there that has been joined, and the new thread needs
`mutex_` to write its URL before it begins its loop.

Bounds, and why they are enough:

- `MaxSize` 7: two start codes of four and three bytes, which overlap or adjoin in every way. The
  proofs of `AnnexBProofs` need no bound.
- `MaxQueuedNalus` (300 in the code) is 2 or 4, so that every run fills the queue and drops; two key frames
  of `queue` do not fit, so that a drop cuts a frame, but the parameter sets of both may be queued.
- `MaxPushed` ends the encoder's work. With it a run sees drops, a second frame after a full one,
  and pushes at every point of a source's life. It is a guard of `PushAnnexBFrame` only.
- Sources: `stream` has two, as no more than the stream's and one that is made or destroyed
  exist at once; the identities are reused, as addresses are. `NumTriggers` (32 in the code) is 3:
  the stop trigger and one for each of these, which is exactly what `TriggersSuffice` says is
  needed. The service alone needs one trigger for its one source; the stop trigger is `svc.stopTrigger` there.
- `MaxPolls` (100 in the code) is 2 or 1: a poll that succeeds at once, later, or never.
- `system` is there for what the parts do to each other: restarts over one queue with left-over
  NALUs, the close of a playing stream, a stop among the events. One client, source and NALU per
  frame is enough for each; what several clients do to each other is in `stream`.
- `queue` and `callers` use symmetry and check no liveness.

`AnnexB` ends with the buffer, the event loop with the close of the server and the service with
the process, so those runs do not check for deadlock. `queue` does: no state of it is without a
next step.

### Fairness

`stream` assumes that the event loop thread and a pushing thread run on, that a delayed task that
stays scheduled becomes due (strong fairness, since the loop comes to its alarm phase again and
again), and that a server that is closed ends its sessions. That is `SingleStep`: one request, one
event and one delayed task per round, in this order, so that none of them holds up the others. No
client has to send a request, no frame has to come, and the loop does not have to end. `service`
assumes that the callers, the RTSP threads and the encoder threads run on inside a call, never that
a call is made, and that the reduced loop comes to the end of its round. `system` assumes no such
thing of the round: there the rounds are those of `LiveStream`.

### Where the code does not do what is written

These runs check one statement of a guide, a comment or live555's header each, and TLC finds a
behaviour of the code that violates it. `PROJECT.json` quotes the statements.

| Run | Statement | What the code does |
|---|---|---|
| `stream_decode` | a client that joins decodes from the next IDR | one that joins inside a key frame receives the IDR without SPS and PPS |
| `service_stop_queue` | stop empties the queue | a push that passed its check before enqueues after the clear |
| `service_zero` | 0 is success | 0 also when the wait ran out, before setup fails |
| `service_terminates` | a failed start is reported by its value | the next start, or the exit, terminates the process |
| `service_trigger` | `triggerEvent` for a trigger that is registered | stop may call it on a deleted scheduler |
| `callers_is_running` | 0 of is_running: the service does not run | a stop that is past its join resets `running_` of a session another caller has started since |

For two of these the passing run `service` says what is left of the statement: a 0 that comes
before the wait has run out does mean that the server is up (`ZeroInTimeMeansStarted`), and only
a start that failed can end the process (`OnlyFailedStartsTerminate`). Both are for one caller.

More statements differ from the code and have no run, as one look at the code shows it:

- The comment in `createNewStreamSource` says that each client gets its own source, while the
  class passes `reuseFirstSource = true`.
- `docs/DEMO_OVERVIEW.md` says that what is queued has no start code; a buffer in which no NAL is
  found, such as one of nothing but start codes, is queued whole (`SplitsLikeReference` says so).
- `docs/SUPERVISOR_INTEGRATION_GUIDE.md` says that get_url returns the current URL; `stop()` leaves
  `rtspURL_` in place, so it is also that of a server that is gone. `UrlMeansServing` says when the URL can be
  trusted.
- live555's header asks that a trigger is not raised again before its event has been handled;
  `wakeReadersLocked` raises it for every frame. This is harmless: the two events become one, and
  `NoLostWakeup` and `Delivery` hold all the same.

## What is proved

The theorems hold for all values of the constants that satisfy the assumptions in the modules:
any finite or infinite sets of threads, sources and frames, any capacity of at least one, any
number of triggers.

- `AnnexBProofs`: `SplitStaysInBuffer`, `SplitYieldsSingleNals`, `ScanTypeCorrect` and
  `SplitMatchesReference`. The invariant `ScanInv` adds to the first two that all closed
  spans end before the scan, with room for a start code between them and the open one
  (`ClosedSpans`), and that the open NAL holds no start code up to the scan; without this the NAL
  that `ReachEnd` or `Found` closes would be unknown. `ReferenceInv` relates the spans to the
  reference: they are the NALs behind the prefixes the scan has closed (`Lists`), the open NAL begins
  behind a prefix, and no start code has been passed since. It assumes only that 0 and 1 are bytes.
- `H264FrameQueueProofs`: `QueueTypeCorrect`, `QueueHoldsNewest`, `QueueKeepsFramesWhole`,
  `QueueCachesFirst` all follow from `QueueInv`, the conjunction of their invariants (for the last
`ParameterSetsCached`) with `UnitInProgress`: while
  the last NALU in the queue does not end its frame, the thread that pushed it holds `mutex_` and
  has more NALs to enqueue. That is what keeps another thread's NAL from coming next.
  `MadeRoomDropsOldest` says what the dropping loop leaves. `QueueCriticalSectionsEnd`: while a thread
  holds `mutex_`, each of its steps leaves it fewer NALs to enqueue or fewer readers to wake, and no
  other thread changes the two; the loops under the lock run over what stays put. `QueueImplementsLossyFifo` maps a push
  to `Put`, pop to `Take`, clear to `Reset` and everything else to a stutter.
- `LossyFifoProofs`: `ChannelDelivers`, what the abstract channel guarantees: order, no
  duplicate, bounded capacity.
- `LiveStreamProofs`, in three layers. `StreamInv` is the conjunction of the invariants of the loop
  (`TriggersSuffice`, `ReadersAreSources`, `EventsReachLiveSources`, `OneReadAtATime`,
  `OneLiveStream`) with what ties `call` and `src` to them; none is inductive alone, as a source that is made needs a
  free trigger, its reader has to be fresh, and an event is harmless only while its reader is known.
  One lemma per action shows that it is kept. From it `StreamUsesTheQueue` follows: the loop
  registers only fresh triggers and takes only raised events, so it is a client of the queue as
  `Queue!Spec` has it, and the queue's own theorems hold here (`StreamKeepsQueueGuarantees`,
  `StreamReadsLossyFifo`). With both, `WakeInv` gives `StreamLosesNoWakeup`: a push wakes nobody
  before its whole frame is in, and a source is never awaited and silent with a NALU queued.
  `StreamEndsWithLastClient` follows from `StreamInv` by `NoClientNoSource`: between two handlers
  every source that lives is the stream of some client.
  The constants have to give at least three triggers, which is what
  `TriggersSuffice` shows to be enough for any number of clients.
- `Live555RtspServiceProofs`, for any number of callers. `ServiceInv` has three parts. What always
  holds: the types, that a thread is overtaken only while `start()` holds `mutex_` and the new
  one has not begun its loop by then (`StartHoldsBack`), who holds `mutex_` (`NoCircularWait`), and
  that the queue is as `QueueInv` says. It gives `ServiceTypeCorrect`, `CallersNeverWaitInCircle`
  and `OneLoopAtATime`. What holds until two RTSP threads have run at once (`~process.overlap`):
  where the thread is by what the fields hold (`FieldsFollowThread`), and that the URL is of
  the server that runs. It gives `PushesWakeLiveScheduler` and `UrlIsOfLiveServer`. What holds with one
  caller: there is no overlap, a session runs until its thread has ended, a thread that has not
  ended is joinable (`SessionOfOneCaller`), how far its start has come and how it ended
  (`OutcomeOfOneCaller`). It gives `OneCallerReleases`, `ZeroInTimeIsTrue`, `OnlyFailureTerminates`
  and the refinement `ServiceImplementsContract`. That the first of these fails for two callers is what
  `callers_is_running` shows.
  `CallersNeverWaitInCircle` says that `mutex_` is held over a step only inside
  `start()` and in the first part of `stop()`, so that its holder waits neither in the join for the
  RTSP thread, which needs `mutex_` itself, nor for another caller. It does not say that who joins
  has a thread to join; with several callers that is not so.
  What the calls do in time rests on one lemma per action, which says where it takes a caller
  (`Goto`) and that it leaves the others where they are (`WhereCallersGo`, `CallersMove`).
  `CallsOnlyMoveOn`: the rank `StepsLeft` of a call falls with each of its steps and is changed by
  no one else; it needs from the types that a caller that asks `isRunning` has a round of its
  poll left.
- `RtspPushSystemProofs`, for one caller and any number of clients, sources and encoder threads. Between two
  starts of the loop the program's own steps are not steps of `LiveStream`, which knows one loop
  and has the stop trigger from its beginning. So the proof reads the handlers as if that trigger
  were always there (`Handlers`); every step of the system then is one of `LiveStream` or a
  `BetweenRounds` step, which moves the loop and, once no source is left, empties the queue and the
  table of events, but touches no stream. That carries the
  invariants of `LiveStreamProofs` over stops and restarts (`StreamInv`, `NoSourceWithoutClient`,
  `WakeInv`), and `TableFollowsThread` says where the RTSP thread is when the trigger really is in
  the table and when the server is being closed.
  `StepIsService` maps every step to one of the service or a stutter. With `ServiceInv` these make
  `SystemInv`, from which `SystemImplementsService`, `StreamsStaySoundOverSessions`,
  `ClosedServerLeavesNoStream` and `SystemWakesLiveScheduler` follow. `ThreadOnlyMovesOn` is about what the
  reduced service leaves out: inside a round of the loop each step leaves fewer of its
  handler's calls, or goes to the round's next phase (`LeftOfRound`, `HandlerGoesOn`), and the thread
  goes through its stages in order (`StagesInOrder`). So a round ends whatever clients, encoders and callers do in
  between, the loop then looks at the watch variable, and the close of the server takes a bounded number of steps per session.

Only model-checked: liveness (`Delivery`, `CloseReleases`, `StopReturns`, `StartReturns`).
Liveness under fairness and ENABLED are not within the prover's reach, nor is induction over data,
which a proof about the value of a recursive definition would need. No module declares a RECURSIVE
operator. The safety part of why calls return is proved: critical sections end, whoever holds
`mutex_` waits for nobody, a call and a round of the loop only move on. What is left to TLC is that the steps that
are still to come are enabled and are taken.

One rule of writing comes from the prover: an update of two fields of one element is written
`[f EXCEPT ![c] = [@ EXCEPT !.a = x, !.b = y]]`, never with two paths that both begin with `![c]`. The
two forms mean the same, but the prover's translation of the second to SMT is wrong: it proves
statements that are false. The lemmas over `Live555RtspService` and `RtspPushSystem` that cite an action were also
tried with FALSE as their goal; this goes through only for the action that the hypotheses do exclude
(`StopJoinThrows` with one caller), so no set of hypotheses there is contradictory by mistake.

## Not modelled

- live555's own code beyond what is named above: RTSP parsing, authentication, RTP packets, RTCP,
  sockets. It is 16000 lines of headers, which declare classes whose bodies are in the binary
  library, most of which (clients, proxies, file formats) the program does not use. There is nothing in them to translate; the
  modules say "External" where they rely on how live555 behaves. Of the program's own code nearly
  every line is modelled.
- The bytes of a NALU once it is queued, its timestamp (`timestampToTimeval`), and the truncation
  of a NALU longer than `fMaxSize`: no property distinguishes them.
- The configuration of the server (`live555_rtsp_config_init`, port, stream name, user): it is
  written before the RTSP thread begins and not changed while it runs, unless a `start()` overtakes
  that thread; no property depends on its values.
- The pointer `live555_rtsp_get_url` hands out, which the next call of the C API invalidates, and
  the unlocked writes to `g_rtspURL`: the guides promise nothing about either.
- Failing allocations, and the null checks behind `createNew`, which cannot fail otherwise.
- The build files and guides.

## Plan

Done: the splitter, the queue with its abstract channel, the event loop with source and
subsession up to the close of the server, the service for several callers with its contract, their
composition; proofs of all invariants, action properties and refinements of the four components
and of the composition that the runs check.

Left: the arithmetic that is left out, `timestampToTimeval` at the width of its type and the
truncation to `fMaxSize`.
