----------------------------- MODULE RtspVideo ------------------------------
(***************************************************************************)
(* One live video of the dashboard: rtsp_legacy/RtspVideoItem.cpp.         *)
(*                                                                         *)
(* A decoder thread opens the stream and hands its frames to the GUI       *)
(* thread through one slot, m_pendingFrame, under a mutex; an atomic flag, *)
(* m_frameDeliveryQueued, keeps at most one deliverPendingFrame in the     *)
(* queue of the GUI thread.  A new source or a reconnection gets a new     *)
(* generation, stops the old thread, waits for it and starts another.      *)
(*                                                                         *)
(* A critical section is one step; what lies between two of them, or       *)
(* between a store to the flag and the next lock, is a boundary at which   *)
(* the other thread may run.  The thread of generation g is `worker[g]';   *)
(* `gui' is where the GUI thread stands.  A frame is the generation that   *)
(* decoded it.                                                             *)
(*                                                                         *)
(* Left out: sizes, clocks and the startup delay of a frame; the slots     *)
(* start and stop, which nothing calls.                                    *)
(***************************************************************************)
EXTENDS Integers, Sequences

CONSTANTS Sources,    \* the stream addresses; "" is no stream
          MaxGen,     \* bound: generations
          MaxFrames   \* bound: frames decoded by one thread

ASSUME RtspAssumption ==
  /\ "" \notin Sources
  /\ MaxGen \in Nat \ {0} /\ MaxFrames \in Nat

VARIABLES
  source,    \* m_source
  status,    \* m_status
  failed,    \* whether m_errorString is set
  frame,     \* m_frame: the generation that decoded it, 0 for none
  gen,       \* m_streamGeneration
  pending,   \* m_pendingFrame with m_pendingGeneration, 0 for none
  flag,      \* m_frameDeliveryQueued
  taken,     \* the frame deliverPendingFrame has taken out of the slot
  timer,     \* m_reconnectTimer is running
  gui,       \* the place of the GUI thread
  events,    \* the queued calls to the item
  worker,    \* the place of the thread of each generation
  origin,    \* the source each thread reads
  stop,      \* the generations whose thread was asked to stop
  frames     \* how many frames each thread has decoded

shown == <<status, failed, frame>>
slot == <<pending, flag>>
threads == <<worker, origin, stop, frames>>
vars == <<source, shown, gen, slot, taken, timer, gui, events, threads>>

Gens == 1..MaxGen

Init ==
  /\ source = "" /\ status = "Waiting" /\ failed = FALSE /\ frame = 0
  /\ gen = 0 /\ pending = 0 /\ flag = FALSE /\ taken = 0 /\ timer = FALSE
  /\ gui = "idle" /\ events = <<>>
  /\ worker = [g \in Gens |-> "none"] /\ origin = [g \in Gens |-> ""]
  /\ stop = {} /\ frames = [g \in Gens |-> 0]

Post(e) == events' = Append(events, e)
Event(kind, g) == [kind |-> kind, gen |-> g]
Alive(g) == worker[g] \notin {"none", "done"}

-----------------------------------------------------------------------------
(* The decoder thread.                                                     *)

Become(g, place) == worker' = [worker EXCEPT ![g] = place]

Opens(g) ==
  /\ worker[g] = "opening"
  /\ Become(g, "reading")
  /\ UNCHANGED <<source, shown, gen, slot, taken, timer, gui, events,
                 origin, stop, frames>>

(* The stream cannot be opened, or the opening is interrupted.             *)
OpenFails(g) ==
  /\ worker[g] = "opening"
  /\ Become(g, "done")
  /\ Post(Event("failure", g))
  /\ UNCHANGED <<source, shown, gen, slot, taken, timer, gui,
                 origin, stop, frames>>

(* No video in the stream, no decoder or no memory: two calls are queued.  *)
Unusable(g) ==
  /\ \/ worker[g] = "opening"
        /\ Become(g, "unusable")
        /\ Post(Event("error", g))
     \/ worker[g] = "unusable"
        /\ Become(g, "done")
        /\ Post(Event("status", g))
  /\ UNCHANGED <<source, shown, gen, slot, taken, timer, gui,
                 origin, stop, frames>>

(* A packet is decoded into a frame; a stop that is asked for meanwhile is *)
(* seen only after the frame has been handed over.                         *)
Decode(g) ==
  /\ worker[g] = "reading" /\ g \notin stop /\ frames[g] < MaxFrames
  /\ Become(g, "decoding")
  /\ frames' = [frames EXCEPT ![g] = @ + 1]
  /\ UNCHANGED <<source, shown, gen, slot, taken, timer, gui, events,
                 origin, stop>>

(* queueDecodedFrame: the slot is filled under the mutex ...               *)
QueueFrame(g) ==
  /\ worker[g] = "decoding"
  /\ pending' = g
  /\ flag' = TRUE
  /\ Become(g, IF flag THEN "reading" ELSE "posting")
  /\ UNCHANGED <<source, shown, gen, taken, timer, gui, events,
                 origin, stop, frames>>

(* ... and the delivery is queued after it, if none was.                   *)
PostDelivery(g) ==
  /\ worker[g] = "posting"
  /\ Become(g, "reading")
  /\ Post(Event("deliver", 0))
  /\ UNCHANGED <<source, shown, gen, slot, taken, timer, gui,
                 origin, stop, frames>>

(* Mistake: the end of a stream is reported only if it never had a frame.  *)
ReadFailsSilently(g) ==
  /\ \/ /\ worker[g] = "reading" /\ g \notin stop
        /\ Become(g, "failing")
        /\ UNCHANGED events
     \/ /\ worker[g] = "failing"
        /\ Become(g, "done")
        /\ IF g \in stop \/ frames[g] > 0 THEN UNCHANGED events
           ELSE Post(Event("failure", g))
  /\ UNCHANGED <<source, shown, gen, slot, taken, timer, gui,
                 origin, stop, frames>>

(* A read fails: the decoder is freed, and unless the thread has been asked*)
(* to stop meanwhile the failure is queued.                                *)
ReadFails(g) ==
  /\ \/ /\ worker[g] = "reading" /\ g \notin stop
        /\ Become(g, "failing")
        /\ UNCHANGED events
     \/ /\ worker[g] = "failing"
        /\ Become(g, "done")
        /\ IF g \in stop THEN UNCHANGED events ELSE Post(Event("failure", g))
  /\ UNCHANGED <<source, shown, gen, slot, taken, timer, gui,
                 origin, stop, frames>>

(* The request to stop is seen by the loop, or interrupts its read.        *)
SeesStop(g) ==
  /\ worker[g] = "reading" /\ g \in stop
  /\ Become(g, "done")
  /\ UNCHANGED <<source, shown, gen, slot, taken, timer, gui, events,
                 origin, stop, frames>>

-----------------------------------------------------------------------------
(* The GUI thread: a new source, a reconnection, the end.                  *)

SetSource(s) ==
  /\ gui = "idle" /\ s # source /\ gen < MaxGen
  /\ source' = s
  /\ frame' = 0 /\ failed' = FALSE /\ pending' = 0
  /\ gui' = "restart"
  /\ UNCHANGED <<status, gen, flag, taken, timer, events, threads>>

TimerFires ==
  /\ gui = "idle" /\ timer /\ gen < MaxGen
  /\ timer' = FALSE
  /\ gui' = "restart"
  /\ UNCHANGED <<source, shown, gen, slot, taken, events, threads>>

(* startWorker, up to the stop of the thread there may be.                 *)
StartWorker ==
  /\ gui = "restart"
  /\ timer' = FALSE
  /\ gen' = gen + 1
  /\ frame' = 0 /\ failed' = FALSE /\ pending' = 0
  /\ gui' = "stopping"
  /\ UNCHANGED <<source, status, flag, taken, events, threads>>

Destroy ==
  /\ gui = "idle"
  /\ timer' = FALSE
  /\ gui' = "destroying"
  /\ UNCHANGED <<source, shown, gen, slot, taken, events, threads>>

(* stopWorker: the request, then the wait for the end of the thread.       *)
StopWorker ==
  /\ gui \in {"stopping", "destroying"}
  /\ stop' = stop \cup {g \in Gens : Alive(g)}
  /\ gui' = IF gui = "stopping" THEN "joining" ELSE "leaving"
  /\ UNCHANGED <<source, shown, gen, slot, taken, timer, events,
                 worker, origin, frames>>

Launch ==
  /\ IF source = ""
     THEN status' = "Waiting" /\ UNCHANGED <<worker, origin>>
     ELSE /\ status' = "Connecting"
          /\ Become(gen, "opening")
          /\ origin' = [origin EXCEPT ![gen] = source]
  /\ failed' = FALSE
  /\ gui' = "idle"
  /\ UNCHANGED <<source, frame, gen, slot, taken, timer, events, stop, frames>>

(* Mistake: the old thread is left to itself instead of waited for.        *)
JoinedAtOnce ==
  /\ gui = "joining"
  /\ Launch

Joined ==
  /\ gui = "joining" /\ \A g \in Gens : ~Alive(g)
  /\ Launch

Gone ==
  /\ gui = "leaving" /\ \A g \in Gens : ~Alive(g)
  /\ gui' = "gone" /\ events' = <<>>
  /\ UNCHANGED <<source, shown, gen, slot, taken, timer, threads>>

-----------------------------------------------------------------------------
(* The GUI thread: the queued calls.                                       *)

Takes(kind) ==
  /\ gui = "idle" /\ events # <<>> /\ Head(events).kind = kind
  /\ events' = Tail(events)

(* deliverPendingFrame: the frame is taken out of the slot, ...            *)
TakePending ==
  /\ Takes("deliver")
  /\ taken' = pending /\ pending' = 0
  /\ gui' = "showing"
  /\ UNCHANGED <<source, shown, gen, flag, timer, threads>>

(* Mistake: whatever was in the slot is shown.                             *)
ShowAnyFrame ==
  /\ gui = "showing"
  /\ IF taken # 0
     THEN frame' = taken /\ status' = "Playing" /\ failed' = FALSE
     ELSE UNCHANGED shown
  /\ gui' = "unflagging"
  /\ taken' = 0
  /\ UNCHANGED <<source, gen, slot, timer, events, threads>>

(* ... shown if it is of this generation, ...                              *)
ShowFrame ==
  /\ gui = "showing"
  /\ IF taken # 0 /\ taken = gen
     THEN frame' = taken /\ status' = "Playing" /\ failed' = FALSE
     ELSE UNCHANGED shown
  /\ gui' = "unflagging"
  /\ taken' = 0
  /\ UNCHANGED <<source, gen, slot, timer, events, threads>>

(* ... the flag is cleared, ...                                            *)
Unflag ==
  /\ gui = "unflagging"
  /\ flag' = FALSE
  /\ gui' = "checking"
  /\ UNCHANGED <<source, shown, gen, pending, taken, timer, events, threads>>

(* Mistake: a frame that came meanwhile is left to the next one.           *)
ForgetPending ==
  /\ gui = "checking"
  /\ gui' = "idle"
  /\ UNCHANGED <<source, shown, gen, slot, taken, timer, events, threads>>

(* ... and a frame that came meanwhile is delivered by another call.       *)
CheckPending ==
  /\ gui = "checking"
  /\ gui' = "idle"
  /\ IF pending # 0 /\ ~flag
     THEN flag' = TRUE /\ Post(Event("deliver", 0))
     ELSE UNCHANGED <<flag, events>>
  /\ UNCHANGED <<source, shown, gen, pending, taken, timer, threads>>

HandleStatusChanged ==
  /\ Takes("status")
  /\ status' = IF Head(events).gen = gen THEN "Error" ELSE status
  /\ UNCHANGED <<source, failed, frame, gen, slot, taken, timer, gui, threads>>

HandleErrorChanged ==
  /\ Takes("error")
  /\ failed' = IF Head(events).gen = gen THEN TRUE ELSE failed
  /\ UNCHANGED <<source, status, frame, gen, slot, taken, timer, gui, threads>>

(* A failure of this generation and source starts the timer of the next    *)
(* attempt; how long it waits is left out.                                 *)
HandleStreamFailure ==
  /\ Takes("failure")
  /\ LET g == Head(events).gen IN
       IF g = gen /\ origin[g] = source
       THEN status' = "Reconnecting" /\ failed' = TRUE /\ timer' = TRUE
       ELSE UNCHANGED <<status, failed, timer>>
  /\ UNCHANGED <<source, frame, gen, slot, taken, gui, threads>>

-----------------------------------------------------------------------------
GuiStep ==
  \/ StartWorker \/ StopWorker \/ Joined \/ Gone
  \/ TakePending \/ ShowFrame \/ Unflag \/ CheckPending
  \/ HandleStatusChanged \/ HandleErrorChanged \/ HandleStreamFailure

(* What a thread cannot put off: FFmpeg's calls end by their own time-outs *)
(* or by the interrupt callback.                                           *)
WorkerStep(g) ==
  \/ Opens(g) \/ OpenFails(g) \/ Unusable(g)
  \/ QueueFrame(g) \/ PostDelivery(g) \/ SeesStop(g)
  \/ worker[g] = "failing" /\ ReadFails(g)

Next ==
  \/ \E s \in Sources \cup {""} : SetSource(s)
  \/ TimerFires \/ Destroy \/ GuiStep
  \/ \E g \in Gens : WorkerStep(g) \/ Decode(g) \/ ReadFails(g)

RtspSpec ==
  /\ Init /\ [][Next]_vars
  /\ WF_vars(GuiStep) /\ WF_vars(TimerFires)
  /\ \A g \in Gens : WF_vars(WorkerStep(g))

-----------------------------------------------------------------------------
Places == {"idle", "restart", "stopping", "joining", "showing", "unflagging",
           "checking", "destroying", "leaving", "gone"}
Events == [kind : {"deliver", "failure", "error", "status"}, gen : 0..MaxGen]

(* The state has its types, and the timer of the next attempt runs only    *)
(* after a failure that no newer start has overtaken.                      *)
RtspTypeOK ==
  /\ source \in Sources \cup {""}
  /\ status \in {"Waiting", "Connecting", "Playing", "Reconnecting", "Error"}
  /\ failed \in BOOLEAN /\ flag \in BOOLEAN /\ timer \in BOOLEAN
  /\ gen \in 0..MaxGen /\ frame \in 0..MaxGen
  /\ pending \in 0..MaxGen /\ taken \in 0..MaxGen
  /\ gui \in Places
  /\ events \in Seq(Events)
  /\ worker \in [Gens -> {"none", "opening", "unusable", "reading", "decoding",
                          "posting", "failing", "done"}]
  /\ origin \in [Gens -> Sources \cup {""}]
  /\ stop \subseteq Gens /\ frames \in [Gens -> 0..MaxFrames]
  /\ timer => status \in {"Reconnecting", "Playing"}

(* The picture is one of the source that is shown, decoded by the thread   *)
(* of the current generation: no frame of a stopped stream, queued before  *)
(* its thread saw the request to stop, shows under the new one.            *)
FrameIsOfSource ==
  frame # 0 => frame = gen /\ origin[frame] = source

(* Somebody carries a delivery: it is queued, a thread is about to queue   *)
(* it, or the GUI thread is delivering.                                    *)
Carried ==
  \/ \E i \in DOMAIN events : events[i].kind = "deliver"
  \/ \E g \in Gens : worker[g] = "posting"
  \/ gui \in {"showing", "unflagging"}

(* No wake-up is lost between the two threads: as long as the flag says    *)
(* that a delivery is queued there is one, and a frame in the slot has one *)
(* coming.  Otherwise the picture would freeze until the next reconnection,*)
(* with the stream still running.                                          *)
NoFrameIsStuck ==
  gui # "gone" =>
    /\ flag => Carried
    /\ pending # 0 => flag \/ gui = "checking"

(* There is one decoder thread at most, that of the current generation,    *)
(* except for the old one while it is being stopped; and none is left to   *)
(* use the item when it is gone.                                           *)
OneDecoder ==
  \A g \in Gens : Alive(g) =>
    /\ gui # "gone"
    /\ g = gen \/ (g = gen - 1 /\ gui \in {"stopping", "joining"})

(* Both: the types, the timer and the threads.                             *)
VideoConsistent == RtspTypeOK /\ OneDecoder

(* The thread of the source that is shown has ended, for another reason    *)
(* than a stream the program cannot use.                                   *)
StreamLost(g) ==
  /\ gen = g /\ gui # "gone" /\ worker[g] = "done"
  /\ status # "Error" /\ ~ \E i \in DOMAIN events : events[i].kind = "status"
  /\ source # "" /\ g < MaxGen

(* A stream that was lost, before or after its first picture, is tried     *)
(* again, whatever is queued and shown meanwhile.                          *)
KeepsTrying ==
  \A g \in Gens : StreamLost(g) ~> (gen # g \/ gui = "gone")
=============================================================================
