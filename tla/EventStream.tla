---------------------------- MODULE EventStream ----------------------------
(***************************************************************************)
(* What a page learns of a pipeline run while it happens: PipelineTask     *)
(* (daemon/pipeline.go, plugin/pipeline.go) updates the status and emits   *)
(* events, the tracker (processor/status.go) puts them into a channel per  *)
(* subscriber, and a handler per connection (api/process.go) writes them   *)
(* out.  Task and handlers are goroutines; each lock's section is a step.  *)
(*                                                                         *)
(* Of the status only counts whether a run is on.  An event has its number *)
(* in the order of emission, and the status of that moment.                *)
(***************************************************************************)
EXTENDS Naturals, Sequences, FiniteSets

CONSTANTS
    Viewer,
    Slots,      \* capacity of a channel (64)
    Processors, \* processors a run goes through
    MaxRuns     \* bound: runs

VARIABLES
    running,  \* the status
    runner,   \* [step, left, runs]: the task, with the processors that are left
    subs,     \* the channels events are put into
    viewer,   \* [step, queue, seen, told, full, since]: a connection; seen is the last event
              \*   written, told the status in it; history: full, an event found no slot;
              \*   since, the run during which it subscribed
    emitted,  \* history: events emitted
    sentTo,   \* history: viewers whose channel was closed when an event was put into it
    failed    \* history: the last run ended with an error

streamVars == <<running, runner, subs, viewer, emitted, sentTo, failed>>

Away == [step |-> "away", queue |-> <<>>, seen |-> 0, told |-> FALSE, full |-> FALSE, since |-> 0]

StreamInit ==
    /\ running = FALSE /\ runner = [step |-> "idle", left |-> 0, runs |-> 0]
    /\ subs = {} /\ viewer = [v \in Viewer |-> Away]
    /\ emitted = 0 /\ sentTo = {} /\ failed = FALSE

At(step) == runner.step = step
Go(step) == runner' = [runner EXCEPT !.step = step]
ViewersUnchanged == UNCHANGED <<subs, viewer, emitted, sentTo>>

-----------------------------------------------------------------------------
(* The task *)

\* Emit: a channel that is full misses the event.
Received(s, event) ==
    IF Len(s.queue) < Slots THEN [s EXCEPT !.queue = Append(@, event)] ELSE [s EXCEPT !.full = TRUE]

Emit ==
    LET event == [n |-> emitted + 1, running |-> running] IN
      /\ emitted' = emitted + 1
      /\ viewer' = [v \in Viewer |-> IF v \in subs THEN Received(viewer[v], event) ELSE viewer[v]]
      /\ sentTo' = sentTo \cup {v \in subs : viewer[v].step # "streaming"}
      /\ UNCHANGED <<running, subs>>

StartRun ==
    /\ At("idle") /\ runner.runs < MaxRuns
    /\ runner' = [step |-> "started", left |-> Processors, runs |-> runner.runs + 1]
    /\ running' = TRUE /\ failed' = FALSE
    /\ ViewersUnchanged

EmitStarted == At("started") /\ Go("processors") /\ Emit /\ UNCHANGED failed

\* A processor with something to do is announced; one that fails announces no more, and one
\* that does not announces what it writes.
Announce ==
    /\ At("processors") /\ runner.left > 0
    /\ \/ Go("processing")
       \/ runner' = [runner EXCEPT !.step = "processors", !.left = @ - 1]
    /\ Emit /\ UNCHANGED failed

AnnounceResults ==
    /\ At("processing") /\ runner' = [runner EXCEPT !.step = "processors", !.left = @ - 1]
    /\ Emit /\ UNCHANGED failed

\* A processor without memories is passed over.
PassOver ==
    /\ At("processors") /\ runner.left > 0 /\ runner' = [runner EXCEPT !.left = @ - 1]
    /\ UNCHANGED <<running, failed>> /\ ViewersUnchanged

\* Listing fails: the status is set, and no event tells it.
FailRun ==
    /\ At("processors") /\ runner.left > 0 /\ Go("idle")
    /\ running' = FALSE /\ failed' = TRUE
    /\ ViewersUnchanged

\* Mutant: the end of a run leaves the status as it is.
StatusKept == running' = running

StatusAtEnd == running' = FALSE

EndRun ==
    /\ At("processors") /\ runner.left = 0 /\ Go("ended")
    /\ StatusAtEnd
    /\ UNCHANGED failed /\ ViewersUnchanged

EmitDone == At("ended") /\ Go("idle") /\ Emit /\ UNCHANGED failed

-----------------------------------------------------------------------------
(* A connection *)

TaskUnchanged == UNCHANGED <<running, runner, emitted, sentTo, failed>>

\* The status is written first, and the channel made afterwards: what is emitted in between
\* is not received.
Connect(v) ==
    /\ viewer[v].step = "away"
    /\ viewer' = [viewer EXCEPT ![v] = [Away EXCEPT !.step = "connected", !.told = running]]
    /\ UNCHANGED subs /\ TaskUnchanged

Subscribe(v) ==
    /\ viewer[v].step = "connected"
    /\ subs' = subs \cup {v}
    /\ viewer' = [viewer EXCEPT ![v].step = "streaming", ![v].seen = emitted,
                                ![v].since = runner.runs]
    /\ TaskUnchanged

WriteEvent(v) ==
    /\ viewer[v].step = "streaming" /\ viewer[v].queue # <<>>
    /\ LET event == Head(viewer[v].queue) IN
         viewer' = [viewer EXCEPT ![v].queue = Tail(@), ![v].seen = event.n,
                                  ![v].told = event.running]
    /\ UNCHANGED subs /\ TaskUnchanged

\* The client goes away: Unsubscribe takes the channel out and closes it.
Unsubscribe(v) ==
    /\ viewer[v].step = "streaming"
    /\ subs' = subs \ {v} /\ viewer' = [viewer EXCEPT ![v] = Away]
    /\ TaskUnchanged

TaskStep ==
    \/ StartRun \/ EmitStarted \/ Announce \/ AnnounceResults \/ PassOver
    \/ FailRun \/ EndRun \/ EmitDone

StreamNext ==
    \/ TaskStep
    \/ \E v \in Viewer : Connect(v) \/ Subscribe(v) \/ WriteEvent(v) \/ Unsubscribe(v)

StreamSpec == StreamInit /\ [][StreamNext]_streamVars

-----------------------------------------------------------------------------
(* Properties *)

\* No event is put into a closed channel, which would end the daemon.  A connection whose
\* channel was never full has written, or will, each event since it subscribed, in order;
\* and when it has, it no longer takes a run for going on that has ended, unless the run
\* failed, or the connection came while it went on.
EventsArrive ==
    /\ sentTo = {}
    /\ \A v \in subs :
         LET s == viewer[v] IN
         ~s.full =>
           /\ s.seen + Len(s.queue) = emitted
           /\ \A k \in DOMAIN s.queue : s.queue[k].n = s.seen + k
           /\ At("idle") /\ ~failed /\ s.queue = <<>> /\ s.since < runner.runs => ~s.told
=============================================================================
