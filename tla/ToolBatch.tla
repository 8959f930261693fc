----------------------------- MODULE ToolBatch -----------------------------
(***************************************************************************)
(* The tool calls of one model response (requests.rs, phases 1 to 3, and   *)
(* requests/tool_execution.rs): the session-config calls run one after the *)
(* other, all other calls at once, each with an execution thread that runs *)
(* the tool and a wait-loop thread that turns the tool's result, the       *)
(* call's deadline or a kill into the one handle the collector records.    *)
(* A client's cancel may arrive at any moment.                             *)
(*                                                                         *)
(* Streaming output, texts and metrics are left out.  A thread that is not *)
(* waited for any more keeps running: its late effects stay in the model.  *)
(***************************************************************************)
EXTENDS Integers, Sequences, FiniteSets

CONSTANTS
  Config,       \* the session-config calls, in the model's order
  Calls,        \* the calls dispatched concurrently
  Untimed,      \* those without a deadline (spawn_subsession)
  Cooperative,  \* those whose tool consults ToolContext.cancelled
  Faulty,       \* calls whose threads may panic
  MaxCancels,   \* bound: cancel messages a client sends
  MaxImages     \* bound: images one tool emits

Serial == {Config[i] : i \in 1..Len(Config)}
All == Serial \cup Calls

ASSUME CallsAssumption ==
  /\ Config \in Seq(Serial) /\ Serial \cap Calls = {}
  /\ \A i, j \in 1..Len(Config) : Config[i] = Config[j] => i = j
  /\ Untimed \subseteq Calls /\ Cooperative \subseteq Calls /\ Faulty \subseteq All
ASSUME LimitsAssumption == MaxCancels \in Nat /\ MaxImages \in Nat

(* What a tool returns, and what the transcript records for a call.        *)
Results == {"ok", "error", "stopped"}
Outcomes == Results \cup {"timeout", "cancelled", "panicked"}
Records == Outcomes \cup {"placeholder", "unexecuted"}
Handle == [call: Calls, out: Outcomes, image: BOOLEAN]

VARIABLES
  pc,         \* worker: "serial", "wait", "collect", "drain", "mirror", "done"
  next,       \* index of the next session-config call
  sent,       \* cancel messages sent so far
  cancels,    \* those still queued on the request's cancel channel
  cancelled,  \* the worker's sticky flag
  thread,     \* execution thread: "none", "run", "asked", "replied", "refused",
              \* "sent" (result queued), "died"
  result,     \* the queued result
  images,     \* images the tool has emitted
  flagged,    \* calls whose context reads cancelled = true
  loop,       \* wait-loop thread: "none", "wait", "gone"
  kill,       \* kill messages sent to the wait-loops
  batch,      \* handles on the batch channel
  delivered,  \* calls whose handle the collector has processed
  rec,        \* the turn's tool results
  shown,      \* images recorded on the turn
  executed,   \* executed_tool_calls
  asks,       \* config commands on their way to the session thread
  applied,    \* config changes the session thread has made
  pending,    \* pending_config_changes
  mirrored    \* changes made to the worker's own copy

worker == <<pc, next, cancelled, delivered, rec, shown, executed, pending, mirrored>>
tools == <<thread, result, images>>
loops == <<loop, kill, batch>>
session == <<asks, applied>>
vars == <<worker, sent, cancels, tools, flagged, loops, session>>

Init ==
  /\ pc = "serial" /\ next = 1 /\ sent = 0 /\ cancels = 0 /\ cancelled = FALSE
  /\ thread = [c \in All |-> "none"] /\ result = [c \in All |-> "ok"]
  /\ images = [c \in All |-> 0] /\ flagged = {}
  /\ loop = [c \in Calls |-> "none"] /\ kill = {} /\ batch = {} /\ delivered = {}
  /\ rec = [c \in All |-> "placeholder"] /\ shown = [c \in All |-> 0]
  /\ executed = {} /\ asks = <<>> /\ applied = <<>> /\ pending = <<>> /\ mirrored = <<>>

-----------------------------------------------------------------------------
(* The execution threads, and the session thread that serves their config  *)
(* commands.                                                               *)

Finished(c) == thread[c] \in {"sent", "died"}

Return(c, r) ==
  /\ thread' = [thread EXCEPT ![c] = "sent"]
  /\ result' = [result EXCEPT ![c] = r]

\* A tool returns in its own time, or never; a session-config tool returns
\* success only after the session thread's reply.
ToolReturns(c) ==
  /\ \/ thread[c] = "run" /\ c \in Calls /\ \E r \in {"ok", "error"} : Return(c, r)
     \/ thread[c] = "run" /\ c \in Serial /\ Return(c, "error")
     \/ thread[c] = "replied" /\ Return(c, "ok")
     \/ thread[c] = "refused" /\ Return(c, "error")
  /\ UNCHANGED <<worker, sent, cancels, images, flagged, loops, session>>

\* A cooperative tool sees its flag and gives up.
ToolStops(c) ==
  /\ thread[c] = "run" /\ c \in Cooperative \cap flagged
  /\ Return(c, "stopped")
  /\ UNCHANGED <<worker, sent, cancels, images, flagged, loops, session>>

ToolEmitsImage(c) ==
  /\ thread[c] = "run" /\ c \in Calls /\ images[c] < MaxImages
  /\ images' = [images EXCEPT ![c] = @ + 1]
  /\ UNCHANGED <<worker, sent, cancels, thread, result, flagged, loops, session>>

ToolDies(c) ==
  /\ thread[c] \in {"run", "asked", "replied", "refused"} /\ c \in Faulty
  /\ thread' = [thread EXCEPT ![c] = "died"]
  /\ UNCHANGED <<worker, sent, cancels, result, images, flagged, loops, session>>

\* set_working_dir, load_tools, unload_tools: a command to the session thread,
\* routed by the daemon, and a blocking wait for the reply.
ToolAsks(c) ==
  /\ thread[c] = "run" /\ c \in Serial
  /\ thread' = [thread EXCEPT ![c] = "asked"]
  /\ asks' = Append(asks, c)
  /\ UNCHANGED <<worker, sent, cancels, result, images, flagged, loops, applied>>

\* The session thread takes the next config command, whoever still waits.
ConfigCommand ==
  /\ asks # <<>>
  /\ LET c == Head(asks) IN
       \/ /\ applied' = Append(applied, c)
          /\ thread' = [thread EXCEPT ![c] = IF @ = "asked" THEN "replied" ELSE @]
       \/ /\ UNCHANGED applied
          /\ thread' = [thread EXCEPT ![c] = IF @ = "asked" THEN "refused" ELSE @]
  /\ asks' = Tail(asks)
  /\ UNCHANGED <<worker, sent, cancels, result, images, flagged, loops>>

Cancel ==
  /\ sent < MaxCancels
  /\ sent' = sent + 1 /\ cancels' = cancels + 1
  /\ UNCHANGED <<worker, tools, flagged, loops, session>>

-----------------------------------------------------------------------------
(* Waiting for one call.                                                   *)

\* tool_result_from_channel: a dead thread reads as a panic.
FromChannel(c) == IF thread[c] = "died" THEN "panicked" ELSE result[c]

\* drain_queued_or_synthesize: a result already queued is a real result.
Drained(c, stop) == IF Finished(c) THEN FromChannel(c) ELSE stop

\* Mutant: the result is not remembered as recorded.
RecordForgotten(c, out, image) ==
  /\ rec' = [rec EXCEPT ![c] = out]
  /\ shown' = [shown EXCEPT ![c] = IF image THEN @ + 1 ELSE @]
  /\ UNCHANGED executed

\* record_tool_completion and executed_tool_calls: one image at most rides on
\* the handle (image_rx.try_recv()).
Record(c, out, image) ==
  /\ rec' = [rec EXCEPT ![c] = out]
  /\ shown' = [shown EXCEPT ![c] = IF image THEN @ + 1 ELSE @]
  /\ executed' = executed \cup {c}

\* The calls whose context shares the stop flag of c: the serial path builds a
\* flag per call, the concurrent batch one for all its calls.
SharesFlag(c) == IF c \in Serial THEN {c} ELSE Calls

-----------------------------------------------------------------------------
(* Phase 1: session-config calls, one at a time.                           *)

Current == Config[next]

\* Mutant: the channel is not looked at.
TakeCancelUnseen == cancels' = cancels - 1 /\ cancelled' = TRUE

\* A receive from the cancel channel.
TakeCancel == cancels > 0 /\ cancels' = cancels - 1 /\ cancelled' = TRUE

\* Before each call the worker looks for a cancel; the rest is skipped.
SerialCancelled ==
  /\ pc = "serial" /\ next =< Len(Config)
  /\ TakeCancel
  /\ pc' = "mirror"
  /\ UNCHANGED <<next, sent, delivered, rec, shown, executed, pending, mirrored,
                 tools, flagged, loops, session>>

SerialStart ==
  /\ pc = "serial" /\ next =< Len(Config) /\ cancels = 0
  /\ thread' = [thread EXCEPT ![Current] = "run"]
  /\ pc' = "wait"
  /\ UNCHANGED <<next, cancelled, delivered, rec, shown, executed, pending, mirrored,
                 sent, cancels, result, images, flagged, loops, session>>

\* Mutant: a failed change is mirrored as well.
NotePendingAlways(out) == pending' = Append(pending, Current)

\* pending_config_change: only a success is mirrored later.
NotePending(out) == pending' = IF out = "ok" THEN Append(pending, Current) ELSE pending

\* The call's result is recorded; a sticky cancel skips everything after it.
SerialRecord(out, stop) ==
  /\ Record(Current, out, images[Current] > 0)
  /\ NotePending(out)
  /\ next' = next + 1
  /\ pc' = IF stop THEN "mirror" ELSE "serial"
  /\ UNCHANGED <<delivered, mirrored, sent, tools, loops, session>>

SerialResult ==
  /\ pc = "wait" /\ Finished(Current)
  /\ SerialRecord(FromChannel(Current), FALSE)
  /\ UNCHANGED <<cancelled, cancels, flagged>>

\* Mutant: the consumed cancel is forgotten.
SerialCancelForgotten ==
  /\ pc = "wait" /\ cancels > 0 /\ cancels' = cancels - 1
  /\ flagged' = flagged \cup SharesFlag(Current)
  /\ SerialRecord(Drained(Current, "cancelled"), FALSE)
  /\ UNCHANGED cancelled

\* The wait consumed a cancel: the request stops after this result.
SerialCancel ==
  /\ pc = "wait"
  /\ TakeCancel
  /\ flagged' = flagged \cup SharesFlag(Current)
  /\ SerialRecord(Drained(Current, "cancelled"), TRUE)

SerialTimeout ==
  /\ pc = "wait"
  /\ flagged' = flagged \cup SharesFlag(Current)
  /\ SerialRecord(Drained(Current, "timeout"), FALSE)
  /\ UNCHANGED <<cancelled, cancels>>

-----------------------------------------------------------------------------
(* Phase 2: all other calls at once.                                       *)

Dispatch ==
  /\ pc = "serial" /\ next > Len(Config)
  /\ pc' = IF Calls = {} THEN "mirror" ELSE "collect"
  /\ thread' = [c \in All |-> IF c \in Calls THEN "run" ELSE thread[c]]
  /\ loop' = [c \in Calls |-> "wait"]
  /\ UNCHANGED <<next, cancelled, delivered, rec, shown, executed, pending, mirrored,
                 sent, cancels, result, images, flagged, kill, batch, session>>

\* A wait-loop delivers its handle and ends.
Deliver(c, out) ==
  /\ batch' = batch \cup {[call |-> c, out |-> out, image |-> images[c] > 0]}
  /\ loop' = [loop EXCEPT ![c] = "gone"]
  /\ UNCHANGED <<worker, sent, cancels, tools, kill, session>>

LoopResult(c) ==
  /\ loop[c] = "wait" /\ Finished(c)
  /\ Deliver(c, FromChannel(c))
  /\ UNCHANGED flagged

\* The kill woke the select: it does not look at a later result.
LoopKilled(c) ==
  /\ loop[c] = "wait" /\ c \in kill
  /\ flagged' = flagged \cup SharesFlag(c)
  /\ Deliver(c, "cancelled")

\* Mutant: the deadline is armed for the wrong calls.
LoopDeadlineInverted(c) ==
  /\ loop[c] = "wait" /\ c \in Untimed
  /\ flagged' = flagged \cup SharesFlag(c)
  /\ Deliver(c, Drained(c, "timeout"))

\* The exact timer of a bounded wait fires.
LoopDeadline(c) ==
  /\ loop[c] = "wait" /\ c \notin Untimed
  /\ flagged' = flagged \cup SharesFlag(c)
  /\ Deliver(c, Drained(c, "timeout"))

\* The wait-loop thread itself panics before it delivers.
LoopDies(c) ==
  /\ loop[c] = "wait" /\ c \in Faulty
  /\ loop' = [loop EXCEPT ![c] = "gone"]
  /\ UNCHANGED <<worker, sent, cancels, tools, flagged, kill, batch, session>>

\* The collector processes a handle, in the normal loop and in the drain after
\* a cancel alike.
Collect(h) ==
  /\ pc \in {"collect", "drain"} /\ h \in batch
  /\ batch' = batch \ {h}
  /\ delivered' = delivered \cup {h.call}
  /\ Record(h.call, h.out, h.image)
  /\ pc' = IF delivered' = Calls THEN "mirror" ELSE pc
  /\ UNCHANGED <<next, cancelled, pending, mirrored, sent, cancels, tools, flagged,
                 loop, kill, session>>

\* The wait-loops a kill reaches: the select takes the first message that came.
Killed == {c \in Calls : ~Finished(c)}

\* A cancel: every wait-loop is killed, and the collector goes on until each
\* has delivered.
CollectCancel ==
  /\ pc = "collect" /\ TakeCancel
  /\ flagged' = flagged \cup Calls /\ kill' = Killed
  /\ pc' = "drain"
  /\ UNCHANGED <<next, delivered, rec, shown, executed, pending, mirrored, sent,
                 tools, loop, batch, session>>

\* Mutant: nothing is synthesized for the dead wait-loops.
MissingNone == {}

\* missing_calls: by call, not by position.
Missing == Calls \ delivered

\* Every wait-loop is gone and its handles are processed, yet some call has no
\* result: the channel is disconnected and the missing ones are synthesized.
CollectDisconnected ==
  /\ pc \in {"collect", "drain"} /\ batch = {}
  /\ \A c \in Calls : loop[c] = "gone"
  /\ rec' = [c \in All |-> IF c \in Missing THEN "panicked" ELSE rec[c]]
  /\ executed' = executed \cup Missing
  /\ pc' = "mirror"
  /\ UNCHANGED <<next, cancelled, delivered, shown, pending, mirrored, sent, cancels,
                 tools, flagged, loops, session>>

(* Phase 3: the worker's own configuration follows, and a cancelled turn's  *)
(* remaining placeholders are marked (mark_unexecuted_tool_results).        *)
Mirror ==
  /\ pc = "mirror"
  /\ mirrored' = pending
  /\ rec' = [c \in All |-> IF cancelled /\ c \notin executed THEN "unexecuted" ELSE rec[c]]
  /\ pc' = "done"
  /\ UNCHANGED <<next, cancelled, delivered, shown, executed, pending, sent, cancels,
                 tools, flagged, loops, session>>

-----------------------------------------------------------------------------
ToolStep ==
  \E c \in All : ToolReturns(c) \/ ToolStops(c) \/ ToolEmitsImage(c) \/ ToolDies(c) \/ ToolAsks(c)

LoopStep ==
  \E c \in Calls : LoopResult(c) \/ LoopKilled(c) \/ LoopDeadline(c) \/ LoopDies(c)

WorkerStep ==
  \/ SerialCancelled \/ SerialStart \/ SerialResult \/ SerialCancel \/ SerialTimeout
  \/ Dispatch
  \/ (\E h \in batch : Collect(h))
  \/ CollectCancel \/ CollectDisconnected
  \/ Mirror

Next == ToolStep \/ ConfigCommand \/ Cancel \/ LoopStep \/ WorkerStep

Spec == Init /\ [][Next]_vars

(* The worker and the wait-loops are runnable whenever a message or a timer *)
(* is ready.  Nothing is assumed of the tools: they may never return.       *)
Fairness == WF_vars(WorkerStep) /\ \A c \in Calls :
              WF_vars(LoopResult(c) \/ LoopKilled(c) \/ LoopDeadline(c))

FairSpec == Spec /\ Fairness

-----------------------------------------------------------------------------
\* Every variable has its type.
TypeOK ==
  /\ pc \in {"serial", "wait", "collect", "drain", "mirror", "done"}
  /\ next \in 1..(Len(Config) + 1)
  /\ sent \in Nat /\ cancels \in Nat /\ cancelled \in BOOLEAN
  /\ thread \in [All -> {"none", "run", "asked", "replied", "refused", "sent", "died"}]
  /\ result \in [All -> Results] /\ images \in [All -> Nat]
  /\ flagged \subseteq All
  /\ loop \in [Calls -> {"none", "wait", "gone"}] /\ kill \subseteq Calls
  /\ batch \subseteq Handle /\ delivered \subseteq Calls
  /\ rec \in [All -> Records] /\ shown \in [All -> Nat] /\ executed \subseteq All
  /\ asks \in Seq(Serial) /\ applied \in Seq(Serial)
  /\ pending \in Seq(Serial) /\ mirrored \in Seq(Serial)

\* The turn that is checkpointed has a result for every call the model made,
\* whatever mixture of results, deadlines, panics and cancels the batch saw:
\* the next provider request never carries an empty tool message.
EveryCallAnswered == pc = "done" => \A c \in All : rec[c] # "placeholder"

\* No outcome is dropped: a handle a wait-loop delivered is recorded before
\* the batch ends, also when a cancel ends it.
NoOutcomeDropped == pc \in {"mirror", "done"} => batch = {}

\* A recorded result stays: neither a late handle, nor a synthesized result,
\* nor the cancel sweep overwrites it.
RecordedOnce == [][\A c \in All : rec[c] # "placeholder" => rec'[c] = rec[c]]_vars

\* Once a cancel has been taken from the channel, by whichever wait, no further
\* call starts, every call still running has been told to stop, and the phase
\* ends with the flag that ends the run and with exactly the calls that never
\* started reported as not executed.
CancelStopsTheRun ==
  [][sent > cancels =>
       /\ \A c \in All : /\ thread[c] = "none" => thread'[c] = "none"
                         /\ thread[c] = "run" => c \in flagged
       /\ pc = "done" => /\ cancelled
                         /\ \A c \in All : thread[c] = "none" <=> rec[c] = "unexecuted"]_vars

Holds(s, c) == \E i \in 1..Len(s) : s[i] = c

\* The calls of s are in log, once, and in the same order.
Follows(s, log) ==
  /\ \A i \in 1..Len(s) : Holds(log, s[i])
  /\ \A i, j \in 1..Len(s), a, b \in 1..Len(log) :
       log[a] = s[i] /\ log[b] = s[j] => (i =< j <=> a =< b)

\* The worker's copy of the configuration follows changes the session thread
\* made, in the order it made them, also when a call whose wait timed out has
\* its command served late.
MirrorFollowsSession == Follows(mirrored, applied)

\* The tool phase ends although tools may hang: only a tool that carries no
\* deadline (spawn_subsession) and never returns can hold it up, and a cancel
\* ends it even then.
BatchEnds ==
  /\ \/ <>(pc = "done")
     \/ \E c \in Untimed : <>[](thread[c] = "run" /\ loop[c] = "wait")
  /\ cancels > 0 ~> pc = "done"

=============================================================================
