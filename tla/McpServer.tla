----------------------------- MODULE McpServer -----------------------------
(***************************************************************************)
(* One MCP server's client (choreo-mcp session/): the dispatcher thread    *)
(* that owns the connection, its call gate (gate.rs), the tasks it spawns  *)
(* on the runtime, the bounded reconnects that run on a worker thread      *)
(* (restart.rs), the callers that block on a reply, session cancels and    *)
(* the shutdown when the McpServer is dropped.                             *)
(*                                                                         *)
(* A call is its session, a deadline that passes at some time and the      *)
(* engine it runs on; what it says is left out.  An engine (a connection)  *)
(* breaks and may work again.  A turn of the dispatcher is two steps: the  *)
(* loop top (completions, expired calls, promotions) and one select arm.   *)
(***************************************************************************)
EXTENDS Integers, Sequences, FiniteSets, FiniteSetsExt, SequencesExt

CONSTANTS
  Calls,        \* tool calls
  Listings,     \* listings and resource reads, which hold no slot
  Sessions,     \* sessions
  SessionOf,    \* the session of a call
  Cap,          \* max_concurrent_calls, as the gate clamps it
  MaxRestarts,  \* max_restarts
  MaxEngines,   \* bound: engines built in a behaviour
  MaxBreaks,    \* bound: times an engine breaks
  MaxCancels    \* bound: session cancels

ASSUME CapAssumption == Cap \in Nat \ {0} /\ MaxRestarts \in Nat
ASSUME BoundsAssumption == MaxEngines \in Nat \ {0} /\ MaxBreaks \in Nat /\ MaxCancels \in Nat
ASSUME CallsAssumption == Calls \cap Listings = {} /\ SessionOf \in [Calls -> Sessions]

Ops == Calls \cup Listings
Engines == 1..MaxEngines

VARIABLES
  cmds,     \* the command channel
  op,       \* the operations: where they are, the engine they run on, token, deadline
  d,        \* the dispatcher's own state
  done,     \* the completion notices in the channel, always drained together
  worker,   \* the reconnect worker ("none", "builds", "built", "failed") and its engine
  up,       \* engines that work
  breaks, cancels,
  doomed,   \* history: unanswered calls a cancel was sent for
  tries,    \* history: rebuilds since an exchange last completed
  credit    \* history: faults of the engine no rebuild was started for yet

vars == <<cmds, op, d, done, worker, up, breaks, cancels, doomed, tries, credit>>

\* at: "new", "sent" (in the command channel), "queued", "running", and then
\* "answered" or "cancelled" (answered with McpError::Cancelled).
Init ==
  /\ cmds = <<>> /\ done = {} /\ worker = [at |-> "none", eng |-> 0] /\ up = {1}
  /\ op = [o \in Ops |-> [at |-> "new", eng |-> 0, cancel |-> FALSE, late |-> FALSE]]
  /\ d = [pc |-> "top", engine |-> 1, inflight |-> {}, queued |-> <<>>, active |-> 0,
          waiting |-> 0, failures |-> 0, rebuilding |-> FALSE]
  /\ breaks = 0 /\ cancels = 0 /\ doomed = {} /\ tries = 0 /\ credit = 0

-----------------------------------------------------------------------------
(* Callers.                                                                *)

Answer(a) == [at |-> a, eng |-> 0, cancel |-> FALSE, late |-> FALSE]
Answered(f, S, a) == [o \in Ops |-> IF o \in S THEN Answer(a) ELSE f[o]]

\* call_tool, list_tools, ...: a dispatcher that is gone refuses the send.
Send(o) ==
  /\ op[o].at = "new"
  /\ \/ /\ d.pc # "gone" /\ cmds' = Append(cmds, <<"op", o>>)
        /\ op' = [op EXCEPT ![o].at = "sent"]
     \/ /\ d.pc = "gone" /\ op' = Answered(op, {o}, "answered") /\ UNCHANGED cmds
  /\ UNCHANGED <<d, done, worker, up, breaks, cancels, doomed, tries, credit>>

Waiting(o) == op[o].at \in {"sent", "queued", "running"}

Dropped == d.pc \in {"closing", "gone"} \/ \E i \in DOMAIN cmds : cmds[i][1] = "shutdown"

CancelSession(s) ==
  /\ cancels < MaxCancels /\ cancels' = cancels + 1
  /\ ~Dropped /\ cmds' = Append(cmds, <<"cancel", s>>)
  /\ doomed' = doomed \cup {c \in Calls : SessionOf[c] = s /\ Waiting(c)}
  /\ UNCHANGED <<op, d, done, worker, up, breaks, tries, credit>>

\* McpServer is dropped.
DropServer ==
  /\ ~Dropped /\ cmds' = Append(cmds, <<"shutdown">>)
  /\ UNCHANGED <<op, d, done, worker, up, breaks, cancels, doomed, tries, credit>>

\* The deadline of a parked call, fixed when its command was taken, passes.
Tick(c) ==
  /\ op[c].at = "queued" /\ ~op[c].late
  /\ op' = [op EXCEPT ![c].late = TRUE]
  /\ UNCHANGED <<cmds, d, done, worker, up, breaks, cancels, doomed, tries, credit>>

-----------------------------------------------------------------------------
(* Tasks on the runtime.  A task sends its notice and then its reply, which *)
(* only the caller sees.                                                   *)

Notice(o, outcome, e) == [op |-> o, outcome |-> outcome, engine |-> e]
Ends(o, outcome, a) ==
  /\ op[o].at = "running"
  /\ done' = IF d.pc = "gone" THEN done ELSE done \cup {Notice(o, outcome, op[o].eng)}
  /\ op' = [op EXCEPT ![o] = Answer(a)]
  /\ UNCHANGED <<cmds, d, worker, up, breaks, cancels, doomed, credit>>

TaskCompletes(o) ==
  /\ op[o].eng \in up /\ Ends(o, "Completed", "answered")
  /\ tries' = IF op[o].eng = d.engine THEN 0 ELSE tries
TaskFails(o) ==
  op[o].eng \notin up /\ Ends(o, "TransportFailed", "answered") /\ UNCHANGED tries
TaskTimesOut(o) == Ends(o, "Inconclusive", "answered") /\ UNCHANGED tries
TaskCancelled(c) == op[c].cancel /\ Ends(c, "Inconclusive", "cancelled") /\ UNCHANGED tries

\* External: an engine's transport breaks, and may work again.
Break(e) ==
  /\ e \in up /\ breaks < MaxBreaks /\ breaks' = breaks + 1
  /\ up' = up \ {e} /\ credit' = IF e < d.engine THEN credit ELSE credit + 1
  /\ UNCHANGED <<cmds, op, d, done, worker, cancels, doomed, tries>>

Recover(e) ==
  /\ e \notin up /\ d.pc \notin {"closing", "gone"} /\ e <= d.engine
  /\ up' = up \cup {e}
  /\ UNCHANGED <<cmds, op, d, done, worker, breaks, cancels, doomed, tries, credit>>

-----------------------------------------------------------------------------
(* The dispatcher.                                                         *)

\* note_failure: at most one worker, and none beyond the budget.
NoteFailure(r) ==
  IF r.rebuilding THEN r
  ELSE [r EXCEPT !.failures = @ + 1, !.rebuilding = r.failures < MaxRestarts]

\* Mutant: notices of a replaced engine count too.
CurrentOrReplaced == done

\* apply_completions: every notice frees its slot; those of the current engine
\* speak of its health, and one failure is noted for the whole batch.
Current == {n \in done : n.engine = d.engine}
Drained ==
  LET slots == {n.op : n \in done} \cap Calls
      fine == \E n \in Current : n.outcome = "Completed"
      bad == \E n \in Current : n.outcome = "TransportFailed"
      r == [d EXCEPT !.inflight = @ \ slots, !.active = Max({0, @ - Cardinality(slots)}),
                     !.failures = IF fine THEN 0 ELSE @]
  IN IF bad THEN NoteFailure(r) ELSE r

\* The worker starts when a failure is noted within the budget.
Started(r) == r.rebuilding /\ ~d.rebuilding
StartsWorker(r) ==
  /\ worker' = IF Started(r) THEN [at |-> "builds", eng |-> 0] ELSE worker
  /\ tries' = IF Started(r) THEN tries + 1 ELSE tries
  /\ credit' = IF Started(r) THEN credit - 1 ELSE credit

\* What the removal loops leave of the queue q without the calls in S, in its order.
Places(q, S) == {i \in DOMAIN q : q[i] \notin S}
Ascending(f) == \A a, b \in DOMAIN f : a < b => f[a] < f[b]
Enumeration(I) == CHOOSE f \in [1..Cardinality(I) -> I] : Ascending(f)
Without(q, S) == [n \in 1..Cardinality(Places(q, S)) |-> q[Enumeration(Places(q, S))[n]]]

\* Mutant: the queue deadline is not looked at.
NeverLate(r) == {}

\* expire_queued.
Late(r) == {c \in Range(r.queued) : op[c].late}
Expired(r) ==
  [r EXCEPT !.queued = Without(@, Late(r)),
            !.waiting = Max({0, @ - Cardinality(Late(r))})]

Promoted(r) ==
  IF r.rebuilding THEN <<>>
  ELSE SubSeq(r.queued, 1, Min({Cap - r.active, Len(r.queued)}))
Pumped(r) ==
  LET p == Promoted(r) IN
  [r EXCEPT !.queued = SubSeq(@, Len(p) + 1, Len(@)), !.inflight = @ \cup Range(p),
            !.active = @ + Len(p), !.waiting = Max({0, @ - Len(p)})]

\* spawn_call of the calls S on engine e; those in L turn out too late to run.
Spawned(f, S, L, e) ==
  [o \in Ops |-> IF o \in L THEN Answer("answered")
                 ELSE IF o \in S THEN [Answer("running") EXCEPT !.eng = e] ELSE f[o]]
TooLate(L, e) == {Notice(c, "Inconclusive", e) : c \in L}

Top ==
  /\ d.pc = "top"
  /\ \E r1 \in {Drained} : \E r2 \in {Expired(r1)} : \E S \in {Range(Promoted(r2))} :
       /\ StartsWorker(r1)
       /\ d' = [Pumped(r2) EXCEPT !.pc = "select"]
       /\ \E L \in SUBSET S :
            /\ op' = Spawned(Answered(op, Late(r1), "answered"), S, L, d.engine)
            /\ done' = TooLate(L, d.engine)
  /\ UNCHANGED <<cmds, up, breaks, cancels, doomed>>

\* recv(done_rx): the notices are applied; the loop top does the rest.
SelectDone ==
  /\ d.pc = "select" /\ done # {}
  /\ \E r \in {Drained} : StartsWorker(r) /\ d' = [r EXCEPT !.pc = "top"]
  /\ done' = {}
  /\ UNCHANGED <<cmds, op, up, breaks, cancels, doomed>>

\* Mutant: the loop goes on without a turn of its top, so nobody is promoted.
Adopts(r) ==
  /\ worker.at \in {"built", "failed"} /\ d.pc = "select" /\ d' = r
  /\ worker' = [at |-> "none", eng |-> 0] /\ credit' = IF worker.eng \in up THEN 0 ELSE 1
  /\ UNCHANGED <<cmds, op, done, up, breaks, cancels, doomed, tries>>
SelectReconnectContinues ==
  worker.at = "built" /\ Adopts([d EXCEPT !.rebuilding = FALSE, !.engine = worker.eng])

\* recv(reconnect_rx): take_result adopts a fresh engine, or keeps the old one.
SelectReconnect ==
  /\ d.pc = "select" /\ worker.at \in {"built", "failed"}
  /\ d' = [d EXCEPT !.rebuilding = FALSE, !.pc = "top",
                    !.engine = IF worker.at = "built" THEN worker.eng ELSE @]
  /\ worker' = [at |-> "none", eng |-> 0]
  /\ credit' = IF worker.at = "failed" THEN credit ELSE IF worker.eng \in up THEN 0 ELSE 1
  /\ UNCHANGED <<cmds, op, done, up, breaks, cancels, doomed, tries>>

\* recv(queue_timer): the earliest deadline of the queue has passed.
SelectTimer ==
  /\ d.pc = "select" /\ Late(d) # {}
  /\ d' = [d EXCEPT !.pc = "top"]
  /\ UNCHANGED <<cmds, op, done, worker, up, breaks, cancels, doomed, tries, credit>>

\* recv(cmd_rx): handle_command, one action per command.
Takes(cmd) == d.pc = "select" /\ cmds # <<>> /\ Head(cmds) = cmd /\ cmds' = Tail(cmds)
Turns(r) == d' = [r EXCEPT !.pc = "top"]

\* Call: admitted into a free slot, or parked.  While a rebuild is under way
\* admit is skipped and the gate is told by queue() instead.
Admits == ~d.rebuilding /\ d.active < Cap
AdmitCall(c) ==
  /\ Takes(<<"op", c>>) /\ c \in Calls /\ Admits
  /\ Turns([d EXCEPT !.active = @ + 1, !.inflight = @ \cup {c}])
  /\ \E L \in SUBSET {c} :
       /\ op' = Spawned(op, {c}, L, d.engine)
       /\ done' = done \cup TooLate(L, d.engine)
  /\ UNCHANGED <<worker, up, breaks, cancels, doomed, tries, credit>>

\* Mutant: a parked call is counted in admit and in queue.
ParkCallTwice(c) ==
  /\ Takes(<<"op", c>>) /\ c \in Calls /\ ~Admits
  /\ Turns([d EXCEPT !.waiting = @ + (IF d.rebuilding THEN 1 ELSE 2), !.queued = Append(@, c)])
  /\ op' = [op EXCEPT ![c].at = "queued"]
  /\ UNCHANGED <<done, worker, up, breaks, cancels, doomed, tries, credit>>
ParkCall(c) ==
  /\ Takes(<<"op", c>>) /\ c \in Calls /\ ~Admits
  /\ Turns([d EXCEPT !.waiting = @ + 1, !.queued = Append(@, c)])
  /\ op' = [op EXCEPT ![c].at = "queued"]
  /\ UNCHANGED <<done, worker, up, breaks, cancels, doomed, tries, credit>>

\* ListTools, ListResources, ReadResource: offloaded, whatever the gate says.
StartListing(l) ==
  /\ Takes(<<"op", l>>) /\ l \in Listings
  /\ Turns(d) /\ op' = [op EXCEPT ![l].at = "running", ![l].eng = d.engine]
  /\ UNCHANGED <<done, worker, up, breaks, cancels, doomed, tries, credit>>

\* Mutant: running calls are left alone.
ApplyCancelParkedOnly(s) ==
  LET parked == {c \in Range(d.queued) : SessionOf[c] = s} IN
  /\ Takes(<<"cancel", s>>) /\ op' = Answered(op, parked, "cancelled")
  /\ Turns([d EXCEPT !.queued = Without(@, parked),
                     !.waiting = Max({0, @ - Cardinality(parked)})])
  /\ UNCHANGED <<done, worker, up, breaks, cancels, doomed, tries, credit>>

\* CancelSession: running calls get their token set (of a task that has ended
\* nobody reads it), parked ones are answered.
ApplyCancel(s) ==
  LET parked == {c \in Range(d.queued) : SessionOf[c] = s}
      marked == [o \in Ops |-> IF o \in d.inflight /\ SessionOf[o] = s /\ op[o].at = "running"
                               THEN [op[o] EXCEPT !.cancel = TRUE] ELSE op[o]] IN
  /\ Takes(<<"cancel", s>>)
  /\ op' = Answered(marked, parked, "cancelled")
  /\ Turns([d EXCEPT !.queued = Without(@, parked),
                     !.waiting = Max({0, @ - Cardinality(parked)})])
  /\ UNCHANGED <<done, worker, up, breaks, cancels, doomed, tries, credit>>

\* Shutdown: the engine is closed, which fails what still runs on it.
Shutdown ==
  /\ Takes(<<"shutdown">>)
  /\ d' = [d EXCEPT !.pc = "closing"] /\ up' = up \ {d.engine}
  /\ UNCHANGED <<op, done, worker, breaks, cancels, doomed, tries, credit>>

\* Mutant: the commands still in the channel are forgotten.
UnstartedQueued == {o \in Ops : op[o].at = "queued"}

\* The dispatcher returns: its queue and its channels are dropped, and with
\* them the reply senders of every operation that was not started.
Unstarted == {o \in Ops : op[o].at \in {"sent", "queued"}}
Exit ==
  /\ d.pc = "closing"
  /\ op' = Answered(op, Unstarted, "answered")
  /\ d' = [d EXCEPT !.pc = "gone", !.queued = <<>>, !.inflight = {}, !.active = 0, !.waiting = 0]
  /\ cmds' = <<>> /\ done' = {}
  /\ UNCHANGED <<worker, up, breaks, cancels, doomed, tries, credit>>

\* The reconnect worker: the backoff has passed and the factory returns.
WorkerBuilds ==
  /\ worker.at = "builds"
  /\ \/ /\ d.engine < MaxEngines
        /\ worker' = [at |-> "built", eng |-> d.engine + 1] /\ up' = up \cup {d.engine + 1}
        /\ UNCHANGED credit
     \/ worker' = [at |-> "failed", eng |-> 0] /\ credit' = credit + 1 /\ UNCHANGED up
  /\ UNCHANGED <<cmds, op, d, done, breaks, cancels, doomed, tries>>

-----------------------------------------------------------------------------
Dispatcher ==
  \/ Top \/ SelectDone \/ SelectReconnect \/ SelectTimer \/ Shutdown \/ Exit
  \/ \E o \in Ops : AdmitCall(o) \/ ParkCall(o) \/ StartListing(o)
  \/ \E s \in Sessions : ApplyCancel(s)

Next ==
  \/ Dispatcher \/ WorkerBuilds \/ DropServer
  \/ \E o \in Ops : Send(o) \/ TaskCompletes(o) \/ TaskFails(o) \/ TaskTimesOut(o)
  \/ \E c \in Calls : Tick(c) \/ TaskCancelled(c)
  \/ \E s \in Sessions : CancelSession(s)
  \/ \E e \in Engines : Break(e) \/ Recover(e)

\* The dispatcher and the worker are threads, a task whose engine broke or
\* whose token is set is woken, and time passes.  A running call need not end:
\* its engine's timeout starts afresh with every progress notice.
Fairness ==
  /\ WF_vars(Dispatcher) /\ WF_vars(WorkerBuilds)
  /\ WF_vars(\E o \in Ops : TaskFails(o))
  /\ WF_vars(\E c \in Calls : TaskCancelled(c))
  /\ WF_vars(\E c \in Calls : Tick(c))

Spec == Init /\ [][Next]_vars /\ Fairness

-----------------------------------------------------------------------------
(* Properties.                                                             *)

TypeOK ==
  /\ cmds \in Seq(({"op"} \X Ops) \cup ({"cancel"} \X Sessions) \cup {<<"shutdown">>})
  /\ op \in [Ops -> [at : {"new", "sent", "queued", "running", "answered", "cancelled"},
                     eng : 0..MaxEngines, cancel : BOOLEAN, late : BOOLEAN]]
  /\ d \in [pc : {"top", "select", "closing", "gone"}, engine : Engines, inflight : SUBSET Calls,
            queued : Seq(Calls), active : Nat, waiting : Nat, failures : Nat,
            rebuilding : BOOLEAN]
  /\ done \subseteq [op : Ops, outcome : {"Completed", "TransportFailed", "Inconclusive"}, engine : Engines]
  /\ worker \in [at : {"none", "builds", "built", "failed"}, eng : 0..MaxEngines]
  /\ up \subseteq Engines /\ doomed \subseteq Calls /\ tries \in Nat /\ credit \in Int

\* In every well-typed state the gate's counters are what they count, no slot lost or counted twice
\* on any path: a call holds one of the Cap slots from its admission until its
\* notice is applied, and the waiting count is the length of the queue.
Noticed(c) == \E n \in done : n.op = c
GateIsExact ==
  /\ TypeOK
  /\ d.pc # "gone" =>
       /\ d.active = Cardinality(d.inflight) /\ d.active <= Cap
       /\ d.waiting = Len(d.queued) /\ Cardinality(Range(d.queued)) = Len(d.queued)
       /\ \A c \in Calls : /\ c \in Range(d.queued) <=> op[c].at = "queued"
                           /\ (op[c].at = "running" \/ Noticed(c)) <=> c \in d.inflight

\* One rebuild per incident (apply_completions, note_failure): however many
\* operations die with a connection, and however late their notices come, no
\* rebuild is started unless the engine broke, or the last rebuild failed,
\* after the previous one was started.  And a server that reconnects and dies
\* again is left alone: no more than max_restarts rebuilds without an exchange
\* completed on the engine in use.
RebuildsAreBounded == credit >= 0 /\ tries <= MaxRestarts

\* Calls start in order and on the engine in use: while a rebuild is under way
\* none is started, and when one starts, no call that reached the dispatcher
\* before it is left waiting.
Before(c) == IF op[c].at = "queued" THEN SubSeq(d.queued, 1, CHOOSE i \in DOMAIN d.queued : d.queued[i] = c)
             ELSE d.queued
StartsInOrder ==
  [][\A c \in Calls : (op[c].at \in {"sent", "queued"} /\ op'[c].at = "running") =>
                        /\ ~d.rebuilding /\ ~d'.rebuilding /\ op'[c].eng = d'.engine
                        /\ \A b \in Range(Before(c)) : op'[b].at # "queued"]_vars

\* A parked call leaves the queue, by its deadline at the latest, even if the
\* calls that hold the slots never end and the engine never comes back.
QueuedCallsEnd == (d.queued # <<>>) ~> (d.queued = <<>>)

\* A session cancel ends every call of the session sent before it, wherever
\* the call is when the dispatcher gets to the cancel.
CancelEndsCalls == []<>(\A c \in doomed : ~Waiting(c))

\* A dropped server releases its callers, those sent while the engine closes
\* too: none is left waiting, except on an engine that was replaced before.
ShutdownReleasesCallers ==
  Dropped ~> (\A o \in Ops : Waiting(o) => op[o].eng \notin {0, d.engine})
=============================================================================
