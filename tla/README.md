# A TLA+ verification project for choreographr

choreographr is a daemon (`choreo-daemon`) that runs conversations with language
models for any number of attached clients: it owns the sessions, runs the agent
loop (model call, tool calls, model call, ...), stores every turn in a redb
database, and lets clients attach, leave, undo, redo, cancel and delete at any
moment. This directory holds the TLA+ modules that model the parts of it in
which several threads and the database have to agree, the TLC configurations
that check them, and proofs that TLAPS checks.

Paths below are relative to the repository root; `daemon/` abbreviates
`choreo-daemon/src/`.

## 1. Inventory

### Threads and what they own

| Actor | Code | State it owns | Talks to |
|---|---|---|---|
| Command loop (one thread) | `daemon/daemon.rs` | `session_metadata` (the index), `active_sessions`, `children`, `deleted_sessions`, `next_session_id`, accounts, keystore, MCP slots | receives `DaemonCommand`s from connections, session threads, tools and helper threads over one channel |
| Session thread (one per active session) | `daemon/sessions.rs`, `sessions/handlers/*` | `SessionState`: turns, redo stack, configuration, subscribers, `active_requests` | receives `SessionCommand`s; writes the session's record and turn rows; sends `UpdateMetadata`, status and `SessionExited` to the command loop |
| Request worker (one per run) | `sessions/worker.rs`, `requests.rs` | a clone of `SessionState`, `prev_resp_id`, the turn in flight | sends `Started`, `SyncTokens` and `RequestFinished` to its session thread; checkpoints turn rows itself |
| Tool threads (two per concurrent call) | `requests/tool_execution.rs` | one execution thread runs the tool, one wait-loop watches result, deadline and kill | hand one handle per call to the worker's collector |
| Finalize thread (one per deferred delete) | `daemon.rs` (`finalize_session_delete`) | nothing | deletes record and tombstone, then tells the command loop |
| Connection threads (two per client) | `daemon/server/connection.rs` | attached session, outstanding command, write queue | commands one way, broadcasts and replies the other |
| MCP servers (a dispatcher thread and a reconnect worker per server) | `choreo-mcp/src/session/` | the connection, the call gate, parked calls, the restart budget | callers block on a reply; session cancels and the drop of the server arrive as commands |
| SSE reader (one per response) | `choreo-ai-protocols/src/stream.rs` | the response body and its connection | a bounded channel to the worker |
| Helpers | `oauth_refresh`, `cache_warm`, `catalog` | tokens, timers, model lists | commands to the loop |

### Components, their operations and what makes them correct

| Component | Operations that change state | Hard behaviour | Correct when | Here |
|---|---|---|---|---|
| Session thread and request worker | run input, run child input, cancel, shutdown, attach, detach, set model, undo, redo; start turn, answer, tool use, truncation retry, error, cancel, panic; merge; exit; reload | the run works on a clone while the thread goes on serving; row by row writes with a crash between any two; failed writes; panics | undone turns never reach the model; committed turns stay; idle means durable; totals match; cancel and shutdown end | `Session` |
| Tool batch of one response | serial config calls, dispatch, result, deadline, kill, panic, collect, drain, mirror | results, deadlines, cancels and panics in any order; threads nobody waits for | every call answered once; no handle lost; a cancel is never swallowed; the batch ends | `ToolBatch` |
| Session lifecycle | create, attach, get state, flags, delete, cancel, spawn child, exit, finalize, restart | deletes against threads that still write; late messages; crash between delete and finalize | the index is what a restart loads; deleted sessions stay deleted; one thread per session | `Lifecycle`, `Catalogue` |
| Session records and tombstones | write session, set flags, write turn, tombstone, purge | one row written by two threads | flags survive; purge at startup | inside `Session` and `Lifecycle` |
| Broadcast and lag accounting | emit, attach, detach, subscribe, track, enqueue, write, evict, disconnect | three fan-outs on two threads serve the same client and each skips whom another one is believed to serve; counters raised by many and lowered by one; eviction during a send | counters exact; every event queued once; an evicted or closed client is let go of everywhere | `Delivery` |
| Connections and replies | admit, request, reply, drop, drain | a request's owner dropped at any point | each request answered exactly once | attach, detach, the one outstanding command (`Lifecycle`), subscriptions, writer and cleanup (`Delivery`); reply targets not modelled |
| Keystore | lock, unlock, save, remove, bind, rotate | a lock while a refresh is under way | nothing is shown or written while locked | lock, unlock, save and remove in `OAuth` |
| OAuth refresh | acquire, exchange, save, publish, mark dead, clear | single-use refresh tokens, two engines, answers and commands lost or late | one exchange at a time; what is stored is what the server honours | `OAuth` |
| MCP client | call, list, cancel, rebuild, shut down | a transport that dies with calls in flight; deadlines against completions | no slot lost; one rebuild per incident; every caller answered | `McpServer` |
| Provider retry and streams | attempt, wait, resend, downgrade, stream, cancel | a cancel taken once; the force-close looks like a transport error | sends bounded; a cancel wins | `ProviderCall` |
| Socket registry, power events | register, unregister, shutdown_all, prune; sleep, wake | four closers of one descriptor whose number is reused | one close per descriptor, by its owner | `ProviderCall` |
| Cache warming, catalog | arm/disarm; refresh | timers against runs; single flight | no warm-up after disarm | not modelled yet |
| Provider protocols, wire protocol, transport, attachments, migrations | encode, decode | none that interleaves | round trips | not modelled: formats and cryptography |
| Front-ends (TUI, GUI, ACP, IM), content, image, markdown, sanitize, blockchain | rendering, adapters | | | not modelled: I/O and conversions |

`PROJECT.json` lists all of them under `components`, and under `hazards` every
place found so far where an order of events nobody tested could break something,
with the property that watches it.

## 2. Modules

| Module | Code it stands for | Role |
|---|---|---|
| `Session` | session thread, request worker, turn rows, record | one session in detail |
| `SessionProofs` | | type correctness, crash safety, totals, attach and context of `Session` |
| `ToolBatch` | phases 1 to 3 of a tool turn | the step `ToolUse` -> `ToolsDone` / `ToolsCancelled` of `Session`, opened up |
| `ToolBatchProofs` | | results, cancels and config mirror of `ToolBatch` |
| `Catalogue` | | abstract: what the daemon promises about the set of sessions |
| `Lifecycle` | command loop, session threads, child calls, finalizers, connections, tables | all sessions, without their content; implements `Catalogue` |
| `LifecycleProofs` | | index, ids, cancels and refinement of `Lifecycle` |
| `OAuth` | keystore lock, credentials, access-token cache, read view, lock registry, both refresh engines | one store, two refreshers, the authorization server |
| `OAuthProofs` | | locks, grants, sign-ins and read view of `OAuth` |
| `McpServer` | dispatcher, call gate, reconnect worker and callers of one MCP server | one server's client |
| `McpServerProofs` | | call gate, rebuilds and order of `McpServer` |
| `Delivery` | session fan-out, command-loop fan-outs, sinks, writer threads, eviction | an event's way to the clients |
| `DeliveryProofs` | | counters, copies and clean-up of `Delivery` |
| `ProviderCall` | retry loop, provider policies, connector, socket registry, SSE readers, cancel and power events | one session's provider calls |
| `ProviderCallProofs` | | descriptors and sends of `ProviderCall` |
| `MCSession`, `MCToolBatch`, `MCLifecycle`, `MCOAuth`, `MCMcpServer`, `MCDelivery`, `MCProviderCall` | | instances for TLC |

The detailed modules cut the daemon along its channels. `Lifecycle` keeps
of a session thread only that it has an inbox, a run and a record; `Session`
keeps of the command loop only that it sends commands and starts a new thread
after an exit; `ToolBatch` keeps of the session only its cancel channel and the
configuration commands a tool may send it; `Delivery` keeps of a session its
subscribers and what it broadcasts; `ProviderCall` opens up the provider call
that `Session` takes in one step, `McpServer` a tool call that `ToolBatch` takes
in one step, and `OAuth` what both need a token for.

### Session

State, in the order of `VARIABLES`: the session thread's own (`turns`,
`nextTurn`, `redo`, `active`, `liveTurn`, `subs`, `shutdown`, `billed`, `last`,
`chain`, `model`, `window`), the writes its current handler still owes (`todo`),
the worker's messages (`q`), the cancel channel (`cancel`), the worker's clone
and locals (`w...`) and the rows (`db...`).

* A handler is one action for its changes in memory and then one action per
  database transaction (`FlushRecord`, `FlushTurn`), because a crash may fall
  between any two. `TurnMayBeWritten` is the order the code keeps: an undo
  writes the record, which drops the response chain, before the turn rows.
* The worker's actions are the iterations of `run_agent_loop`: `BudgetExceeded`
  and `CancelAtTop` at the top, `StartTurn`, then what the provider call
  returns (`FinalText`, `ToolUse`, `Truncated`, `ProviderError`,
  `ProviderCancelled`), then `ToolsDone` or `ToolsCancelled`. `PersistTurn` is
  the checkpoint that each of them ends with. `Panic` may replace any of them.
* `RequestFinished` is the merge (`apply_worker_snapshot` and the writes of the
  rows the worker did not save).
* `Crash` loses everything but the rows; `Respawn` loads them
  (`from_persisted`).

Abstractions: a turn is its flags and which of seven stages its body reached; a
response id is the set of turns the provider stored under it, so that "what the
model sees" is computable (`Context`, from `chain_input_messages`); a token total
is the number of responses that reported usage. `Envelope` selects which
faults, and whether redo, an instance exercises.

### ToolBatch

Phase 1 runs the session-config calls one after the other (`Serial...`), each
against a command to the session thread that may be applied although the wait
for it was given up. Phase 2 dispatches the others (`Dispatch`), collects their
handles (`Collect`), reacts to a cancel by killing every wait-loop and draining
(`CollectCancel`) and synthesizes results for wait-loops that died
(`CollectDisconnected`). Phase 3 (`Mirror`) copies confirmed configuration
changes and marks what a cancel left unexecuted. A tool thread nobody waits for
any more goes on. `Untimed` calls have no deadline (`spawn_subsession`),
`Cooperative` ones look at the shared cancel flag, `Faulty` ones may panic.

### Lifecycle and Catalogue

One action per `DaemonCommand` of the session part of the command loop, one per
`SessionCommand`, and the steps of workers, child calls, finalizers and
connections. The command channel and each session's inbox are FIFO queues.
`records`, `diskPinned` and `tomb` are the SESSIONS and DELETED_SESSIONS tables;
of a parent only the in-memory children map matters, since the record's
`parent_session_id` is shown and never read back. A client's create names
whatever parent it likes (`ClientCreate`), also an id not given out yet and with
it the new session itself; an id beyond all that are ever given out acts as no
parent. `Restart` is a crash followed by `DaemonState::open`:
purge, load, next id. A graceful stop leaves a subset of the states a crash does.

`Catalogue` has two steps: a create adds one session, a delete removes some.
`Catalogued` says that `Lifecycle` implements it with `present` mapped to
`records \ tomb`, the sessions a restart would bring back; a record written by
a thread on its way out, or a purge that came too early, would be a step that
`Catalogue` does not have.

Abstractions: handlers are atomic (each is one turn of its thread's loop); a
cascade delete is one step, as in the code, where it happens inside one handler;
errors of the database in the command loop and panics of session threads are not
modelled; `RemoveSubscriber` and the disconnect path belong to `Delivery`.

### OAuth

A refresh token is its grant and its place in the grant's rotations; the
authorization server (external) honours the newest of a grant, spends it in an
exchange, and may revoke. `store` holds per key what the command loop keeps:
credential, encrypted blob, cached access token, quarantine, and the read view
that MCP connections use without asking the loop. A worker is a session's
provider refresh (load, exchange, save and wait for the answer; `Provider...`)
or an MCP adapter (seed from the view, exchange, publish to the view, send the
save and go on; `Adapter...`); both queue on the lock registry (`Acquire`,
`TakeLock`, `Release`, `Prune`). `Handle...` are the command loop's handlers;
sign-in, sign-out, lock, unlock, revocation, a lost answer, a failed write and a
crash are events. rmcp, which drives the adapter, is external. Init is a daemon
that has just been unlocked.

### McpServer

A turn of the dispatcher is two steps, as in the code: the top of the loop
(`Top`: drain completion notices, start a rebuild that is due, expire, promote)
and one arm of the select. `AdmitCall`, `ParkCall` and `Promoted` are the call
gate; `WorkerBuilds` is the thread that reconnects, `SelectReconnect` adopts its
engine. `Task...` are what a running call can come to. An engine that is late to
report after a newer one was adopted must not count against it (`Current`).

### Delivery

`Emit` is a session thread's broadcast: it fans out to its own subscribers and
posts the event to the command loop, whose `HandleActivity` and `HandleStatus`
fan it out again to the others. `Push` is the sink's accounting, `Write`,
`Drain`, `Hangup` and `End` are the writer thread, `Evict` and `HandleEvict` the
eviction, `Close` a connection's cleanup. Messages have size one; an image reply
does not count towards a client's lag, as in the code.

### ProviderCall

The worker is `retry_loop_with_provider_policies` around `retry_loop_impl`: a
first loop, one more after a compression downgrade, one per gateway resend. A
connection is dialled, registered, used, pooled or dropped; each has a
descriptor and perhaps the registry's duplicate, both numbers that the kernel
gives out again lowest first. An SSE reader owns its connection until it ends,
and outlives the call that stopped listening. The registry's operations hold its
mutex and are one step each. A cancel is two steps of the command loop, the
message to the session and the force-close, with the session thread's delivery
between or after them. A prune may take any entry, since the probe calls a
connection dead that has data waiting.

## 3. Runs

`tlc -workers 2 -config <run>.cfg <module>`; sizes are distinct states.

| Run | Instance | Properties | Size |
|---|---|---|---|
| `session_crash` | two models, one of which chains; three turn ids, budget of two turns per run; crash, redo | `NoHiddenTurnInContext`, `IdleIsDurable`, `CrashLosesOneTurn`, `RestartKeepsTotals`, `AttachReplaysLiveTurn`, `CommittedTurnKept` | 0.79 M |
| `session_stop` | two turn ids, no budget, responses without id and usage; panics and failed writes, fairness | `TypeOK`, `CancelEndsRun`, `ShutdownExits` | 0.15 M |
| `session_redo_void` | redo, no faults | `RedoVoidedByNewTurn`, refuted (section 5) | |
| `session_stale_chain` | two models, one of which chains; three turn ids, budget of one turn per run, no faults, no redo | `ModelSeesEveryLiveTurn`, refuted (section 5) | |
| `tool_batch` | two serial calls, two concurrent (one without deadline), panics, a cancel | `TypeOK`, `EveryCallAnswered`, `MirrorFollowsSession`, `RecordedOnce`, `CancelStopsTheRun` | 2.2 M |
| `tool_ends` | one serial call, one timed, one without deadline, two cancels; fairness | `BatchEnds` | 34 k |
| `lifecycle_delete` | one client, two ids, five commands (creates, that name no parent or id 2, attaches, runs, cancels, deletes), one crash | `IndexMatchesDisk`, `CancelReachesChildren`, `CreateIsFresh`, `Catalogued` | 1.6 M |
| `lifecycle_finish` | two clients, two ids, four commands (all but cancels), no named parents, one crash; fairness | `IndexMatchesDisk`, `DeleteFinishes` | 0.23 M |
| `oauth_refresh` | two workers in all four pairings of one account and one MCP server; two grants, two exchanges, two events, two queued commands | `SingleFlight`, `OneLiveGrant`, `ProviderPresentsLive`, `ReadViewIsSound`, `SignInsAreKept` | 0.8 M |
| `mcp_calls` | two calls of two sessions and a listing, a gate of one, one restart, two engines, two breaks, one cancel; fairness | `GateIsExact`, `RebuildsAreBounded`, `StartsInOrder`, `QueuedCallsEnd`, `CancelEndsCalls`, `ShutdownReleasesCallers` | 0.24 M |
| `delivery` | one client that follows in any of twelve ways, two sessions, two events, lag cap and budget of two, one request; fairness | `CountersAreHonest`, `QueuedOnce`, `NoGhosts`, `EvictedIsGone` | 0.49 M |
| `provider_call` | two calls, two attempts, one resend, two connections, registry cap and channel room of one, one cancel, sleep or wake; fairness | `DescriptorsOwned`, `SendsAreBounded`, `CancelEndsCall` | 0.29 M |

What they show, property by property, is said in the comment above each
definition. The properties meant to be argued about:

* `NoHiddenTurnInContext`: the user undoes a turn, the daemon dies between two
  of the undo's writes, and the next process continues a provider conversation
  that still holds the turn. It cannot happen because the record, without its
  chain, is written first.
* `CommittedTurnKept` and `CrashLosesOneTurn`: ids and rows of a run interrupted
  at any point are not reused, and only the turn in flight is lost.
* `RestartKeepsTotals`: totals are added up along a run's clone, its sync commands
  and its merge, and recomputed from the rows by the next process; an undo, a
  cancel or a crash does not set the two apart.
* `CancelStopsTheRun`: whichever wait takes the cancel, no further call starts, the
  running ones are told, and the transcript says which calls never ran.
* `RecordedOnce`, `EveryCallAnswered`: each tool call of a
  response gets exactly one result in the transcript although its result, its
  deadline, a kill, a panic and a cancel race.
* `IndexMatchesDisk` and `Catalogued`: while a deleted session's thread still
  writes and reports, the index and what a restart would load stay equal.
* `OneLiveGrant` and `ProviderPresentsLive`: two refreshers, lost answers, lock
  and unlock, sign-in over a refresh under way: what is stored is the token the
  server honours, unless a fault lost its successor, and a session never
  presents one that was spent.
* `RebuildsAreBounded` and `QueuedCallsEnd`: however failures of an old and of a
  new connection interleave, a server is rebuilt once per incident and within
  its budget, and a parked call ends by its deadline.
* `QueuedOnce`: three fan-outs with attaches and subscriptions under way between
  them queue an event for a client at most once, and once for one whose
  following did not change meanwhile.
* `DescriptorsOwned`: a drop, a cancel, a sleep and a prune compete for a socket
  whose numbers are reused, and none closes another's.

Bounds. Three turn ids let a run of one turn be followed by a run of two with an
undo or a crash between them, the longest pattern any property needs (an older
chain, a newer turn, and a turn that starts from both); two are enough for
`session_stop`, whose runs have to end, one after the other and each after a
tool round or a failure. In `ToolBatch` two
concurrent calls are the smallest batch in which one call's end can affect
another's, and two serial calls the smallest in which order matters. In
`Lifecycle` two ids are a parent and a child, and five commands a create, an
attach, a run, a spawned child and one more command against all of it; ids are
reused after a crash. A create that names id 2 is, for the first session, one
that names an id not given out yet and so becomes the child of a later session, and
for the second one that names itself; that it names an older session is left to
`spawn_subsession`. A run with every parent passes as well (3.2 M states). What two ids cannot show is a grandchild: see section 6.
In `OAuth` two workers are needed for a race and two grants for a sign-in over an
older refresh; an instance with one more event (3.5 M states) passes as well. In
`McpServer` two engines let the old one's failures arrive after the new one's
adoption, and a gate of one makes the second call park. In `Delivery` one client
suffices, since clients share only the daemon's budget; instances with two
requests (1.8 M) and with two clients (4.8 M) pass too. In `ProviderCall` two
calls give an abandoned reader beside a newer call, and two connections with one
registry slot a prune and reused numbers; three connections and two controls
(3.0 M states, invariants only) pass too.

Deadlock is checked in the `Session` runs. The others stop by design, when a
batch has ended or a bound is reached, and their configurations say so.

### Fairness

* `Session`: commands from the worker are dequeued under strong fairness, since
  they sit in one FIFO channel that other commands cannot overtake for ever (the
  model offers client commands at any time instead of queueing them); a handler
  finishes its writes; the worker goes on, since a provider call and a tool batch
  return (both carry deadlines, and `ToolBatch` checks the second under a
  cancel). Nothing is assumed of clients.
* `ToolBatch`: the worker and the wait-loops run when a message or a timer is
  ready. Nothing is assumed of tools, which may never return.
* `Lifecycle`: the command loop, session threads, finalizers and child calls run
  when they have work; a worker is sure to end only once it was cancelled.
  Nothing is assumed of clients.
* `McpServer`: the dispatcher and the reconnect worker run, time passes, and a
  task whose engine broke or whose token is set is woken and ends. For the second
  this includes the notice a cancelled task sends to its server, which it awaits
  without a timeout (`choreo-mcp`, `call.rs:121`): that the transport takes it is
  assumed. A running call need not end by itself.
* `Delivery`: the command loop, session threads and writers run; a reader wakes
  when its socket is shut. A client may stay silent for ever.
* `ProviderCall`: the threads run. A dial ends by the connect timeout. A write and
  the wait for a response end when the socket is shut or by the idle cap of a
  socket this client dialled; a proxy's connection has no cap
  (`connector.rs:81`) and no send timeout is set (`build_agent`,
  `shared.rs:341`), so there it is the deadline of the whole request, 3600 s by
  default, that is assumed to be on. The wait for the next event of a live stream
  need not end, because a provider may trickle keep-alives and the caller's
  deadline is optional; once its socket was shut it does, since what had been
  received before is finite (the strong fairness on a reader's last read).

`OAuth` states no fairness: it is checked for safety only.

## 4. Proofs

`tlapm M.tla` for each module `M` named `...Proofs`; each extends the module it is
about. A theorem holds for every value of the constants that satisfies the named
`ASSUME`s of that module; these say that bounds are numbers, that sets the code
keeps in a map are finite (`FinitelyMany`, `ClientsAssumption`) and that
functions of the configuration are functions (`SessionOf`, `Origin`, `Serves`),
and TLC evaluates them in every run. The conjuncts of each inductive invariant
were checked by TLC on the module's instance before they were proved.

**Session, for every fault.** `TypeCorrect`. Its content is arithmetic: `NextId`
of a history whose ids are within the bound is at most one above it, every
action that starts a turn has room, and the id a reload computes is well
defined (`LargestExists`, by well-founded minimality, and
`NewestOfProperties`).

**Session, when workers do not panic and row writes succeed (`CrashOnly`), for
any placement of crashes.** `UndoneTurnsStayHidden`, `IdleSessionsAreDurable`,
`OneTurnAtRisk`, `CommittedTurnsAreKept`, `RestartsKeepTotals`. None of them is
inductive; the last combines `IdleSessionsAreDurable` with `ShownInv` below. The
others follow from

    CrashInv == TypeOK /\ ThreadInv /\ ChainInv /\ RowInv /\ CloneInv

* `ThreadInv`: a worker exists exactly while a request is active; pending turn
  writes and an active request exclude each other.
* `ChainInv`: no chain, in the thread, in the clone or in the record, holds a
  turn that the history beside it hides. The record's chain is compared with the
  rows on disk, which is what a crash leaves.
* `RowInv`: outside a run each row equals its turn except the ones still owed; an
  owed row differs only in its undone flag and is not hidden while the record is
  still owed. This is where the order of an undo's writes is used.
* `CloneInv`: during a run the clone agrees with the thread on all turns it
  started from; every later turn is on disk as it stands, or is the one in
  flight, which has no row.

`CrashStep` has one case per action; `CommitKeeps`, `QuietKeeps` and `StartKeeps`
do the three shapes of worker step once. The assumption is needed: with panics
`CommittedTurnKept` fails (section 5).

**Session, what a client is shown, for every fault.** `AttachIsCurrent`, from
`ShownInvariant`, the invariance of

    ShownInv == TypeOK /\ RunPart /\ TotalPart /\ FlightPart /\ QueuePart

It holds although rows fail and workers panic, because what the thread shows comes
from its history, the worker's clone and the commands between them, never from the
rows. The thread's totals may not be compared with its own history during a run, so
`TotalPart` says it of the clone, and of the snapshot that a panic falls back to;
that the rows give the same totals (`RestartsKeepTotals`) needs `CrashOnly`. The turn
an attach replays is the one the last `Started` named; `QueuePart` says that a usage
report follows its turn's `Started` directly, in the queue or in what the thread
already took, and that the queue ends with the turn in flight (`FlightPart`), so that
neither a report nor a turn is applied to the wrong one.

**ToolBatch, for any calls, cancels and panics.** `ToolTypeCorrect`,
`AllCallsAnswered`, `OutcomesAreKept`, `ResultsAreFinal`, from

    BatchInv == TypeOK /\ ExecutedPart /\ SerialPart /\ BatchPart /\ EndPart

whose key facts are that `executed_tool_calls` is exactly the set of calls with a
result (`ExecutedPart`) and that a call is waited for, or has its one handle
queued, or has been processed, never two of these (`BatchPart`); with these a
late handle has no recorded result to overwrite.

`CancelsStopTheRun` (`CancelStopsTheRun`) needs `StopInv == TakenPart /\ ToldPart /\
StartedPart` besides: a wait that took a cancel leaves the worker beyond every place
that starts a call, a call still running was told to stop unless it is the one being
waited for, and the calls without a result are those of the wait under way and those
that never started, which is what lets the last sweep tell the two apart.

`MirrorIsFaithful` (`MirrorFollowsSession`) follows a session-config command through
three parties, the execution thread that asks, the session thread that applies and
the worker that repeats the change in its own copy, from

    ConfigInv == StartPart /\ AskPart /\ ReplyPart /\ OrderPart

A call asks once and its command is queued or applied, never both (`AskPart`);
success is reported only after the change was made (`ReplyPart`); and `OrderPart`
adds to the property what makes it inductive: while a call is waited for, its own
change, if it is there at all, comes after all the worker has noted, so that noting
it keeps the order. A call that timed out and is applied later is in the session's
log and not in the worker's, which `Follows` allows.

**Lifecycle, for any sessions, clients, commands and crashes.**
`IndexIsWhatRestartLoads`, `IdsGivenOutAreFresh`, and the refinement
`DaemonIsCatalogued` (`Init` maps to `Init`, each step to a step of `Catalogue` or
a stutter). They follow from `IndexInvariant`, the invariance of

    IndexInv == Shapes /\ Replies /\ Sets /\ Agreement /\ OwnerPart /\ MarkPart
                /\ QueuePart /\ FreshPart /\ RoomPart

`IndexMatchesDisk` says little about how it comes about: a thread whose session
was deleted goes on writing its record and reporting to the loop. `OwnerPart` and
`MarkPart` say which sessions such a thread can belong to and that these have a
tombstone; `QueuePart` says that a report of a thread is in the queue ahead of
its `SessionExited`, so that a report about a session that was not deleted finds
it listed and awake; `FreshPart` and `RoomPart` (a count of the creates under way)
are what makes a new id new, whatever parents were named and however many ids a
restart gave back. Most steps are calm: they touch neither index nor
tables, and one lemma does them all; the handlers that do are proved one by one.

`CancelIsPassedOn` (`CancelReachesChildren`) rests on `IndexInv` and on
`CancelInvariant`, the invariance of

    CancelInv == SoundPart /\ CallerPart /\ AskPart /\ TrackPart /\ HitPart

* `HitPart` is the property with the fact it needs to last: a run in `hit` is still
  the same run of the same thread, works, and is condemned. A run that ended is
  taken out of `hit`, so nothing is said of the thread's next run.
* `SoundPart`, of each thread: a run keeps its thread in the loop, its end is
  reported once, and a run that goes on after a shutdown is cancelled. Without the
  second, an end reported twice would finish a run that another cancel is for.
* `CallerPart` and `AskPart`: a `spawn_subsession` call is answered by the one thread
  that was made for it, from the command in the loop's queue to the run's caller.
* `TrackPart`: that thread is the one indexed for a session that is in the children
  map under the caller's session, or it was told to stop. This is what the daemon
  relies on when it takes a cancel: a child run it does not find in the map was
  told to stop by the delete or exit that took it out, and is condemned already.

What a step may do to one thread is said once (`Follow`: what is settled stays
settled, an engaged run stays engaged, no call is added); `CancelFrame` lifts this to
the state, and the lemma of an action shows only what the action does to the thread
it concerns. `HandleCancelRequest` is where `TrackPart` is spent.

**OAuth, for any workers, keys, sign-ins and crashes.** `OneRefreshAtATime`,
`SignInsStand`, `GrantAtRestIsLive`, `TokensArePresentedOnce` and `ReadViewStaysSound`. `LocksInvariant` is the invariance of
`LockInv == Shapes /\ LockPart /\ PlacePart /\ AnswerPart`: a lock's token is in its
channel or with its one holder, the registry still knows the lock of every worker
that has a handle (this is what its `strong_count` pruning must keep), and a
worker waits exactly while its question is in the channel. `SignInsStand` needs
`StorePart` and `MintPart` besides: no token anywhere is ahead of the server's, so
that a save that expects an older grant cannot meet a newer one.

`OneLiveGrant` speaks of a key with no save on its way; the invariant must say what
a save on its way owes. `CoverPart` (`GrantsInvariant`): the grant at rest, and each
that a save carries, is honoured, or lost to a named fault, or was spent by a save
that comes after it in the queue or is about to be sent. The successors form a
chain whose last link the server honours, and the lock is what makes a provider
refresh load that last link. When the loop refuses a save or fails to write it,
the token it spent goes to `lost`; a provider save that meets another grant than
the one it presented need not, because the grant at rest is then not the spent one.
`ViewPart` (`ViewsInvariant`) does the same for the read view,
which adapters write ahead of their commands: a locked daemon shows a grant only
with its save on the way, a quiet key shows the durable grant unless quarantined,
and a save that was alone when it was sent is still shown, or something newer of
its key is under way, or it will be refused. A sign-in between publish and save
falls under the last case by `MintPart`: the new grant is none a save can expect.

**McpServer, for any calls, slots, engines and restart budget.**
`GateStaysExact`, `RebuildsStayBounded`, `CallsStartInOrder`, from

    McpInv == Shapes /\ Seen /\ Gate /\ Full /\ Rebuilds

`Gate` says whose the slots and places are that the two counters count: the calls
that run or have a notice under way, and the queue, each call once. `Seen` places
every operation in exactly one of channel, queue, engine and notices. `Full`
gives the order: whoever is parked when the dispatcher selects has no slot to go
to. `Rebuilds` pays every restart with a fault. Dropping the cancelled calls of a
queue (`Without`) is defined by an ascending enumeration of the places that stay;
that one exists for every set of places is an induction over data, which the
provers do once it is said of sets of numbers (`SetInduction`, from
well-foundedness) and not with an operator parameter.

**ProviderCall, for any numbers of calls, attempts, connections and controls.**
`DescriptorsStayOwned`, `CallsSendBoundedly`, from

    CallInv == Shapes /\ Table /\ Held /\ Paced /\ SendPart /\ LatePart

`Table`: the operating system's table and the owners of descriptors agree. `Held`:
the open connections are the disjoint union of the one in use, the pooled and
those a reader thread has; with it a dial always finds a number free (a
pigeonhole argument), and whoever closes a number closes its own. `SendPart`
counts what the loops before this one sent; `LatePart`: a request sent after the
cancel leaves the cancel in the channel until the worker looks next.

**Delivery, for any clients, sessions, events and caps.** `CountersStayHonest`,
`EventsAreQueuedOnce`, `ClosedClientsAreForgotten`, from

    DelInv == Shapes /\ CountPart /\ GonePart /\ LeftPart /\ OverPart /\ TellPart
              /\ TrackPart /\ OrderPart /\ CopyPart

The properties speak of queues that have been worked off; the invariant must say
what is in them until then. `CountPart`: the counters are the messages queued and
what a writer's end lost. `GonePart` and `LeftPart`: whatever still holds a closed
client, or will, in the loop or in a session thread, has that client's disconnect
or detach behind it in the same queue. `OverPart` and `TellPart`: a client over its cap
is being evicted or on its way out, and a session drops only such clients.
`TrackPart` is what makes one copy one copy: a session's subscribers are the
clients that the loop will take for that session's when it has handled its whole
queue (`Served`), so the session's fan-out and the loop's, which suppresses
duplicates by its own table, agree although they read two tables at two times.
`OrderPart` and `CopyPart` follow an event's posts through the queue and say at
each place who has its copy already.

**Only model-checked.** Everything about liveness, which is outside the prover's
reach: `CancelEndsRun`, `ShutdownExits`, `BatchEnds`, `DeleteFinishes`,
`QueuedCallsEnd`, `CancelEndsCalls`, `ShutdownReleasesCallers`, `EvictedIsGone` and
`CancelEndsCall`.
Every invariant and every action property of a passing run has a theorem.

## 5. Where the code and its documentation disagree

Two are kept as runs that TLC refutes; the quotations are in `PROJECT.json`.

| Run | Property | What happens |
|---|---|---|
| `session_redo_void` | `RedoVoidedByNewTurn` | new input clears the redo stack of the worker's clone only; the older batch can still be redone in front of the newer turn |
| `session_stale_chain` | `ModelSeesEveryLiveTurn` | a chaining model, another, and the first again: the response id of before the other's run is continued with only what follows the last assistant message, so the other's turn is neither sent nor stored (21 steps, no fault) |

The others were met while modelling or stating a property; where a model has the
behaviour, its properties are stated so that they hold beside it.

* **Sessions.** After a crash in mid-run the record's older response id is
  continued with only what follows the last assistant message, so the
  checkpointed turns are not sent (`ARCHITECTURE.md:2635`); a panic, a failed write
  and a redo lead there as well. A panicked worker
  reports its first snapshot, and the next run reuses the ids of rows already
  committed (`ARCHITECTURE.md:2607`, "A committed turn is durable"); the totals
  shown and those a restart recomputes then differ, as they do after a failed
  row write.
* **Lifecycle.** A child being created while its parent is cancelled runs to its
  end (`ARCHITECTURE.md:2537`). The cascade follows the in-memory children map,
  which a restart empties (`daemon.rs:2921`). "A parent cancel kills the whole
  subtree's connections" (`daemon.rs:2803`), but only the direct children are
  visited. The parent a client names in a create is not checked against the
  sessions there are (`handlers.rs:455`, `daemon.rs:2060`): the session later given
  that id takes the older one with it when it is deleted, exits or is cancelled, and
  a session that names its own id is deleted twice over, the second time as one
  without a thread, so that its record goes while the thread still runs.
* **OAuth.** A full load under the guard serves the adapter's own cached
  response (`choreo-mcp/src/auth/adapter.rs:446`), so rmcp may present a refresh
  token that another adapter has spent, where `adapter.rs:371` says "a second
  connection that acquires the guard after a winner rotated re-reads the rotated
  credential". A queued save of an older rotation republishes it over a newer one
  in the read view until the newer save is handled. `MarkOAuthDead` names no
  grant, so it may quarantine the next one. An adapter still warm after a new
  sign-in may save its own older grant over it. A failed write leaves the view
  ahead of the store, and the next rotation is dropped. `handle_lock` says that
  "a re-unlock starts every account unquarantined", but nothing clears
  `dead_oauth` on unlock; and a save queued across a lock and an unlock
  republishes a spent token.
* **MCP.** Interactive rounds and progress notices restart the per-call timeout,
  which is said to bound "the WHOLE call".
* **Delivery.** Events are said to reach a client in order (`broadcast.rs:16`);
  for a client subscribed to all activity that attaches, one from the session
  thread may overtake one the command loop still holds. "every client receives
  `SessionStatusChanged` exactly once" (`subscriber_handlers.rs:222`) does not
  hold for one that subscribes or unsubscribes between the two commands. A
  session's exit leaves it in `ClientState.sessions`, so its events are skipped
  by the activity fan-out after it wakes. A track command handled after an
  eviction finds no client, but an attach still in a session's inbox adds the
  evicted client's sink back until its connection is cleaned up.
* **Provider calls.** "Live connections are never disturbed on Wake"
  (`daemon.rs`, `handle_suspend_event`): the probe removes the entry of a
  connection that has data waiting, which a later cancel then cannot close, and
  its change of the blocking mode can make a concurrent read report a timeout. A
  cancel that names an older stream closes the sockets of the newer call
  (`daemon.rs:2753`): one that reads or writes loses an attempt, one that streams
  fails. A dial under way when the sockets are closed is out of
  their reach: its cancel is noticed at the connect or idle timeout. A reader
  that nobody listens to is "bounded by the agent's idle/global timeouts"
  (`stream.rs:58`) unless the provider trickles and no global timeout is set.
  A pooled connection that was shut keeps its descriptor until the pool is next
  used.

Also met while modelling, and not kept as runs: a panicked worker's merge lowers the displayed token total
(`types.rs:239`) and any merge restores the context window of the model the run
began with (`types.rs:240`); all calls of a batch share one stop flag
(`requests.rs:1258`); a session-config call reported as timed out may still be
applied (`requests.rs:1195`); one image per call is read from a channel that may
hold several (`tool_execution.rs:831`); a cancel reaches children but not
grandchildren (`daemon.rs:2786`); an attach handled before a thread's
`SessionExited` is answered with that thread's sender (`daemon.rs:2119`).

## 6. Not modelled

* A budget's effect on termination is not checked as a property of its own,
  and the property for cancels is about direct children only.
* Database errors in the command loop; panics of session threads.
* Reply targets (a request answered exactly once although its owner is dropped),
  lifecycle and `ShuttingDown` broadcasts, the drain at shutdown.
* OAuth: expiry times, issuer and resource checks, access-token-only grants,
  identity claims, refusal of insecure endpoints.
* MCP: the daemon's pool of servers, configuration overlays, the protocol's
  messages.
* Provider calls: delays as numbers, the raw mode of the image providers, the
  adapters' own resend after a rejected cache field, Windows' probe, cancels of
  all streams at once.
* Message texts, tool arguments, images' bytes, encodings, cryptography.
* The components marked not modelled in section 1.

The repository has some 200,000 lines of implementation. The greater part is
front-ends, wire formats of providers, tools that act on files and processes,
content conversion and their tables, in which nothing interleaves: the modules
here stand for the threads and protocols of the daemon, a few percent of the
lines.

## 7. Plan

Done: `Session`, `ToolBatch`, `Lifecycle` over `Catalogue`, `OAuth`, `McpServer`,
`Delivery`, `ProviderCall`, each with proofs. In this order next:

1. `Reply`: a request's reply target through the writer, drops at every point;
   exactly one answer; abstract specification "answer once", refined.
2. Database errors and thread panics as faults of `Lifecycle`; a third id.
3. Cache warming, catalog refresh, the per-file locks of the tools.
