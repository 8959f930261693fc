------------------------------ MODULE Session ------------------------------
(***************************************************************************)
(* One session of the choreographr daemon: the session thread that owns    *)
(* the authoritative turn history (choreo-daemon/src/sessions), the        *)
(* request worker it spawns for a run, which builds turns on a private     *)
(* clone (sessions/worker.rs, requests.rs), and the redb rows both write.  *)
(*                                                                         *)
(* What is kept: every change to the turn history, the undo/redo stack,    *)
(* the provider's response chain, the token totals, the model with its     *)
(* cached context window, the durable rows, and the order of the single    *)
(* writes a handler makes (a crash may fall between any two).  What is     *)
(* abstracted: texts, tool arguments and images; a token total counts the  *)
(* responses that reported usage; a response id stands for the set of      *)
(* turns the provider stored under it.                                     *)
(***************************************************************************)
EXTENDS Integers, Sequences, FiniteSets

CONSTANTS
  Clients,        \* clients that attach to and detach from the session
  Models,         \* selectable models
  Chaining,       \* those whose passback policy is ResponseId
  MaxTurnId,      \* bound: the largest turn id the model hands out
  MaxTurns,       \* config max_turns; 0 = unlimited
  MaxRecoveries,  \* MAX_TRUNCATION_RECOVERIES
  Usages,         \* may a provider response report token usage / omit it
  ResponseIds,    \* may a provider response carry a response id / omit it
  Envelope        \* the faults and commands this instance exercises

Faults == {"crash", "panic", "writefail"}

ASSUME ModelsAssumption == Chaining \subseteq Models /\ "none" \notin Models
ASSUME BoundsAssumption == /\ MaxTurnId \in Nat /\ MaxTurns \in Nat
                           /\ MaxRecoveries \in Nat \ {0}
ASSUME InputsAssumption == /\ Usages \subseteq BOOLEAN /\ Usages # {}
                           /\ ResponseIds \subseteq BOOLEAN /\ ResponseIds # {}
                           /\ Envelope \subseteq Faults \cup {"redo"}

TurnIds == 0..MaxTurnId
None == -1

(***************************************************************************)
(* A turn.  body: "none" no such turn; "open" started, no response yet;    *)
(* "calls" tool calls recorded, results still placeholders; "tools" every  *)
(* call has a result; "final" the answer; "notice" the truncated-call      *)
(* notice; "error" the failure mark.                                       *)
(***************************************************************************)
Bodies == {"none", "open", "calls", "tools", "final", "notice", "error"}
Turn == [user: BOOLEAN, undone: BOOLEAN, body: Bodies, usage: BOOLEAN]
NoTurn == [user |-> FALSE, undone |-> FALSE, body |-> "none", usage |-> FALSE]
History == [TurnIds -> Turn]

\* last_response_id with its producer: the turns the provider stored under it.
Chain == [by: Models \cup {"none"}, seen: SUBSET TurnIds]
NoChain == [by |-> "none", seen |-> {}]

\* The part of SessionState a worker clones and RequestFinished carries back.
Snapshot == [turns: History, saved: SUBSET TurnIds, billed: Nat,
             last: TurnIds \cup {None}, chain: Chain, window: Models]

Ids(T) == {t \in TurnIds : T[t].body # "none"}
Live(T) == {t \in Ids(T) : ~T[t].undone}
HasAssistant(turn) == turn.body \in {"calls", "tools", "final", "notice"}

NewestOf(S) == IF \E t \in S : \A u \in S : u =< t
               THEN CHOOSE t \in S : \A u \in S : u =< t
               ELSE None

\* Mutants: an off-by-one, and ids continued from the newest live turn.
NextIdOffByOne(T) == NewestOf(Ids(T)) + 2
NextIdOfLive(T) == NewestOf(Live(T)) + 1

NextId(T) == NewestOf(Ids(T)) + 1

\* live_last_prompt_tokens: the turn whose reported prompt size is displayed.
LiveLast(T) == NewestOf({t \in Live(T) : T[t].usage})

\* reconstruct_accumulated_usage: undone turns stay billed.
BilledTurns(T) == Cardinality({t \in Ids(T) : T[t].usage})

\* chain_input_messages: a chained request sends what follows the last
\* assistant message; an unchained one sends the whole live history.
UnansweredTail(T) == LET answered == {t \in Live(T) : HasAssistant(T[t])}
            IN  {t \in Live(T) : t > NewestOf(answered)}

Context(T, prev) == IF prev = NoChain THEN Live(T) ELSE prev.seen \cup UnansweredTail(T)

VARIABLES
  phase,      \* session thread: "run", "exit" (loop left), "down" (no thread)
  turns,      \* SessionState.turns
  nextTurn,   \* SessionState.next_turn_id
  redo,       \* SessionState.redo_stack, newest batch first
  active,     \* active_requests is non-empty
  liveTurn,   \* ActiveRequest.turn_id
  subs,       \* subscribers
  shutdown,   \* shutdown_requested
  billed,     \* config.accumulated_usage
  last,       \* config.last_prompt_tokens
  chain,      \* config.last_response_id and its producer
  model,      \* config.selected_model
  window,     \* config.context_window, named by the model it belongs to
  todo,       \* the row writes the current handler still has to make
  q,          \* SessionCommands from the worker, not yet processed
  cancel,     \* a message waits on the request's cancel channel
  wpc,        \* worker: "idle", "top", "call", "tools", "ended"
  w,          \* the worker's SessionState clone
  winit,      \* run_request_worker's initial_snapshot
  wnext,      \* the clone's next_turn_id
  wcur,       \* current_turn_id
  wprev,      \* prev_resp_id
  wmodel,     \* the model the run was accepted with
  witer,      \* turn_iter
  wtext,      \* user_text / pending_user_text for the next turn
  wtrunc,     \* truncation_recoveries
  dbTurns,    \* the turn rows
  dbChain,    \* the session record's last_response_id
  dbModel     \* the session record's selected_model

main == <<phase, turns, nextTurn, redo, active, liveTurn, subs, shutdown,
          billed, last, chain, model, window, todo>>
worker == <<wpc, w, winit, wnext, wcur, wprev, wmodel, witer, wtext, wtrunc>>
db == <<dbTurns, dbChain, dbModel>>
vars == <<main, q, cancel, worker, db>>

EmptyHistory == [t \in TurnIds |-> NoTurn]
NoWrites == [rec |-> FALSE, ids |-> {}]
SnapshotOf(win) == [turns |-> turns, saved |-> {}, billed |-> billed,
                    last |-> last, chain |-> chain, window |-> win]
EmptySnapshot(m) == [turns |-> EmptyHistory, saved |-> {}, billed |-> 0,
                     last |-> None, chain |-> NoChain, window |-> m]

WorkerGone ==
  /\ q' = <<>> /\ cancel' = FALSE
  /\ wpc' = "idle" /\ w' = EmptySnapshot(dbModel) /\ winit' = EmptySnapshot(dbModel)
  /\ wnext' = 0 /\ wcur' = 0 /\ wprev' = NoChain /\ wmodel' = dbModel
  /\ witer' = 0 /\ wtext' = FALSE /\ wtrunc' = 0

\* The thread's memory is gone; the values no longer matter.
MemoryGone ==
  /\ phase' = "down" /\ turns' = EmptyHistory /\ nextTurn' = 0 /\ redo' = <<>>
  /\ active' = FALSE /\ liveTurn' = 0 /\ subs' = {} /\ shutdown' = FALSE
  /\ billed' = 0 /\ last' = None /\ chain' = NoChain /\ todo' = NoWrites

Init ==
  /\ phase = "run" /\ turns = EmptyHistory /\ nextTurn = 0 /\ redo = <<>>
  /\ active = FALSE /\ liveTurn = 0 /\ subs \in {{}} \cup {{c} : c \in Clients}
  /\ shutdown = FALSE /\ billed = 0 /\ last = None /\ chain = NoChain
  /\ model \in Models /\ window = model /\ todo = NoWrites
  /\ q = <<>> /\ cancel = FALSE
  /\ wpc = "idle" /\ w = EmptySnapshot(model) /\ winit = EmptySnapshot(model)
  /\ wnext = 0 /\ wcur = 0 /\ wprev = NoChain /\ wmodel = model
  /\ witer = 0 /\ wtext = FALSE /\ wtrunc = 0
  /\ dbTurns = EmptyHistory /\ dbChain = NoChain /\ dbModel = model

-----------------------------------------------------------------------------
(* The session thread takes one command at a time: none while a handler    *)
(* still has rows to write, none once the loop has been left.              *)
Ready == phase = "run" /\ todo = NoWrites

\* Mutant: a requested shutdown is forgotten.
LeaveIgnoringShutdown(busy, s) == IF ~busy /\ s = {} THEN "exit" ELSE "run"

\* The exit predicate shared by Detach, RemoveSubscriber and RequestFinished.
Leave(busy, s) == IF ~busy /\ (s = {} \/ shutdown) THEN "exit" ELSE "run"

\* Bound: a run is accepted while there are ids left for its turns.
RoomForRun == IF MaxTurns = 0 THEN nextTurn =< MaxTurnId
              ELSE nextTurn + MaxTurns =< MaxTurnId + 1

\* The worker thread's clone (from_snapshot) and the state run_agent_loop
\* starts with: initial_prev_resp_id restores the chain only for its producer.
StartWorker(text, win) ==
  LET s == SnapshotOf(win) IN
  /\ RoomForRun
  /\ active' = TRUE /\ liveTurn' = nextTurn /\ window' = win
  /\ cancel' = FALSE
  /\ wpc' = "top" /\ w' = s /\ winit' = s /\ wnext' = NextId(turns) /\ wcur' = 0
  /\ wprev' = IF model \in Chaining /\ chain.by = model THEN chain ELSE NoChain
  /\ wmodel' = model /\ witer' = 0 /\ wtext' = text /\ wtrunc' = 0

\* RunInput, accepted (a refused run changes nothing this module keeps); the
\* context window is refreshed for the selected model.
RunInput ==
  /\ Ready /\ ~shutdown /\ ~active
  /\ StartWorker(TRUE, model)
  /\ UNCHANGED <<phase, turns, nextTurn, redo, subs, shutdown, billed, last,
                 chain, model, todo, q, db>>

\* RunChildInput: the parent's spawn_subsession call; the text is optional and
\* the context window is not refreshed.
RunChildInput(text) ==
  /\ Ready /\ ~shutdown /\ ~active
  /\ StartWorker(text, window)
  /\ UNCHANGED <<phase, turns, nextTurn, redo, subs, shutdown, billed, last,
                 chain, model, todo, q, db>>

Cancel ==
  /\ Ready /\ active
  /\ cancel' = TRUE
  /\ UNCHANGED <<main, q, worker, db>>

Shutdown ==
  /\ Ready
  /\ shutdown' = TRUE
  /\ cancel' = (cancel \/ active)
  /\ phase' = IF active THEN "run" ELSE "exit"
  /\ UNCHANGED <<turns, nextTurn, redo, active, liveTurn, subs, billed, last,
                 chain, model, window, todo, q, worker, db>>

Attach(c) ==
  /\ Ready
  /\ subs' = subs \cup {c}
  /\ UNCHANGED <<phase, turns, nextTurn, redo, active, liveTurn, shutdown,
                 billed, last, chain, model, window, todo, q, cancel, worker, db>>

\* Detach by the client and RemoveSubscriber by the daemon: the same predicate.
Detach(c) ==
  /\ Ready
  /\ subs' = subs \ {c}
  /\ phase' = Leave(active, subs')
  /\ UNCHANGED <<turns, nextTurn, redo, active, liveTurn, shutdown, billed,
                 last, chain, model, window, todo, q, cancel, worker, db>>

\* SetModel is accepted during a run; the record is rewritten at once.
SetModel(m) ==
  /\ Ready /\ m # model
  /\ model' = m /\ window' = m
  /\ todo' = [rec |-> TRUE, ids |-> {}]
  /\ UNCHANGED <<phase, turns, nextTurn, redo, active, liveTurn, subs, shutdown,
                 billed, last, chain, q, cancel, worker, db>>

Hide(T, S) == [t \in TurnIds |-> IF t \in S THEN [T[t] EXCEPT !.undone = TRUE] ELSE T[t]]
Show(T, S) == [t \in TurnIds |-> IF t \in S THEN [T[t] EXCEPT !.undone = FALSE] ELSE T[t]]

\* The turns an undo flips: the newest live user turn and every later live one.
UserTurns(T) == {t \in Live(T) : T[t].user}

UndoBatch(T) == {t \in Live(T) : t >= NewestOf(UserTurns(T))}

\* Undo: refused unless idle; the record (if it held a chain) is written
\* before the hidden turns are.
Undo ==
  LET batch == UndoBatch(turns) IN
  /\ Ready /\ ~active /\ UserTurns(turns) # {}
  /\ turns' = Hide(turns, batch)
  /\ redo' = <<batch>> \o redo
  /\ last' = LiveLast(turns')
  /\ chain' = NoChain
  /\ todo' = [rec |-> chain # NoChain, ids |-> batch]
  /\ UNCHANGED <<phase, nextTurn, active, liveTurn, subs, shutdown, billed,
                 model, window, q, cancel, worker, db>>

Redo ==
  /\ "redo" \in Envelope
  /\ Ready /\ ~active /\ redo # <<>>
  /\ turns' = Show(turns, Head(redo))
  /\ redo' = Tail(redo)
  /\ last' = LiveLast(turns')
  /\ todo' = [rec |-> FALSE, ids |-> Head(redo)]
  /\ UNCHANGED <<phase, nextTurn, active, liveTurn, subs, shutdown, billed,
                 chain, model, window, q, cancel, worker, db>>

\* Mutant: an attach is replayed the run's first turn.
TrackLiveStartedFirst(turn) == liveTurn

TrackLiveStarted(turn) == IF active THEN turn ELSE liveTurn

\* Broadcast(Started): the in-flight record follows the iteration.
TakeStarted ==
  /\ Ready /\ q # <<>> /\ Head(q).kind = "started"
  /\ q' = Tail(q)
  /\ liveTurn' = TrackLiveStarted(Head(q).turn)
  /\ UNCHANGED <<phase, turns, nextTurn, redo, active, subs, shutdown, billed,
                 last, chain, model, window, todo, cancel, worker, db>>

\* SyncAccumulatedUsage: merge_max, and the prompt size when there is one.
TakeSync ==
  /\ Ready /\ q # <<>> /\ Head(q).kind = "sync"
  /\ q' = Tail(q)
  /\ billed' = IF Head(q).billed > billed THEN Head(q).billed ELSE billed
  /\ last' = IF Head(q).last # None THEN Head(q).last ELSE last
  /\ UNCHANGED <<phase, turns, nextTurn, redo, active, liveTurn, subs, shutdown,
                 chain, model, window, todo, cancel, worker, db>>

\* Mutant: a turn that never got a response is taken for unchanged.
MergeWritesAnswered == {t \in Ids(w.turns) : /\ turns[t] # w.turns[t] /\ t \notin w.saved
                                             /\ w.turns[t].body # "open"}

\* Which merged rows the session thread still has to write.
MergeWrites == {t \in Ids(w.turns) : turns[t] # w.turns[t] /\ t \notin w.saved}

\* RequestFinished, the worker's last command: apply_worker_snapshot, the
\* record write, the turn merge with its row writes, the exit predicate.
RequestFinished ==
  /\ Ready /\ active /\ wpc = "ended" /\ q = <<>>
  /\ billed' = w.billed /\ last' = w.last /\ chain' = w.chain /\ window' = w.window
  /\ turns' = [t \in TurnIds |-> IF t \in Ids(w.turns) THEN w.turns[t] ELSE turns[t]]
  /\ todo' = [rec |-> TRUE, ids |-> MergeWrites]
  /\ nextTurn' = IF NextId(w.turns) > nextTurn THEN NextId(w.turns) ELSE nextTurn
  /\ active' = FALSE
  /\ phase' = Leave(FALSE, subs)
  /\ cancel' = FALSE
  /\ wpc' = "idle" /\ w' = EmptySnapshot(model) /\ winit' = EmptySnapshot(model)
  /\ wnext' = 0 /\ wcur' = 0 /\ wprev' = NoChain /\ wmodel' = model
  /\ witer' = 0 /\ wtext' = FALSE /\ wtrunc' = 0
  /\ UNCHANGED <<redo, liveTurn, subs, shutdown, model, q, db>>

\* May this row write fail (after its retries)?  The thread logs and goes on.
WriteOutcomes == IF "writefail" \in Envelope THEN BOOLEAN ELSE {TRUE}

WriteRecord(ok) ==
  /\ dbChain' = IF ok THEN chain ELSE dbChain
  /\ dbModel' = IF ok THEN model ELSE dbModel

\* Mutant: turn rows are written without waiting for the record.
TurnMayBeWrittenAnyTime == TRUE

\* Every handler writes the record first, then the turns in ascending order.
TurnMayBeWritten == ~todo.rec

FlushRecord ==
  /\ phase # "down" /\ todo.rec
  /\ todo' = [todo EXCEPT !.rec = FALSE]
  /\ \E ok \in WriteOutcomes : WriteRecord(ok)
  /\ UNCHANGED <<phase, turns, nextTurn, redo, active, liveTurn, subs, shutdown,
                 billed, last, chain, model, window, q, cancel, worker, dbTurns>>

FlushTurn(t) ==
  /\ phase # "down" /\ TurnMayBeWritten
  /\ t \in todo.ids /\ \A u \in todo.ids : t =< u
  /\ todo' = [todo EXCEPT !.ids = @ \ {t}]
  /\ \E ok \in WriteOutcomes : dbTurns' = IF ok THEN [dbTurns EXCEPT ![t] = turns[t]] ELSE dbTurns
  /\ UNCHANGED <<phase, turns, nextTurn, redo, active, liveTurn, subs, shutdown,
                 billed, last, chain, model, window, q, cancel, worker,
                 dbChain, dbModel>>

\* persist_and_exit, and the thread ends.
PersistAndExit ==
  /\ phase = "exit" /\ todo = NoWrites
  /\ \E ok \in WriteOutcomes : WriteRecord(ok)
  /\ MemoryGone /\ model' = dbModel' /\ window' = dbModel'
  /\ UNCHANGED <<q, cancel, worker, dbTurns>>

\* spawn_session + session_main: rebuilt from the record and the turn rows.
Respawn ==
  /\ phase = "down"
  /\ phase' = "run" /\ turns' = dbTurns /\ nextTurn' = NextId(dbTurns)
  /\ billed' = BilledTurns(dbTurns) /\ last' = LiveLast(dbTurns)
  /\ chain' = dbChain /\ model' = dbModel /\ window' = dbModel
  /\ UNCHANGED <<redo, active, liveTurn, subs, shutdown, todo, q, cancel, worker, db>>

\* The daemon process dies: only the rows remain.
Crash ==
  /\ "crash" \in Envelope /\ phase # "down"
  /\ MemoryGone /\ model' = dbModel /\ window' = dbModel
  /\ WorkerGone
  /\ UNCHANGED db

-----------------------------------------------------------------------------
(* The request worker (run_agent_loop).  It shares nothing with the session *)
(* thread but the command queue, the cancel channel and the turn rows.      *)

End == wpc' = "ended"

\* Mutant: a tool turn is not checkpointed.
PersistTurnAtEnd(s, ok) ==
  /\ dbTurns' = IF wpc # "tools" THEN [dbTurns EXCEPT ![wcur] = s.turns[wcur]] ELSE dbTurns
  /\ w' = IF wpc # "tools" THEN [s EXCEPT !.saved = @ \cup {wcur}] ELSE s
  /\ UNCHANGED <<dbChain, dbModel>>

\* finalize_turn: one transaction writes the whole row; the id is recorded
\* as saved only when the write succeeded.
PersistTurn(s, ok) ==
  /\ dbTurns' = IF ok THEN [dbTurns EXCEPT ![wcur] = s.turns[wcur]] ELSE dbTurns
  /\ w' = IF ok THEN [s EXCEPT !.saved = @ \cup {wcur}] ELSE s
  /\ UNCHANGED <<dbChain, dbModel>>

BudgetExceeded ==
  /\ wpc = "top" /\ MaxTurns > 0 /\ witer >= MaxTurns
  /\ End
  /\ UNCHANGED <<main, q, cancel, w, winit, wnext, wcur, wprev, wmodel, witer,
                 wtext, wtrunc, db>>

WithinBudget == MaxTurns = 0 \/ witer < MaxTurns

\* Mutant: the cancel message is consumed and forgotten.
CancelAtTopLost ==
  /\ wpc = "top" /\ WithinBudget /\ cancel
  /\ cancel' = FALSE
  /\ UNCHANGED <<main, q, worker, db>>

CancelAtTop ==
  /\ wpc = "top" /\ WithinBudget /\ cancel
  /\ cancel' = FALSE
  /\ End
  /\ UNCHANGED <<main, q, w, winit, wnext, wcur, wprev, wmodel, witer, wtext,
                 wtrunc, db>>

\* start_turn on the clone, and the iteration's Started to the session thread.
StartTurn ==
  /\ wpc = "top" /\ WithinBudget /\ ~cancel
  /\ wnext =< MaxTurnId
  /\ w' = [w EXCEPT !.turns[wnext] = [user |-> wtext, undone |-> FALSE,
                                      body |-> "open", usage |-> FALSE]]
  /\ wcur' = wnext /\ wnext' = wnext + 1 /\ wtext' = FALSE
  /\ q' = Append(q, [kind |-> "started", turn |-> wnext, billed |-> 0, last |-> None])
  /\ wpc' = "call"
  /\ UNCHANGED <<main, cancel, winit, wprev, wmodel, witer, wtrunc, db>>

\* Mutant: the context readout is left behind.
AnsweredStaleReadout(body, usage) ==
  [w EXCEPT !.turns[wcur] = [@ EXCEPT !.body = body, !.usage = usage],
            !.billed = IF usage THEN @ + 1 ELSE @]

\* accumulate_token_usage and set_assistant_response on the clone.
Answered(body, usage) ==
  [w EXCEPT !.turns[wcur] = [@ EXCEPT !.body = body, !.usage = usage],
            !.billed = IF usage THEN @ + 1 ELSE @,
            !.last = IF usage THEN wcur ELSE @]

\* What the provider stores under the response id it returns (external).
ResponseChain(rid) ==
  IF rid THEN [by |-> wmodel, seen |-> Context(w.turns, wprev)] ELSE NoChain

\* last_response_id follows only a ResponseId-policy model.
StoredChain(rid) == IF wmodel \in Chaining THEN ResponseChain(rid) ELSE w.chain

\* broadcast_token_usage.
SendSync(s) == q' = Append(q, [kind |-> "sync", turn |-> wcur,
                               billed |-> s.billed, last |-> s.last])

FinalText(usage, rid) ==
  LET s == [Answered("final", usage) EXCEPT !.chain = StoredChain(rid)] IN
  /\ wpc = "call"
  /\ SendSync(s)
  /\ \E ok \in WriteOutcomes : PersistTurn(s, ok)
  /\ End
  /\ UNCHANGED <<main, cancel, winit, wnext, wcur, wprev, wmodel, witer, wtext,
                 wtrunc>>

ToolUse(usage, rid) ==
  LET s == [Answered("calls", usage) EXCEPT !.chain = StoredChain(rid)] IN
  /\ wpc = "call"
  /\ SendSync(s)
  /\ w' = s
  /\ wprev' = IF wmodel \in Chaining THEN ResponseChain(rid) ELSE NoChain
  /\ wpc' = "tools"
  /\ UNCHANGED <<main, cancel, winit, wnext, wcur, wmodel, witer, wtext, wtrunc,
                 db>>

NextIteration == witer' = witer + 1

\* Every call has its result: the turn is checkpointed and the loop goes on.
ToolsDone ==
  /\ wpc = "tools"
  /\ \E ok \in WriteOutcomes : PersistTurn([w EXCEPT !.turns[wcur].body = "tools"], ok)
  /\ NextIteration
  /\ wpc' = "top"
  /\ UNCHANGED <<main, q, cancel, winit, wnext, wcur, wprev, wmodel, wtext, wtrunc>>

\* A cancel seen during the batch: the missing results are marked
\* (mark_unexecuted_tool_results), the turn is checkpointed, the run ends.
ToolsCancelled ==
  /\ wpc = "tools" /\ cancel
  /\ cancel' = FALSE
  /\ \E ok \in WriteOutcomes : PersistTurn([w EXCEPT !.turns[wcur].body = "tools"], ok)
  /\ End
  /\ UNCHANGED <<main, q, winit, wnext, wcur, wprev, wmodel, witer, wtext, wtrunc>>

\* TruncatedToolCall: record a notice and retry with an instruction turn, at
\* most MaxRecoveries times; a failed row write ends the run before the chain
\* is dropped.
Truncated ==
  LET s == [w EXCEPT !.turns[wcur].body = "notice"] IN
  /\ wpc = "call"
  /\ wtrunc' = wtrunc + 1
  /\ \E ok \in WriteOutcomes :
       /\ PersistTurn(IF ok THEN [s EXCEPT !.chain = NoChain] ELSE s, ok)
       /\ wprev' = IF ok THEN NoChain ELSE wprev
       /\ IF ok /\ wtrunc' < MaxRecoveries
          THEN wtext' = TRUE /\ NextIteration /\ wpc' = "top"
          ELSE End /\ UNCHANGED <<wtext, witer>>
  /\ UNCHANGED <<main, q, cancel, winit, wnext, wcur, wmodel>>

\* Any other inference failure: the mark is persisted, best effort.
ProviderError ==
  /\ wpc = "call"
  /\ \E ok \in WriteOutcomes : PersistTurn([w EXCEPT !.turns[wcur].body = "error"], ok)
  /\ End
  /\ UNCHANGED <<main, q, cancel, winit, wnext, wcur, wprev, wmodel, witer, wtext,
                 wtrunc>>

\* InferenceError::Cancelled: the turn stays open, its row is left to the merge.
ProviderCancelled ==
  /\ wpc = "call" /\ cancel
  /\ cancel' = FALSE
  /\ End
  /\ UNCHANGED <<main, q, w, winit, wnext, wcur, wprev, wmodel, witer, wtext,
                 wtrunc, db>>

\* The loop panics: run_request_worker reports the snapshot it took first.
Panic ==
  /\ "panic" \in Envelope /\ wpc \in {"top", "call", "tools"}
  /\ w' = winit
  /\ End
  /\ UNCHANGED <<main, q, cancel, winit, wnext, wcur, wprev, wmodel, witer, wtext,
                 wtrunc, db>>

-----------------------------------------------------------------------------
ClientStep ==
  \/ RunInput
  \/ \E text \in BOOLEAN : RunChildInput(text)
  \/ Cancel
  \/ Shutdown
  \/ \E c \in Clients : Attach(c)
  \/ \E c \in Clients : Detach(c)
  \/ \E m \in Models : SetModel(m)
  \/ Undo
  \/ Redo
  \/ Respawn

SessionStep ==
  \/ TakeStarted
  \/ TakeSync
  \/ RequestFinished
  \/ FlushRecord
  \/ \E t \in TurnIds : FlushTurn(t)
  \/ PersistAndExit

WorkerStep ==
  \/ BudgetExceeded
  \/ CancelAtTop
  \/ StartTurn
  \/ \E usage \in Usages, rid \in ResponseIds : FinalText(usage, rid)
  \/ \E usage \in Usages, rid \in ResponseIds : ToolUse(usage, rid)
  \/ ToolsDone
  \/ ToolsCancelled
  \/ Truncated
  \/ ProviderError
  \/ ProviderCancelled
  \/ Panic

Next == ClientStep \/ SessionStep \/ WorkerStep \/ Crash

Spec == Init /\ [][Next]_vars

(* Commands reach the session thread through one FIFO channel, so a queued  *)
(* worker command is dequeued however many client commands surround it, and *)
(* a handler finishes its writes.  The worker's provider call and tool      *)
(* batch return, because both carry deadlines.                              *)
Fairness ==
  /\ SF_vars(TakeStarted \/ TakeSync \/ RequestFinished)
  /\ WF_vars(FlushRecord \/ (\E t \in TurnIds : FlushTurn(t)) \/ PersistAndExit)
  /\ WF_vars(WorkerStep)

FairSpec == Spec /\ Fairness

-----------------------------------------------------------------------------
Message == [kind: {"started", "sync"}, turn: TurnIds, billed: Nat,
            last: TurnIds \cup {None}]

\* Every variable has its type.
TypeOK ==
  /\ phase \in {"run", "exit", "down"}
  /\ turns \in History /\ nextTurn \in 0..(MaxTurnId + 1)
  /\ redo \in Seq(SUBSET TurnIds)
  /\ active \in BOOLEAN /\ liveTurn \in 0..(MaxTurnId + 1)
  /\ subs \subseteq Clients /\ shutdown \in BOOLEAN
  /\ billed \in Nat /\ last \in TurnIds \cup {None} /\ chain \in Chain
  /\ model \in Models /\ window \in Models
  /\ todo \in [rec: BOOLEAN, ids: SUBSET TurnIds]
  /\ q \in Seq(Message) /\ cancel \in BOOLEAN
  /\ wpc \in {"idle", "top", "call", "tools", "ended"}
  /\ w \in Snapshot /\ winit \in Snapshot
  /\ wnext \in 0..(MaxTurnId + 1) /\ wcur \in TurnIds
  /\ wprev \in Chain /\ wmodel \in Models
  /\ witer \in Nat /\ wtext \in BOOLEAN /\ wtrunc \in Nat
  /\ dbTurns \in History /\ dbChain \in Chain /\ dbModel \in Models

Idle == phase = "run" /\ ~active /\ todo = NoWrites

\* A provider call never reaches a turn the user has undone: neither the
\* messages sent nor the conversation stored under previous_response_id holds
\* one, also when the daemon died between an undo's record and turn writes.
NoHiddenTurnInContext ==
  wpc = "call" => \A t \in Context(w.turns, wprev) :
                    t \in Ids(w.turns) => ~w.turns[t].undone

\* "Everything up to and including the last assistant message is already in the
\* chained response's context" (openai/responses/body.rs:86): a provider call
\* sees every visible turn, sent with it or stored under the response id.
ModelSeesEveryLiveTurn ==
  wpc = "call" => Live(w.turns) \subseteq Context(w.turns, wprev)

\* An idle session is durable: the rows and the record hold exactly what the
\* session thread holds, whatever ending the last run had.
IdleIsDurable == Idle => dbTurns = turns /\ dbChain = chain /\ dbModel = model

\* A crash loses at most the turn in flight: every other turn of the worker's
\* clone is on disk as it stands, because each iteration checkpoints its turn.
CrashLosesOneTurn ==
  wpc # "idle" => \A t \in Ids(w.turns) :
     dbTurns[t] = w.turns[t] \/ (t = wcur /\ wpc # "top")

\* A turn apart from its undone flag.
Content(turn) == [turn EXCEPT !.undone = FALSE]

\* A committed turn is durable: once a row exists only its undone flag moves.
CommittedTurnKept ==
  [][\A t \in Ids(dbTurns) :
        Content(dbTurns'[t]) = Content(dbTurns[t])]_vars

\* A restart of an idle session displays what was displayed before it: the
\* billing total and the context readout, kept incrementally by a run's clone,
\* its sync commands and its merge, are what session_main recomputes from the
\* turn rows (undone turns stay billed, the readout is the newest live turn's).
RestartKeepsTotals ==
  Idle => billed = BilledTurns(dbTurns) /\ last = LiveLast(dbTurns)

\* "A new user turn clears the stack" (ARCHITECTURE.md:2668): no batch is older
\* than a visible user turn.
RedoVoidedByNewTurn ==
  \A i \in 1..Len(redo) : \A b \in redo[i] :
    \A t \in Live(turns) : turns[t].user => t < b

\* What a client attaching mid-run is replayed (ActiveRequest.turn_id) is the
\* turn the next event of the run belongs to, from acceptance onwards.
AttachReplaysLiveTurn ==
  /\ q # <<>> /\ Head(q).kind = "sync" => liveTurn = Head(q).turn
  /\ wpc = "top" /\ witer = 0 => liveTurn = wnext
  /\ wpc \in {"call", "tools"} /\ q = <<>> => liveTurn = wcur

\* A cancel ends the run, with or without a turn budget.
CancelEndsRun == cancel ~> ~active

\* A shutdown ends the session thread even when a run is in flight.
ShutdownExits == shutdown ~> phase = "down"

=============================================================================
