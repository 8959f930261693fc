----------------------------- MODULE Lifecycle -----------------------------
(***************************************************************************)
(* The life of sessions in the daemon: the command loop (daemon.rs) with   *)
(* its index of sessions, one thread per active session (sessions.rs), the *)
(* request worker a thread may have, spawn_subsession calls that create    *)
(* child sessions (tools/subsession.rs), the detached thread that          *)
(* finalizes a delete, the client connections, the database's session      *)
(* records and deletion tombstones, and crashes with a restart.            *)
(*                                                                         *)
(* What a session says is left out: a record is present or absent, with    *)
(* its pinned flag (its parent_session_id is written and shown, never read *)
(* back by the daemon).  A step of the command loop is one command, a step *)
(* of a session thread one SessionCommand.  A crash happens between two    *)
(* steps.                                                                  *)
(***************************************************************************)
EXTENDS Integers, Sequences, FiniteSets, FiniteSetsExt

CONSTANTS
  Clients,     \* client connections
  MaxIds,      \* bound: sessions created in a behaviour
  MaxOps,      \* bound: client commands and spawn_subsession calls
  MaxCrashes,  \* bound: crashes of the daemon
  Uses,        \* the client commands explored
  Parents      \* the parents their creates name; 0: none

ASSUME BoundsAssumption ==
  MaxIds \in Nat \ {0} /\ MaxOps \in Nat /\ MaxCrashes \in Nat
ASSUME UsesAssumption ==
  Uses \subseteq {"create", "attach", "get", "delete", "flags", "cancel", "run", "edit"}

Ids == 1..MaxIds
ASSUME ParentsAssumption == Parents \subseteq {0} \cup Ids

Threads == 1..MaxOps

VARIABLES
  nextId,      \* next_session_id
  active,      \* active_sessions: the session's thread, or 0
  listed,      \* keys of session_metadata, the index
  awake,       \* those whose status is not Sleeping
  pinned,      \* those with the pinned flag
  marker,      \* deleted_sessions
  children,    \* children
  queue,       \* the daemon's command channel
  threads,     \* every session thread of this process, in spawn order
  calls,       \* every spawn_subsession call of this process
  finals,      \* finalize thread of a session: "none", "delete", "clear"
  conn,        \* connections: pc "idle", "wait" or "reply"; attached thread; reply
  records,     \* SESSIONS table: keys
  diskPinned,  \* SESSIONS table: the pinned flag
  tomb,        \* DELETED_SESSIONS table
  created,     \* history: CreateSession commands served
  hit,         \* history: <<thread, stream>> runs a client's cancel is to stop
  ops,         \* client commands and spawn calls so far
  crashes      \* crashes so far

index == <<nextId, active, listed, awake, pinned, marker, children>>
disk == <<records, diskPinned, tomb>>
counts == <<ops, crashes>>
vars == <<index, queue, threads, calls, finals, conn, disk, created, hit, counts>>

\* A session thread.  pc: "start", "loop", "exit" (left the command loop),
\* "sent" (SessionExited sent), "gone" (JoinHandle::is_finished).
\* run: "idle", "begun", "work", "ended" (RequestFinished sent).
Fresh(s) ==
  [owner |-> s, pc |-> "start", inbox |-> <<>>, subs |-> {}, run |-> "idle",
   stream |-> 0, caller |-> 0, cancel |-> FALSE, stop |-> FALSE]

Offline == [pc |-> "idle", at |-> 0, got |-> 0]

Init ==
  /\ nextId = 1 /\ active = [s \in Ids |-> 0] /\ listed = {} /\ awake = {} /\ pinned = {}
  /\ marker = {} /\ children = [s \in Ids |-> {}] /\ queue = <<>> /\ threads = <<>>
  /\ calls = <<>> /\ finals = [s \in Ids |-> "none"] /\ conn = [c \in Clients |-> Offline]
  /\ records = {} /\ diskPinned = {} /\ tomb = {}
  /\ created = 0 /\ hit = {} /\ ops = 0 /\ crashes = 0

-----------------------------------------------------------------------------
(* Channels.                                                               *)

\* What a thread that has left its loop is sent is never read.
Reads(t) == threads[t].pc \in {"start", "loop"}
Busy(t) == threads[t].run \in {"begun", "work"}

\* Append mail[t] to the inbox of every thread t that still reads it.
Mailed(mail) ==
  [t \in DOMAIN threads |->
     IF Reads(t) THEN [threads[t] EXCEPT !.inbox = @ \o mail[t]] ELSE threads[t]]

Mail1(t, m) == Mailed([u \in DOMAIN threads |-> IF u = t THEN <<m>> ELSE <<>>])

CancelAll == [op |-> "cancel", stream |-> 0]
Shutdown == [op |-> "shutdown"]

-----------------------------------------------------------------------------
(* Client connections: one command at a time.                              *)

Spend == ops < MaxOps /\ ops' = ops + 1

Ask(c, m) ==
  /\ conn[c].pc = "idle" /\ m.op \in Uses /\ Spend
  /\ queue' = Append(queue, m)
  /\ conn' = [conn EXCEPT ![c].pc = "wait"]
  /\ UNCHANGED <<index, threads, calls, finals, disk, created, hit, crashes>>

PendingCreates == {i \in DOMAIN queue : queue[i].op \in {"create", "spawn"}}
RoomForOne == created + Cardinality(PendingCreates) < MaxIds

\* The client's parent_session_id is passed on as it came: it may name any id,
\* also one that is not given out yet.
ClientCreate(c) == \E p \in Parents :
  RoomForOne /\ Ask(c, [op |-> "create", who |-> c, parent |-> p])
ClientAttach(c) == \E s \in Ids : Ask(c, [op |-> "attach", who |-> c, id |-> s])
ClientGetState(c) == \E s \in Ids : Ask(c, [op |-> "get", who |-> c, id |-> s])
ClientDelete(c) == \E s \in Ids : Ask(c, [op |-> "delete", who |-> c, id |-> s])
ClientFlags(c) == \E s \in Ids, on \in BOOLEAN :
  Ask(c, [op |-> "flags", who |-> c, id |-> s, on |-> on])

\* CancelRequest is not answered; it names the stream the client sees running.
ClientCancel(c) ==
  /\ conn[c].pc = "idle" /\ conn[c].at # 0 /\ "cancel" \in Uses /\ Spend
  /\ LET t == conn[c].at IN
       /\ Busy(t)
       /\ queue' = Append(queue, [op |-> "cancelReq", id |-> threads[t].owner,
                                  stream |-> threads[t].stream])
  /\ UNCHANGED <<index, threads, calls, finals, conn, disk, created, hit, crashes>>

\* RunInput and the commands that edit the session go straight to the thread.
ClientTells(c) ==
  /\ conn[c].pc = "idle" /\ conn[c].at # 0 /\ Spend
  /\ \E op \in {"run", "edit"} \cap Uses : threads' = Mail1(conn[c].at, [op |-> op])
  /\ UNCHANGED <<index, queue, calls, finals, conn, disk, created, hit, crashes>>

\* cleanup_client: the connection ends; the client may connect again.
ClientLeaves(c) ==
  /\ conn[c].pc = "idle" /\ conn[c].at # 0
  /\ threads' = Mail1(conn[c].at, [op |-> "detach", who |-> c])
  /\ conn' = [conn EXCEPT ![c] = Offline]
  /\ UNCHANGED <<index, queue, calls, finals, disk, created, hit, counts>>

\* The daemon's reply to AttachSession reaches the connection thread.
SwitchAttached(c) ==
  /\ conn[c].pc = "reply"
  /\ LET new == conn[c].got
         old == conn[c].at
         leaves == old # 0 /\ threads[old].owner # threads[new].owner
     IN threads' = Mailed([t \in DOMAIN threads |->
                             (IF leaves /\ t = old THEN <<[op |-> "detach", who |-> c]>> ELSE <<>>)
                             \o (IF t = new THEN <<[op |-> "attach", who |-> c]>> ELSE <<>>)])
  /\ conn' = [conn EXCEPT ![c] = [pc |-> "idle", at |-> conn[c].got, got |-> 0]]
  /\ UNCHANGED <<index, queue, calls, finals, disk, created, hit, counts>>

-----------------------------------------------------------------------------
(* The command loop: one action per command.                               *)

Handles(op) == queue # <<>> /\ Head(queue).op = op /\ queue' = Tail(queue)

\* Spawn a thread for s and index it as Inactive.
SpawnSession(s, pin) ==
  /\ threads' = Append(threads, Fresh(s))
  /\ active' = [active EXCEPT ![s] = Len(threads) + 1]
  /\ listed' = listed \cup {s} /\ awake' = awake \cup {s}
  /\ pinned' = IF pin THEN pinned \cup {s} ELSE pinned \ {s}

Create(p) ==
  LET s == nextId IN
  /\ nextId' = s + 1
  /\ records' = records \cup {s}
  /\ SpawnSession(s, FALSE)
  /\ children' = IF p = 0 THEN children ELSE [children EXCEPT ![p] = @ \cup {s}]
  /\ created' = created + 1
  /\ UNCHANGED <<marker, diskPinned, tomb, finals, hit, counts>>

HandleCreate ==
  /\ Handles("create") /\ Create(Head(queue).parent)
  /\ conn' = [conn EXCEPT ![Head(queue).who].pc = "idle"]
  /\ UNCHANGED calls

HandleSpawn ==
  LET k == Head(queue).call IN
  /\ Handles("spawn") /\ Create(threads[calls[k].by].owner)
  /\ calls' = [calls EXCEPT ![k].pc = "made", ![k].child = Len(threads) + 1]
  /\ UNCHANGED conn

\* ensure_active_session: refuse a deleted session, reuse an active thread,
\* or load the record and spawn.  got is the thread, or 0.
Ensure(s, got) ==
  \/ /\ s \in marker \/ (active[s] = 0 /\ s \notin records)
     /\ got = 0
     /\ UNCHANGED <<threads, active, listed, awake, pinned>>
  \/ /\ s \notin marker /\ active[s] # 0
     /\ got = active[s]
     /\ UNCHANGED <<threads, active, listed, awake, pinned>>
  \/ /\ s \notin marker /\ active[s] = 0 /\ s \in records
     /\ got = Len(threads) + 1
     /\ SpawnSession(s, s \in diskPinned)

HandleAttach ==
  /\ Handles("attach")
  /\ \E got \in 0..(Len(threads) + 1) :
       /\ Ensure(Head(queue).id, got)
       /\ conn' = [conn EXCEPT ![Head(queue).who].pc = IF got = 0 THEN "idle" ELSE "reply",
                               ![Head(queue).who].got = got]
  /\ UNCHANGED <<nextId, marker, children, calls, finals, disk, created, hit, counts>>

\* GetSessionState wakes the thread and attaches nobody.
HandleGetState ==
  /\ Handles("get")
  /\ \E got \in 0..(Len(threads) + 1) : Ensure(Head(queue).id, got)
  /\ conn' = [conn EXCEPT ![Head(queue).who].pc = "idle"]
  /\ UNCHANGED <<nextId, marker, children, calls, finals, disk, created, hit, counts>>

\* Persist the flag first, then the index; a deleted or unknown session fails.
HandleFlags ==
  LET s == Head(queue).id
      Set(S) == IF Head(queue).on THEN S \cup {s} ELSE S \ {s}
      ok == s \notin marker /\ s \in listed
  IN
  /\ Handles("flags")
  /\ diskPinned' = IF ok /\ s \in records THEN Set(diskPinned) ELSE diskPinned
  /\ pinned' = IF ok THEN Set(pinned) ELSE pinned
  /\ conn' = [conn EXCEPT ![Head(queue).who].pc = "idle"]
  /\ UNCHANGED <<nextId, active, listed, awake, marker, children, threads, calls, finals,
                 records, tomb, created, hit, counts>>

\* Mutant: a late snapshot re-inserts a deleted session.
HandleUpdateMetadataUnguarded ==
  LET s == Head(queue).id
      known == s \in listed
  IN
  /\ Handles("update")
  /\ listed' = listed \cup {s}
  /\ awake' = IF known THEN awake ELSE awake \cup {s}
  /\ pinned' = IF known THEN pinned ELSE pinned \ {s}
  /\ UNCHANGED <<nextId, active, marker, children, threads, calls, finals, conn, disk,
                 created, hit, counts>>

\* Mutant: the snapshot's default pinned flag is taken over.
HandleUpdateMetadataUnpins ==
  LET s == Head(queue).id IN
  /\ Handles("update")
  /\ \/ s \in marker /\ UNCHANGED <<listed, awake, pinned>>
     \/ /\ s \notin marker
        /\ listed' = listed \cup {s}
        /\ awake' = IF s \in listed THEN awake ELSE awake \cup {s}
        /\ pinned' = pinned \ {s}
  /\ UNCHANGED <<nextId, active, marker, children, threads, calls, finals, conn, disk,
                 created, hit, counts>>

\* A thread's snapshot carries no pinned flag and must not wake a session
\* that has exited.
HandleUpdateMetadata ==
  LET s == Head(queue).id
      known == s \in listed
  IN
  /\ Handles("update")
  /\ \/ s \in marker /\ UNCHANGED <<listed, awake, pinned>>
     \/ /\ s \notin marker
        /\ listed' = listed \cup {s}
        /\ awake' = IF known THEN awake ELSE awake \cup {s}
        /\ pinned' = IF known THEN pinned ELSE pinned \ {s}
  /\ UNCHANGED <<nextId, active, marker, children, threads, calls, finals, conn, disk,
                 created, hit, counts>>

HandleStatus ==
  LET s == Head(queue).id IN
  /\ Handles("status")
  /\ awake' = IF s \in listed THEN awake \cup {s} ELSE awake
  /\ UNCHANGED <<nextId, active, listed, pinned, marker, children, threads, calls, finals,
                 conn, disk, created, hit, counts>>

\* Forget these children wherever they are tracked.
Untracked(p, kids) == [q \in Ids |-> IF q = p THEN {} ELSE children[q] \ kids]

\* Take the session out of active_sessions, stop its children (the session may
\* be its own, and is not active any more then), show it as sleeping, and start
\* the finalize thread of a deleted one.
Exited(finalized) ==
  LET s == Head(queue).id
      kids == {active[d] : d \in children[s] \ {s}} \ {0}
  IN
  /\ Handles("exited")
  /\ active' = [active EXCEPT ![s] = 0]
  /\ children' = Untracked(s, children[s])
  /\ threads' = Mailed([t \in DOMAIN threads |->
                          IF t \in kids THEN <<CancelAll, Shutdown>> ELSE <<>>])
  /\ awake' = awake \ {s}
  /\ finals' = IF s \in finalized THEN [finals EXCEPT ![s] = "delete"] ELSE finals
  /\ UNCHANGED <<nextId, listed, pinned, marker, calls, conn, disk, created, hit, counts>>

\* Mutant: only a session still listed is finalized.
HandleExitedListed == Exited(marker \cap listed)

HandleExited == Exited(marker)

HandleDeleteFinalized ==
  /\ Handles("finalized")
  /\ marker' = marker \ {Head(queue).id}
  /\ UNCHANGED <<nextId, active, listed, awake, pinned, children, threads, calls, finals,
                 conn, disk, created, hit, counts>>

\* The runs a run waits for through its spawn_subsession calls.
Below(t) == {u \in DOMAIN threads :
  /\ Busy(u) /\ threads[u].caller # 0
  /\ calls[threads[u].caller].by = t /\ ~calls[threads[u].caller].void}

\* Mutant: the guard is inverted.
ToCancelUnknown(s) ==
  IF active[s] # 0 \/ s \in listed THEN {} ELSE {active[d] : d \in children[s]} \ {0}

\* cancel_children_of: the children tracked for s, if s is still known.
ToCancel(s) ==
  IF active[s] # 0 \/ s \in listed THEN {active[d] : d \in children[s]} \ {0} ELSE {}

HandleCancelRequest ==
  LET s == Head(queue).id
      n == Head(queue).stream
      t == active[s]
      own == [op |-> "cancel", stream |-> n]
  IN
  /\ Handles("cancelReq")
  /\ threads' = Mailed([u \in DOMAIN threads |->
       (IF u = t THEN <<own>> ELSE <<>>)
       \o (IF u \in ToCancel(s) THEN <<CancelAll>> ELSE <<>>)])
  /\ hit' = IF t # 0 /\ Busy(t) /\ threads[t].stream = n
            THEN hit \cup {<<u, threads[u].stream>> : u \in {t} \cup Below(t)}
            ELSE hit
  /\ UNCHANGED <<index, calls, finals, conn, disk, created, counts>>

\* delete_session_inner for every session of D at once.  A live thread is
\* marked, tombstoned and told to stop; a finished one, or none, lets the
\* record go now.  A pending delete keeps its tombstone.  A session that is its
\* own child (again) is deleted twice: the second time it has no thread.
Live(D) == {d \in D : active[d] # 0 /\ threads[active[d]].pc # "gone"}
Ended(D) == {d \in D : active[d] # 0} \ Live(D)

\* Swept: the tombstones removed now.  Marked: the ids added to deleted_sessions.
DeleteAll(D, again, swept, marked) ==
  /\ marker' = marker \cup marked
  /\ tomb' = (tomb \cup Live(D)) \ swept
  /\ records' = records \ ((D \ Live(D)) \cup again)
  /\ diskPinned' = diskPinned \ ((D \ Live(D)) \cup again)
  /\ threads' = Mailed([t \in DOMAIN threads |->
       IF \E d \in D : active[d] = t THEN <<CancelAll, Shutdown>> ELSE <<>>])
  /\ active' = [s \in Ids |-> IF s \in D THEN 0 ELSE active[s]]
  /\ listed' = listed \ D /\ awake' = awake \ D /\ pinned' = pinned \ D

Threadless(D) == {d \in D : active[d] = 0}

\* Mutant: a second delete sweeps the tombstone of the first.
DeleteInnerSweeps(D, again) ==
  DeleteAll(D, again, Ended(D) \cup Threadless(D), Live(D) \cup Ended(D))

DeleteInner(D, again) ==
  DeleteAll(D, again, Ended(D) \cup (Threadless(D) \ marker), Live(D) \cup Ended(D))

HandleDelete ==
  LET s == Head(queue).id
      D == {s} \cup children[s]
  IN
  /\ Handles("delete")
  /\ DeleteInner(D, {s} \cap children[s])
  /\ children' = Untracked(s, D)
  /\ conn' = [conn EXCEPT ![Head(queue).who].pc = "idle"]
  /\ UNCHANGED <<nextId, calls, finals, created, hit, counts>>

Daemon ==
  \/ HandleCreate \/ HandleSpawn \/ HandleAttach \/ HandleGetState \/ HandleFlags
  \/ HandleUpdateMetadata \/ HandleStatus \/ HandleExited \/ HandleDeleteFinalized
  \/ HandleCancelRequest \/ HandleDelete

\* finalize_session_delete, on its own thread: two transactions.
Finalize(s) ==
  \/ /\ finals[s] = "delete"
     /\ finals' = [finals EXCEPT ![s] = "clear"]
     /\ records' = records \ {s} /\ diskPinned' = diskPinned \ {s}
     /\ UNCHANGED <<index, queue, threads, calls, conn, tomb, created, hit, counts>>
  \/ /\ finals[s] = "clear"
     /\ finals' = [finals EXCEPT ![s] = "none"]
     /\ tomb' = tomb \ {s}
     /\ queue' = Append(queue, [op |-> "finalized", id |-> s])
     /\ UNCHANGED <<index, threads, calls, conn, records, diskPinned, created, hit, counts>>

-----------------------------------------------------------------------------
(* A session thread.                                                       *)

In(t, pc) == t \in DOMAIN threads /\ threads[t].pc = pc
Post(t, op) == [op |-> op, id |-> threads[t].owner]

ThreadStart(t) ==
  /\ In(t, "start")
  /\ threads' = [threads EXCEPT ![t].pc = "loop"]
  /\ queue' = Append(queue, Post(t, "update"))
  /\ UNCHANGED <<index, calls, finals, conn, disk, created, hit, counts>>

\* Process the next command, of kind op; th is the thread's state after it,
\* and leaves says whether process_command ends the loop.
Next1(t) == Head(threads[t].inbox)
Takes(t, op) == In(t, "loop") /\ threads[t].inbox # <<>> /\ Next1(t).op = op

Becomes(t, th, leaves) ==
  threads' = [threads EXCEPT ![t] =
    [th EXCEPT !.inbox = Tail(@), !.pc = IF leaves THEN "exit" ELSE "loop"]]

\* Nothing runs, and nobody watches or a shutdown was asked for.
Idle(th) == th.run = "idle" /\ (th.subs = {} \/ th.stop)

Accepts(t) == threads[t].run = "idle" /\ ~threads[t].stop

Started(t, k) ==
  [threads[t] EXCEPT !.run = "begun", !.stream = @ + 1, !.caller = k, !.cancel = FALSE]

\* A run may also be refused for want of a model or of credentials.
RunInput(t) ==
  /\ Takes(t, "run")
  /\ \/ Accepts(t) /\ Becomes(t, Started(t, 0), FALSE)
     \/ Becomes(t, threads[t], FALSE)
  /\ UNCHANGED <<index, queue, calls, finals, conn, disk, created, hit, counts>>

RunChildInput(t) ==
  /\ Takes(t, "child")
  /\ LET k == Next1(t).call IN
       \/ Accepts(t) /\ Becomes(t, Started(t, k), FALSE) /\ UNCHANGED calls
       \/ /\ Becomes(t, threads[t], FALSE)
          /\ calls' = [calls EXCEPT ![k].pc = "done"]
  /\ UNCHANGED <<index, queue, finals, conn, disk, created, hit, counts>>

CancelCommand(t) ==
  /\ Takes(t, "cancel")
  /\ LET aims == threads[t].run # "idle" /\ Next1(t).stream \in {0, threads[t].stream}
     IN Becomes(t, [threads[t] EXCEPT !.cancel = @ \/ aims], FALSE)
  /\ UNCHANGED <<index, queue, calls, finals, conn, disk, created, hit, counts>>

ShutdownCommand(t) ==
  /\ Takes(t, "shutdown")
  /\ LET busy == threads[t].run # "idle"
     IN Becomes(t, [threads[t] EXCEPT !.stop = TRUE, !.cancel = @ \/ busy], ~busy)
  /\ UNCHANGED <<index, queue, calls, finals, conn, disk, created, hit, counts>>

AttachCommand(t) ==
  /\ Takes(t, "attach")
  /\ Becomes(t, [threads[t] EXCEPT !.subs = @ \cup {Next1(t).who}], FALSE)
  /\ UNCHANGED <<index, queue, calls, finals, conn, disk, created, hit, counts>>

DetachCommand(t) ==
  /\ Takes(t, "detach")
  /\ LET th == [threads[t] EXCEPT !.subs = @ \ {Next1(t).who}]
     IN Becomes(t, th, Idle(th))
  /\ UNCHANGED <<index, queue, calls, finals, conn, disk, created, hit, counts>>

\* persist_session_metadata, for every command that edits the session.
EditCommand(t) ==
  /\ Takes(t, "edit")
  /\ Becomes(t, threads[t], FALSE)
  /\ queue' = Append(queue, Post(t, "update"))
  /\ records' = records \cup {threads[t].owner}
  /\ UNCHANGED <<index, calls, finals, conn, diskPinned, tomb, created, hit, counts>>

StatusCommand(t) ==
  /\ Takes(t, "status")
  /\ Becomes(t, threads[t], FALSE)
  /\ queue' = Append(queue, Post(t, "status"))
  /\ UNCHANGED <<index, calls, finals, conn, disk, created, hit, counts>>

RequestFinished(t) ==
  /\ Takes(t, "finished")
  /\ LET th == [threads[t] EXCEPT !.run = "idle", !.caller = 0, !.cancel = FALSE]
     IN Becomes(t, th, Idle(th))
  /\ records' = records \cup {threads[t].owner}
  /\ queue' = queue \o <<Post(t, "update"), Post(t, "status")>>
  /\ UNCHANGED <<index, calls, finals, conn, diskPinned, tomb, created, hit, counts>>

PersistAndExit(t) ==
  /\ In(t, "exit")
  /\ threads' = [threads EXCEPT ![t].pc = "sent"]
  /\ records' = records \cup {threads[t].owner}
  /\ queue' = Append(queue, Post(t, "exited"))
  /\ UNCHANGED <<index, calls, finals, conn, diskPinned, tomb, created, hit, counts>>

\* The thread returns; what is left in its inbox is dropped with its replies.
ThreadGone(t) ==
  /\ In(t, "sent")
  /\ threads' = [threads EXCEPT ![t] = [Fresh(threads[t].owner) EXCEPT !.pc = "gone"]]
  /\ calls' = [k \in DOMAIN calls |->
       IF calls[k].pc = "wait" /\ calls[k].child = t THEN [calls[k] EXCEPT !.pc = "done"]
       ELSE calls[k]]
  /\ UNCHANGED <<index, queue, finals, conn, disk, created, hit, counts>>

ThreadStep(t) ==
  \/ ThreadStart(t) \/ RunInput(t) \/ RunChildInput(t) \/ CancelCommand(t)
  \/ ShutdownCommand(t) \/ AttachCommand(t) \/ DetachCommand(t) \/ EditCommand(t)
  \/ StatusCommand(t) \/ RequestFinished(t) \/ PersistAndExit(t) \/ ThreadGone(t)

-----------------------------------------------------------------------------
(* The worker of a run, and its spawn_subsession calls.                    *)

\* The loop's first message to the session thread.
WorkerReports(t) ==
  /\ t \in DOMAIN threads /\ threads[t].run = "begun"
  /\ threads' = [threads EXCEPT ![t].run = "work", ![t].inbox = Append(@, [op |-> "status"])]
  /\ UNCHANGED <<index, queue, calls, finals, conn, disk, created, hit, counts>>

WorkerSpawns(t) ==
  /\ t \in DOMAIN threads /\ threads[t].run = "work" /\ RoomForOne /\ Spend
  /\ calls' = Append(calls, [by |-> t, pc |-> "asked", child |-> 0, void |-> FALSE])
  /\ queue' = Append(queue, [op |-> "spawn", call |-> Len(calls) + 1])
  /\ UNCHANGED <<index, threads, finals, conn, disk, created, hit, crashes>>

Awaited(t) == {k \in DOMAIN calls : calls[k].by = t /\ ~calls[k].void /\ calls[k].pc # "done"}

\* A run ends when its calls have, or when it is cancelled: then the calls'
\* threads are left behind.  The caller of a child run gets its answer first.
WorkerEnds(t) ==
  /\ t \in DOMAIN threads /\ threads[t].run = "work"
  /\ threads[t].cancel \/ Awaited(t) = {}
  /\ threads' = [threads EXCEPT ![t].run = "ended",
                                ![t].inbox = Append(@, [op |-> "finished"])]
  /\ calls' = [k \in DOMAIN calls |->
       [calls[k] EXCEPT !.void = @ \/ calls[k].by = t,
                        !.pc = IF k = threads[t].caller THEN "done" ELSE @]]
  /\ hit' = hit \ {<<t, threads[t].stream>>}
  /\ UNCHANGED <<index, queue, finals, conn, disk, created, counts>>

\* The tool thread hands the prompt to the child's thread and waits.
CallRuns(k) ==
  /\ k \in DOMAIN calls /\ calls[k].pc = "made"
  /\ LET t == calls[k].child IN
       \/ /\ threads[t].pc # "gone"
          /\ threads' = Mail1(t, [op |-> "child", call |-> k])
          /\ calls' = [calls EXCEPT ![k].pc = "wait"]
       \/ /\ threads[t].pc = "gone"
          /\ calls' = [calls EXCEPT ![k].pc = "done"]
          /\ UNCHANGED threads
  /\ UNCHANGED <<index, queue, finals, conn, disk, created, hit, counts>>

-----------------------------------------------------------------------------
(* The process dies and the next one opens the database.                   *)

\* Mutant: an off-by-one.
FirstFreeTaken(S) == IF S = {} THEN 1 ELSE Max(S)

FirstFree(S) == IF S = {} THEN 1 ELSE Max(S) + 1

Purged == records \ tomb

Restart ==
  /\ crashes < MaxCrashes /\ crashes' = crashes + 1
  /\ records' = Purged /\ tomb' = {} /\ diskPinned' = diskPinned \cap Purged
  /\ listed' = Purged /\ pinned' = diskPinned \cap Purged /\ awake' = {}
  /\ nextId' = FirstFree(Purged)
  /\ active' = [s \in Ids |-> 0] /\ marker' = {} /\ children' = [s \in Ids |-> {}]
  /\ queue' = <<>> /\ threads' = <<>> /\ calls' = <<>> /\ hit' = {}
  /\ finals' = [s \in Ids |-> "none"] /\ conn' = [c \in Clients |-> Offline]
  /\ UNCHANGED <<created, ops>>

-----------------------------------------------------------------------------
Client(c) ==
  \/ ClientCreate(c) \/ ClientAttach(c) \/ ClientGetState(c) \/ ClientDelete(c)
  \/ ClientFlags(c) \/ ClientCancel(c) \/ ClientTells(c) \/ ClientLeaves(c)
  \/ SwitchAttached(c)

Next ==
  \/ \E c \in Clients : Client(c)
  \/ Daemon
  \/ \E s \in Ids : Finalize(s)
  \/ \E t \in Threads : ThreadStep(t) \/ WorkerReports(t) \/ WorkerSpawns(t) \/ WorkerEnds(t)
  \/ \E k \in Threads : CallRuns(k)
  \/ Restart

CancelledEnds(t) == WorkerEnds(t) /\ threads[t].cancel

\* Threads that have work are scheduled; a worker is sure to stop only when
\* it was cancelled.  Nothing is assumed of clients.
Fairness ==
  /\ WF_vars(Daemon)
  /\ \A s \in Ids : WF_vars(Finalize(s))
  /\ \A t \in Threads :
       WF_vars(ThreadStep(t)) /\ WF_vars(WorkerReports(t)) /\ WF_vars(CancelledEnds(t))
  /\ \A k \in Threads : WF_vars(CallRuns(k))

Spec == Init /\ [][Next]_vars /\ Fairness

-----------------------------------------------------------------------------
(* Properties.                                                             *)

Commands ==
  [op: {"create"}, who: Clients, parent: {0} \cup Ids]
  \cup [op: {"attach", "get", "delete"}, who: Clients, id: Ids]
  \cup [op: {"flags"}, who: Clients, id: Ids, on: BOOLEAN]
  \cup [op: {"cancelReq"}, id: Ids, stream: Nat]
  \cup [op: {"spawn"}, call: Threads]
  \cup [op: {"update", "status", "exited", "finalized"}, id: Ids]

SessionCommands ==
  [op: {"run", "edit", "status", "finished", "shutdown"}]
  \cup [op: {"attach", "detach"}, who: Clients]
  \cup [op: {"cancel"}, stream: Nat] \cup [op: {"child"}, call: Threads]

\* Every value stays in its domain: a command names a session id within the
\* bound and a thread of this process.
TypeOK ==
  /\ nextId \in 1..(MaxIds + 1) /\ active \in [Ids -> 0..Len(threads)]
  /\ listed \subseteq Ids /\ awake \subseteq listed /\ pinned \subseteq listed
  /\ marker \subseteq Ids /\ children \in [Ids -> SUBSET Ids]
  /\ \A i \in DOMAIN queue : queue[i] \in Commands
  /\ \A t \in DOMAIN threads :
       /\ threads[t].owner \in Ids /\ threads[t].subs \subseteq Clients
       /\ threads[t].pc \in {"start", "loop", "exit", "sent", "gone"}
       /\ threads[t].run \in {"idle", "begun", "work", "ended"}
       /\ threads[t].caller \in {0} \cup DOMAIN calls
       /\ \A i \in DOMAIN threads[t].inbox : threads[t].inbox[i] \in SessionCommands
  /\ \A k \in DOMAIN calls :
       /\ calls[k].by \in DOMAIN threads /\ calls[k].child \in {0} \cup DOMAIN threads
       /\ calls[k].pc \in {"asked", "made", "wait", "done"}
  /\ finals \in [Ids -> {"none", "delete", "clear"}]
  /\ \A c \in Clients : conn[c].at \in {0} \cup DOMAIN threads
  /\ records \subseteq Ids /\ diskPinned \subseteq records /\ tomb \subseteq Ids

\* The index the clients are shown is, in every well-typed state, what a restart
\* at that moment would load: no session deleted while its thread still writes
\* comes back, by a late UpdateMetadata or by a record written on the way out,
\* none is forgotten, and a pinned flag survives everything the session thread
\* writes (handle_update_metadata, delete_session_inner, write_session,
\* purge_tombstoned_sessions).  A listed session shows as awake exactly while
\* the daemon has a thread for it: no straggler wakes an exited one.
IndexMatchesDisk ==
  /\ TypeOK
  /\ listed = records \ tomb /\ pinned = diskPinned \ tomb
  /\ \A s \in listed : s \in awake <=> active[s] # 0

\* A session id given out is new: no record, tombstone, delete in progress or
\* thread that can still write belongs to it, also when a restart starts
\* numbering again (handle_create_session, next_session_id in open.rs).
CreateIsFresh ==
  [][created' > created =>
       /\ nextId \notin records \cup tomb \cup marker
       /\ \A t \in DOMAIN threads : threads[t].owner = nextId => threads[t].pc = "gone"]_vars

\* The daemon keeps the catalogue's promise: a session appears only by a
\* CreateSession and a deleted one never comes back.
Cat == INSTANCE Catalogue WITH present <- records \ tomb
Catalogued == Cat!Spec

\* Every deferred delete ends, across crashes: its tombstone goes, and with it
\* the record (delete_session_inner, finalize_session_delete).
DeleteFinishes == \A s \in Ids : s \in tomb ~> s \notin tomb

Condemned(t) ==
  \/ threads[t].cancel
  \/ \E i \in DOMAIN threads[t].inbox :
       LET m == threads[t].inbox[i] IN
       \/ m.op = "shutdown"
       \/ m.op = "cancel" /\ m.stream \in {0, threads[t].stream}

\* The cancel of a run has reached, or is on its way to, that run and every
\* child run that worked for it when the daemon took the cancel, whatever is
\* created, deleted or exits around it (handle_cancel_request,
\* cancel_children_of).  Grandchildren are not covered: no handler passes a
\* cancel on.
CancelReachesChildren == \A p \in hit : Condemned(p[1])
=============================================================================
