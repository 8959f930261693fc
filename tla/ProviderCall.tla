---------------------------- MODULE ProviderCall ----------------------------
(* The provider calls of one session: the retry loop with the provider       *)
(* policies around it, the connections it dials and registers, the SSE reader *)
(* threads it leaves behind, and the command loop that cancels a call and     *)
(* force-closes the session's sockets.  The worker and the readers block in   *)
(* the kernel; what they share with the command loop is the cancel channel    *)
(* and the socket registry, every operation of which holds the registry's     *)
(* mutex and is one step here.  Descriptors are numbers the kernel gives out  *)
(* again.                                                                     *)
(*                                                                            *)
(* External: ureq (the pool, the disposal of a body that was read to its end, *)
(* connections through a proxy, which nobody registers), and the provider.    *)
EXTENDS Integers, FiniteSets, FiniteSetsExt, Sequences

CONSTANTS
  MaxAttempts,   \* RetryConfig.max_attempts; a 0, which is not clamped, acts as 1
  Resends,       \* GATEWAY_TRANSIENT_400_ATTEMPTS
  Cap,           \* MAX_REGISTERED_SOCKETS
  Room,          \* SSE_CHANNEL_CAPACITY
  MaxDials,      \* bound: connections made
  MaxCalls,      \* bound: calls
  MaxControls    \* bound: cancels, sleeps and wakes

ASSUME CallAssumption ==
  /\ {MaxAttempts, Cap, Room} \subseteq Nat \ {0}
  /\ {Resends, MaxDials, MaxCalls, MaxControls} \subseteq Nat

Conns == 1..MaxDials
Fds == 1..(2 * MaxDials)
Free == <<"free", 0>>
Owners == {Free} \cup ({"stream", "dup"} \X Conns)
Messages == {"Event", "End", "Err"}

VARIABLES
  w,           \* the request worker
  call,        \* the stream id of the latest call
  compressed,  \* request bodies are still sent compressed
  token,       \* a cancel is in the run's cancel channel
  mail,        \* the stream a Cancel in the session's queue names, or 0
  closing,     \* the command loop has sent a Cancel and not yet closed the sockets
  conn,        \* of each connection its descriptor (0: none) and whether it was shut
  dials,       \* connections made so far
  pool,        \* ureq's idle connections
  reader,      \* of each connection its reader thread
  reg,         \* the registry: of each connection the registry's duplicate, or 0
  fds,         \* the descriptor table
  sends, late, \* history: requests sent in this call; those sent after its cancel
  controls     \* cancels, sleeps and wakes so far

registry == <<conn, reg, fds>>
sockets == <<conn, dials, pool, reader, reg, fds>>
control == <<mail, closing, controls>>
history == <<sends, late>>
vars == <<w, call, compressed, token, mail, closing, conn, dials, pool, reader, reg,
          fds, sends, late, controls>>

Idle == [pc |-> "idle", attempt |-> 0, loop |-> "first", extra |-> 0, conn |-> 0, chan |-> <<>>]
Init ==
  /\ w = Idle /\ call = 0 /\ compressed = TRUE /\ token = FALSE
  /\ mail = 0 /\ closing = FALSE /\ controls = 0
  /\ conn = [c \in Conns |-> [fd |-> 0, shut |-> FALSE]] /\ dials = 0 /\ pool = {}
  /\ reader = [c \in Conns |-> "none"] /\ reg = [c \in Conns |-> 0]
  /\ fds = [f \in Fds |-> Free] /\ sends = 0 /\ late = 0

-----------------------------------------------------------------------------
(* Descriptors and the registry.                                             *)

\* The kernel gives out the lowest free number.
NewFd(t) == Min({f \in Fds : t[f] = Free})
Open(t, owner) == [t EXCEPT ![NewFd(t)] = owner]

\* close(2) frees a number, whoever has it by now.
Closed(t, S) == [f \in Fds |-> IF f \in S THEN Free ELSE t[f]]

Entries == {c \in Conns : reg[c] # 0}
Duplicates(S) == {reg[c] : c \in S}

\* unregister: an entry that is gone was closed by whoever took it out.
Unregistered(c) == Duplicates({c} \cap Entries)

\* A transport is dropped: its entry first, then its own stream.
Drop(c) ==
  /\ fds' = Closed(fds, Unregistered(c) \cup {conn[c].fd})
  /\ reg' = [reg EXCEPT ![c] = 0]
  /\ conn' = [conn EXCEPT ![c].fd = 0]

\* Mutant: the list is not emptied.
ShutdownAllKeeps ==
  /\ conn' = [c \in Conns |-> IF c \in Entries THEN [conn[c] EXCEPT !.shut = TRUE] ELSE conn[c]]
  /\ fds' = Closed(fds, Duplicates(Entries))
  /\ UNCHANGED reg

\* shutdown_all: every registered socket is shut, and the registry's duplicates
\* are closed.
ShutdownAll ==
  /\ conn' = [c \in Conns |-> IF c \in Entries THEN [conn[c] EXCEPT !.shut = TRUE] ELSE conn[c]]
  /\ fds' = Closed(fds, Duplicates(Entries))
  /\ reg' = [c \in Conns |-> 0]

\* prune_locked: the entries whose probe finds something to read or an error are
\* taken out.  A connection in use has data waiting at any time, so this may be
\* any of them.
Pruned(gone) == [c \in Conns |-> IF c \in gone THEN 0 ELSE reg[c]]

-----------------------------------------------------------------------------
(* The worker: retry_loop_with_provider_policies around retry_loop_impl.     *)

Running == w.pc # "idle"
Ended == Idle

\* A request of the session reaches the provider client; its cancel channel is new.
Begin ==
  /\ ~Running /\ call < MaxCalls
  /\ call' = call + 1 /\ token' = FALSE /\ sends' = 0 /\ late' = 0
  /\ w' = [Idle EXCEPT !.pc = "top"]
  /\ UNCHANGED <<compressed, control, sockets>>

\* The top of an attempt: check_cancelled.
Top ==
  /\ w.pc = "top"
  /\ token' = FALSE
  /\ w' = IF token THEN Ended ELSE [w EXCEPT !.attempt = @ + 1, !.pc = "get"]
  /\ UNCHANGED <<call, compressed, control, sockets, history>>

\* ureq takes an idle connection whose probe finds it open, and drops the others.
GetPooled(c) ==
  /\ w.pc = "get" /\ c \in pool /\ ~conn[c].shut
  /\ pool' = pool \ {c} /\ w' = [w EXCEPT !.conn = c, !.pc = "send"]
  /\ UNCHANGED <<call, compressed, token, control, registry, dials, reader, history>>
GetStale(c) ==
  /\ w.pc = "get" /\ c \in pool
  /\ pool' = pool \ {c} /\ Drop(c)
  /\ UNCHANGED <<w, call, compressed, token, control, dials, reader, history>>

\* What a transport error comes to: another attempt, or the Io error.
Failed == IF w.attempt < MaxAttempts THEN [w EXCEPT !.conn = 0, !.pc = "wait"] ELSE Ended

\* try_connect: one of the addresses answers within the connect timeout, or none.
DialFails ==
  /\ w.pc = "get" /\ pool = {} /\ w' = Failed
  /\ UNCHANGED <<call, compressed, token, control, sockets, history>>
Dial ==
  LET c == dials + 1 IN
  /\ w.pc = "get" /\ pool = {} /\ dials < MaxDials
  /\ dials' = c /\ conn' = [conn EXCEPT ![c].fd = NewFd(fds)]
  /\ fds' = Open(fds, <<"stream", c>>)
  /\ w' = [w EXCEPT !.conn = c, !.pc = "register"]
  /\ UNCHANGED <<call, compressed, token, control, pool, reader, reg, history>>

\* The duplicate is made and handed to the registry, which prunes when it is full.
Register ==
  LET c == w.conn IN
  /\ w.pc = "register" /\ w' = [w EXCEPT !.pc = "send"]
  /\ \E gone \in IF Cardinality(Entries) >= Cap THEN SUBSET Entries ELSE {{}} :
       /\ reg' = [Pruned(gone) EXCEPT ![c] = NewFd(fds)]
       /\ fds' = Closed(Open(fds, <<"dup", c>>), Duplicates(gone))
  /\ UNCHANGED <<call, compressed, token, control, conn, dials, pool, reader, history>>

\* No duplicate could be made, or the connection is a proxy's: it is used all the
\* same, and out of the registry's reach.
RegisterNot ==
  /\ w.pc = "register" /\ w' = [w EXCEPT !.pc = "send"]
  /\ UNCHANGED <<call, compressed, token, control, sockets, history>>

Sent == sends' = sends + 1 /\ late' = late + (IF token THEN 1 ELSE 0)
Send ==
  /\ w.pc = "send" /\ ~conn[w.conn].shut /\ Sent
  /\ w' = [w EXCEPT !.pc = "head"]
  /\ UNCHANGED <<call, compressed, token, control, sockets>>

\* The write fails: the connection is broken, or was shut.
SendFails ==
  /\ w.pc = "send" /\ Sent /\ Drop(w.conn) /\ w' = Failed
  /\ UNCHANGED <<call, compressed, token, control, dials, pool, reader>>

\* No response: the connection broke or was shut, nothing came within the idle
\* timeout, or the read began while a prune had the socket non-blocking.
NoAnswer ==
  /\ w.pc = "head" /\ Drop(w.conn) /\ w' = Failed
  /\ UNCHANGED <<call, compressed, token, control, dials, pool, reader, history>>

\* A response that is not a success has its body read, after which ureq keeps
\* or closes the connection.
Dispose(c) ==
  \/ pool' = pool \cup {c} /\ UNCHANGED registry
  \/ UNCHANGED pool /\ Drop(c)

\* 2xx: the loop is over, and the body goes to a reader thread.  Like every
\* answer, it may have been received before the socket was shut.
AnswerOk ==
  /\ w.pc = "head"
  /\ reader' = [reader EXCEPT ![w.conn] = "top"]
  /\ w' = [Idle EXCEPT !.conn = w.conn, !.pc = "stream"]
  /\ UNCHANGED <<call, compressed, token, control, registry, dials, pool, history>>

Answers(v, z) ==
  /\ w.pc = "head" /\ Dispose(w.conn)
  /\ w' = v /\ compressed' = z
  /\ UNCHANGED <<call, token, control, dials, reader, history>>

\* A retryable status whose Retry-After, if any, fits the backoff ceiling.
AnswerTransient == Answers(Failed, compressed)

\* Any other status, or one whose cooldown outlives the ceiling.
AnswerTerminal == Answers(Ended, compressed)

\* Mutant: a provider is downgraded once per loop instead of once.
DowngradeEachLoop ==
  IF compressed \/ w.loop = "resend" THEN [w EXCEPT !.loop = "plain", !.attempt = 0, !.conn = 0, !.pc = "top"]
  ELSE Ended

\* Policy 1: a 415 to a compressed body is answered by a fresh loop with an
\* identity body, after the first loop only.
Downgrade ==
  IF compressed /\ w.loop = "first" THEN [w EXCEPT !.loop = "plain", !.attempt = 0, !.conn = 0, !.pc = "top"]
  ELSE Ended
AnswerUnsupported == Answers(Downgrade, compressed /\ w.loop # "first")

\* Policy 2: a gateway's transient 400 is resent, after a wait, by a fresh loop.
Extra == Min({Resends, MaxAttempts - 1})
Resend ==
  IF w.extra < Extra
  THEN [w EXCEPT !.loop = "resend", !.extra = @ + 1, !.attempt = 0, !.conn = 0, !.pc = "wait"]
  ELSE Ended
AnswerFlaky == Answers(Resend, compressed)

\* Mutant: the cancel is taken and the attempts go on.
WaitCancelOn ==
  /\ w.pc = "wait" /\ token /\ token' = FALSE /\ w' = [w EXCEPT !.pc = "top"]
  /\ UNCHANGED <<call, compressed, control, sockets, history>>

\* sleep_or_cancel.  A timer that fires although a cancel has just come is the
\* timer's step before the cancel's.
WaitCancel ==
  /\ w.pc = "wait" /\ token /\ token' = FALSE /\ w' = Ended
  /\ UNCHANGED <<call, compressed, control, sockets, history>>
WaitTimer ==
  /\ w.pc = "wait" /\ ~token /\ w' = [w EXCEPT !.pc = "top"]
  /\ UNCHANGED <<call, compressed, token, control, sockets, history>>

\* recv_sse_event: a cancel, a message of the reader, or the attempt's deadline.
\* Ending drops the SseStream, which asks the reader to stop.
StreamCancel ==
  /\ w.pc = "stream" /\ token /\ token' = FALSE /\ w' = Ended
  /\ UNCHANGED <<call, compressed, control, sockets, history>>
StreamRecv ==
  /\ w.pc = "stream" /\ ~token /\ w.chan # <<>>
  /\ \/ w' = [w EXCEPT !.chan = Tail(@)] /\ w.chan[1] = "Event"
     \/ w' = Ended    \* the end, an error, or an event the caller cannot use
  /\ UNCHANGED <<call, compressed, token, control, sockets, history>>
StreamDeadline ==
  /\ w.pc = "stream" /\ w' = Ended
  /\ UNCHANGED <<call, compressed, token, control, sockets, history>>

-----------------------------------------------------------------------------
(* The reader thread of a response (spawn_sse_reader).  From "top" to "Err"  *)
(* it owns the connection; "End" was read to the end and owns nothing.       *)

Attended(c) == w.pc = "stream" /\ w.conn = c

\* The loop boundary: the abort signal, or a read.
ReaderTop(c) ==
  /\ reader[c] = "top"
  /\ IF Attended(c) THEN reader' = [reader EXCEPT ![c] = "read"] /\ UNCHANGED registry
     ELSE reader' = [reader EXCEPT ![c] = "none"] /\ Drop(c)
  /\ UNCHANGED <<w, call, compressed, token, control, dials, pool, history>>

\* next_event: an event, the end of the body, or an error.  A socket that was
\* shut still has what was received before.
ReaderRead(c) ==
  /\ reader[c] = "read"
  /\ \/ /\ \E m \in {"Event", "Err"} : reader' = [reader EXCEPT ![c] = m]
        /\ UNCHANGED <<registry, pool>>
     \/ reader' = [reader EXCEPT ![c] = "End"] /\ Dispose(c)
  /\ UNCHANGED <<w, call, compressed, token, control, dials, history>>

\* The bounded send: it waits for room, and fails when the consumer has gone.
\* After the end, an error or a failed send the thread is over.
ReaderSend(c) ==
  /\ reader[c] \in Messages
  /\ Attended(c) => Len(w.chan) < Room
  /\ w' = IF Attended(c) THEN [w EXCEPT !.chan = Append(@, reader[c])] ELSE w
  /\ reader' = [reader EXCEPT ![c] = IF Attended(c) /\ @ = "Event" THEN "top" ELSE "none"]
  /\ IF reader'[c] = "top" \/ reader[c] = "End" THEN UNCHANGED registry ELSE Drop(c)
  /\ UNCHANGED <<call, compressed, token, control, dials, pool, history>>

-----------------------------------------------------------------------------
(* The command loop and the session thread.                                  *)

Controls == controls < MaxControls /\ ~closing /\ controls' = controls + 1

\* handle_cancel_request, for the latest stream or an older one: the session is
\* told first, then its sockets are closed.
Cancel(k) ==
  /\ Controls /\ mail = 0
  /\ mail' = k /\ closing' = TRUE
  /\ UNCHANGED <<w, call, compressed, token, sockets, history>>
ForceClose ==
  /\ closing /\ closing' = FALSE /\ ShutdownAll
  /\ UNCHANGED <<w, call, compressed, token, mail, controls, dials, pool, reader, history>>

\* handle_cancel on the session thread: only the active request of that stream.
Deliver ==
  /\ mail # 0 /\ mail' = 0 /\ token' = (token \/ (mail = call /\ Running))
  /\ UNCHANGED <<w, call, compressed, closing, controls, sockets, history>>

\* handle_suspend_event.
Sleep ==
  /\ Controls /\ ShutdownAll
  /\ UNCHANGED <<w, call, compressed, token, mail, closing, dials, pool, reader, history>>
Wake ==
  /\ Controls
  /\ \E gone \in SUBSET Entries :
       reg' = Pruned(gone) /\ fds' = Closed(fds, Duplicates(gone))
  /\ UNCHANGED <<w, call, compressed, token, mail, closing, conn, dials, pool, reader, history>>

-----------------------------------------------------------------------------
WorkerStep ==
  \/ Top \/ (\E c \in pool : GetPooled(c) \/ GetStale(c)) \/ DialFails \/ Dial
  \/ Register \/ RegisterNot \/ Send \/ SendFails \/ NoAnswer
  \/ AnswerOk \/ AnswerTransient \/ AnswerTerminal \/ AnswerUnsupported \/ AnswerFlaky
  \/ WaitCancel \/ WaitTimer \/ StreamCancel \/ StreamRecv

Next ==
  \/ Begin \/ WorkerStep \/ StreamDeadline
  \/ \E c \in Conns : ReaderTop(c) \/ ReaderRead(c) \/ ReaderSend(c)
  \/ (\E k \in 1..call : Cancel(k)) \/ ForceClose \/ Deliver \/ Sleep \/ Wake

(* The threads run.  A dial ends by the connect timeout.  A write, and the     *)
(* wait for a response, end when the socket is shut, by the idle cap of a      *)
(* connection this client dialled, or else (a proxy's has none, and no send    *)
(* timeout is set) by the deadline of the whole request, an hour by default:   *)
(* that it is not configured away is assumed.  The wait for the next event     *)
(* need not end, since a provider may trickle keep-alives and the caller's     *)
(* deadline is optional, unless the socket was shut: what it had received is   *)
(* finite.                                                                     *)
Fairness ==
  /\ WF_vars(WorkerStep) /\ WF_vars(ForceClose) /\ WF_vars(Deliver)
  /\ \A c \in Conns :
       /\ WF_vars(ReaderTop(c) \/ ReaderSend(c) \/ (conn[c].shut /\ ReaderRead(c)))
       /\ SF_vars(conn[c].shut /\ ReaderRead(c) /\ reader'[c] # "Event")

Spec == Init /\ [][Next]_vars /\ Fairness

-----------------------------------------------------------------------------
(* Properties.                                                               *)

TypeOK ==
  /\ w \in [pc : {"idle", "top", "get", "register", "send", "head", "wait", "stream"},
            attempt : 0..MaxAttempts, loop : {"first", "plain", "resend"}, extra : 0..Extra,
            conn : Conns \cup {0}, chan : UNION {[1..n -> Messages] : n \in 0..Room}]
  /\ call \in 0..MaxCalls /\ compressed \in BOOLEAN /\ token \in BOOLEAN
  /\ mail \in 0..MaxCalls /\ closing \in BOOLEAN /\ controls \in 0..MaxControls
  /\ conn \in [Conns -> [fd : Fds \cup {0}, shut : BOOLEAN]]
  /\ dials \in 0..MaxDials /\ pool \subseteq Conns
  /\ reader \in [Conns -> Messages \cup {"none", "top", "read"}]
  /\ reg \in [Conns -> Fds \cup {0}] /\ fds \in [Fds -> Owners]
  /\ sends \in Nat /\ late \in Nat

Holders(c) ==
  {x \in {"worker", "pool", "reader"} :
     CASE x = "worker" -> w.conn = c /\ w.pc \in {"register", "send", "head"}
       [] x = "pool"   -> c \in pool
       [] x = "reader" -> reader[c] \in {"top", "read", "Event", "Err"}}

\* Every descriptor is closed once, and by its owner, in every well-typed state:
\* a number the registry or a transport holds is theirs still, although numbers
\* are given out again and a drop, a cancel, a sleep and a prune compete for the
\* same connection; no number in use is forgotten; an entry does not outlive its
\* connection, and an open connection has exactly one holder that will drop it
\* (unregister's "single-ownership-transfer invariant").
DescriptorsOwned ==
  /\ TypeOK
  /\ \A c \in Conns :
       /\ conn[c].fd # 0 => fds[conn[c].fd] = <<"stream", c>>
       /\ reg[c] # 0 => fds[reg[c]] = <<"dup", c>> /\ conn[c].fd # 0
       /\ Cardinality(Holders(c)) = IF conn[c].fd # 0 THEN 1 ELSE 0
  /\ \A f \in Fds : fds[f] # Free => f \in {conn[fds[f][2]].fd, reg[fds[f][2]]}

\* A call sends a bounded number of requests, however statuses, transport errors,
\* a downgrade and gateway rejections alternate: a first loop, one more for the
\* downgrade, and one for each resend.  After its cancel has reached the channel
\* it finishes at most the attempt it had begun.
SendsAreBounded == sends <= MaxAttempts * (2 + Extra) /\ late <= 1

\* A cancel ends the call it names, wherever the worker is: before a dial whose
\* socket the force-close does not see, in a read it wakes, in a wait, or in a
\* stream that never ends.  And a reader whose socket was shut ends and lets go
\* of its connection, whether or not anybody still listens to it.
CancelEndsCall ==
  /\ (mail # 0 /\ mail = call /\ Running) ~> ~Running
  /\ \A c \in Conns : (conn[c].shut /\ "reader" \in Holders(c)) ~> ("reader" \notin Holders(c))
=============================================================================
