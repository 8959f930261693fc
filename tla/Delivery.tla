------------------------------ MODULE Delivery ------------------------------
(***************************************************************************)
(* How an event reaches the clients of the daemon (broadcast.rs,           *)
(* daemon/subscriber_handlers.rs, server/connection.rs): a session thread  *)
(* fans it out to the clients attached to it and posts it to the command   *)
(* loop, which fans it out to the clients subscribed to all activity and,  *)
(* for a status, to those subscribed to the session list.  Each loop skips *)
(* the clients another one is known to serve.  Queues are unbounded; a     *)
(* client whose backlog passes a limit is evicted.                         *)
(*                                                                         *)
(* Every message has size one, and an enqueue (count, count, send) is one  *)
(* step.  The sessions run throughout; what wakes and ends them is the     *)
(* module Lifecycle.                                                       *)
(***************************************************************************)
EXTENDS Integers, Sequences, FiniteSets, FiniteSetsExt, SequencesExt

CONSTANTS
  Clients, Sessions,
  NoSession,    \* attached_session_id is None
  Events,       \* session events
  Origin,       \* the session of an event
  Statuses,     \* the events that are status changes
  Cap,          \* LagLimits::per_client_cap
  Budget,       \* LagLimits::global_budget
  MaxRequests   \* bound: requests of each client

ASSUME EventsAssumption == Origin \in [Events -> Sessions] /\ Statuses \subseteq Events
ASSUME NoSessionAssumption == NoSession \notin Sessions
ASSUME LimitsAssumption == {Cap, Budget, MaxRequests} \subseteq Nat
ASSUME ClientsAssumption == IsFiniteSet(Clients)

VARIABLES
  net,      \* the writer queues, the byte counter of each client, the daemon's
  wr,       \* where the writer threads are
  clients,  \* DaemonState::clients
  subs,     \* the subscribers of each session thread
  dq, sq,   \* the command channels of the daemon and of the sessions
  conn,     \* the connection threads: open, attached to, requests made
  sent,     \* events that were broadcast
  h         \* history: see Init

vars == <<net, wr, clients, subs, dq, sq, conn, sent, h>>

Absent == [in |-> FALSE, summary |-> FALSE, activity |-> FALSE, sessions |-> {}]

\* Every client is connected, registered, and has settled on what it follows.
\* The history: the copies of an event queued for a client while its entry
\* stays as it is (Unwatched: it changed), the clients found over their cap, the
\* messages lost in a queue when its writer ended.
Unwatched == -1
Init ==
  /\ net = [q |-> [c \in Clients |-> <<>>], bytes |-> [c \in Clients |-> 0], global |-> 0]
  /\ wr = [c \in Clients |-> "runs"]
  /\ conn \in [Clients -> [open : {TRUE}, att : Sessions \cup {NoSession}, reqs : {0}]]
  /\ clients \in [Clients -> [in : {TRUE}, summary : BOOLEAN, activity : BOOLEAN, sessions : SUBSET Sessions]]
  /\ \A c \in Clients : clients[c].sessions = {conn[c].att} \cap Sessions
  /\ subs = [s \in Sessions |-> {c \in Clients : conn[c].att = s}]
  /\ dq = <<>> /\ sq = [s \in Sessions |-> <<>>]
  /\ sent = {}
  /\ h = [copies |-> [c \in Clients |-> [e \in Events |-> Unwatched]], over |-> {}, lost |-> 0]

-----------------------------------------------------------------------------
(* Sinks.                                                                  *)

\* counts_toward_client_lag.  A queue tells apart the image replies, the
\* Evicted advisory that stops the writer, and all other messages.
Weight(m) == IF m = "image" THEN 0 ELSE 1
Weighing(q) == Cardinality({i \in DOMAIN q : Weight(q[i]) = 1})

\* send_accounted, to every client of S; a dead receiver undoes the count.
Live(S) == {c \in S : wr[c] # "gone"}
Push(n, S, m) ==
  [q |-> [c \in Clients |-> IF c \in Live(S) THEN Append(n.q[c], m) ELSE n.q[c]],
   bytes |-> [c \in Clients |-> IF c \in Live(S) THEN n.bytes[c] + Weight(m) ELSE n.bytes[c]],
   global |-> n.global + Cardinality(Live(S))]

\* fan_out_evicting of event e: who crossed its own cap, and whether anyone
\* else saw the daemon's total above its budget (the map has no order).
OverLag(n, S) == {c \in Live(S) : n.bytes[c] > Cap}
OverBudget(n, S) ==
  LET fit == Live(S) \ OverLag(n, S)
      before == n.global - Cardinality(Live(S)) IN
  {b \in BOOLEAN : IF b THEN fit # {} /\ n.global > Budget
                        ELSE fit = {} \/ before + Cardinality(fit) <= Budget}

\* The writer of c has stopped, or will when it comes to the Evicted.
GoingDown(c) == wr[c] # "runs" \/ \E i \in DOMAIN net.q[c] : net.q[c][i] = "evicted"
Up(S) == {c \in S : ~GoingDown(c)}
Copied(k, S, e) ==
  [c \in Clients |-> IF c \in Live(S) /\ k[c][e] # Unwatched THEN [k[c] EXCEPT ![e] = @ + 1] ELSE k[c]]
Watched(k, e) ==
  [c \in Clients |-> IF clients[c].in /\ ~GoingDown(c) THEN [k[c] EXCEPT ![e] = 0] ELSE k[c]]
Changed(k, S) == [c \in Clients |-> IF c \in S THEN [e \in Events |-> Unwatched] ELSE k[c]]

-----------------------------------------------------------------------------
(* The daemon's command loop.                                              *)

\* remove_client, of each client of S: every session it tracks is told to drop it.
Removed(cl, S) == [c \in Clients |-> IF c \in S THEN Absent ELSE cl[c]]
Told(queues, cl, S) ==
  [s \in Sessions |-> queues[s] \o SetToSeq({<<"remove", c>> : c \in {b \in S : s \in cl[b].sessions}})]

\* handle_evict_client, of each client of S that has an entry, on the part of the
\* state it changes.
Evict(x, S) ==
  LET known == {c \in S : x.cl[c].in} IN
  [net |-> Push(x.net, known, "evicted"), cl |-> Removed(x.cl, known),
   sq |-> Told(x.sq, x.cl, known), out |-> x.out \cup known]

\* handle_evict_largest_lagging, and finish_evictions.
Largest(x) ==
  LET lag == {c \in Clients : x.cl[c].in /\ x.net.bytes[c] > 0} IN
  {c \in lag : \A o \in lag : x.net.bytes[o] <= x.net.bytes[c]}
EvictLargest(x) == IF Largest(x) = {} THEN {x} ELSE {Evict(x, {c}) : c \in Largest(x)}
Finished(x, S, big) == IF big THEN EvictLargest(Evict(x, S)) ELSE {Evict(x, S)}

Becomes(x) == net' = x.net /\ clients' = x.cl /\ sq' = x.sq

\* The fan-out of e to the clients of S, on the command loop; a client whose
\* receiver is gone loses its entry, and nothing more.
LoopFansOut(S, e) ==
  \E n \in {Push(net, S, "other")} : \E big \in OverBudget(n, S) :
    LET dead == S \ Live(S)
        x == [net |-> n, cl |-> Removed(clients, dead), sq |-> sq, out |-> {}] IN
    \E y \in Finished(x, OverLag(n, S), big) :
      /\ Becomes(y)
      /\ h' = [h EXCEPT !.copies = Changed(Copied(@, S, e), dead \cup y.out), !.over = @ \cup Up(OverLag(n, S))]

Command(kind) == dq # <<>> /\ Head(dq)[1] = kind /\ dq' = Tail(dq)
Loop == UNCHANGED <<wr, subs, conn, sent>>

\* Mutant: the clients attached to the session are served again.
HandleActivityAll ==
  /\ Command("activity")
  /\ LoopFansOut({c \in Clients : clients[c].in /\ clients[c].activity}, Head(dq)[2])
  /\ Loop

\* handle_broadcast_activity: the session serves the clients it tracks.
HandleActivity ==
  /\ Command("activity")
  /\ LET e == Head(dq)[2] IN
     LoopFansOut({c \in Clients : clients[c].in /\ clients[c].activity
                                  /\ Origin[e] \notin clients[c].sessions}, e)
  /\ Loop

\* handle_broadcast_session_status: so does the activity fan-out.
HandleStatus ==
  /\ Command("status")
  /\ LET e == Head(dq)[2] IN
     LoopFansOut({c \in Clients : clients[c].in /\ clients[c].summary /\ ~clients[c].activity
                                  /\ Origin[e] \notin clients[c].sessions}, e)
  /\ Loop

HandleTrack ==
  /\ Command("track")
  /\ LET c == Head(dq)[2] IN
     clients' = IF clients[c].in THEN [clients EXCEPT ![c].sessions = @ \cup {Head(dq)[3]}] ELSE clients
  /\ Loop /\ UNCHANGED <<net, sq, h>>

HandleUntrack ==
  /\ Command("untrack")
  /\ clients' = [clients EXCEPT ![Head(dq)[2]].sessions = @ \ {Head(dq)[3]}]
  /\ Loop /\ UNCHANGED <<net, sq, h>>

\* handle_register_{summary,activity}_subscriber: an activity subscriber gets
\* the catalog and the keystore state, with the lag outcome ignored.
HandleSubscribe ==
  /\ Command("subscribe")
  /\ LET c == Head(dq)[2]
         all == Head(dq)[3] = "activity" IN
     /\ clients' = [clients EXCEPT ![c].in = TRUE, ![c].activity = @ \/ all, ![c].summary = @ \/ ~all]
     /\ net' = IF all THEN Push(Push(net, {c}, "other"), {c}, "other") ELSE net
     /\ h' = [h EXCEPT !.copies = Changed(@, {c})]
  /\ Loop /\ UNCHANGED sq

HandleUnsubscribe ==
  /\ Command("unsubscribe")
  /\ LET c == Head(dq)[2] IN
     /\ clients' = IF Head(dq)[3] = "activity" THEN [clients EXCEPT ![c].activity = FALSE]
                   ELSE [clients EXCEPT ![c].summary = FALSE]
     /\ h' = [h EXCEPT !.copies = Changed(@, {c})]
  /\ Loop /\ UNCHANGED <<net, sq>>

HandleEvict ==
  /\ Command("evict") \/ Command("largest")
  /\ \E x \in {[net |-> net, cl |-> clients, sq |-> sq, out |-> {}]} :
       \E y \in IF Head(dq)[1] = "evict" THEN {Evict(x, {Head(dq)[2]})} ELSE EvictLargest(x) :
         Becomes(y) /\ h' = [h EXCEPT !.copies = Changed(@, y.out)]
  /\ Loop

HandleDisconnected ==
  /\ Command("disconnected")
  /\ LET c == Head(dq)[2] IN
     /\ clients' = Removed(clients, {c}) /\ sq' = Told(sq, clients, {c})
     /\ h' = [h EXCEPT !.copies = Changed(@, {c})]
  /\ Loop /\ UNCHANGED net

Daemon ==
  \/ HandleActivity \/ HandleStatus \/ HandleTrack \/ HandleUntrack \/ HandleSubscribe
  \/ HandleUnsubscribe \/ HandleEvict \/ HandleDisconnected

-----------------------------------------------------------------------------
(* Session threads.                                                        *)

\* broadcast: the command loop is posted the event before the subscribers are
\* served, and told afterwards whom to evict; a status is posted once more
\* (handle_status_changed).
Emit(e) ==
  LET s == Origin[e] IN
  /\ e \notin sent /\ sent' = sent \cup {e}
  /\ \E n \in {Push(net, subs[s], "other")} : \E big \in OverBudget(n, subs[s]) :
       /\ net' = n
       /\ dq' = dq \o <<<<"activity", e>>>>
                   \o SetToSeq({<<"evict", c>> : c \in OverLag(n, subs[s])})
                   \o (IF big THEN <<<<"largest">>>> ELSE <<>>)
                   \o (IF e \in Statuses THEN <<<<"status", e>>>> ELSE <<>>)
       /\ h' = [h EXCEPT !.copies = Copied(Watched(@, e), subs[s], e), !.over = @ \cup Up(OverLag(n, subs[s]))]
  /\ subs' = [subs EXCEPT ![s] = Live(@)]
  /\ UNCHANGED <<wr, clients, sq, conn>>

Takes(s, kind) == sq[s] # <<>> /\ Head(sq[s])[1] = kind /\ sq' = [sq EXCEPT ![s] = Tail(@)]
Thread == UNCHANGED <<wr, clients, conn, sent, h>>

\* handle_attach: the client's snapshot (and the replayed starts) follow.
HandleAttach(s) ==
  /\ Takes(s, "attach")
  /\ LET c == Head(sq[s])[2] IN
     /\ subs' = [subs EXCEPT ![s] = @ \cup {c}]
     /\ dq' = Append(dq, <<"track", c, s>>)
     /\ net' = Push(net, {c}, "other")
  /\ Thread

HandleDetach(s) ==
  /\ Takes(s, "detach")
  /\ LET c == Head(sq[s])[2] IN
     subs' = [subs EXCEPT ![s] = @ \ {c}] /\ dq' = Append(dq, <<"untrack", c, s>>)
  /\ Thread /\ UNCHANGED net

HandleRemove(s) ==
  /\ Takes(s, "remove")
  /\ subs' = [subs EXCEPT ![s] = @ \ {Head(sq[s])[2]}]
  /\ Thread /\ UNCHANGED <<dq, net>>

-----------------------------------------------------------------------------
(* Connection threads.                                                     *)

Request(c) == conn[c].open /\ conn[c].reqs < MaxRequests
Side == UNCHANGED <<wr, clients, subs, sent, h>>
Replied(c, m) == net' = Push(net, {c}, m)

\* SubscribeAllActivity, SubscribeSessionsSummary and their opposites.
Subscribe(c, kind, what) ==
  /\ Request(c) /\ conn' = [conn EXCEPT ![c].reqs = @ + 1]
  /\ dq' = Append(dq, <<kind, c, what>>) /\ Replied(c, "other")
  /\ Side /\ UNCHANGED sq

\* handle_client_attach_session, once the command loop has answered with the
\* session's sender, and switch_attached_session.
Attach(c, s) ==
  LET old == conn[c].att IN
  /\ Request(c) /\ conn' = [conn EXCEPT ![c].reqs = @ + 1, ![c].att = s]
  /\ sq' = [t \in Sessions |-> IF t = s THEN Append(sq[t], <<"attach", c>>)
                               ELSE IF t = old THEN Append(sq[t], <<"detach", c>>) ELSE sq[t]]
  /\ Replied(c, "other")
  /\ Side /\ UNCHANGED dq

GetImage(c) ==
  /\ Request(c) /\ conn' = [conn EXCEPT ![c].reqs = @ + 1]
  /\ Replied(c, "image")
  /\ Side /\ UNCHANGED <<dq, sq>>

\* Mutant: the session is left to the command loop.
CloseNoDetach(c) ==
  /\ conn[c].open /\ conn' = [conn EXCEPT ![c].open = FALSE]
  /\ dq' = Append(dq, <<"disconnected", c>>)
  /\ Side /\ UNCHANGED <<net, sq>>

\* The client leaves, or the reader sees that the writer shut the socket:
\* cleanup_client.
Close(c) ==
  LET s == conn[c].att IN
  /\ conn[c].open /\ conn' = [conn EXCEPT ![c].open = FALSE]
  /\ sq' = IF s \in Sessions THEN [sq EXCEPT ![s] = Append(@, <<"detach", c>>)] ELSE sq
  /\ dq' = Append(dq, <<"disconnected", c>>)
  /\ Side /\ UNCHANGED net

-----------------------------------------------------------------------------
(* Writer threads.                                                         *)

Dequeued(n, c, k) == [n EXCEPT !.q[c] = SubSeq(@, k + 1, Len(@))]
Uncount(n, c, ms) ==
  [n EXCEPT !.bytes[c] = @ - Weighing(ms), !.global = @ - Len(ms)]
Rest == UNCHANGED <<clients, subs, dq, sq, conn, sent>>

Stops(c) ==
  /\ wr' = [wr EXCEPT ![c] = "drains"]
  /\ h' = [h EXCEPT !.copies = Changed(@, {c}), !.over = @ \ {c}]

\* Mutants: the writer goes on after an Evicted; a failed message stays counted.
WriteOn(c) ==
  /\ wr[c] = "runs" /\ net.q[c] # <<>>
  /\ net' = Dequeued(Uncount(net, c, <<Head(net.q[c])>>), c, 1)
  /\ UNCHANGED <<wr, h>> \/ Stops(c)
  /\ Rest
WriteFailKeeps(c) ==
  /\ wr[c] = "runs" /\ net.q[c] # <<>>
  /\ \/ Head(net.q[c]) # "evicted" /\ UNCHANGED <<wr, h>> /\ net' = Dequeued(Uncount(net, c, <<Head(net.q[c])>>), c, 1)
     \/ Stops(c) /\ net' = Dequeued(net, c, 1)
  /\ Rest

\* One pass of writer_thread: the message is written, or the write fails (a
\* broken socket, a client that does not read until the write timeout), and its
\* bytes leave the counters; after a failure or an Evicted the socket is shut
\* and the loop left.  Nobody but the writer looks into the queue, so a message
\* stays in it until it is uncounted.
Write(c) ==
  /\ wr[c] = "runs" /\ net.q[c] # <<>>
  /\ net' = Dequeued(Uncount(net, c, <<Head(net.q[c])>>), c, 1)
  /\ \/ Head(net.q[c]) # "evicted" /\ UNCHANGED <<wr, h>>
     \/ Stops(c)
  /\ Rest

\* Everyone who holds a sender has let go of it.
Names(q, c) == \E i \in DOMAIN q : q[i][1] \in {"attach", "subscribe"} /\ q[i][2] = c
Unheld(c) ==
  /\ ~conn[c].open /\ ~clients[c].in /\ ~Names(dq, c)
  /\ \A s \in Sessions : c \notin subs[s] /\ ~Names(sq[s], c)
Hangup(c) ==
  /\ wr[c] = "runs" /\ net.q[c] = <<>> /\ Unheld(c)
  /\ Stops(c)
  /\ Rest /\ UNCHANGED net

\* try_iter: what is still queued leaves the counters.
Drain(c) ==
  /\ wr[c] = "drains"
  /\ net' = Dequeued(Uncount(net, c, net.q[c]), c, Len(net.q[c]))
  /\ wr' = [wr EXCEPT ![c] = "drained"]
  /\ Rest /\ UNCHANGED h

\* The receiver is dropped with whatever came in after the drain.
End(c) ==
  /\ wr[c] = "drained"
  /\ h' = [h EXCEPT !.lost = @ + Len(net.q[c])]
  /\ net' = Dequeued(net, c, Len(net.q[c]))
  /\ wr' = [wr EXCEPT ![c] = "gone"]
  /\ Rest

Writer(c) == Write(c) \/ Hangup(c) \/ Drain(c) \/ End(c)

\* The socket is shut from "drains" on.
Shut(c) == wr[c] \in {"drains", "drained", "gone"}

-----------------------------------------------------------------------------
Next ==
  \/ Daemon
  \/ \E e \in Events : Emit(e)
  \/ \E s \in Sessions : HandleAttach(s) \/ HandleDetach(s) \/ HandleRemove(s)
  \/ \E c \in Clients :
       \/ Writer(c) \/ Close(c) \/ GetImage(c)
       \/ \E s \in Sessions : Attach(c, s)
       \/ \E k \in {"subscribe", "unsubscribe"}, w \in {"activity", "summary"} : Subscribe(c, k, w)

\* Threads run, and a reader wakes when its socket is shut; a client may stay
\* for ever and may never ask for anything.
Fairness ==
  /\ WF_vars(Daemon)
  /\ \A s \in Sessions : WF_vars(HandleAttach(s) \/ HandleDetach(s) \/ HandleRemove(s))
  /\ \A c \in Clients : WF_vars(Writer(c)) /\ WF_vars(Shut(c) /\ Close(c))

Spec == Init /\ [][Next]_vars /\ Fairness

-----------------------------------------------------------------------------
(* Properties.                                                             *)

Messages == {"image", "evicted", "other"}

TypeOK ==
  /\ net.q \in [Clients -> Seq(Messages)] /\ net.bytes \in [Clients -> Nat] /\ net.global \in Nat
  /\ wr \in [Clients -> {"runs", "drains", "drained", "gone"}]
  /\ clients \in [Clients -> [in : BOOLEAN, summary : BOOLEAN, activity : BOOLEAN, sessions : SUBSET Sessions]]
  /\ subs \in [Sessions -> SUBSET Clients] /\ sent \subseteq Events
  /\ conn \in [Clients -> [open : BOOLEAN, att : Sessions \cup {NoSession}, reqs : 0..MaxRequests]]

\* The counters are honest: in every well-typed state a client's counter is the
\* bytes not yet written, images apart, and the daemon's total is the sum over
\* the clients and what was lost in the window at a writer's end.  A total that
\* drifts up evicts healthy clients, one that drifts down sheds nobody.  A client
\* found over its cap, by a session thread or by the loop, is evicted unless its
\* connection ends first.
Unwritten == UNION {{c} \X DOMAIN net.q[c] : c \in Clients}
Evicting(c) == \E i \in DOMAIN dq : dq[i] = <<"evict", c>>
CountersAreHonest ==
  /\ TypeOK
  /\ \A c \in Clients : wr[c] # "gone" => net.bytes[c] = Weighing(net.q[c])
  /\ net.global = h.lost + Cardinality(Unwritten)
  /\ \A c \in h.over : Evicting(c) \/ GoingDown(c) \/ ~conn[c].open \/ ~clients[c].in

\* No copy too many and none too few: a client that is not on its way out, and
\* whose entry does not change while an event is under way, is queued the event
\* at most once, whichever of the three loops serve it and however it attaches
\* and switches meanwhile; and once the command loop is through with the event,
\* a client that has been subscribed to it throughout was queued a copy.
Pending(e) == \E i \in DOMAIN dq : dq[i][1] \in {"activity", "status"} /\ dq[i][2] = e
Wants(c, e) == clients[c].activity \/ (e \in Statuses /\ clients[c].summary)
QueuedOnce ==
  \A c \in Clients, e \in Events :
    /\ h.copies[c][e] <= 1
    /\ h.copies[c][e] = 0 /\ ~Pending(e) => ~Wants(c, e)

\* No ghosts: when the commands about a closed connection are handled, neither
\* the daemon nor a session thread holds the client any more, whatever attach,
\* track, subscribe and evict commands were under way when it closed.
About(q, c) == \E i \in DOMAIN q : Len(q[i]) > 1 /\ q[i][2] = c
NoGhosts ==
  \A c \in Clients :
    ~conn[c].open /\ ~About(dq, c) /\ (\A s \in Sessions : ~About(sq[s], c)) =>
      ~clients[c].in /\ \A s \in Sessions : c \notin subs[s]

\* A client that is evicted, or whose socket fails, is disconnected: its writer
\* ends and every sender of its queue is let go of, whether it reads or not.
EvictedIsGone == \A c \in Clients : GoingDown(c) ~> (wr[c] = "gone" /\ Unheld(c))
=============================================================================
