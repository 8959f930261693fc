-------------------------- MODULE LifecycleProofs --------------------------
(***************************************************************************)
(* Proofs about Lifecycle for any number of clients, sessions, commands    *)
(* and crashes: the index is what a restart would load, an id given out is *)
(* new, the set of sessions behaves as Catalogue says, and a cancel        *)
(* reaches the run it names and the child runs that work for it.           *)
(***************************************************************************)
EXTENDS Lifecycle, SequenceTheorems, FiniteSetTheorems, TLAPS

(* The shape of the state, with m threads and n spawn_subsession calls.    *)
Mail(n) ==
  [op : {"run", "edit", "status", "finished", "shutdown"}]
  \cup [op : {"attach", "detach"}, who : Clients]
  \cup [op : {"cancel"}, stream : Nat] \cup [op : {"child"}, call : 1..n]
Orders(n) ==
  [op : {"create"}, who : Clients, parent : {0} \cup Ids]
  \cup [op : {"attach", "get", "delete"}, who : Clients, id : Ids]
  \cup [op : {"flags"}, who : Clients, id : Ids, on : BOOLEAN]
  \cup [op : {"cancelReq"}, id : Ids, stream : Nat]
  \cup [op : {"spawn"}, call : 1..n]
  \cup [op : {"update", "status", "exited", "finalized"}, id : Ids]
ThreadState(n) ==
  [owner : Ids, pc : {"start", "loop", "exit", "sent", "gone"},
   inbox : Seq(Mail(n)), subs : SUBSET Clients,
   run : {"idle", "begun", "work", "ended"}, stream : Nat, caller : 0..n,
   cancel : BOOLEAN, stop : BOOLEAN]
CallState(m) ==
  [by : 1..m, pc : {"asked", "made", "wait", "done"}, child : 0..m, void : BOOLEAN]
ConnState(m) == [pc : {"idle", "wait", "reply"}, at : 0..m, got : 0..m]

Shapes ==
  /\ ops \in 0..MaxOps /\ Len(calls) =< ops
  /\ queue \in Seq(Orders(Len(calls)))
  /\ threads \in Seq(ThreadState(Len(calls)))
  /\ calls \in Seq(CallState(Len(threads)))
  /\ conn \in [Clients -> ConnState(Len(threads))]
  /\ active \in [Ids -> 0..Len(threads)] /\ children \in [Ids -> SUBSET Ids]
  /\ finals \in [Ids -> {"none", "delete", "clear"}]
  /\ created \in Nat

(* A reply names a thread, and a call whose child was made names it.       *)
Replies ==
  /\ \A c \in Clients : conn[c].pc = "reply" => conn[c].got # 0
  /\ \A k \in 1..Len(calls) : calls[k].pc \in {"made", "wait"} => calls[k].child # 0

Sets ==
  /\ listed \subseteq Ids /\ awake \subseteq listed /\ pinned \subseteq listed
  /\ marker \subseteq Ids /\ records \subseteq Ids /\ diskPinned \subseteq records
  /\ tomb \subseteq Ids

(* The index and the database agree.                                       *)
Agreement ==
  /\ listed = records \ tomb /\ pinned = diskPinned \ tomb
  /\ \A s \in listed : s \in awake <=> active[s] # 0

(* The sessions of the threads; the threads that may still write; the      *)
(* sessions whose SessionExited or DeleteFinalized is queued.              *)
Own == [t \in 1..Len(threads) |-> threads[t].owner]
Writers == {t \in 1..Len(threads) : threads[t].pc \in {"start", "loop", "exit"}}
Owners == {Own[t] : t \in Writers}
At(op) == {i \in 1..Len(queue) : queue[i].op = op}
Leaving == {queue[i].id : i \in At("exited")}
Finalizing == {queue[i].id : i \in At("finalized")}

(* One thread at most works for a session, or has its exit reported; the   *)
(* index points to it unless the session is being deleted.                 *)
OwnerPart ==
  /\ \A t, u \in Writers : Own[t] = Own[u] => t = u
  /\ Owners \cap Leaving = {}
  /\ \A s \in Ids : active[s] # 0 =>
       Own[active[s]] = s /\ s \in listed /\ (active[s] \in Writers \/ s \in Leaving)
  /\ \A t \in Writers : active[Own[t]] = t \/ Own[t] \in marker
  /\ \A s \in Leaving : active[s] # 0 \/ s \in marker

(* A delete that waits for a thread goes through its phases one by one; a  *)
(* session that a live thread may still write has a tombstone.             *)
MarkPart ==
  /\ marker \cap listed = {} /\ tomb \subseteq marker /\ Owners \cap marker \subseteq tomb
  /\ \A s \in Ids : finals[s] # "none" => s \in marker /\ s \notin Owners \cup Leaving
  /\ \A s \in Ids : finals[s] = "clear" => s \notin records
  /\ \A s \in Finalizing :
       s \in marker /\ s \notin tomb \cup Owners \cup Leaving /\ finals[s] = "none"

(* A report of a thread that has exited is ahead of its SessionExited, and *)
(* what ends a session is queued once.                                     *)
QueuePart ==
  /\ \A i \in 1..Len(queue) : queue[i].op \in {"update", "status"} =>
       queue[i].id \in Owners \/ \E j \in At("exited") : i < j /\ queue[j].id = queue[i].id
  /\ \A i, j \in At("exited") : queue[i].id = queue[j].id => i = j
  /\ \A i, j \in At("finalized") : queue[i].id = queue[j].id => i = j

(* Everything that names a session names an older one than the next.       *)
FreshPart ==
  /\ nextId \in 1..(created + 1)
  /\ \A s \in records \cup tomb \cup marker : s < nextId
  /\ \A t \in 1..Len(threads) : Own[t] < nextId

RoomPart == created + Cardinality(PendingCreates) =< MaxIds

IndexInv ==
  /\ Shapes /\ Replies /\ Sets /\ Agreement
  /\ OwnerPart /\ MarkPart /\ QueuePart /\ FreshPart /\ RoomPart

-----------------------------------------------------------------------------
(* Lemmas about the shapes.                                                *)

\* Numbers of threads and calls.
LEMMA Counts ==
  ASSUME Shapes
  PROVE  /\ Len(threads) \in Nat /\ Len(calls) \in Nat /\ Len(queue) \in Nat
         /\ DOMAIN threads = 1..Len(threads) /\ DOMAIN calls = 1..Len(calls)
         /\ DOMAIN queue = 1..Len(queue) /\ MaxIds \in Nat \ {0} /\ MaxOps \in Nat
         /\ \A t \in 1..Len(threads) : threads[t] \in ThreadState(Len(calls))
         /\ \A k \in 1..Len(calls) : calls[k] \in CallState(Len(threads))
         /\ \A i \in 1..Len(queue) : queue[i] \in Orders(Len(calls))
  BY BoundsAssumption DEF Shapes

\* More calls, more messages.
LEMMA Monotone ==
  ASSUME NEW m \in Nat, NEW n \in Nat, m =< n
  PROVE  /\ Mail(m) \subseteq Mail(n) /\ Orders(m) \subseteq Orders(n)
         /\ ThreadState(m) \subseteq ThreadState(n)
         /\ CallState(m) \subseteq CallState(n) /\ ConnState(m) \subseteq ConnState(n)
<1>0. 1..m \subseteq 1..n /\ 0..m \subseteq 0..n
  OBVIOUS
<1>1. Mail(m) \subseteq Mail(n)
  BY <1>0 DEF Mail
<1>2. Orders(m) \subseteq Orders(n)
  BY <1>0 DEF Orders
<1>3. Seq(Mail(m)) \subseteq Seq(Mail(n))
  BY <1>1, SeqMonotonic
<1>4. ThreadState(m) \subseteq ThreadState(n)
  BY <1>0, <1>3 DEF ThreadState
<1>5. CallState(m) \subseteq CallState(n) /\ ConnState(m) \subseteq ConnState(n)
  BY <1>0 DEF CallState, ConnState
<1>. QED BY <1>1, <1>2, <1>4, <1>5

\* What a session thread may be sent.
LEMMA MailForms ==
  ASSUME NEW n \in Nat
  PROVE  /\ \A op \in {"run", "edit", "status", "finished", "shutdown"} : [op |-> op] \in Mail(n)
         /\ CancelAll \in Mail(n) /\ Shutdown \in Mail(n)
         /\ \A k \in Nat : [op |-> "cancel", stream |-> k] \in Mail(n)
         /\ \A c \in Clients : [op |-> "attach", who |-> c] \in Mail(n)
                               /\ [op |-> "detach", who |-> c] \in Mail(n)
         /\ \A k \in 1..n : [op |-> "child", call |-> k] \in Mail(n)
  BY DEF Mail, CancelAll, Shutdown

\* What a message of each kind carries.
LEMMA MailFields ==
  ASSUME NEW n \in Nat, NEW m \in Mail(n)
  PROVE  /\ m.op \in {"attach", "detach"} => m.who \in Clients
         /\ m.op = "child" => m.call \in 1..n
         /\ m.op = "cancel" => m.stream \in Nat
  BY DEF Mail

\* What the command loop may be sent.
LEMMA OrderForms ==
  ASSUME NEW n \in Nat
  PROVE  /\ \A c \in Clients, p \in {0} \cup Ids :
              [op |-> "create", who |-> c, parent |-> p] \in Orders(n)
         /\ \A c \in Clients, s \in Ids, op \in {"attach", "get", "delete"} :
              [op |-> op, who |-> c, id |-> s] \in Orders(n)
         /\ \A c \in Clients, s \in Ids, on \in BOOLEAN :
              [op |-> "flags", who |-> c, id |-> s, on |-> on] \in Orders(n)
         /\ \A s \in Ids, k \in Nat : [op |-> "cancelReq", id |-> s, stream |-> k] \in Orders(n)
         /\ \A k \in 1..n : [op |-> "spawn", call |-> k] \in Orders(n)
         /\ \A s \in Ids, op \in {"update", "status", "exited", "finalized"} :
              [op |-> op, id |-> s] \in Orders(n)
  BY DEF Orders

\* What a command of each kind carries.
LEMMA OrderFields ==
  ASSUME NEW n \in Nat, NEW m \in Orders(n)
  PROVE  /\ m.op \in {"create", "attach", "get", "delete", "flags"} => m.who \in Clients
         /\ m.op = "create" => m.parent \in {0} \cup Ids
         /\ m.op = "spawn" => m.call \in 1..n
         /\ m.op = "cancelReq" => m.stream \in Nat
         /\ m.op \in {"attach", "get", "delete", "flags", "cancelReq", "update", "status",
                      "exited", "finalized"} => m.id \in Ids
         /\ m.op = "flags" => m.on \in BOOLEAN
  BY DEF Orders

\* The fields of a thread.
LEMMA ThreadFields ==
  ASSUME NEW n \in Nat, NEW th \in ThreadState(n)
  PROVE  /\ th.owner \in Ids /\ th.pc \in {"start", "loop", "exit", "sent", "gone"}
         /\ th.inbox \in Seq(Mail(n)) /\ th.subs \in SUBSET Clients
         /\ th.run \in {"idle", "begun", "work", "ended"} /\ th.stream \in Nat
         /\ th.caller \in 0..n /\ th.cancel \in BOOLEAN /\ th.stop \in BOOLEAN
  BY DEF ThreadState

\* The pending creates can be counted.
LEMMA PendingFinite ==
  ASSUME Shapes
  PROVE  IsFiniteSet(PendingCreates) /\ Cardinality(PendingCreates) \in Nat
<1>1. Len(queue) \in Nat /\ DOMAIN queue = 1..Len(queue)
  BY Counts
<1>2. IsFiniteSet(1..Len(queue))
  BY <1>1, FS_Interval
<1>3. PendingCreates \in SUBSET (1..Len(queue))
  BY <1>1 DEF PendingCreates
<1>. QED BY <1>2, <1>3, FS_Subset, FS_CardinalityType

\* The type invariant of the run, from the shapes.
LEMMA ShapesAreTyped ==
  ASSUME Shapes, Sets, FreshPart, RoomPart
  PROVE  TypeOK
<1>1. Len(calls) \in Nat /\ Len(calls) =< MaxOps /\ MaxOps \in Nat /\ MaxIds \in Nat
  BY Counts DEF Shapes
<1>2. 1..Len(calls) \subseteq Threads
  BY <1>1 DEF Threads
<1>3. Orders(Len(calls)) \subseteq Commands
  BY <1>2 DEF Orders, Commands
<1>4. Mail(Len(calls)) \subseteq SessionCommands
  BY <1>2 DEF Mail, SessionCommands
<1>5. nextId \in 1..(MaxIds + 1)
  <2>2. Cardinality(PendingCreates) \in Nat
    BY PendingFinite
  <2>. QED BY <2>2, <1>1 DEF FreshPart, RoomPart, Shapes
<1>6. ASSUME NEW t \in DOMAIN threads
      PROVE  /\ threads[t].owner \in Ids /\ threads[t].subs \subseteq Clients
             /\ threads[t].pc \in {"start", "loop", "exit", "sent", "gone"}
             /\ threads[t].run \in {"idle", "begun", "work", "ended"}
             /\ threads[t].caller \in {0} \cup DOMAIN calls
             /\ \A i \in DOMAIN threads[t].inbox : threads[t].inbox[i] \in SessionCommands
  <2>1. threads[t] \in ThreadState(Len(calls)) /\ DOMAIN calls = 1..Len(calls)
    BY Counts
  <2>2. threads[t].inbox \in Seq(SessionCommands)
    BY <2>1, <1>1, <1>4, ThreadFields, SeqMonotonic
  <2>3. \A i \in DOMAIN threads[t].inbox : threads[t].inbox[i] \in SessionCommands
    BY <2>2
  <2>. QED BY <2>1, <2>3, <1>1, ThreadFields
<1>7. ASSUME NEW k \in DOMAIN calls
      PROVE  /\ calls[k].by \in DOMAIN threads /\ calls[k].child \in {0} \cup DOMAIN threads
             /\ calls[k].pc \in {"asked", "made", "wait", "done"}
  BY Counts DEF CallState
<1>8. \A c \in Clients : conn[c].at \in {0} \cup DOMAIN threads
  BY Counts DEF Shapes, ConnState
<1>9. \A i \in DOMAIN queue : queue[i] \in Commands
  BY <1>3, Counts
<1>. QED
  BY <1>5, <1>6, <1>7, <1>8, <1>9 DEF TypeOK, Shapes, Sets

-----------------------------------------------------------------------------
(* The command channel: what posting and taking commands does to it.       *)

Quiet == {"create", "attach", "get", "delete", "flags", "cancelReq", "spawn", "update", "status"}

\* Commands that end nothing are posted, the reports only by threads that may
\* still write: the order in the channel stays right.
LEMMA PostsQuiet ==
  ASSUME Shapes, QueuePart, NEW n \in Nat, NEW ms \in Seq(Orders(n)),
         queue \in Seq(Orders(n)), queue' = queue \o ms, Owners' = Owners,
         \A i \in 1..Len(ms) : /\ ms[i].op \in Quiet
                               /\ ms[i].op \in {"update", "status"} => ms[i].id \in Owners
  PROVE  Leaving' = Leaving /\ Finalizing' = Finalizing /\ QueuePart'
<1>1. /\ Len(queue) \in Nat /\ Len(ms) \in Nat /\ Len(queue') = Len(queue) + Len(ms)
      /\ \A i \in 1..Len(queue) : queue'[i] = queue[i]
      /\ \A i \in 1..Len(queue') : i > Len(queue) => i - Len(queue) \in 1..Len(ms)
                                   /\ queue'[i] = ms[i - Len(queue)]
  <2>1. /\ Len(queue \o ms) = Len(queue) + Len(ms)
        /\ \A i \in 1..(Len(queue) + Len(ms)) : (queue \o ms)[i] =
                     IF i <= Len(queue) THEN queue[i] ELSE ms[i - Len(queue)]
    BY ConcatProperties
  <2>2. Len(queue) \in Nat /\ Len(ms) \in Nat
    OBVIOUS
  <2>. QED BY <2>1, <2>2
<1>2. \A i \in 1..Len(queue') : i \notin 1..Len(queue) =>
        /\ queue'[i].op \in Quiet
        /\ queue'[i].op \in {"update", "status"} => queue'[i].id \in Owners
  <2>. SUFFICES ASSUME NEW i \in 1..Len(queue'), i \notin 1..Len(queue)
                PROVE  /\ queue'[i].op \in Quiet
                       /\ queue'[i].op \in {"update", "status"} => queue'[i].id \in Owners
    OBVIOUS
  <2>1. i > Len(queue)
    BY <1>1
  <2>2. PICK j \in 1..Len(ms) : queue'[i] = ms[j]
    BY <2>1, <1>1
  <2>. QED BY <2>2
<1>3. 1..Len(queue) \subseteq 1..Len(queue')
  BY <1>1
<1>4. At("exited")' = At("exited") /\ At("finalized")' = At("finalized")
  BY <1>1, <1>2, <1>3 DEF At, Quiet
<1>5. At("exited") \subseteq 1..Len(queue) /\ At("finalized") \subseteq 1..Len(queue)
  BY DEF At
<1>6. Leaving' = Leaving /\ Finalizing' = Finalizing
  BY <1>1, <1>4, <1>5 DEF Leaving, Finalizing
<1>7. QueuePart'
  <2>1. ASSUME NEW i \in 1..Len(queue'), queue'[i].op \in {"update", "status"}
        PROVE  \/ queue'[i].id \in Owners'
               \/ \E j \in At("exited")' : i < j /\ queue'[j].id = queue'[i].id
    <3>1. CASE i \in 1..Len(queue)
      BY <3>1, <2>1, <1>1, <1>4, <1>5 DEF QueuePart
    <3>2. CASE i \notin 1..Len(queue)
      BY <3>2, <2>1, <1>2
    <3>. QED BY <3>1, <3>2
  <2>2. /\ \A i, j \in At("exited")' : queue'[i].id = queue'[j].id => i = j
        /\ \A i, j \in At("finalized")' : queue'[i].id = queue'[j].id => i = j
    BY <1>1, <1>4, <1>5 DEF QueuePart
  <2>. QED BY <2>1, <2>2 DEF QueuePart
<1>. QED BY <1>6, <1>7

\* The first command leaves the channel.  A report names a session with a
\* thread that may still write, or whose SessionExited is queued.
LEMMA TakesFirst ==
  ASSUME Shapes, QueuePart, queue # <<>>, queue' = Tail(queue), Owners \subseteq Owners'
  PROVE  /\ Leaving' = IF Head(queue).op = "exited" THEN Leaving \ {Head(queue).id} ELSE Leaving
         /\ Finalizing' = IF Head(queue).op = "finalized" THEN Finalizing \ {Head(queue).id}
                          ELSE Finalizing
         /\ Head(queue).op = "exited" => Head(queue).id \in Leaving
         /\ Head(queue).op = "finalized" => Head(queue).id \in Finalizing
         /\ Head(queue).op \in {"update", "status"} => Head(queue).id \in Owners \cup Leaving
         /\ QueuePart'
<1>. DEFINE h == Head(queue)
<1>1. /\ Len(queue) \in Nat /\ Len(queue) > 0 /\ Len(queue') = Len(queue) - 1 /\ h = queue[1]
      /\ \A i \in 1..Len(queue') : queue'[i] = queue[i + 1]
  BY DEF Shapes
<1>. HIDE DEF h
<1>2. ASSUME NEW op
      PROVE  /\ \A i \in At(op)' : i + 1 \in At(op) /\ queue'[i] = queue[i + 1] /\ i \in Nat
             /\ \A j \in At(op) : j # 1 => j - 1 \in At(op)' /\ queue'[j - 1] = queue[j] /\ j \in Nat
             /\ 1 \in At(op) <=> h.op = op
             /\ At(op) \subseteq Nat
  BY <1>1 DEF At
<1>3. ASSUME NEW op, \A i, j \in At(op) : queue[i].id = queue[j].id => i = j
      PROVE  /\ {queue'[i].id : i \in At(op)'} = {queue[i].id : i \in At(op)} \ (IF h.op = op THEN {h.id} ELSE {})
             /\ \A i, j \in At(op)' : queue'[i].id = queue'[j].id => i = j
  <2>1. \A i, j \in At(op)' : queue'[i].id = queue'[j].id => i = j
    <3>. SUFFICES ASSUME NEW i \in At(op)', NEW j \in At(op)', queue'[i].id = queue'[j].id
                  PROVE  i = j
      OBVIOUS
    <3>1. /\ i + 1 \in At(op) /\ queue'[i] = queue[i + 1] /\ i \in Nat
          /\ j + 1 \in At(op) /\ queue'[j] = queue[j + 1] /\ j \in Nat
      BY <1>2
    <3>2. i + 1 = j + 1
      BY <3>1, <1>3
    <3>. QED BY <3>1, <3>2
  <2>2. ASSUME NEW i \in At(op)'
        PROVE  queue'[i].id \in {queue[j].id : j \in At(op)} /\ (h.op = op => queue'[i].id # h.id)
    <3>1. i + 1 \in At(op) /\ queue'[i] = queue[i + 1] /\ i \in 1..Len(queue')
      BY <1>2 DEF At
    <3>2. h.op = op => queue[i + 1].id # queue[1].id
      BY <3>1, <1>1, <1>2, <1>3
    <3>. QED BY <3>1, <3>2, <1>1
  <2>3. ASSUME NEW j \in At(op), h.op = op => queue[j].id # h.id
        PROVE  queue[j].id \in {queue'[i].id : i \in At(op)'}
    <3>1. j # 1
      BY <2>3, <1>1, <1>2
    <3>2. j - 1 \in At(op)' /\ queue'[j - 1] = queue[j]
      BY <3>1, <1>2
    <3>. QED BY <3>2
  <2>. DEFINE A == {queue'[i].id : i \in At(op)'}
              B == {queue[i].id : i \in At(op)}
  <2>4. /\ \A x \in A : x \in B /\ (h.op = op => x # h.id)
        /\ \A x \in B : (h.op = op => x # h.id) => x \in A
    BY <2>2, <2>3
  <2>5. A = B \ (IF h.op = op THEN {h.id} ELSE {})
    BY <2>4
  <2>. QED BY <2>1, <2>5
<1>4. /\ Leaving' = Leaving \ (IF h.op = "exited" THEN {h.id} ELSE {})
      /\ Finalizing' = Finalizing \ (IF h.op = "finalized" THEN {h.id} ELSE {})
      /\ \A i, j \in At("exited")' : queue'[i].id = queue'[j].id => i = j
      /\ \A i, j \in At("finalized")' : queue'[i].id = queue'[j].id => i = j
  <2>1. /\ \A i, j \in At("exited") : queue[i].id = queue[j].id => i = j
        /\ \A i, j \in At("finalized") : queue[i].id = queue[j].id => i = j
    BY DEF QueuePart
  <2>. QED BY <2>1, <1>3 DEF Leaving, Finalizing
<1>5. h.op = "exited" => h.id \in Leaving
  BY <1>1, <1>2 DEF Leaving
<1>6. h.op = "finalized" => h.id \in Finalizing
  BY <1>1, <1>2 DEF Finalizing
<1>7. h.op \in {"update", "status"} => h.id \in Owners \cup Leaving
  BY <1>1 DEF QueuePart, Leaving
<1>8. ASSUME NEW i \in 1..Len(queue'), queue'[i].op \in {"update", "status"}
      PROVE  \/ queue'[i].id \in Owners'
             \/ \E j \in At("exited")' : i < j /\ queue'[j].id = queue'[i].id
  <2>1. i + 1 \in 1..Len(queue) /\ queue'[i] = queue[i + 1] /\ i \in Nat
    BY <1>1
  <2>2. CASE queue[i + 1].id \in Owners
    BY <2>1, <2>2
  <2>3. CASE \E j \in At("exited") : i + 1 < j /\ queue[j].id = queue[i + 1].id
    <3>1. PICK j \in At("exited") : i + 1 < j /\ queue[j].id = queue[i + 1].id
      BY <2>3
    <3>2. j \in Nat /\ j # 1
      BY <3>1, <2>1, <1>2
    <3>3. j - 1 \in At("exited")' /\ queue'[j - 1] = queue[j]
      BY <3>2, <1>2
    <3>4. i < j - 1
      BY <3>1, <3>2, <2>1
    <3>. QED BY <3>1, <3>3, <3>4, <2>1
  <2>. QED BY <2>1, <2>2, <2>3, <1>8 DEF QueuePart
<1>9. QueuePart'
  BY <1>4, <1>8 DEF QueuePart
<1>. QED BY <1>4, <1>5, <1>6, <1>7, <1>9 DEF h

\* Commands that create nothing leave the room there is.
LEMMA PendingKept ==
  ASSUME Shapes, NEW n \in Nat, NEW ms \in Seq(Orders(n)),
         queue \in Seq(Orders(n)), queue' = queue \o ms,
         \A i \in 1..Len(ms) : ms[i].op \notin {"create", "spawn"}
  PROVE  PendingCreates' = PendingCreates
<1>1. /\ Len(queue \o ms) = Len(queue) + Len(ms) /\ queue \o ms \in Seq(Orders(n))
      /\ \A i \in 1..(Len(queue) + Len(ms)) : (queue \o ms)[i] =
                   IF i <= Len(queue) THEN queue[i] ELSE ms[i - Len(queue)]
  BY ConcatProperties
<1>2. /\ Len(queue) \in Nat /\ Len(ms) \in Nat /\ DOMAIN queue = 1..Len(queue)
      /\ DOMAIN queue' = 1..(Len(queue) + Len(ms))
  BY <1>1
<1>3. \A i \in DOMAIN queue' : i \notin DOMAIN queue => queue'[i].op \notin {"create", "spawn"}
  <2>. SUFFICES ASSUME NEW i \in DOMAIN queue', i \notin DOMAIN queue
                PROVE  queue'[i].op \notin {"create", "spawn"}
    OBVIOUS
  <2>1. i - Len(queue) \in 1..Len(ms) /\ queue'[i] = ms[i - Len(queue)]
    BY <1>1, <1>2
  <2>. QED BY <2>1
<1>4. \A i \in DOMAIN queue : i \in DOMAIN queue' /\ queue'[i] = queue[i]
  BY <1>1, <1>2
<1>. QED BY <1>3, <1>4 DEF PendingCreates

\* Posting one command uses the room of one session at most.
LEMMA PendingOneMore ==
  ASSUME Shapes, NEW m, queue' = Append(queue, m)
  PROVE  Cardinality(PendingCreates') =< Cardinality(PendingCreates) + 1
<1>. DEFINE P == PendingCreates \cup {Len(queue) + 1}
<1>1. Len(queue) \in Nat /\ DOMAIN queue = 1..Len(queue)
  BY DEF Shapes
<1>2. DOMAIN queue' = 1..(Len(queue) + 1) /\ \A i \in 1..Len(queue) : queue'[i] = queue[i]
  BY <1>1 DEF Shapes
<1>3. PendingCreates' \in SUBSET P
  BY <1>1, <1>2 DEF PendingCreates
<1>4. IsFiniteSet(PendingCreates) /\ Cardinality(PendingCreates) \in Nat
  BY PendingFinite
<1>5. IsFiniteSet(P) /\ Cardinality(P) \in Nat /\ Cardinality(P) =< Cardinality(PendingCreates) + 1
  <2>1. /\ IsFiniteSet(P)
        /\ Cardinality(P) = IF Len(queue) + 1 \in PendingCreates THEN Cardinality(PendingCreates)
                            ELSE Cardinality(PendingCreates) + 1
    BY <1>4, FS_AddElement
  <2>. QED BY <2>1, <1>4
<1>6. Cardinality(PendingCreates') =< Cardinality(P) /\ Cardinality(PendingCreates') \in Nat
  BY <1>3, <1>5, FS_Subset, FS_CardinalityType
<1>. QED BY <1>4, <1>5, <1>6

\* Serving a CreateSession frees the room it took.
LEMMA PendingServed ==
  ASSUME Shapes, queue # <<>>, queue' = Tail(queue)
  PROVE  /\ Cardinality(PendingCreates') \in Nat
         /\ Cardinality(PendingCreates') =< Cardinality(PendingCreates)
         /\ Head(queue).op \in {"create", "spawn"} =>
              Cardinality(PendingCreates') + 1 =< Cardinality(PendingCreates)
<1>. DEFINE P == PendingCreates \ {1}
            f == [i \in PendingCreates' |-> i + 1]
<1>1. Len(queue) \in Nat /\ DOMAIN queue = 1..Len(queue) /\ Len(queue) > 0 /\ Head(queue) = queue[1]
  BY DEF Shapes
<1>2. DOMAIN queue' = 1..(Len(queue) - 1) /\ \A i \in 1..(Len(queue) - 1) : queue'[i] = queue[i + 1]
  BY <1>1 DEF Shapes
<1>3. \A i \in PendingCreates' : i \in Nat /\ i + 1 \in P
  BY <1>1, <1>2 DEF PendingCreates
<1>4. f \in Injection(PendingCreates', P)
  BY <1>3 DEF Injection, IsInjective
<1>5. IsFiniteSet(PendingCreates) /\ Cardinality(PendingCreates) \in Nat
  BY PendingFinite
<1>6. /\ IsFiniteSet(P) /\ Cardinality(P) \in Nat
      /\ Cardinality(P) = IF 1 \in PendingCreates THEN Cardinality(PendingCreates) - 1
                          ELSE Cardinality(PendingCreates)
  BY <1>5, FS_RemoveElement, FS_CardinalityType
<1>7. Head(queue).op \in {"create", "spawn"} => 1 \in PendingCreates
  BY <1>1 DEF PendingCreates
<1>8. Cardinality(PendingCreates') =< Cardinality(P) /\ Cardinality(PendingCreates') \in Nat
  BY <1>4, <1>6, FS_Injection, FS_CardinalityType
<1>. QED BY <1>5, <1>6, <1>7, <1>8

-----------------------------------------------------------------------------
(* The threads: what one step does to the list.                            *)

\* A function on 1..n is a sequence of length n.
LEMMA FunctionIsSeq ==
  ASSUME NEW S, NEW n \in Nat, NEW f \in [1..n -> S]
  PROVE  f \in Seq(S) /\ Len(f) = n /\ DOMAIN f = 1..n
<1>1. f \in Seq(S)
  BY SeqDef
<1>2. DOMAIN f = 1..n /\ DOMAIN f = 1..Len(f) /\ Len(f) \in Nat
  BY <1>1, LenProperties
<1>. QED BY <1>1, <1>2

\* The owners and the writing threads are what the list says of each thread.
LEMMA SameThreads ==
  ASSUME Shapes, Len(threads') = Len(threads),
         \A u \in 1..Len(threads) :
           /\ threads'[u].owner = threads[u].owner
           /\ threads'[u].pc \in {"start", "loop", "exit"} <=>
                threads[u].pc \in {"start", "loop", "exit"}
  PROVE  Own' = Own /\ Writers' = Writers /\ Owners' = Owners
<1>1. Own' = Own /\ Writers' = Writers
  BY DEF Own, Writers
<1>. QED BY <1>1 DEF Owners

\* One thread changes its state.
LEMMA ThreadBecomes ==
  ASSUME Shapes, NEW t \in 1..Len(threads), NEW th \in ThreadState(Len(calls)),
         threads' = [threads EXCEPT ![t] = th]
  PROVE  /\ threads' \in Seq(ThreadState(Len(calls))) /\ Len(threads') = Len(threads)
         /\ \A u \in 1..Len(threads) : threads'[u] = IF u = t THEN th ELSE threads[u]
  BY ExceptSeq DEF Shapes

\* A mailing changes inboxes only.
LEMMA MailedKeeps ==
  ASSUME Shapes, NEW mail \in [1..Len(threads) -> Seq(Mail(Len(calls)))],
         threads' = Mailed(mail)
  PROVE  /\ threads' \in Seq(ThreadState(Len(calls))) /\ Len(threads') = Len(threads)
         /\ \A u \in 1..Len(threads) :
              threads'[u] = IF Reads(u) THEN [threads[u] EXCEPT !.inbox = @ \o mail[u]]
                            ELSE threads[u]
         /\ Own' = Own /\ Writers' = Writers /\ Owners' = Owners
<1>. DEFINE n == Len(calls)
            After(u) == IF Reads(u) THEN [threads[u] EXCEPT !.inbox = @ \o mail[u]] ELSE threads[u]
<1>1. n \in Nat /\ Len(threads) \in Nat /\ DOMAIN threads = 1..Len(threads)
  BY Counts
<1>2. ASSUME NEW u \in 1..Len(threads)
      PROVE  /\ After(u) \in ThreadState(n)
             /\ After(u).owner = threads[u].owner /\ After(u).pc = threads[u].pc
  <2>1. threads[u] \in ThreadState(n)
    BY Counts
  <2>2. threads[u].inbox \in Seq(Mail(n)) /\ mail[u] \in Seq(Mail(n))
    BY <2>1, <1>1, ThreadFields
  <2>3. threads[u].inbox \o mail[u] \in Seq(Mail(n))
    BY <2>2, ConcatProperties
  <2>4. [threads[u] EXCEPT !.inbox = threads[u].inbox \o mail[u]] \in ThreadState(n)
    BY <2>1, <2>3 DEF ThreadState
  <2>5. CASE Reads(u)
    BY <2>5, <2>1, <2>4 DEF ThreadState
  <2>6. CASE ~Reads(u)
    BY <2>6, <2>1
  <2>. QED BY <2>5, <2>6
<1>3. threads' = [u \in 1..Len(threads) |-> After(u)]
  BY <1>1 DEF Mailed
<1>4. threads' \in [1..Len(threads) -> ThreadState(n)]
  BY <1>2, <1>3
<1>5. threads' \in Seq(ThreadState(n)) /\ Len(threads') = Len(threads)
  BY <1>1, <1>4, FunctionIsSeq
<1>6. \A u \in 1..Len(threads) : threads'[u] = After(u)
  BY <1>3
<1>7. Own' = Own /\ Writers' = Writers /\ Owners' = Owners
  BY <1>2, <1>5, <1>6, SameThreads
<1>. QED BY <1>5, <1>6, <1>7

-----------------------------------------------------------------------------
(* Steps that change neither the index nor the set of threads: clients ask,*)
(* threads serve their inboxes, runs begin and end.                        *)

Calm ==
  /\ Len(threads') = Len(threads) /\ Own' = Own /\ Writers' = Writers /\ Owners' = Owners
  /\ UNCHANGED <<index, diskPinned, tomb, finals, created>>
  /\ records \subseteq records' /\ records' \subseteq records \cup Owners

\* A thread that may still write its record has one the index shows, or a
\* tombstone: what it writes changes nothing a restart would load.
LEMMA WritersAreKnown ==
  ASSUME Shapes, Agreement, OwnerPart, MarkPart
  PROVE  Owners \subseteq listed \cup tomb /\ Owners \subseteq Ids
<1>. SUFFICES ASSUME NEW t \in Writers
              PROVE  Own[t] \in listed \cup tomb /\ Own[t] \in Ids
  BY DEF Owners
<1>1. t \in 1..Len(threads) /\ Own[t] \in Owners
  BY DEF Writers, Owners
<1>2. Own[t] \in Ids
  BY <1>1, Counts DEF Own, ThreadState
<1>3. CASE active[Own[t]] = t
  BY <1>1, <1>2, <1>3, Counts DEF OwnerPart
<1>4. CASE Own[t] \in marker
  BY <1>1, <1>2, <1>4 DEF MarkPart
<1>. QED BY <1>2, <1>3, <1>4 DEF OwnerPart

\* A calm step keeps the invariant, if it keeps the shapes and the channel.
LEMMA CalmKeeps ==
  ASSUME IndexInv, Calm,
         queue' \in Seq(Orders(Len(calls'))), threads' \in Seq(ThreadState(Len(calls'))),
         calls' \in Seq(CallState(Len(threads))), conn' \in [Clients -> ConnState(Len(threads))],
         ops' \in 0..MaxOps, Len(calls') =< ops',
         Replies', RoomPart', Leaving' = Leaving, Finalizing' = Finalizing, QueuePart'
  PROVE  IndexInv'
<1>1. Shapes'
  BY DEF IndexInv, Shapes, Calm, index
<1>2. Owners \subseteq listed \cup tomb /\ Owners \subseteq Ids
  BY WritersAreKnown DEF IndexInv
<1>3. Agreement' /\ Sets'
  BY <1>2 DEF IndexInv, Agreement, Sets, Calm, index
<1>4. OwnerPart'
  BY DEF IndexInv, OwnerPart, Calm, index
<1>5. MarkPart'
  BY DEF IndexInv, MarkPart, Calm, index
<1>6. FreshPart'
  <2>1. \A s \in Owners : s < nextId
    BY DEF IndexInv, FreshPart, Owners, Writers
  <2>. QED BY <2>1 DEF IndexInv, FreshPart, Calm, index
<1>. QED BY <1>1, <1>3, <1>4, <1>5, <1>6 DEF IndexInv

\* The same when nothing is posted.
LEMMA SilentKeeps ==
  ASSUME IndexInv, Calm, queue' = queue, Len(calls') = Len(calls),
         threads' \in Seq(ThreadState(Len(calls))),
         calls' \in Seq(CallState(Len(threads))), conn' \in [Clients -> ConnState(Len(threads))],
         ops' \in 0..MaxOps, ops =< ops', Replies'
  PROVE  IndexInv'
<1>1. Leaving' = Leaving /\ Finalizing' = Finalizing
  BY DEF Leaving, Finalizing, At
<1>2. QueuePart'
  BY DEF IndexInv, QueuePart, At, Calm
<1>3. RoomPart'
  BY DEF IndexInv, RoomPart, PendingCreates, Calm
<1>4. queue' \in Seq(Orders(Len(calls'))) /\ Len(calls') =< ops' /\ threads' \in Seq(ThreadState(Len(calls')))
  BY Counts DEF IndexInv, Shapes
<1>. QED BY <1>1, <1>2, <1>3, <1>4, CalmKeeps

\* A command appended is a list of one command appended.
LEMMA AppendAsConcat ==
  ASSUME NEW S, NEW q \in Seq(S), NEW m \in S
  PROVE  /\ Append(q, m) = q \o <<m>> /\ Append(q, m) \in Seq(S)
         /\ <<m>> \in Seq(S) /\ Len(<<m>>) = 1 /\ <<m>>[1] = m
<1>1. <<m>> \in Seq(S) /\ Len(<<m>>) = 1 /\ <<m>>[1] = m
  OBVIOUS
<1>2. /\ Append(q, m) \in Seq(S) /\ Len(Append(q, m)) = Len(q) + 1 /\ Len(q) \in Nat
      /\ \A i \in 1..Len(q) : Append(q, m)[i] = q[i]
      /\ Append(q, m)[Len(q) + 1] = m
  OBVIOUS
<1>3. /\ q \o <<m>> \in Seq(S) /\ Len(q \o <<m>>) = Len(q) + 1
      /\ \A i \in 1..(Len(q) + 1) : (q \o <<m>>)[i] = IF i <= Len(q) THEN q[i] ELSE <<m>>[i - Len(q)]
  BY <1>1, ConcatProperties
<1>4. \A i \in 1..(Len(q) + 1) : Append(q, m)[i] = (q \o <<m>>)[i]
  BY <1>1, <1>2, <1>3
<1>. QED BY <1>1, <1>2, <1>3, <1>4, SeqEqual

\* A calm step that posts commands which end nothing.
LEMMA PostingKeeps ==
  ASSUME IndexInv, Calm, Len(calls') \in Nat, Len(calls) =< Len(calls'), Len(calls') =< ops',
         NEW ms \in Seq(Orders(Len(calls'))), queue' = queue \o ms,
         \A i \in 1..Len(ms) : /\ ms[i].op \in Quiet
                               /\ ms[i].op \in {"update", "status"} => ms[i].id \in Owners,
         \/ \A i \in 1..Len(ms) : ms[i].op \notin {"create", "spawn"}
         \/ \E m \in Orders(Len(calls')) : ms = <<m>> /\ RoomForOne,
         threads' \in Seq(ThreadState(Len(calls'))),
         calls' \in Seq(CallState(Len(threads))), conn' \in [Clients -> ConnState(Len(threads))],
         ops' \in 0..MaxOps, Replies'
  PROVE  IndexInv'
<1>. DEFINE n == Len(calls')
<1>1. n \in Nat /\ queue \in Seq(Orders(n)) /\ Shapes /\ QueuePart /\ Len(queue) \in Nat
  <2>1. Orders(Len(calls)) \subseteq Orders(n)
    BY Counts, Monotone DEF IndexInv
  <2>. QED BY <2>1, Counts, SeqMonotonic DEF IndexInv, Shapes
<1>2. queue' \in Seq(Orders(n))
  BY <1>1, ConcatProperties
<1>. HIDE DEF n
<1>3. Leaving' = Leaving /\ Finalizing' = Finalizing /\ QueuePart'
  BY <1>1, PostsQuiet DEF Calm, n
<1>4. RoomPart'
  <2>1. CASE \A i \in 1..Len(ms) : ms[i].op \notin {"create", "spawn"}
    <3>1. PendingCreates' = PendingCreates
      BY <2>1, <1>1, PendingKept DEF n
    <3>. QED BY <3>1 DEF IndexInv, RoomPart, Calm
  <2>2. CASE \E m \in Orders(n) : ms = <<m>> /\ RoomForOne
    <3>1. PICK m \in Orders(n) : ms = <<m>> /\ RoomForOne
      BY <2>2
    <3>2. queue' = Append(queue, m)
      BY <3>1, <1>1, AppendAsConcat
    <3>3. Cardinality(PendingCreates') =< Cardinality(PendingCreates) + 1
      BY <3>2, <1>1, PendingOneMore
    <3>4. created' = created /\ created \in Nat /\ Cardinality(PendingCreates) \in Nat /\ MaxIds \in Nat
      BY <1>1, Counts, PendingFinite DEF Calm, Shapes
    <3>5. PendingCreates' \in SUBSET (1..(Len(queue) + 1))
      BY <3>2, <1>1 DEF PendingCreates
    <3>6. Cardinality(PendingCreates') \in Nat
      <4>1. IsFiniteSet(1..(Len(queue) + 1))
        BY <1>1, FS_Interval
      <4>2. IsFiniteSet(PendingCreates')
        BY <4>1, <3>5, FS_Subset
      <4>. QED BY <4>2, FS_CardinalityType
    <3>. QED BY <3>1, <3>3, <3>4, <3>6 DEF RoomPart, RoomForOne
  <2>. QED BY <2>1, <2>2 DEF n
<1>. QED BY <1>2, <1>3, <1>4, CalmKeeps DEF n

\* The same for one command.
LEMMA PostOneKeeps ==
  ASSUME IndexInv, Calm, Len(calls') \in Nat, Len(calls) =< Len(calls'), Len(calls') =< ops',
         NEW m \in Orders(Len(calls')), queue' = Append(queue, m), m.op \in Quiet,
         m.op \in {"update", "status"} => m.id \in Owners,
         m.op \in {"create", "spawn"} => RoomForOne,
         threads' \in Seq(ThreadState(Len(calls'))),
         calls' \in Seq(CallState(Len(threads))), conn' \in [Clients -> ConnState(Len(threads))],
         ops' \in 0..MaxOps, Replies'
  PROVE  IndexInv'
<1>. DEFINE n == Len(calls')
<1>1. n \in Nat /\ queue \in Seq(Orders(n))
  <2>1. Orders(Len(calls)) \subseteq Orders(n)
    BY Counts, Monotone DEF IndexInv
  <2>. QED BY <2>1, SeqMonotonic DEF IndexInv, Shapes
<1>2. PICK ms \in Seq(Orders(n)) : ms = <<m>> /\ queue' = queue \o ms /\ Len(ms) = 1 /\ ms[1] = m
  <2>1. /\ Append(queue, m) = queue \o <<m>>
        /\ <<m>> \in Seq(Orders(n)) /\ Len(<<m>>) = 1 /\ <<m>>[1] = m
    BY <1>1, AppendAsConcat
  <2>. QED BY <2>1
<1>3. /\ \A i \in 1..Len(ms) : ms[i] = m
      /\ \A i \in 1..Len(ms) : /\ ms[i].op \in Quiet
                               /\ ms[i].op \in {"update", "status"} => ms[i].id \in Owners
  BY <1>2
<1>4. \/ \A i \in 1..Len(ms) : ms[i].op \notin {"create", "spawn"}
      \/ \E x \in Orders(n) : ms = <<x>> /\ RoomForOne
  BY <1>2, <1>3
<1>. HIDE DEF n
<1>. QED BY <1>2, <1>3, <1>4, PostingKeeps DEF n

\* A client's command is queued; it waits for the answer.
LEMMA AskKeeps ==
  ASSUME IndexInv, NEW c \in Clients, NEW m \in Orders(Len(calls)), Ask(c, m),
         m.op \in {"create", "attach", "get", "delete", "flags"},
         m.op = "create" => RoomForOne
  PROVE  IndexInv'
<1>1. UNCHANGED <<index, threads, calls, finals, disk, created>> /\ queue' = Append(queue, m)
      /\ ops' \in 0..MaxOps /\ ops =< ops' /\ ops \in Nat
  BY BoundsAssumption DEF Ask, Spend, IndexInv, Shapes
<1>2. Shapes /\ Len(calls') \in Nat /\ Len(calls) =< Len(calls') /\ Len(calls') =< ops'
  BY <1>1, Counts DEF IndexInv, Shapes
<1>3. Calm
  BY <1>1 DEF Calm, index, disk, Own, Writers, Owners
<1>4. conn' \in [Clients -> ConnState(Len(threads))] /\ Replies'
  BY <1>1, <1>2 DEF Ask, IndexInv, Shapes, ConnState, Replies
<1>5. threads' \in Seq(ThreadState(Len(calls'))) /\ calls' \in Seq(CallState(Len(threads)))
      /\ m \in Orders(Len(calls'))
  BY <1>1, <1>2 DEF Shapes
<1>6. m.op \in Quiet /\ m.op \notin {"update", "status", "spawn"}
  BY DEF Quiet
<1>. QED BY <1>1, <1>2, <1>3, <1>4, <1>5, <1>6, PostOneKeeps

\* The clients' commands to the command loop.
LEMMA ClientAsks ==
  ASSUME IndexInv, NEW c \in Clients,
         ClientCreate(c) \/ ClientAttach(c) \/ ClientGetState(c) \/ ClientDelete(c) \/ ClientFlags(c)
  PROVE  IndexInv'
<1>0. Len(calls) \in Nat
  BY Counts DEF IndexInv
<1>1. CASE ClientCreate(c)
  <2>1. PICK p \in {0} \cup Ids : Ask(c, [op |-> "create", who |-> c, parent |-> p]) /\ RoomForOne
    BY <1>1, ParentsAssumption DEF ClientCreate
  <2>. QED BY <1>0, <2>1, AskKeeps, OrderForms
<1>2. CASE ClientAttach(c)
  <2>1. PICK s \in Ids : Ask(c, [op |-> "attach", who |-> c, id |-> s])
    BY <1>2 DEF ClientAttach
  <2>. QED BY <1>0, <2>1, AskKeeps, OrderForms
<1>3. CASE ClientGetState(c)
  <2>1. PICK s \in Ids : Ask(c, [op |-> "get", who |-> c, id |-> s])
    BY <1>3 DEF ClientGetState
  <2>. QED BY <1>0, <2>1, AskKeeps, OrderForms
<1>4. CASE ClientDelete(c)
  <2>1. PICK s \in Ids : Ask(c, [op |-> "delete", who |-> c, id |-> s])
    BY <1>4 DEF ClientDelete
  <2>. QED BY <1>0, <2>1, AskKeeps, OrderForms
<1>5. CASE ClientFlags(c)
  <2>1. PICK s \in Ids, on \in BOOLEAN : Ask(c, [op |-> "flags", who |-> c, id |-> s, on |-> on])
    BY <1>5 DEF ClientFlags
  <2>. QED BY <1>0, <2>1, AskKeeps, OrderForms
<1>. QED BY <1>1, <1>2, <1>3, <1>4, <1>5

\* CancelRequest.
LEMMA ClientCancelKeeps ==
  ASSUME IndexInv, NEW c \in Clients, ClientCancel(c)
  PROVE  IndexInv'
<1>. DEFINE t == conn[c].at
            m == [op |-> "cancelReq", id |-> threads[t].owner, stream |-> threads[t].stream]
<1>1. UNCHANGED <<index, threads, calls, finals, conn, disk, created>> /\ queue' = Append(queue, m)
      /\ ops' \in 0..MaxOps /\ ops =< ops' /\ ops \in Nat /\ t # 0
  BY BoundsAssumption DEF ClientCancel, Spend, IndexInv, Shapes
<1>2. Shapes /\ Len(calls') \in Nat /\ Len(calls) =< Len(calls') /\ Len(calls') =< ops'
  BY <1>1, Counts, SMTT(30) DEF IndexInv, Shapes
<1>3. Calm
  BY <1>1 DEF Calm, index, disk, Own, Writers, Owners
<1>4. t \in 1..Len(threads)
  BY <1>1, <1>2, Counts DEF Shapes, ConnState
<1>5. m \in Orders(Len(calls')) /\ m.op = "cancelReq"
  BY <1>1, <1>2, <1>4, Counts, ThreadFields, OrderForms
<1>6. conn' \in [Clients -> ConnState(Len(threads))] /\ Replies'
  BY <1>1, <1>2 DEF IndexInv, Shapes, Replies
<1>7. threads' \in Seq(ThreadState(Len(calls'))) /\ calls' \in Seq(CallState(Len(threads)))
  BY <1>1, <1>2 DEF Shapes
<1>. HIDE DEF m
<1>8. m.op \in Quiet /\ m.op \notin {"update", "status", "create", "spawn"}
  BY <1>5 DEF Quiet
<1>. QED BY <1>1, <1>2, <1>3, <1>5, <1>6, <1>7, <1>8, PostOneKeeps

\* A mailing by a client, a step of the connection included.
LEMMA ClientMails ==
  ASSUME IndexInv, NEW mail \in [1..Len(threads) -> Seq(Mail(Len(calls)))],
         threads' = Mailed(mail), ops' \in 0..MaxOps, ops =< ops',
         UNCHANGED <<index, queue, calls, finals, disk, created>>,
         conn' \in [Clients -> ConnState(Len(threads))],
         \A c \in Clients : conn'[c].pc = "reply" => conn'[c].got # 0
  PROVE  IndexInv'
<1>1. Shapes
  BY DEF IndexInv
<1>2. /\ threads' \in Seq(ThreadState(Len(calls))) /\ Len(threads') = Len(threads)
      /\ Own' = Own /\ Writers' = Writers /\ Owners' = Owners
  BY <1>1, MailedKeeps
<1>3. Calm
  BY <1>2 DEF Calm, index, disk
<1>4. Replies' /\ calls' \in Seq(CallState(Len(threads)))
  BY <1>1 DEF IndexInv, Replies, Shapes
<1>. QED BY <1>2, <1>3, <1>4, SilentKeeps

\* A message for one thread.
LEMMA OneMail ==
  ASSUME Shapes, NEW t, NEW m \in Mail(Len(calls))
  PROVE  \E mail \in [1..Len(threads) -> Seq(Mail(Len(calls)))] :
           /\ mail = [u \in 1..Len(threads) |-> IF u = t THEN <<m>> ELSE <<>>]
           /\ Mail1(t, m) = Mailed(mail)
<1>1. [u \in 1..Len(threads) |-> IF u = t THEN <<m>> ELSE <<>>] \in [1..Len(threads) -> Seq(Mail(Len(calls)))]
  OBVIOUS
<1>. QED BY <1>1, Counts DEF Mail1

\* RunInput, edits, leaving and switching sessions: what a connection sends
\* straight to a thread.
LEMMA ClientTellsKeeps ==
  ASSUME IndexInv, NEW c \in Clients, ClientTells(c)
  PROVE  IndexInv'
<1>1. PICK op \in {"run", "edit"} : threads' = Mail1(conn[c].at, [op |-> op])
  BY DEF ClientTells
<1>2. Shapes /\ Len(calls) \in Nat
  BY Counts DEF IndexInv
<1>3. [op |-> op] \in Mail(Len(calls))
  BY <1>1, <1>2, MailForms
<1>4. PICK mail \in [1..Len(threads) -> Seq(Mail(Len(calls)))] : threads' = Mailed(mail)
  BY <1>1, <1>2, <1>3, OneMail
<1>5. ops' \in 0..MaxOps /\ ops =< ops' /\ UNCHANGED <<index, queue, calls, finals, conn, disk, created>>
  BY <1>2, BoundsAssumption DEF ClientTells, Spend, Shapes
<1>6. conn' \in [Clients -> ConnState(Len(threads))] /\ \A d \in Clients : conn'[d].pc = "reply" => conn'[d].got # 0
  BY <1>5, <1>2 DEF IndexInv, Shapes, Replies
<1>. QED BY <1>4, <1>5, <1>6, ClientMails

\* The connection ends.
LEMMA ClientLeavesKeeps ==
  ASSUME IndexInv, NEW c \in Clients, ClientLeaves(c)
  PROVE  IndexInv'
<1>1. Shapes /\ Len(calls) \in Nat /\ Len(threads) \in Nat
  BY Counts DEF IndexInv
<1>2. [op |-> "detach", who |-> c] \in Mail(Len(calls))
  BY <1>1, MailForms
<1>3. PICK mail \in [1..Len(threads) -> Seq(Mail(Len(calls)))] : threads' = Mailed(mail)
  BY <1>1, <1>2, OneMail DEF ClientLeaves
<1>4. ops' \in 0..MaxOps /\ ops =< ops' /\ UNCHANGED <<index, queue, calls, finals, disk, created>>
  BY <1>1 DEF ClientLeaves, Shapes, counts
<1>5. conn' \in [Clients -> ConnState(Len(threads))] /\ \A d \in Clients : conn'[d].pc = "reply" => conn'[d].got # 0
  BY <1>1 DEF ClientLeaves, Offline, IndexInv, Shapes, ConnState, Replies
<1>. QED BY <1>3, <1>4, <1>5, ClientMails

\* The connection attaches to the thread the daemon named.
LEMMA SwitchAttachedKeeps ==
  ASSUME IndexInv, NEW c \in Clients, SwitchAttached(c)
  PROVE  IndexInv'
<1>. DEFINE new == conn[c].got
            old == conn[c].at
            leaves == old # 0 /\ threads[old].owner # threads[new].owner
            out(t) == IF leaves /\ t = old THEN <<[op |-> "detach", who |-> c]>> ELSE <<>>
            in(t) == IF t = new THEN <<[op |-> "attach", who |-> c]>> ELSE <<>>
            mail == [t \in 1..Len(threads) |-> out(t) \o in(t)]
<1>1. Shapes /\ Len(calls) \in Nat /\ Len(threads) \in Nat /\ DOMAIN threads = 1..Len(threads)
  BY Counts DEF IndexInv
<1>2. [op |-> "detach", who |-> c] \in Mail(Len(calls)) /\ [op |-> "attach", who |-> c] \in Mail(Len(calls))
  BY <1>1, MailForms
<1>3. \A t \in 1..Len(threads) : out(t) \in Seq(Mail(Len(calls))) /\ in(t) \in Seq(Mail(Len(calls)))
  BY <1>2
<1>4. \A t \in 1..Len(threads) : out(t) \o in(t) \in Seq(Mail(Len(calls)))
  BY <1>3, ConcatProperties
<1>5. mail \in [1..Len(threads) -> Seq(Mail(Len(calls)))]
  BY <1>4
<1>6. threads' = Mailed(mail)
  BY <1>1 DEF SwitchAttached
<1>7. ops' \in 0..MaxOps /\ ops =< ops' /\ UNCHANGED <<index, queue, calls, finals, disk, created>>
  BY <1>1 DEF SwitchAttached, Shapes, counts
<1>8. conn' \in [Clients -> ConnState(Len(threads))] /\ \A d \in Clients : conn'[d].pc = "reply" => conn'[d].got # 0
  BY <1>1 DEF SwitchAttached, IndexInv, Shapes, ConnState, Replies
<1>. HIDE DEF mail
<1>. QED BY <1>5, <1>6, <1>7, <1>8, ClientMails

\* Every step of a client.
LEMMA ClientKeeps ==
  ASSUME IndexInv, NEW c \in Clients, Client(c)
  PROVE  IndexInv'
  BY ClientAsks, ClientCancelKeeps, ClientTellsKeeps, ClientLeavesKeeps, SwitchAttachedKeeps DEF Client

-----------------------------------------------------------------------------
(* Steps of a session thread.                                              *)

\* One thread changes its state and nothing is posted.
LEMMA ThreadSilent ==
  ASSUME IndexInv, NEW t \in 1..Len(threads), NEW th \in ThreadState(Len(calls)),
         threads' = [threads EXCEPT ![t] = th], th.owner = threads[t].owner,
         th.pc \in {"start", "loop", "exit"} <=> threads[t].pc \in {"start", "loop", "exit"},
         calls' \in Seq(CallState(Len(threads))), Len(calls') = Len(calls),
         \A k \in 1..Len(calls) : calls'[k].pc \in {"made", "wait"} => calls'[k].child # 0,
         UNCHANGED <<index, queue, finals, conn, disk, created, ops>>
  PROVE  IndexInv'
<1>1. Shapes
  BY DEF IndexInv
<1>2. /\ threads' \in Seq(ThreadState(Len(calls))) /\ Len(threads') = Len(threads)
      /\ \A u \in 1..Len(threads) : threads'[u] = IF u = t THEN th ELSE threads[u]
  BY <1>1, ThreadBecomes
<1>3. Own' = Own /\ Writers' = Writers /\ Owners' = Owners
  BY <1>1, <1>2, SameThreads
<1>4. Calm
  BY <1>2, <1>3 DEF Calm, index, disk
<1>5. Replies' /\ conn' \in [Clients -> ConnState(Len(threads))] /\ ops' \in 0..MaxOps /\ ops =< ops'
  BY <1>1 DEF IndexInv, Replies, Shapes
<1>. QED BY <1>2, <1>4, <1>5, SilentKeeps

\* One thread changes its state, writes its record perhaps, and reports to
\* the command loop.
LEMMA ThreadReports ==
  ASSUME IndexInv, NEW t \in 1..Len(threads), NEW th \in ThreadState(Len(calls)),
         threads' = [threads EXCEPT ![t] = th], th.owner = threads[t].owner,
         th.pc \in {"start", "loop", "exit"}, threads[t].pc \in {"start", "loop", "exit"},
         NEW ms \in Seq(Orders(Len(calls))), queue' = queue \o ms,
         \A i \in 1..Len(ms) : ms[i].op \in {"update", "status"} /\ ms[i].id = threads[t].owner,
         records' = records \/ records' = records \cup {threads[t].owner},
         UNCHANGED <<index, calls, finals, conn, diskPinned, tomb, created, ops>>
  PROVE  IndexInv'
<1>0. Shapes /\ Len(calls) \in Nat /\ calls' = calls /\ ops' = ops /\ Len(calls) =< ops
  BY Counts DEF IndexInv, Shapes
<1>1. Shapes /\ Len(calls') \in Nat /\ Len(calls) =< Len(calls') /\ Len(calls') =< ops'
  BY <1>0
<1>2. /\ threads' \in Seq(ThreadState(Len(calls))) /\ Len(threads') = Len(threads)
      /\ \A u \in 1..Len(threads) : threads'[u] = IF u = t THEN th ELSE threads[u]
  BY <1>1, ThreadBecomes
<1>3. Own' = Own /\ Writers' = Writers /\ Owners' = Owners
  BY <1>1, <1>2, SameThreads
<1>4. threads[t].owner \in Owners
  BY DEF Owners, Own, Writers
<1>5. Calm
  BY <1>2, <1>3, <1>4 DEF Calm, index
<1>6. /\ Replies' /\ conn' \in [Clients -> ConnState(Len(threads))] /\ ops' \in 0..MaxOps
      /\ calls' \in Seq(CallState(Len(threads))) /\ threads' \in Seq(ThreadState(Len(calls')))
  BY <1>1, <1>2 DEF IndexInv, Replies, Shapes
<1>7. ms \in Seq(Orders(Len(calls')))
  OBVIOUS
<1>8. \A i \in 1..Len(ms) : /\ ms[i].op \in Quiet /\ ms[i].op \notin {"create", "spawn"}
                            /\ ms[i].op \in {"update", "status"} => ms[i].id \in Owners
  BY <1>4 DEF Quiet
<1>. QED BY <1>1, <1>5, <1>6, <1>7, <1>8, PostingKeeps

\* A command leaves the inbox; the thread stays in its loop or leaves it.
LEMMA TakesMail ==
  ASSUME Shapes, NEW t, NEW op, Takes(t, op)
  PROVE  /\ t \in 1..Len(threads) /\ threads[t] \in ThreadState(Len(calls)) /\ Len(calls) \in Nat
         /\ threads[t].pc = "loop" /\ Next1(t) \in Mail(Len(calls))
         /\ threads[t].inbox \in Seq(Mail(Len(calls))) /\ threads[t].inbox # <<>>
<1>1. t \in 1..Len(threads) /\ threads[t] \in ThreadState(Len(calls)) /\ Len(calls) \in Nat
  BY Counts DEF Takes, In
<1>2. threads[t].inbox \in Seq(Mail(Len(calls))) /\ threads[t].inbox # <<>> /\ threads[t].pc = "loop"
  BY <1>1, ThreadFields DEF Takes, In
<1>. QED BY <1>1, <1>2 DEF Next1

\* Becomes, with the place the thread goes to instead of the Boolean.
Goes(t, th, pc1) ==
  threads' = [threads EXCEPT ![t] = [th EXCEPT !.inbox = Tail(@), !.pc = pc1]]
Way(leaves) == IF leaves THEN "exit" ELSE "loop"

\* What a thread that served a command is.
LEMMA GoesForm ==
  ASSUME Shapes, NEW t, NEW op, Takes(t, op),
         NEW th \in ThreadState(Len(calls)), th.inbox = threads[t].inbox,
         th.owner = threads[t].owner, NEW pc1 \in {"loop", "exit"}, Goes(t, th, pc1)
  PROVE  \E new \in ThreadState(Len(calls)) :
           /\ threads' = [threads EXCEPT ![t] = new] /\ new.owner = threads[t].owner
           /\ new.pc \in {"loop", "exit"}
<1>. DEFINE new == [th EXCEPT !.inbox = Tail(@), !.pc = pc1]
<1>1. Tail(th.inbox) \in Seq(Mail(Len(calls)))
  BY TakesMail, HeadTailProperties
<1>2. new \in ThreadState(Len(calls)) /\ new.owner = th.owner /\ new.pc = pc1
  BY <1>1 DEF ThreadState
<1>. QED BY <1>2 DEF Goes

\* A thread serves a command of its inbox without a word to the daemon.
LEMMA ServesSilently ==
  ASSUME IndexInv, NEW t, NEW op, Takes(t, op),
         NEW th \in ThreadState(Len(calls)), th.inbox = threads[t].inbox,
         th.owner = threads[t].owner, NEW pc1 \in {"loop", "exit"}, Goes(t, th, pc1),
         UNCHANGED <<index, queue, calls, finals, conn, disk, created, hit, counts>>
  PROVE  IndexInv'
<1>1. Shapes
  BY DEF IndexInv
<1>2. t \in 1..Len(threads) /\ threads[t].pc = "loop"
  BY <1>1, TakesMail
<1>3. PICK new \in ThreadState(Len(calls)) :
        /\ threads' = [threads EXCEPT ![t] = new] /\ new.owner = threads[t].owner
        /\ new.pc \in {"loop", "exit"}
  BY <1>1, GoesForm
<1>4. /\ calls' \in Seq(CallState(Len(threads))) /\ Len(calls') = Len(calls)
      /\ \A k \in 1..Len(calls) : calls'[k].pc \in {"made", "wait"} => calls'[k].child # 0
  BY DEF IndexInv, Shapes, Replies
<1>5. UNCHANGED <<index, queue, finals, conn, disk, created, ops>>
  BY DEF counts
<1>. QED BY <1>2, <1>3, <1>4, <1>5, ThreadSilent

\* A run that begins is a state of a thread.
LEMMA StartedForm ==
  ASSUME Shapes, NEW t \in 1..Len(threads), NEW k \in 0..Len(calls)
  PROVE  /\ Started(t, k) \in ThreadState(Len(calls))
         /\ Started(t, k).inbox = threads[t].inbox /\ Started(t, k).owner = threads[t].owner
<1>1. threads[t] \in ThreadState(Len(calls)) /\ threads[t].stream + 1 \in Nat
  BY Counts, ThreadFields
<1>. QED BY <1>1 DEF ThreadState, Started

\* RunInput, CancelRequest, Shutdown, AttachClient and DetachClient.
LEMMA SilentCommandsKeep ==
  ASSUME IndexInv, NEW t,
         \/ RunInput(t) \/ CancelCommand(t) \/ ShutdownCommand(t) \/ AttachCommand(t)
         \/ DetachCommand(t)
  PROVE  IndexInv'
<1>0. Shapes
  BY DEF IndexInv
<1>1. CASE RunInput(t)
  <2>1. Takes(t, "run") /\ UNCHANGED <<index, queue, calls, finals, conn, disk, created, hit, counts>>
    BY <1>1 DEF RunInput
  <2>2. t \in 1..Len(threads) /\ threads[t] \in ThreadState(Len(calls)) /\ 0 \in 0..Len(calls)
    BY <2>1, <1>0, TakesMail
  <2>3. CASE Becomes(t, Started(t, 0), FALSE)
    <3>1. Goes(t, Started(t, 0), "loop")
      BY <2>3 DEF Becomes, Goes
    <3>. QED BY <2>1, <2>2, <3>1, <1>0, StartedForm, ServesSilently
  <2>4. CASE Becomes(t, threads[t], FALSE)
    <3>1. Goes(t, threads[t], "loop")
      BY <2>4 DEF Becomes, Goes
    <3>. QED BY <2>1, <2>2, <3>1, ServesSilently
  <2>. QED BY <2>3, <2>4, <1>1 DEF RunInput
<1>2. CASE CancelCommand(t)
  <2>. DEFINE aims == threads[t].run # "idle" /\ Next1(t).stream \in {0, threads[t].stream}
              th == [threads[t] EXCEPT !.cancel = @ \/ aims]
  <2>1. /\ Takes(t, "cancel") /\ Goes(t, th, "loop")
        /\ UNCHANGED <<index, queue, calls, finals, conn, disk, created, hit, counts>>
    BY <1>2 DEF CancelCommand, Becomes, Goes
  <2>2. threads[t] \in ThreadState(Len(calls))
    BY <2>1, <1>0, TakesMail
  <2>3. th \in ThreadState(Len(calls)) /\ th.inbox = threads[t].inbox /\ th.owner = threads[t].owner
    BY <2>2 DEF ThreadState
  <2>. HIDE DEF th
  <2>. QED BY <2>1, <2>3, ServesSilently
<1>3. CASE ShutdownCommand(t)
  <2>. DEFINE busy == threads[t].run # "idle"
              th == [threads[t] EXCEPT !.stop = TRUE, !.cancel = @ \/ busy]
  <2>1. /\ Takes(t, "shutdown") /\ Goes(t, th, Way(~busy)) /\ Way(~busy) \in {"loop", "exit"}
        /\ UNCHANGED <<index, queue, calls, finals, conn, disk, created, hit, counts>>
    BY <1>3 DEF ShutdownCommand, Becomes, Goes, Way
  <2>2. threads[t] \in ThreadState(Len(calls))
    BY <2>1, <1>0, TakesMail
  <2>3. th \in ThreadState(Len(calls)) /\ th.inbox = threads[t].inbox /\ th.owner = threads[t].owner
    BY <2>2 DEF ThreadState
  <2>. HIDE DEF th, busy
  <2>. QED BY <2>1, <2>3, ServesSilently
<1>4. CASE AttachCommand(t)
  <2>. DEFINE th == [threads[t] EXCEPT !.subs = @ \cup {Next1(t).who}]
  <2>1. /\ Takes(t, "attach") /\ Goes(t, th, "loop")
        /\ UNCHANGED <<index, queue, calls, finals, conn, disk, created, hit, counts>>
    BY <1>4 DEF AttachCommand, Becomes, Goes
  <2>2. threads[t] \in ThreadState(Len(calls)) /\ Next1(t) \in Mail(Len(calls)) /\ Len(calls) \in Nat
    BY <2>1, <1>0, TakesMail
  <2>3. Next1(t).who \in Clients
    BY <2>1, <2>2, MailFields DEF Takes
  <2>4. th \in ThreadState(Len(calls)) /\ th.inbox = threads[t].inbox /\ th.owner = threads[t].owner
    BY <2>2, <2>3 DEF ThreadState
  <2>. HIDE DEF th
  <2>. QED BY <2>1, <2>4, ServesSilently
<1>5. CASE DetachCommand(t)
  <2>. DEFINE th == [threads[t] EXCEPT !.subs = @ \ {Next1(t).who}]
  <2>1. /\ Takes(t, "detach") /\ Goes(t, th, Way(Idle(th))) /\ Way(Idle(th)) \in {"loop", "exit"}
        /\ UNCHANGED <<index, queue, calls, finals, conn, disk, created, hit, counts>>
    BY <1>5 DEF DetachCommand, Becomes, Goes, Way
  <2>2. threads[t] \in ThreadState(Len(calls))
    BY <2>1, <1>0, TakesMail
  <2>3. th \in ThreadState(Len(calls)) /\ th.inbox = threads[t].inbox /\ th.owner = threads[t].owner
    BY <2>2 DEF ThreadState
  <2>. HIDE DEF th
  <2>. QED BY <2>1, <2>3, ServesSilently
<1>. QED BY <1>1, <1>2, <1>3, <1>4, <1>5

\* A call whose answer comes is done; nothing else about the calls changes.
LEMMA CallsAnswered ==
  ASSUME Shapes, Replies, calls' \in [1..Len(calls) -> CallState(Len(threads))],
         \A k \in 1..Len(calls) : /\ calls'[k].child = calls[k].child
                                  /\ calls'[k].pc \in {calls[k].pc, "done"}
  PROVE  /\ calls' \in Seq(CallState(Len(threads))) /\ Len(calls') = Len(calls)
         /\ \A k \in 1..Len(calls) : calls'[k].pc \in {"made", "wait"} => calls'[k].child # 0
<1>1. calls' \in Seq(CallState(Len(threads))) /\ Len(calls') = Len(calls)
  BY Counts, FunctionIsSeq
<1>. QED BY <1>1 DEF Replies

\* RunChildInput.
LEMMA RunChildKeeps ==
  ASSUME IndexInv, NEW t, RunChildInput(t)
  PROVE  IndexInv'
<1>. DEFINE k == Next1(t).call
<1>1. Shapes /\ Replies /\ Takes(t, "child") /\ UNCHANGED <<index, queue, finals, conn, disk, created, hit, counts>>
  BY DEF IndexInv, RunChildInput
<1>2. /\ t \in 1..Len(threads) /\ threads[t] \in ThreadState(Len(calls)) /\ Len(calls) \in Nat
      /\ k \in 1..Len(calls) /\ threads[t].pc = "loop"
  <2>1. /\ t \in 1..Len(threads) /\ threads[t] \in ThreadState(Len(calls)) /\ Len(calls) \in Nat
        /\ Next1(t) \in Mail(Len(calls)) /\ Next1(t).op = "child" /\ threads[t].pc = "loop"
    BY <1>1, TakesMail DEF Takes
  <2>. QED BY <2>1, MailFields
<1>3. CASE Becomes(t, Started(t, k), FALSE) /\ UNCHANGED calls
  <2>1. Goes(t, Started(t, k), "loop")
    BY <1>3 DEF Becomes, Goes
  <2>2. k \in 0..Len(calls) /\ UNCHANGED <<index, queue, calls, finals, conn, disk, created, hit, counts>>
    BY <1>1, <1>2, <1>3
  <2>. QED BY <1>1, <1>2, <2>1, <2>2, StartedForm, ServesSilently
<1>4. CASE Becomes(t, threads[t], FALSE) /\ calls' = [calls EXCEPT ![k].pc = "done"]
  <2>0. Goes(t, threads[t], "loop")
    BY <1>4 DEF Becomes, Goes
  <2>1. PICK new \in ThreadState(Len(calls)) :
          /\ threads' = [threads EXCEPT ![t] = new] /\ new.owner = threads[t].owner
          /\ new.pc \in {"loop", "exit"}
    BY <1>1, <1>2, <2>0, GoesForm
  <2>2. calls' \in [1..Len(calls) -> CallState(Len(threads))]
    BY <1>1, <1>2, <1>4, Counts DEF CallState
  <2>3. \A j \in 1..Len(calls) : /\ calls'[j].child = calls[j].child
                                 /\ calls'[j].pc \in {calls[j].pc, "done"}
    BY <1>1, <1>2, <1>4, Counts DEF CallState
  <2>4. /\ calls' \in Seq(CallState(Len(threads))) /\ Len(calls') = Len(calls)
        /\ \A j \in 1..Len(calls) : calls'[j].pc \in {"made", "wait"} => calls'[j].child # 0
    BY <2>2, <2>3, <1>1, CallsAnswered
  <2>5. UNCHANGED <<index, queue, finals, conn, disk, created, ops>>
    BY <1>1 DEF counts
  <2>. QED BY <1>2, <2>1, <2>4, <2>5, ThreadSilent
<1>. QED BY <1>3, <1>4 DEF RunChildInput

\* The thread's first report, its edits, the worker's status and the end of a
\* run: the record is written first, by a thread that may still write.
LEMMA ReportsKeep ==
  ASSUME IndexInv, NEW t,
         ThreadStart(t) \/ EditCommand(t) \/ StatusCommand(t) \/ RequestFinished(t)
  PROVE  IndexInv'
<1>. DEFINE n == Len(calls)
<1>0. Shapes /\ n \in Nat /\ queue \in Seq(Orders(n))
  BY Counts DEF IndexInv, Shapes
<1>1. ASSUME t \in 1..Len(threads)
      PROVE  Post(t, "update") \in Orders(n) /\ Post(t, "status") \in Orders(n)
  BY <1>0, <1>1, Counts, ThreadFields, OrderForms DEF Post
<1>2. ASSUME NEW op \in {"update", "status"}, t \in 1..Len(threads), queue' = Append(queue, Post(t, op)),
             NEW th \in ThreadState(n), threads' = [threads EXCEPT ![t] = th],
             th.owner = threads[t].owner, th.pc \in {"start", "loop", "exit"},
             threads[t].pc \in {"start", "loop", "exit"},
             records' = records \/ records' = records \cup {threads[t].owner},
             UNCHANGED <<index, calls, finals, conn, diskPinned, tomb, created, ops>>
      PROVE  IndexInv'
  <2>1. PICK ms \in Seq(Orders(n)) : queue' = queue \o ms /\ Len(ms) = 1 /\ ms[1] = Post(t, op)
    <3>1. Post(t, op) \in Orders(n)
      BY <1>1, <1>2
    <3>2. /\ Append(queue, Post(t, op)) = queue \o <<Post(t, op)>>
          /\ <<Post(t, op)>> \in Seq(Orders(n)) /\ Len(<<Post(t, op)>>) = 1
          /\ <<Post(t, op)>>[1] = Post(t, op)
      BY <1>0, <3>1, AppendAsConcat
    <3>. QED BY <3>2, <1>2
  <2>2. \A i \in 1..Len(ms) : ms[i].op \in {"update", "status"} /\ ms[i].id = threads[t].owner
    BY <2>1 DEF Post
  <2>. QED BY <1>2, <2>1, <2>2, ThreadReports
<1>3. CASE ThreadStart(t)
  <2>. DEFINE th == [threads[t] EXCEPT !.pc = "loop"]
  <2>1. t \in 1..Len(threads) /\ threads[t] \in ThreadState(n) /\ threads[t].pc = "start"
    BY <1>0, <1>3, Counts DEF ThreadStart, In
  <2>2. th \in ThreadState(n) /\ th.owner = threads[t].owner /\ th.pc = "loop"
    BY <2>1 DEF ThreadState
  <2>3. threads' = [threads EXCEPT ![t] = th]
    BY <1>3, <2>1 DEF ThreadStart
  <2>4. /\ queue' = Append(queue, Post(t, "update")) /\ records' = records
        /\ UNCHANGED <<index, calls, finals, conn, diskPinned, tomb, created, ops>>
    BY <1>3 DEF ThreadStart, disk, counts
  <2>. QED BY <1>2, <2>1, <2>2, <2>3, <2>4
<1>4. CASE EditCommand(t)
  <2>1. /\ Takes(t, "edit") /\ Goes(t, threads[t], "loop") /\ queue' = Append(queue, Post(t, "update"))
        /\ records' = records \cup {threads[t].owner}
        /\ UNCHANGED <<index, calls, finals, conn, diskPinned, tomb, created, ops>>
    BY <1>4 DEF EditCommand, counts, Becomes, Goes
  <2>2. t \in 1..Len(threads) /\ threads[t] \in ThreadState(n) /\ threads[t].pc = "loop"
    BY <1>0, <2>1, TakesMail
  <2>3. PICK new \in ThreadState(n) :
          /\ threads' = [threads EXCEPT ![t] = new] /\ new.owner = threads[t].owner
          /\ new.pc \in {"loop", "exit"}
    BY <1>0, <2>1, <2>2, GoesForm
  <2>. QED BY <1>2, <2>1, <2>2, <2>3
<1>5. CASE StatusCommand(t)
  <2>1. /\ Takes(t, "status") /\ Goes(t, threads[t], "loop") /\ queue' = Append(queue, Post(t, "status"))
        /\ records' = records
        /\ UNCHANGED <<index, calls, finals, conn, diskPinned, tomb, created, ops>>
    BY <1>5 DEF StatusCommand, disk, counts, Becomes, Goes
  <2>2. t \in 1..Len(threads) /\ threads[t] \in ThreadState(n) /\ threads[t].pc = "loop"
    BY <1>0, <2>1, TakesMail
  <2>3. PICK new \in ThreadState(n) :
          /\ threads' = [threads EXCEPT ![t] = new] /\ new.owner = threads[t].owner
          /\ new.pc \in {"loop", "exit"}
    BY <1>0, <2>1, <2>2, GoesForm
  <2>. QED BY <1>2, <2>1, <2>2, <2>3
<1>6. CASE RequestFinished(t)
  <2>. DEFINE th == [threads[t] EXCEPT !.run = "idle", !.caller = 0, !.cancel = FALSE]
              pc1 == Way(Idle(th))
              ms == <<Post(t, "update"), Post(t, "status")>>
  <2>1. /\ Takes(t, "finished") /\ Goes(t, th, pc1) /\ pc1 \in {"loop", "exit"}
        /\ queue' = queue \o ms /\ records' = records \cup {threads[t].owner}
        /\ UNCHANGED <<index, calls, finals, conn, diskPinned, tomb, created, ops>>
    BY <1>6 DEF RequestFinished, counts, Becomes, Goes, Way
  <2>2. t \in 1..Len(threads) /\ threads[t] \in ThreadState(n) /\ threads[t].pc = "loop"
    BY <1>0, <2>1, TakesMail
  <2>3. th \in ThreadState(n) /\ th.inbox = threads[t].inbox /\ th.owner = threads[t].owner
    <3>1. 0 \in 0..n
      BY <1>0
    <3>. HIDE DEF n
    <3>. QED BY <3>1, <2>2 DEF ThreadState
  <2>4. ms \in Seq(Orders(n)) /\ Len(ms) = 2 /\ ms[1] = Post(t, "update") /\ ms[2] = Post(t, "status")
    BY <1>1, <2>2
  <2>5. \A i \in 1..Len(ms) : ms[i].op \in {"update", "status"} /\ ms[i].id = threads[t].owner
    BY <2>4 DEF Post
  <2>. HIDE DEF th, pc1, ms
  <2>6. PICK new \in ThreadState(n) :
          /\ threads' = [threads EXCEPT ![t] = new] /\ new.owner = threads[t].owner
          /\ new.pc \in {"loop", "exit"}
    BY <1>0, <2>1, <2>3, GoesForm
  <2>. QED BY <2>1, <2>2, <2>4, <2>5, <2>6, ThreadReports
<1>. QED BY <1>3, <1>4, <1>5, <1>6

\* The thread is gone; its callers get no answer any more.
LEMMA ThreadGoneKeeps ==
  ASSUME IndexInv, NEW t, ThreadGone(t)
  PROVE  IndexInv'
<1>. DEFINE th == [Fresh(threads[t].owner) EXCEPT !.pc = "gone"]
<1>1. Shapes /\ Replies /\ t \in 1..Len(threads) /\ threads[t] \in ThreadState(Len(calls))
      /\ threads[t].pc = "sent" /\ Len(calls) \in Nat
  BY Counts DEF IndexInv, ThreadGone, In
<1>2. th \in ThreadState(Len(calls)) /\ th.owner = threads[t].owner /\ th.pc = "gone"
  <2>1. 0 \in 0..Len(calls) /\ <<>> \in Seq(Mail(Len(calls))) /\ threads[t].owner \in Ids
    BY <1>1, ThreadFields
  <2>. QED BY <2>1 DEF ThreadState, Fresh
<1>3. calls' \in [1..Len(calls) -> CallState(Len(threads))]
  BY <1>1, Counts DEF ThreadGone, CallState
<1>4. \A k \in 1..Len(calls) : /\ calls'[k].child = calls[k].child
                               /\ calls'[k].pc \in {calls[k].pc, "done"}
  BY <1>1, Counts DEF ThreadGone, CallState
<1>5. /\ calls' \in Seq(CallState(Len(threads))) /\ Len(calls') = Len(calls)
      /\ \A k \in 1..Len(calls) : calls'[k].pc \in {"made", "wait"} => calls'[k].child # 0
  BY <1>1, <1>3, <1>4, CallsAnswered
<1>6. threads' = [threads EXCEPT ![t] = th] /\ UNCHANGED <<index, queue, finals, conn, disk, created, ops>>
  BY DEF ThreadGone, counts
<1>. HIDE DEF th
<1>. QED BY <1>1, <1>2, <1>5, <1>6, ThreadSilent

\* The worker reports that it works.
LEMMA WorkerReportsKeeps ==
  ASSUME IndexInv, NEW t, WorkerReports(t)
  PROVE  IndexInv'
<1>. DEFINE th == [threads[t] EXCEPT !.run = "work", !.inbox = Append(@, [op |-> "status"])]
<1>1. Shapes /\ Replies /\ t \in 1..Len(threads) /\ threads[t] \in ThreadState(Len(calls)) /\ Len(calls) \in Nat
  BY Counts DEF IndexInv, WorkerReports
<1>2. Append(threads[t].inbox, [op |-> "status"]) \in Seq(Mail(Len(calls)))
  BY <1>1, MailForms, ThreadFields
<1>3. th \in ThreadState(Len(calls)) /\ th.owner = threads[t].owner /\ th.pc = threads[t].pc
  BY <1>1, <1>2 DEF ThreadState
<1>4. threads' = [threads EXCEPT ![t] = th] /\ UNCHANGED <<index, queue, calls, finals, conn, disk, created, ops>>
  BY <1>1, Counts DEF WorkerReports, counts
<1>5. /\ calls' \in Seq(CallState(Len(threads))) /\ Len(calls') = Len(calls)
      /\ \A k \in 1..Len(calls) : calls'[k].pc \in {"made", "wait"} => calls'[k].child # 0
  BY <1>1, <1>4 DEF Shapes, Replies
<1>. HIDE DEF th
<1>. QED BY <1>1, <1>3, <1>4, <1>5, ThreadSilent

\* The worker is done, or gives up.
LEMMA WorkerEndsKeeps ==
  ASSUME IndexInv, NEW t, WorkerEnds(t)
  PROVE  IndexInv'
<1>. DEFINE th == [threads[t] EXCEPT !.run = "ended", !.inbox = Append(@, [op |-> "finished"])]
<1>1. Shapes /\ Replies /\ t \in 1..Len(threads) /\ threads[t] \in ThreadState(Len(calls)) /\ Len(calls) \in Nat
  BY Counts DEF IndexInv, WorkerEnds
<1>2. Append(threads[t].inbox, [op |-> "finished"]) \in Seq(Mail(Len(calls)))
  BY <1>1, MailForms, ThreadFields
<1>3. th \in ThreadState(Len(calls)) /\ th.owner = threads[t].owner /\ th.pc = threads[t].pc
  BY <1>1, <1>2 DEF ThreadState
<1>4. threads' = [threads EXCEPT ![t] = th] /\ UNCHANGED <<index, queue, finals, conn, disk, created, ops>>
  BY <1>1, Counts DEF WorkerEnds, counts
<1>5. calls' \in [1..Len(calls) -> CallState(Len(threads))]
  BY <1>1, Counts DEF WorkerEnds, CallState
<1>6. \A k \in 1..Len(calls) : /\ calls'[k].child = calls[k].child
                               /\ calls'[k].pc \in {calls[k].pc, "done"}
  BY <1>1, Counts DEF WorkerEnds, CallState
<1>7. /\ calls' \in Seq(CallState(Len(threads))) /\ Len(calls') = Len(calls)
      /\ \A k \in 1..Len(calls) : calls'[k].pc \in {"made", "wait"} => calls'[k].child # 0
  BY <1>1, <1>5, <1>6, CallsAnswered
<1>. HIDE DEF th
<1>. QED BY <1>1, <1>3, <1>4, <1>7, ThreadSilent

\* A spawn_subsession call begins.
LEMMA WorkerSpawnsKeeps ==
  ASSUME IndexInv, NEW t, WorkerSpawns(t)
  PROVE  IndexInv'
<1>. DEFINE k == Len(calls) + 1
            call == [by |-> t, pc |-> "asked", child |-> 0, void |-> FALSE]
            m == [op |-> "spawn", call |-> k]
<1>1. /\ Shapes /\ Replies /\ t \in 1..Len(threads) /\ Len(calls) \in Nat /\ Len(threads) \in Nat
      /\ DOMAIN threads = 1..Len(threads) /\ MaxOps \in Nat /\ RoomForOne
  BY Counts DEF IndexInv, WorkerSpawns
<1>2. calls' = Append(calls, call) /\ queue' = Append(queue, m)
      /\ UNCHANGED <<index, threads, finals, conn, disk, created>>
  BY DEF WorkerSpawns
<1>3. ops' \in 0..MaxOps /\ ops' = ops + 1 /\ ops \in Nat /\ Len(calls) =< ops
  BY <1>1 DEF WorkerSpawns, Spend, Shapes
<1>4. call \in CallState(Len(threads)) /\ call.pc = "asked"
  BY <1>1 DEF CallState
<1>. HIDE DEF call
<1>5. /\ calls' \in Seq(CallState(Len(threads))) /\ Len(calls') = k /\ calls'[k] = call
      /\ \A j \in 1..Len(calls) : calls'[j] = calls[j]
  BY <1>1, <1>2, <1>4 DEF Shapes
<1>6. k \in Nat /\ Len(calls) =< k /\ k =< ops' /\ 1..k = 1..Len(calls) \cup {k}
  BY <1>1, <1>3
<1>7. m \in Orders(k) /\ m.op = "spawn"
  BY <1>6, OrderForms
<1>8. threads' \in Seq(ThreadState(k))
  BY <1>1, <1>2, <1>6, Monotone, SeqMonotonic DEF Shapes
<1>9. Replies' /\ conn' \in [Clients -> ConnState(Len(threads))]
  BY <1>1, <1>2, <1>4, <1>5, <1>6 DEF Replies, Shapes
<1>10. Calm
  BY <1>2 DEF Calm, index, disk, Own, Writers, Owners
<1>. HIDE DEF m, k
<1>11. m.op \in Quiet /\ m.op \notin {"update", "status"}
  BY <1>7 DEF Quiet
<1>. QED BY <1>1, <1>2, <1>3, <1>5, <1>6, <1>7, <1>8, <1>9, <1>10, <1>11, PostOneKeeps

\* A call hands its prompt to the child.
LEMMA CallRunsKeeps ==
  ASSUME IndexInv, NEW k, CallRuns(k)
  PROVE  IndexInv'
<1>. DEFINE t == calls[k].child
<1>1. /\ Shapes /\ Replies /\ k \in 1..Len(calls) /\ Len(calls) \in Nat /\ Len(threads) \in Nat
      /\ calls[k] \in CallState(Len(threads)) /\ DOMAIN calls = 1..Len(calls)
  BY Counts DEF IndexInv, CallRuns
<1>2. /\ UNCHANGED <<index, queue, finals, conn, disk, created, hit, counts>>
      /\ \E p \in {"wait", "done"} : calls' = [calls EXCEPT ![k].pc = p]
  BY DEF CallRuns
<1>3. t # 0
  BY <1>1 DEF CallRuns, Replies
<1>4. /\ calls' \in [1..Len(calls) -> CallState(Len(threads))]
      /\ \A j \in 1..Len(calls) : calls'[j].child = calls[j].child
                                  /\ (j # k => calls'[j] = calls[j])
  <2>1. PICK p \in {"wait", "done"} : calls' = [calls EXCEPT ![k].pc = p]
    BY <1>2
  <2>2. \A j \in 1..Len(calls) : calls[j] \in CallState(Len(threads))
    BY <1>1, Counts
  <2>3. calls' = [calls EXCEPT ![k] = [calls[k] EXCEPT !.pc = p]]
    BY <2>1, <1>1
  <2>4. /\ [calls[k] EXCEPT !.pc = p] \in CallState(Len(threads))
        /\ [calls[k] EXCEPT !.pc = p].child = calls[k].child
    BY <1>1 DEF CallState
  <2>. QED BY <1>1, <2>2, <2>3, <2>4 DEF Shapes
<1>5. calls' \in Seq(CallState(Len(threads))) /\ Len(calls') = Len(calls)
  BY <1>1, <1>4, FunctionIsSeq
<1>6. Replies' /\ conn' \in [Clients -> ConnState(Len(threads))] /\ ops' \in 0..MaxOps /\ ops =< ops'
  BY <1>1, <1>2, <1>3, <1>4, <1>5 DEF Replies, Shapes, counts
<1>7. CASE threads' = Mail1(t, [op |-> "child", call |-> k])
  <2>1. [op |-> "child", call |-> k] \in Mail(Len(calls))
    BY <1>1, MailForms
  <2>2. PICK mail \in [1..Len(threads) -> Seq(Mail(Len(calls)))] : threads' = Mailed(mail)
    BY <2>1, <1>1, <1>7, OneMail
  <2>3. /\ threads' \in Seq(ThreadState(Len(calls))) /\ Len(threads') = Len(threads)
        /\ Own' = Own /\ Writers' = Writers /\ Owners' = Owners
    BY <1>1, <2>2, MailedKeeps
  <2>4. Calm /\ queue' = queue
    BY <1>2, <2>3 DEF Calm, index, disk
  <2>. QED BY <1>5, <1>6, <2>3, <2>4, SilentKeeps
<1>8. CASE threads' = threads
  <2>1. threads' \in Seq(ThreadState(Len(calls)))
    BY <1>1, <1>8 DEF Shapes
  <2>2. Calm /\ queue' = queue
    BY <1>2, <1>8 DEF Calm, index, disk, Own, Writers, Owners
  <2>. QED BY <1>5, <1>6, <2>1, <2>2, SilentKeeps
<1>. QED BY <1>7, <1>8 DEF CallRuns

-----------------------------------------------------------------------------
(* A thread exits, and its session's delete is finalized.                  *)

\* SessionExited is the last word of a session's thread.
LEMMA PostsExited ==
  ASSUME Shapes, QueuePart, NEW s \in Ids, queue' = Append(queue, [op |-> "exited", id |-> s]),
         s \notin Leaving, Owners \ {s} \subseteq Owners'
  PROVE  Leaving' = Leaving \cup {s} /\ Finalizing' = Finalizing /\ QueuePart'
<1>. DEFINE z == Len(queue) + 1
<1>1. /\ Len(queue) \in Nat /\ Len(queue') = z /\ queue'[z].op = "exited" /\ queue'[z].id = s
      /\ \A i \in 1..Len(queue) : queue'[i] = queue[i]
  BY DEF Shapes
<1>2. z \notin 1..Len(queue) /\ 1..z = 1..Len(queue) \cup {z} /\ \A i \in 1..Len(queue) : i < z
  BY <1>1
<1>. HIDE DEF z
<1>3. At("exited")' = At("exited") \cup {z} /\ At("finalized")' = At("finalized")
  BY <1>1, <1>2 DEF At
<1>4. At("exited") \subseteq 1..Len(queue) /\ At("finalized") \subseteq 1..Len(queue)
  BY DEF At
<1>5. Leaving' = Leaving \cup {s}
  BY <1>1, <1>3, <1>4 DEF Leaving
<1>6. Finalizing' = Finalizing
  BY <1>1, <1>3, <1>4 DEF Finalizing
<1>7. ASSUME NEW i \in 1..Len(queue'), queue'[i].op \in {"update", "status"}
      PROVE  \/ queue'[i].id \in Owners'
             \/ \E j \in At("exited")' : i < j /\ queue'[j].id = queue'[i].id
  <2>1. i \in 1..Len(queue) /\ queue'[i] = queue[i] /\ i < z
    BY <1>1, <1>2, <1>7
  <2>2. CASE queue[i].id = s
    BY <2>1, <2>2, <1>1, <1>3
  <2>3. CASE queue[i].id # s /\ queue[i].id \in Owners
    BY <2>1, <2>3
  <2>4. CASE \E j \in At("exited") : i < j /\ queue[j].id = queue[i].id
    BY <2>1, <2>4, <1>1, <1>3, <1>4
  <2>. QED BY <2>1, <2>2, <2>3, <2>4, <1>7 DEF QueuePart
<1>8. \A i, j \in At("exited")' : queue'[i].id = queue'[j].id => i = j
  <2>1. \A i \in At("exited") : queue'[i].id = queue[i].id /\ queue[i].id # s
    BY <1>1, <1>4 DEF Leaving
  <2>2. \A i, j \in At("exited") : queue[i].id = queue[j].id => i = j
    BY DEF QueuePart
  <2>3. \A i \in At("exited")' : i \in At("exited") \/ i = z
    BY <1>3
  <2>4. queue'[z].id = s
    BY <1>1
  <2>. SUFFICES ASSUME NEW i \in At("exited")', NEW j \in At("exited")', queue'[i].id = queue'[j].id
                PROVE  i = j
    OBVIOUS
  <2>. QED BY <2>1, <2>2, <2>3, <2>4
<1>9. \A i, j \in At("finalized")' : queue'[i].id = queue'[j].id => i = j
  BY <1>1, <1>3, <1>4 DEF QueuePart
<1>. QED BY <1>5, <1>6, <1>7, <1>8, <1>9 DEF QueuePart

\* DeleteFinalized is posted.
LEMMA PostsFinalized ==
  ASSUME Shapes, QueuePart, NEW s \in Ids, queue' = Append(queue, [op |-> "finalized", id |-> s]),
         s \notin Finalizing, Owners' = Owners
  PROVE  Leaving' = Leaving /\ Finalizing' = Finalizing \cup {s} /\ QueuePart'
<1>. DEFINE z == Len(queue) + 1
<1>1. /\ Len(queue) \in Nat /\ Len(queue') = z /\ queue'[z].op = "finalized" /\ queue'[z].id = s
      /\ \A i \in 1..Len(queue) : queue'[i] = queue[i]
  BY DEF Shapes
<1>2. z \notin 1..Len(queue) /\ 1..z = 1..Len(queue) \cup {z} /\ \A i \in 1..Len(queue) : i < z
  BY <1>1
<1>. HIDE DEF z
<1>3. At("finalized")' = At("finalized") \cup {z} /\ At("exited")' = At("exited")
  BY <1>1, <1>2 DEF At
<1>4. At("exited") \subseteq 1..Len(queue) /\ At("finalized") \subseteq 1..Len(queue)
  BY DEF At
<1>5. Finalizing' = Finalizing \cup {s}
  BY <1>1, <1>3, <1>4 DEF Finalizing
<1>6. Leaving' = Leaving
  BY <1>1, <1>3, <1>4 DEF Leaving
<1>7. ASSUME NEW i \in 1..Len(queue'), queue'[i].op \in {"update", "status"}
      PROVE  \/ queue'[i].id \in Owners'
             \/ \E j \in At("exited")' : i < j /\ queue'[j].id = queue'[i].id
  <2>1. i \in 1..Len(queue) /\ queue'[i] = queue[i]
    BY <1>1, <1>2, <1>7
  <2>. QED BY <2>1, <1>1, <1>3, <1>4, <1>7 DEF QueuePart
<1>8. \A i, j \in At("finalized")' : queue'[i].id = queue'[j].id => i = j
  <2>1. \A i \in At("finalized") : queue'[i].id = queue[i].id /\ queue[i].id # s
    BY <1>1, <1>4 DEF Finalizing
  <2>2. \A i, j \in At("finalized") : queue[i].id = queue[j].id => i = j
    BY DEF QueuePart
  <2>3. \A i \in At("finalized")' : i \in At("finalized") \/ i = z
    BY <1>3
  <2>4. queue'[z].id = s
    BY <1>1
  <2>. SUFFICES ASSUME NEW i \in At("finalized")', NEW j \in At("finalized")', queue'[i].id = queue'[j].id
                PROVE  i = j
    OBVIOUS
  <2>. QED BY <2>1, <2>2, <2>3, <2>4
<1>9. \A i, j \in At("exited")' : queue'[i].id = queue'[j].id => i = j
  BY <1>1, <1>3, <1>4 DEF QueuePart
<1>. QED BY <1>5, <1>6, <1>7, <1>8, <1>9 DEF QueuePart

\* Neither takes the room of a session.
LEMMA EndingKeepsRoom ==
  ASSUME Shapes, RoomPart, NEW m \in Orders(Len(calls)), m.op \notin {"create", "spawn"},
         queue' = Append(queue, m), created' = created
  PROVE  RoomPart' /\ queue' \in Seq(Orders(Len(calls)))
<1>. DEFINE n == Len(calls)
<1>0. n \in Nat /\ queue \in Seq(Orders(n))
  BY Counts DEF Shapes
<1>1. /\ Append(queue, m) = queue \o <<m>> /\ Append(queue, m) \in Seq(Orders(n))
      /\ <<m>> \in Seq(Orders(n)) /\ Len(<<m>>) = 1 /\ <<m>>[1] = m
  BY <1>0, AppendAsConcat
<1>2. PICK ms \in Seq(Orders(n)) : queue' = queue \o ms /\ Len(ms) = 1 /\ ms[1] = m
  BY <1>1
<1>3. \A i \in 1..Len(ms) : ms[i].op \notin {"create", "spawn"}
  BY <1>2
<1>4. PendingCreates' = PendingCreates
  BY <1>0, <1>2, <1>3, PendingKept
<1>. QED BY <1>1, <1>4 DEF RoomPart

\* The thread writes its record a last time and reports its exit.
LEMMA PersistAndExitKeeps ==
  ASSUME IndexInv, NEW t, PersistAndExit(t)
  PROVE  IndexInv'
<1>. DEFINE th == [threads[t] EXCEPT !.pc = "sent"]
            s == threads[t].owner
            m == [op |-> "exited", id |-> s]
<1>1. /\ Shapes /\ Replies /\ Sets /\ Agreement /\ OwnerPart /\ MarkPart /\ QueuePart /\ FreshPart
      /\ RoomPart
  BY DEF IndexInv
<1>2. /\ t \in 1..Len(threads) /\ threads[t] \in ThreadState(Len(calls)) /\ threads[t].pc = "exit"
      /\ Len(calls) \in Nat /\ s \in Ids
  BY <1>1, Counts, ThreadFields DEF PersistAndExit, In
<1>3. /\ UNCHANGED <<index, calls, finals, conn, diskPinned, tomb, created, ops>>
      /\ records' = records \cup {s} /\ queue' = Append(queue, m) /\ threads' = [threads EXCEPT ![t] = th]
  BY <1>1, <1>2 DEF PersistAndExit, counts, Post
<1>4. th \in ThreadState(Len(calls)) /\ th.owner = s /\ th.pc = "sent"
  BY <1>2 DEF ThreadState
<1>. HIDE DEF th
<1>5. /\ threads' \in Seq(ThreadState(Len(calls))) /\ Len(threads') = Len(threads)
      /\ \A u \in 1..Len(threads) : threads'[u] = IF u = t THEN th ELSE threads[u]
  BY <1>1, <1>2, <1>3, <1>4, ThreadBecomes
<1>6. Own' = Own
  BY <1>2, <1>4, <1>5 DEF Own
<1>7. t \in Writers /\ Writers' = Writers \ {t} /\ Own[t] = s
  BY <1>2, <1>4, <1>5 DEF Writers, Own
<1>8. s \in Owners /\ Owners' = Owners \ {s}
  BY <1>1, <1>6, <1>7 DEF Owners, OwnerPart
<1>. HIDE DEF s
<1>9. s \notin Leaving /\ s \in listed \cup tomb
  BY <1>1, <1>8, WritersAreKnown DEF OwnerPart
<1>10. Leaving' = Leaving \cup {s} /\ Finalizing' = Finalizing /\ QueuePart'
  BY <1>1, <1>2, <1>3, <1>8, <1>9, PostsExited
<1>11. m \in Orders(Len(calls)) /\ m.op = "exited"
  BY <1>2, OrderForms
<1>12. RoomPart' /\ queue' \in Seq(Orders(Len(calls)))
  BY <1>1, <1>3, <1>11, EndingKeepsRoom
<1>13. Shapes' /\ Replies'
  BY <1>1, <1>3, <1>5, <1>12 DEF Shapes, Replies, index
<1>14. Agreement' /\ Sets'
  BY <1>1, <1>2, <1>3, <1>9 DEF Agreement, Sets, index
<1>15. OwnerPart'
  <2>1. \A u \in Writers' : u \in Writers
    BY <1>7
  <2>2. \A u \in Ids : active[u] # 0 =>
          Own[active[u]] = u /\ u \in listed /\ (active[u] \in Writers' \/ u \in Leaving')
    BY <1>1, <1>7, <1>10 DEF OwnerPart
  <2>3. \A u \in Leaving' : active[u] # 0 \/ u \in marker
    <3>1. active[s] = t \/ s \in marker
      BY <1>1, <1>7 DEF OwnerPart
    <3>2. t # 0
      BY <1>2
    <3>. QED BY <3>1, <3>2, <1>1, <1>10 DEF OwnerPart
  <2>4. Owners' \cap Leaving' = {}
    BY <1>1, <1>8, <1>10 DEF OwnerPart
  <2>. QED BY <2>1, <2>2, <2>3, <2>4, <1>1, <1>3, <1>6 DEF OwnerPart, index
<1>16. MarkPart'
  BY <1>1, <1>3, <1>8, <1>10 DEF MarkPart, index
<1>17. FreshPart'
  BY <1>1, <1>2, <1>3, <1>5, <1>6, <1>7 DEF FreshPart, index
<1>. QED BY <1>10, <1>12, <1>13, <1>14, <1>15, <1>16, <1>17 DEF IndexInv

\* The finalize thread of a deleted session.
LEMMA FinalizeKeeps ==
  ASSUME IndexInv, NEW s \in Ids, Finalize(s)
  PROVE  IndexInv'
<1>1. /\ Shapes /\ Replies /\ Sets /\ Agreement /\ OwnerPart /\ MarkPart /\ QueuePart /\ FreshPart
      /\ RoomPart
  BY DEF IndexInv
<1>2. /\ UNCHANGED <<index, threads, calls, conn, created, ops>>
      /\ Own' = Own /\ Writers' = Writers /\ Owners' = Owners
  BY DEF Finalize, counts, Own, Writers, Owners
<1>3. finals \in [Ids -> {"none", "delete", "clear"}] /\ Len(calls) \in Nat
  BY <1>1, Counts DEF Shapes
<1>4. CASE /\ finals[s] = "delete" /\ finals' = [finals EXCEPT ![s] = "clear"]
           /\ records' = records \ {s} /\ diskPinned' = diskPinned \ {s}
           /\ UNCHANGED <<queue, tomb>>
  <2>1. s \in marker /\ s \notin listed
    BY <1>1, <1>4 DEF MarkPart
  <2>2. Leaving' = Leaving /\ Finalizing' = Finalizing /\ QueuePart'
    BY <1>1, <1>2, <1>4 DEF Leaving, Finalizing, QueuePart, At
  <2>3. Shapes' /\ Replies' /\ RoomPart'
    BY <1>1, <1>2, <1>3, <1>4 DEF Shapes, Replies, RoomPart, PendingCreates, index
  <2>4. Agreement' /\ Sets'
    BY <1>1, <1>2, <1>4, <2>1 DEF Agreement, Sets, index
  <2>5. OwnerPart'
    BY <1>1, <1>2, <2>2 DEF OwnerPart, index
  <2>6. MarkPart'
    BY <1>1, <1>2, <1>3, <1>4, <2>2 DEF MarkPart, index
  <2>7. FreshPart'
    BY <1>1, <1>2, <1>4 DEF FreshPart, index
  <2>. QED BY <2>2, <2>3, <2>4, <2>5, <2>6, <2>7 DEF IndexInv
<1>5. CASE /\ finals[s] = "clear" /\ finals' = [finals EXCEPT ![s] = "none"]
           /\ tomb' = tomb \ {s} /\ queue' = Append(queue, [op |-> "finalized", id |-> s])
           /\ UNCHANGED <<records, diskPinned>>
  <2>1. s \in marker /\ s \notin Owners /\ s \notin Leaving /\ s \notin records /\ s \notin Finalizing
    BY <1>1, <1>5 DEF MarkPart
  <2>2. Leaving' = Leaving /\ Finalizing' = Finalizing \cup {s} /\ QueuePart'
    BY <1>1, <1>2, <1>5, <2>1, PostsFinalized
  <2>3. [op |-> "finalized", id |-> s] \in Orders(Len(calls))
    BY <1>3, OrderForms
  <2>4. RoomPart' /\ queue' \in Seq(Orders(Len(calls)))
    BY <1>1, <1>2, <1>5, <2>3, EndingKeepsRoom
  <2>5. Shapes' /\ Replies'
    BY <1>1, <1>2, <1>3, <1>5, <2>4 DEF Shapes, Replies, index
  <2>6. Agreement' /\ Sets'
    BY <1>1, <1>2, <1>5, <2>1 DEF Agreement, Sets, index
  <2>7. OwnerPart'
    BY <1>1, <1>2, <2>2 DEF OwnerPart, index
  <2>8. MarkPart'
    BY <1>1, <1>2, <1>3, <1>5, <2>1, <2>2 DEF MarkPart, index
  <2>9. FreshPart'
    BY <1>1, <1>2, <1>5 DEF FreshPart, index
  <2>. QED BY <2>2, <2>4, <2>5, <2>6, <2>7, <2>8, <2>9 DEF IndexInv
<1>. QED BY <1>4, <1>5 DEF Finalize

-----------------------------------------------------------------------------
(* The command loop.                                                       *)

\* One command is taken.
LEMMA HandlesOne ==
  ASSUME IndexInv, NEW op, Handles(op)
  PROVE  /\ Head(queue) \in Orders(Len(calls)) /\ Len(calls) \in Nat /\ Head(queue).op = op
         /\ queue # <<>> /\ queue' = Tail(queue) /\ queue' \in Seq(Orders(Len(calls)))
         /\ created' = created => RoomPart'
<1>1. Shapes /\ Len(calls) \in Nat /\ queue \in Seq(Orders(Len(calls))) /\ MaxIds \in Nat
  BY Counts DEF IndexInv, Shapes
<1>2. queue # <<>> /\ queue' = Tail(queue) /\ Head(queue).op = op
  BY DEF Handles
<1>3. /\ Cardinality(PendingCreates') \in Nat
      /\ Cardinality(PendingCreates') =< Cardinality(PendingCreates)
      /\ Cardinality(PendingCreates) \in Nat /\ created \in Nat
  BY <1>1, <1>2, PendingServed, PendingFinite DEF Shapes
<1>4. created' = created => RoomPart'
  BY <1>1, <1>3 DEF IndexInv, RoomPart
<1>. QED BY <1>1, <1>2, <1>4, HeadTailProperties

\* A session that reported and is not being deleted is in the index, awake.
LEMMA ReportedIsActive ==
  ASSUME IndexInv, NEW s \in Owners \cup Leaving, s \notin marker
  PROVE  active[s] # 0 /\ s \in listed /\ s \in awake /\ s \in Ids
<1>1. Shapes /\ Agreement /\ OwnerPart /\ MarkPart /\ Len(calls) \in Nat
  BY Counts DEF IndexInv
<1>2. s \in Ids
  <2>1. CASE s \in Owners
    BY <2>1, <1>1, WritersAreKnown
  <2>2. CASE s \in Leaving
    <3>1. PICK i \in 1..Len(queue) : queue[i].op = "exited" /\ s = queue[i].id
      BY <2>2 DEF Leaving, At
    <3>. QED BY <3>1, <1>1, Counts, OrderFields
  <2>. QED BY <2>1, <2>2
<1>3. active[s] # 0
  <2>1. CASE s \in Owners
    <3>1. PICK t \in Writers : s = Own[t]
      BY <2>1 DEF Owners
    <3>2. t # 0
      BY <1>1, Counts DEF Writers
    <3>. QED BY <3>1, <3>2, <1>1 DEF OwnerPart
  <2>2. CASE s \in Leaving
    BY <2>2, <1>1 DEF OwnerPart
  <2>. QED BY <2>1, <2>2
<1>4. s \in listed
  BY <1>1, <1>2, <1>3 DEF OwnerPart
<1>. QED BY <1>1, <1>2, <1>3, <1>4 DEF Agreement

\* A command that changes neither the index nor the records.
LEMMA HandlesCalmly ==
  ASSUME IndexInv, NEW op, Handles(op), op \notin {"exited", "finalized"}, Calm,
         threads' \in Seq(ThreadState(Len(calls))),
         conn' \in [Clients -> ConnState(Len(threads))],
         \A c \in Clients : conn'[c].pc = "reply" => conn'[c].got # 0,
         UNCHANGED <<calls, ops>>
  PROVE  IndexInv'
<1>1. /\ queue # <<>> /\ queue' = Tail(queue) /\ queue' \in Seq(Orders(Len(calls)))
      /\ Head(queue).op = op /\ RoomPart' /\ Shapes /\ QueuePart
  BY HandlesOne DEF Calm, IndexInv
<1>2. Leaving' = Leaving /\ Finalizing' = Finalizing /\ QueuePart'
  BY <1>1, TakesFirst DEF Calm
<1>3. /\ Replies' /\ ops' \in 0..MaxOps /\ Len(calls') =< ops'
      /\ calls' \in Seq(CallState(Len(threads)))
  BY <1>1 DEF IndexInv, Replies, Shapes
<1>. QED BY <1>1, <1>2, <1>3, CalmKeeps

\* A client that has its answer is idle.
LEMMA AnsweredConn ==
  ASSUME IndexInv, NEW c \in Clients, conn' = [conn EXCEPT ![c].pc = "idle"]
  PROVE  /\ conn' \in [Clients -> ConnState(Len(threads))]
         /\ \A d \in Clients : conn'[d].pc = "reply" => conn'[d].got # 0
  BY DEF IndexInv, Shapes, Replies, ConnState

\* UpdateMetadata of a session that is not being deleted finds it listed, so
\* that it inserts nothing.
LEMMA HandleUpdateMetadataKeeps ==
  ASSUME IndexInv, HandleUpdateMetadata
  PROVE  IndexInv'
<1>. DEFINE s == Head(queue).id
<1>1. Handles("update") /\ UNCHANGED <<nextId, active, marker, children, threads, calls, finals, conn, disk, created, ops>>
  BY DEF HandleUpdateMetadata, counts
<1>2. Own' = Own /\ Writers' = Writers /\ Owners' = Owners
  BY <1>1 DEF Own, Writers, Owners
<1>3. s \in Owners \cup Leaving
  BY <1>1, <1>2, HandlesOne, TakesFirst DEF IndexInv
<1>4. UNCHANGED <<listed, awake, pinned>>
  <2>1. CASE s \in marker
    BY <2>1 DEF HandleUpdateMetadata
  <2>2. CASE s \notin marker
    <3>1. s \in listed
      BY <1>3, <2>2, ReportedIsActive
    <3>. QED BY <2>2, <3>1 DEF HandleUpdateMetadata
  <2>. QED BY <2>1, <2>2
<1>5. Calm
  BY <1>1, <1>2, <1>4 DEF Calm, index, disk
<1>6. /\ threads' \in Seq(ThreadState(Len(calls))) /\ conn' \in [Clients -> ConnState(Len(threads))]
      /\ \A c \in Clients : conn'[c].pc = "reply" => conn'[c].got # 0
  BY <1>1 DEF IndexInv, Shapes, Replies
<1>. QED BY <1>1, <1>5, <1>6, HandlesCalmly

\* SessionStatus wakes no session that has exited.
LEMMA HandleStatusKeeps ==
  ASSUME IndexInv, HandleStatus
  PROVE  IndexInv'
<1>. DEFINE s == Head(queue).id
<1>1. Handles("status") /\ UNCHANGED <<nextId, active, listed, pinned, marker, children, threads, calls, finals, conn, disk, created, ops>>
  BY DEF HandleStatus, counts
<1>2. Own' = Own /\ Writers' = Writers /\ Owners' = Owners
  BY <1>1 DEF Own, Writers, Owners
<1>3. s \in Owners \cup Leaving
  BY <1>1, <1>2, HandlesOne, TakesFirst DEF IndexInv
<1>4. UNCHANGED awake
  <2>1. CASE s \in listed
    <3>1. s \notin marker
      BY <2>1 DEF IndexInv, MarkPart
    <3>2. s \in awake
      BY <1>3, <3>1, ReportedIsActive
    <3>. QED BY <2>1, <3>2 DEF HandleStatus
  <2>2. CASE s \notin listed
    BY <2>2 DEF HandleStatus
  <2>. QED BY <2>1, <2>2
<1>5. Calm
  BY <1>1, <1>2, <1>4 DEF Calm, index, disk
<1>6. /\ threads' \in Seq(ThreadState(Len(calls))) /\ conn' \in [Clients -> ConnState(Len(threads))]
      /\ \A c \in Clients : conn'[c].pc = "reply" => conn'[c].got # 0
  BY <1>1 DEF IndexInv, Shapes, Replies
<1>. QED BY <1>1, <1>5, <1>6, HandlesCalmly

\* CancelRequest is passed to the session and its tracked children.
LEMMA HandleCancelRequestKeeps ==
  ASSUME IndexInv, HandleCancelRequest
  PROVE  IndexInv'
<1>. DEFINE s == Head(queue).id
            n == Head(queue).stream
            own(u) == IF u = active[s] THEN <<[op |-> "cancel", stream |-> n]>> ELSE <<>>
            all(u) == IF u \in ToCancel(s) THEN <<CancelAll>> ELSE <<>>
            mail == [u \in 1..Len(threads) |-> own(u) \o all(u)]
<1>1. Handles("cancelReq") /\ UNCHANGED <<index, calls, finals, conn, disk, created, ops>>
      /\ Shapes /\ DOMAIN threads = 1..Len(threads)
  BY Counts DEF HandleCancelRequest, counts, IndexInv
<1>2. Len(calls) \in Nat /\ n \in Nat
  BY <1>1, HandlesOne, OrderFields
<1>3. \A u \in 1..Len(threads) : own(u) \in Seq(Mail(Len(calls))) /\ all(u) \in Seq(Mail(Len(calls)))
  BY <1>2, MailForms
<1>4. \A u \in 1..Len(threads) : own(u) \o all(u) \in Seq(Mail(Len(calls)))
  BY <1>3, ConcatProperties
<1>5. mail \in [1..Len(threads) -> Seq(Mail(Len(calls)))]
  BY <1>4
<1>6. threads' = Mailed(mail)
  BY <1>1 DEF HandleCancelRequest
<1>. HIDE DEF mail
<1>7. /\ threads' \in Seq(ThreadState(Len(calls))) /\ Len(threads') = Len(threads)
      /\ Own' = Own /\ Writers' = Writers /\ Owners' = Owners
  BY <1>1, <1>5, <1>6, MailedKeeps
<1>8. Calm
  BY <1>1, <1>7 DEF Calm, index, disk
<1>9. /\ conn' \in [Clients -> ConnState(Len(threads))]
      /\ \A c \in Clients : conn'[c].pc = "reply" => conn'[c].got # 0
  BY <1>1 DEF IndexInv, Shapes, Replies
<1>. QED BY <1>1, <1>7, <1>8, <1>9, HandlesCalmly

\* The pinned flag goes to the record and then to the index.
LEMMA HandleFlagsKeeps ==
  ASSUME IndexInv, HandleFlags
  PROVE  IndexInv'
<1>. DEFINE s == Head(queue).id
<1>1. /\ Shapes /\ Replies /\ Sets /\ Agreement /\ OwnerPart /\ MarkPart /\ QueuePart /\ FreshPart
      /\ RoomPart /\ Handles("flags")
      /\ UNCHANGED <<nextId, active, listed, awake, marker, children, threads, calls, finals,
                     records, tomb, created, ops>>
      /\ conn' = [conn EXCEPT ![Head(queue).who].pc = "idle"]
  BY DEF IndexInv, HandleFlags, counts
<1>2. Own' = Own /\ Writers' = Writers /\ Owners' = Owners
  BY <1>1 DEF Own, Writers, Owners
<1>3. /\ Head(queue).who \in Clients /\ queue # <<>> /\ queue' = Tail(queue)
      /\ queue' \in Seq(Orders(Len(calls))) /\ Head(queue).op = "flags" /\ RoomPart'
  BY <1>1, HandlesOne, OrderFields
<1>4. Leaving' = Leaving /\ Finalizing' = Finalizing /\ QueuePart'
  BY <1>1, <1>2, <1>3, TakesFirst
<1>5. /\ conn' \in [Clients -> ConnState(Len(threads))]
      /\ \A d \in Clients : conn'[d].pc = "reply" => conn'[d].got # 0
  BY <1>1, <1>3, AnsweredConn
<1>6. Shapes' /\ Replies'
  BY <1>1, <1>3, <1>5 DEF Shapes, Replies
<1>7. pinned' = diskPinned' \ tomb' /\ diskPinned' \subseteq records' /\ pinned' \subseteq listed'
  <2>1. CASE s \notin marker /\ s \in listed
    <3>1. s \in records /\ s \notin tomb
      BY <2>1, <1>1 DEF Agreement
    <3>2. \/ pinned' = pinned \cup {s} /\ diskPinned' = diskPinned \cup {s}
          \/ pinned' = pinned \ {s} /\ diskPinned' = diskPinned \ {s}
      BY <2>1, <3>1 DEF HandleFlags
    <3>. QED BY <2>1, <3>1, <3>2, <1>1 DEF Agreement, Sets
  <2>2. CASE ~(s \notin marker /\ s \in listed)
    <3>1. pinned' = pinned /\ diskPinned' = diskPinned
      BY <2>2 DEF HandleFlags
    <3>. QED BY <3>1, <1>1 DEF Agreement, Sets
  <2>. QED BY <2>1, <2>2
<1>8. Agreement' /\ Sets'
  BY <1>1, <1>7 DEF Agreement, Sets
<1>9. OwnerPart' /\ MarkPart'
  BY <1>1, <1>2, <1>4 DEF OwnerPart, MarkPart
<1>10. FreshPart'
  BY <1>1, <1>2 DEF FreshPart
<1>. QED BY <1>3, <1>4, <1>6, <1>8, <1>9, <1>10 DEF IndexInv

\* DeleteFinalized: no thread works for the session any more.
LEMMA HandleDeleteFinalizedKeeps ==
  ASSUME IndexInv, HandleDeleteFinalized
  PROVE  IndexInv'
<1>. DEFINE s == Head(queue).id
<1>1. /\ Shapes /\ Replies /\ Sets /\ Agreement /\ OwnerPart /\ MarkPart /\ QueuePart /\ FreshPart
      /\ RoomPart /\ Handles("finalized") /\ marker' = marker \ {s}
      /\ UNCHANGED <<nextId, active, listed, awake, pinned, children, threads, calls, finals,
                     conn, disk, created, ops>>
  BY DEF IndexInv, HandleDeleteFinalized, counts
<1>2. Own' = Own /\ Writers' = Writers /\ Owners' = Owners
  BY <1>1 DEF Own, Writers, Owners
<1>3. /\ queue # <<>> /\ queue' = Tail(queue)
      /\ queue' \in Seq(Orders(Len(calls))) /\ Head(queue).op = "finalized" /\ RoomPart'
  BY <1>1, HandlesOne
<1>4. /\ Leaving' = Leaving /\ Finalizing' = Finalizing \ {s} /\ QueuePart' /\ s \in Finalizing
  BY <1>1, <1>2, <1>3, TakesFirst
<1>5. s \notin tomb /\ s \notin Owners /\ s \notin Leaving /\ finals[s] = "none"
  BY <1>1, <1>4 DEF MarkPart
<1>6. Shapes' /\ Replies'
  BY <1>1, <1>3 DEF Shapes, Replies, disk
<1>7. Agreement' /\ Sets'
  BY <1>1 DEF Agreement, Sets, disk
<1>8. OwnerPart'
  BY <1>1, <1>2, <1>4, <1>5 DEF OwnerPart, Owners
<1>9. MarkPart'
  BY <1>1, <1>2, <1>4, <1>5 DEF MarkPart, disk
<1>10. FreshPart'
  BY <1>1, <1>2 DEF FreshPart, disk
<1>. QED BY <1>3, <1>4, <1>6, <1>7, <1>8, <1>9, <1>10 DEF IndexInv

\* The children tracked for a session stay sets of sessions.
LEMMA UntrackedForm ==
  ASSUME Shapes, NEW s, NEW K
  PROVE  Untracked(s, K) \in [Ids -> SUBSET Ids]
  BY DEF Shapes, Untracked

\* SessionExited: the thread is forgotten, and the delete it held up goes on.
LEMMA HandleExitedKeeps ==
  ASSUME IndexInv, HandleExited
  PROVE  IndexInv'
<1>. DEFINE s == Head(queue).id
            kids == {active[d] : d \in children[s] \ {s}} \ {0}
            mail == [t \in 1..Len(threads) |-> IF t \in kids THEN <<CancelAll, Shutdown>> ELSE <<>>]
<1>1. /\ Shapes /\ Replies /\ Sets /\ Agreement /\ OwnerPart /\ MarkPart /\ QueuePart /\ FreshPart
      /\ RoomPart /\ Handles("exited") /\ active' = [active EXCEPT ![s] = 0]
      /\ children' = Untracked(s, children[s]) /\ awake' = awake \ {s}
      /\ finals' = IF s \in marker THEN [finals EXCEPT ![s] = "delete"] ELSE finals
      /\ UNCHANGED <<nextId, listed, pinned, marker, calls, conn, disk, created, ops>>
  BY DEF IndexInv, HandleExited, Exited, counts
<1>2. Len(calls) \in Nat /\ Len(threads) \in Nat /\ DOMAIN threads = 1..Len(threads)
  BY <1>1, Counts
<1>3. mail \in [1..Len(threads) -> Seq(Mail(Len(calls)))]
  BY <1>2, MailForms
<1>4. threads' = Mailed(mail)
  BY <1>2 DEF HandleExited, Exited
<1>. HIDE DEF mail
<1>5. /\ threads' \in Seq(ThreadState(Len(calls))) /\ Len(threads') = Len(threads)
      /\ Own' = Own /\ Writers' = Writers /\ Owners' = Owners
  BY <1>1, <1>3, <1>4, MailedKeeps
<1>6. /\ queue # <<>> /\ queue' = Tail(queue) /\ s \in Ids
      /\ queue' \in Seq(Orders(Len(calls))) /\ Head(queue).op = "exited" /\ RoomPart'
  BY <1>1, HandlesOne, OrderFields
<1>7. /\ Leaving' = Leaving \ {s} /\ Finalizing' = Finalizing /\ QueuePart' /\ s \in Leaving
  BY <1>1, <1>5, <1>6, TakesFirst
<1>8. s \notin Owners /\ s \notin Finalizing
  BY <1>1, <1>7 DEF OwnerPart, MarkPart
<1>9. \A u \in Ids : active'[u] = IF u = s THEN 0 ELSE active[u]
  BY <1>1, <1>6 DEF Shapes
<1>10. \A u \in Ids : finals'[u] = IF u = s /\ s \in marker THEN "delete" ELSE finals[u]
  BY <1>1, <1>6 DEF Shapes
<1>11. Shapes' /\ Replies'
  <2>1. active' \in [Ids -> 0..Len(threads)] /\ children' \in [Ids -> SUBSET Ids]
    BY <1>1, <1>2, <1>6, UntrackedForm DEF Shapes
  <2>2. finals' \in [Ids -> {"none", "delete", "clear"}]
    BY <1>1, <1>6 DEF Shapes
  <2>. QED BY <2>1, <2>2, <1>1, <1>5, <1>6 DEF Shapes, Replies, disk
<1>12. Agreement' /\ Sets'
  BY <1>1, <1>9 DEF Agreement, Sets, disk
<1>13. OwnerPart'
  <2>1. \A u \in Ids : active'[u] # 0 =>
          Own[active'[u]] = u /\ u \in listed /\ (active'[u] \in Writers \/ u \in Leaving')
    BY <1>1, <1>7, <1>9 DEF OwnerPart
  <2>2. \A t \in Writers : active'[Own[t]] = t \/ Own[t] \in marker
    <3>1. \A t \in Writers : Own[t] # s /\ Own[t] \in Ids
      BY <1>1, <1>8, WritersAreKnown DEF Owners
    <3>. QED BY <3>1, <1>1, <1>9 DEF OwnerPart
  <2>3. \A u \in Leaving' : active'[u] # 0 \/ u \in marker
    <3>1. \A u \in Leaving : u \in Ids
      <4>1. \A i \in At("exited") : queue[i].id \in Ids
        BY <1>1, <1>2, Counts, OrderFields DEF At
      <4>. QED BY <4>1 DEF Leaving
    <3>. QED BY <3>1, <1>1, <1>7, <1>9 DEF OwnerPart
  <2>. QED BY <2>1, <2>2, <2>3, <1>1, <1>5, <1>7 DEF OwnerPart
<1>14. MarkPart'
  <2>1. \A u \in Finalizing : u \in Ids
    BY <1>1 DEF MarkPart, Sets
  <2>2. \A u \in Ids : finals'[u] # "none" => u \in marker /\ u \notin Owners \cup Leaving'
    BY <1>1, <1>7, <1>8, <1>10 DEF MarkPart
  <2>3. \A u \in Ids : finals'[u] = "clear" => u \notin records
    BY <1>1, <1>10 DEF MarkPart
  <2>4. \A u \in Finalizing : u \in marker /\ u \notin tomb \cup Owners \cup Leaving' /\ finals'[u] = "none"
    BY <1>1, <1>7, <1>8, <1>10, <2>1 DEF MarkPart
  <2>. QED BY <2>2, <2>3, <2>4, <1>1, <1>5, <1>7 DEF MarkPart, disk
<1>15. FreshPart'
  BY <1>1, <1>5 DEF FreshPart, disk
<1>. QED BY <1>6, <1>7, <1>11, <1>12, <1>13, <1>14, <1>15 DEF IndexInv

\* DeleteSession: a session whose thread may still write gets a tombstone.
LEMMA HandleDeleteKeeps ==
  ASSUME IndexInv, HandleDelete
  PROVE  IndexInv'
<1>. DEFINE s == Head(queue).id
            D == {s} \cup children[s]
            again == {s} \cap children[s]
            mail == [t \in 1..Len(threads) |->
                       IF \E d \in D : active[d] = t THEN <<CancelAll, Shutdown>> ELSE <<>>]
<1>1. /\ Shapes /\ Replies /\ Sets /\ Agreement /\ OwnerPart /\ MarkPart /\ QueuePart /\ FreshPart
      /\ RoomPart /\ Handles("delete") /\ children' = Untracked(s, D)
      /\ conn' = [conn EXCEPT ![Head(queue).who].pc = "idle"]
      /\ UNCHANGED <<nextId, calls, finals, created, ops>>
  BY DEF IndexInv, HandleDelete, counts
<1>2. /\ Len(calls) \in Nat /\ Len(threads) \in Nat /\ DOMAIN threads = 1..Len(threads)
      /\ MaxIds \in Nat
  BY <1>1, Counts
<1>3. mail \in [1..Len(threads) -> Seq(Mail(Len(calls)))]
  BY <1>2, MailForms
<1>4. threads' = Mailed(mail)
  BY <1>2 DEF HandleDelete, DeleteInner, DeleteAll
<1>. HIDE DEF mail
<1>5. /\ threads' \in Seq(ThreadState(Len(calls))) /\ Len(threads') = Len(threads)
      /\ Own' = Own /\ Writers' = Writers /\ Owners' = Owners
  BY <1>1, <1>3, <1>4, MailedKeeps
<1>6. /\ queue # <<>> /\ queue' = Tail(queue) /\ s \in Ids /\ Head(queue).who \in Clients
      /\ queue' \in Seq(Orders(Len(calls))) /\ Head(queue).op = "delete" /\ RoomPart'
  BY <1>1, HandlesOne, OrderFields
<1>7. Leaving' = Leaving /\ Finalizing' = Finalizing /\ QueuePart'
  BY <1>1, <1>5, <1>6, TakesFirst
<1>8. D \subseteq Ids
  BY <1>1, <1>6 DEF Shapes
<1>9. /\ marker' = marker \cup Live(D) \cup Ended(D)
      /\ tomb' = (tomb \cup Live(D)) \ (Ended(D) \cup (Threadless(D) \ marker))
      /\ records' = records \ ((D \ Live(D)) \cup again)
      /\ diskPinned' = diskPinned \ ((D \ Live(D)) \cup again) /\ again \subseteq D
      /\ active' = [u \in Ids |-> IF u \in D THEN 0 ELSE active[u]]
      /\ listed' = listed \ D /\ awake' = awake \ D /\ pinned' = pinned \ D
  BY DEF HandleDelete, DeleteInner, DeleteAll
<1>10. /\ Live(D) \subseteq D /\ Ended(D) \subseteq D /\ Live(D) \cap Ended(D) = {}
       /\ \A d \in D : active[d] # 0 <=> d \in Live(D) \cup Ended(D)
       /\ Threadless(D) = D \ (Live(D) \cup Ended(D))
       /\ \A d \in Ended(D) : active[d] \notin Writers
  BY DEF Live, Ended, Threadless, Writers
<1>. HIDE DEF D, again
<1>11. Live(D) \cup Ended(D) \subseteq listed /\ \A d \in D : d \in marker => active[d] = 0
  BY <1>1, <1>8, <1>10 DEF OwnerPart, MarkPart
<1>12. \A u \in Ids : active'[u] = IF u \in D THEN 0 ELSE active[u]
  BY <1>9
<1>13. Shapes' /\ Replies'
  <2>1. active' \in [Ids -> 0..Len(threads)] /\ children' \in [Ids -> SUBSET Ids]
    BY <1>1, <1>2, <1>9, UntrackedForm DEF Shapes
  <2>2. /\ conn' \in [Clients -> ConnState(Len(threads))]
        /\ \A d \in Clients : conn'[d].pc = "reply" => conn'[d].got # 0
    BY <1>1, <1>6, AnsweredConn
  <2>. QED BY <2>1, <2>2, <1>1, <1>5, <1>6 DEF Shapes, Replies
<1>14. Agreement'
  <2>1. listed' = records' \ tomb' /\ pinned' = diskPinned' \ tomb'
    BY <1>1, <1>9, <1>10, <1>11 DEF Agreement, MarkPart, Sets
  <2>2. \A u \in listed' : u \in awake' <=> active'[u] # 0
    BY <1>1, <1>9, <1>12 DEF Agreement, Sets
  <2>. QED BY <2>1, <2>2 DEF Agreement
<1>15. Sets'
  BY <1>1, <1>8, <1>9, <1>10 DEF Sets
<1>16. Owners \subseteq Ids
  BY <1>1, WritersAreKnown
<1>17. \A u \in Owners : u \in D => u \in Live(D) \/ u \in marker
  <2>1. SUFFICES ASSUME NEW t \in Writers, Own[t] \in D
                 PROVE  Own[t] \in Live(D) \/ Own[t] \in marker
    BY DEF Owners
  <2>2. CASE active[Own[t]] = t
    <3>1. t # 0
      BY <1>2 DEF Writers
    <3>. QED BY <2>1, <2>2, <3>1, <1>10
  <2>. QED BY <2>1, <2>2, <1>1 DEF OwnerPart
<1>18. OwnerPart'
  <2>1. \A u \in Ids : active'[u] # 0 =>
          Own[active'[u]] = u /\ u \in listed' /\ (active'[u] \in Writers \/ u \in Leaving)
    BY <1>1, <1>9, <1>12 DEF OwnerPart
  <2>2. \A t \in Writers : active'[Own[t]] = t \/ Own[t] \in marker'
    <3>. SUFFICES ASSUME NEW t \in Writers
                  PROVE  active'[Own[t]] = t \/ Own[t] \in marker'
      OBVIOUS
    <3>1. Own[t] \in Owners /\ Own[t] \in Ids
      BY <1>16 DEF Owners
    <3>2. CASE Own[t] \in D
      BY <3>1, <3>2, <1>9, <1>17
    <3>3. CASE Own[t] \notin D
      BY <3>1, <3>3, <1>1, <1>9, <1>12 DEF OwnerPart
    <3>. QED BY <3>2, <3>3
  <2>3. \A u \in Leaving : active'[u] # 0 \/ u \in marker'
    <3>1. \A u \in Leaving : u \in Ids
      <4>1. \A i \in At("exited") : queue[i].id \in Ids
        BY <1>1, <1>2, Counts, OrderFields DEF At
      <4>. QED BY <4>1 DEF Leaving
    <3>. QED BY <3>1, <1>1, <1>9, <1>10, <1>12 DEF OwnerPart
  <2>. QED BY <2>1, <2>2, <2>3, <1>1, <1>5, <1>7 DEF OwnerPart
<1>19. MarkPart'
  <2>1. marker' \cap listed' = {} /\ tomb' \subseteq marker'
    BY <1>1, <1>9, <1>10 DEF MarkPart
  <2>2. Owners \cap marker' \subseteq tomb'
    BY <1>1, <1>9, <1>10, <1>11, <1>17 DEF MarkPart
  <2>3. \A u \in Ids : finals[u] # "none" => u \in marker' /\ u \notin Owners \cup Leaving
    BY <1>1, <1>9 DEF MarkPart
  <2>4. \A u \in Ids : finals[u] = "clear" => u \notin records'
    BY <1>1, <1>9 DEF MarkPart
  <2>5. \A u \in Finalizing :
          u \in marker' /\ u \notin tomb' \cup Owners \cup Leaving /\ finals[u] = "none"
    BY <1>1, <1>9, <1>11 DEF MarkPart
  <2>. QED BY <2>1, <2>2, <2>3, <2>4, <2>5, <1>1, <1>5, <1>7 DEF MarkPart
<1>20. FreshPart'
  <2>1. \A u \in records' \cup tomb' \cup marker' : u \in records \cup tomb \cup marker
    BY <1>1, <1>9, <1>11 DEF Agreement
  <2>. QED BY <2>1, <1>1, <1>5 DEF FreshPart
<1>. QED BY <1>6, <1>7, <1>13, <1>14, <1>15, <1>18, <1>19, <1>20 DEF IndexInv

\* A thread is spawned for a session that has none.
LEMMA SpawnedThread ==
  ASSUME Shapes, NEW s \in Ids, threads' = Append(threads, Fresh(s))
  PROVE  /\ threads' \in Seq(ThreadState(Len(calls))) /\ Len(threads') = Len(threads) + 1
         /\ Writers' = Writers \cup {Len(threads) + 1} /\ Owners' = Owners \cup {s}
         /\ \A t \in 1..Len(threads) : Own'[t] = Own[t]
         /\ Own'[Len(threads) + 1] = s
<1>. DEFINE z == Len(threads) + 1
<1>1. Len(threads) \in Nat /\ Len(calls) \in Nat /\ threads \in Seq(ThreadState(Len(calls)))
  BY Counts DEF Shapes
<1>2. Fresh(s) \in ThreadState(Len(calls)) /\ Fresh(s).pc = "start" /\ Fresh(s).owner = s
  <2>1. 0 \in 0..Len(calls) /\ <<>> \in Seq(Mail(Len(calls)))
    BY <1>1
  <2>. QED BY <2>1 DEF ThreadState, Fresh
<1>3. /\ threads' \in Seq(ThreadState(Len(calls))) /\ Len(threads') = z
      /\ threads'[z] = Fresh(s) /\ \A t \in 1..Len(threads) : threads'[t] = threads[t]
  BY <1>1, <1>2
<1>4. 1..z = 1..Len(threads) \cup {z} /\ z \notin 1..Len(threads)
  BY <1>1
<1>. HIDE DEF z
<1>5. Writers' = Writers \cup {z}
  BY <1>2, <1>3, <1>4 DEF Writers
<1>6. (\A t \in 1..Len(threads) : Own'[t] = Own[t]) /\ Own'[z] = s
  BY <1>2, <1>3, <1>4 DEF Own
<1>7. Owners' = Owners \cup {s}
  <2>1. Writers \subseteq 1..Len(threads)
    BY DEF Writers
  <2>. QED BY <2>1, <1>5, <1>6 DEF Owners
<1>. QED BY <1>3, <1>5, <1>6, <1>7 DEF z

\* The invariant after a spawn, for CreateSession and for a session that wakes.
LEMMA SpawnKeeps ==
  ASSUME IndexInv, NEW op \in {"create", "spawn", "attach", "get"}, Handles(op),
         NEW s \in Ids, SpawnSession(s, s \in diskPinned),
         s \notin marker, s \notin Owners, s \notin Leaving, active[s] = 0,
         records' = records \cup {s}, UNCHANGED <<marker, diskPinned, tomb, finals, ops>>,
         nextId' \in 1..(created' + 1), s < nextId', nextId =< nextId', created' \in Nat,
         children' \in [Ids -> SUBSET Ids], RoomPart',
         calls' \in Seq(CallState(Len(threads) + 1)), Len(calls') = Len(calls),
         conn' \in [Clients -> ConnState(Len(threads) + 1)], Replies'
  PROVE  IndexInv'
<1>. DEFINE z == Len(threads) + 1
<1>1. /\ Shapes /\ Replies /\ Sets /\ Agreement /\ OwnerPart /\ MarkPart /\ QueuePart /\ FreshPart
      /\ Len(threads) \in Nat
  BY Counts DEF IndexInv
<1>2. /\ threads' = Append(threads, Fresh(s)) /\ active' = [active EXCEPT ![s] = z]
      /\ listed' = listed \cup {s} /\ awake' = awake \cup {s}
      /\ pinned' = IF s \in diskPinned THEN pinned \cup {s} ELSE pinned \ {s}
  BY DEF SpawnSession
<1>3. /\ threads' \in Seq(ThreadState(Len(calls))) /\ Len(threads') = z
      /\ Writers' = Writers \cup {z} /\ Owners' = Owners \cup {s}
      /\ \A t \in 1..Len(threads) : Own'[t] = Own[t]
      /\ Own'[z] = s
  BY <1>1, <1>2, SpawnedThread
<1>4. /\ queue # <<>> /\ queue' = Tail(queue)
      /\ queue' \in Seq(Orders(Len(calls))) /\ Head(queue).op \notin {"exited", "finalized"}
  BY HandlesOne
<1>5. Leaving' = Leaving /\ Finalizing' = Finalizing /\ QueuePart'
  BY <1>1, <1>3, <1>4, TakesFirst
<1>6. z \in Nat /\ z # 0 /\ Len(threads) < z /\ 1..z = 1..Len(threads) \cup {z}
  BY <1>1
<1>7. /\ active' \in [Ids -> 0..z]
      /\ \A u \in Ids : active'[u] = IF u = s THEN z ELSE active[u]
  <2>1. 0..Len(threads) \subseteq 0..z /\ z \in 0..z
    BY <1>1
  <2>. HIDE DEF z
  <2>. QED BY <2>1, <1>1, <1>2 DEF Shapes
<1>8. Shapes'
  BY <1>1, <1>3, <1>4, <1>7 DEF Shapes
<1>9. Agreement' /\ Sets'
  <2>1. s \notin tomb
    BY <1>1 DEF MarkPart
  <2>. HIDE DEF z
  <2>. QED BY <2>1, <1>1, <1>2, <1>6, <1>7 DEF Agreement, Sets
<1>10. \A t \in Writers : t \in 1..Len(threads) /\ Own'[t] = Own[t] /\ Own[t] \in Owners /\ Own[t] # s /\ Own[t] \in Ids
  BY <1>1, <1>3, WritersAreKnown DEF Writers, Owners
<1>. HIDE DEF z
<1>11. OwnerPart'
  <2>1. \A t, u \in Writers' : Own'[t] = Own'[u] => t = u
    <3>1. \A t, u \in Writers : Own[t] = Own[u] => t = u
      BY <1>1 DEF OwnerPart
    <3>2. \A t \in Writers' : t = z \/ t \in Writers
      BY <1>3
    <3>. QED BY <3>1, <3>2, <1>3, <1>10
  <2>2. \A u \in Ids : active'[u] # 0 =>
          Own'[active'[u]] = u /\ u \in listed' /\ (active'[u] \in Writers' \/ u \in Leaving')
    <3>. SUFFICES ASSUME NEW u \in Ids, active'[u] # 0
                  PROVE  Own'[active'[u]] = u /\ u \in listed' /\ (active'[u] \in Writers' \/ u \in Leaving')
      OBVIOUS
    <3>1. CASE u = s
      BY <3>1, <1>2, <1>3, <1>7
    <3>2. CASE u # s
      <4>1. active'[u] = active[u] /\ active[u] \in 1..Len(threads)
        BY <3>2, <1>1, <1>7 DEF Shapes
      <4>2. Own[active[u]] = u /\ u \in listed /\ (active[u] \in Writers \/ u \in Leaving)
        BY <4>1, <1>1 DEF OwnerPart
      <4>3. Own'[active[u]] = u
        BY <4>1, <4>2, <1>3
      <4>. QED BY <4>1, <4>2, <4>3, <1>2, <1>3, <1>5
    <3>. QED BY <3>1, <3>2
  <2>3. \A t \in Writers' : active'[Own'[t]] = t \/ Own'[t] \in marker'
    <3>1. \A t \in Writers : active[Own[t]] = t \/ Own[t] \in marker
      BY <1>1 DEF OwnerPart
    <3>2. \A t \in Writers : active'[Own'[t]] = t \/ Own'[t] \in marker'
      BY <3>1, <1>7, <1>10
    <3>3. active'[Own'[z]] = z
      BY <1>3, <1>7
    <3>. QED BY <3>2, <3>3, <1>3
  <2>4. \A u \in Leaving' : active'[u] # 0 \/ u \in marker'
    <3>1. \A u \in Leaving : u \in Ids
      <4>1. \A i \in At("exited") : queue[i].id \in Ids
        BY <1>1, Counts, OrderFields DEF At
      <4>. QED BY <4>1 DEF Leaving
    <3>. QED BY <3>1, <1>1, <1>5, <1>6, <1>7 DEF OwnerPart
  <2>5. Owners' \cap Leaving' = {}
    BY <1>1, <1>3, <1>5 DEF OwnerPart
  <2>. QED BY <2>1, <2>2, <2>3, <2>4, <2>5 DEF OwnerPart
<1>12. MarkPart'
  BY <1>1, <1>2, <1>3, <1>5 DEF MarkPart
<1>13. FreshPart'
  <2>a. nextId \in 1..(created + 1) /\ created \in Nat
    BY <1>1 DEF FreshPart, Shapes
  <2>b. nextId \in Nat
    BY <2>a
  <2>c. nextId' \in 1..(created' + 1)
    OBVIOUS
  <2>0. nextId \in Nat /\ nextId' \in 1..(created' + 1)
    BY <2>b, <2>c
  <2>1. \A u \in records' \cup tomb' \cup marker' : u < nextId'
    <3>1. \A u \in records \cup tomb \cup marker : u < nextId /\ u \in Nat
      BY <1>1 DEF FreshPart, Sets, Ids
    <3>. QED BY <3>1, <2>0
  <2>2. \A t \in 1..Len(threads') : Own'[t] < nextId'
    <3>1. \A t \in 1..Len(threads) : Own[t] < nextId /\ Own[t] \in Nat
      BY <1>1, Counts, ThreadFields DEF FreshPart, Own, Ids
    <3>2. \A t \in 1..Len(threads) : Own'[t] < nextId'
      BY <3>1, <2>0, <1>3, SMTT(30)
    <3>3. Own'[z] < nextId'
      BY <1>3
    <3>. QED BY <3>2, <3>3, <1>3, <1>6
  <2>. QED BY <2>0, <2>1, <2>2 DEF FreshPart
<1>. QED BY <1>5, <1>8, <1>9, <1>11, <1>12, <1>13 DEF IndexInv

\* CreateSession, from a client or for a spawn_subsession call: the id is new.
LEMMA NextIsNew ==
  ASSUME IndexInv, NEW op \in {"create", "spawn"}, Handles(op), created' = created + 1
  PROVE  /\ nextId \in Ids /\ nextId \notin records \cup tomb \cup marker \cup Owners \cup Leaving
         /\ active[nextId] = 0 /\ RoomPart'
<1>1. /\ Shapes /\ Sets /\ OwnerPart /\ Agreement /\ FreshPart /\ RoomPart /\ Len(calls) \in Nat /\ MaxIds \in Nat
  BY Counts DEF IndexInv
<1>2. /\ Cardinality(PendingCreates') \in Nat /\ created \in Nat
      /\ Cardinality(PendingCreates') + 1 =< Cardinality(PendingCreates)
      /\ Cardinality(PendingCreates) \in Nat /\ created + Cardinality(PendingCreates) =< MaxIds
  BY <1>1, HandlesOne, PendingServed, PendingFinite DEF Shapes, RoomPart
<1>3. RoomPart'
  BY <1>1, <1>2 DEF RoomPart
<1>4. nextId \in Ids
  BY <1>1, <1>2 DEF FreshPart, Ids
<1>5. nextId \notin records \cup tomb \cup marker
  BY <1>1, <1>4 DEF FreshPart, Ids
<1>6. nextId \notin Owners
  <2>1. \A t \in Writers : Own[t] < nextId /\ Own[t] \in Nat
    BY <1>1, Counts, ThreadFields DEF FreshPart, Own, Writers, Ids
  <2>. QED BY <2>1, <1>4 DEF Owners, Ids
<1>7. active[nextId] = 0
  BY <1>1, <1>4, <1>5 DEF OwnerPart, Agreement
<1>8. nextId \notin Leaving
  BY <1>1, <1>5, <1>7 DEF OwnerPart
<1>. QED BY <1>3, <1>4, <1>5, <1>6, <1>7, <1>8

\* CreateSession writes the record, then spawns the thread and indexes it.
LEMMA CreateKeeps ==
  ASSUME IndexInv, NEW op \in {"create", "spawn"}, Handles(op), NEW p \in {0} \cup Ids,
         Create(p), calls' \in Seq(CallState(Len(threads) + 1)), Len(calls') = Len(calls),
         conn' \in [Clients -> ConnState(Len(threads) + 1)], Replies'
  PROVE  IndexInv'
<1>. DEFINE s == nextId
<1>1. /\ nextId' = s + 1 /\ records' = records \cup {s}
      /\ SpawnSession(s, FALSE) /\ created' = created + 1
      /\ children' = IF p = 0 THEN children ELSE [children EXCEPT ![p] = @ \cup {s}]
      /\ UNCHANGED <<marker, diskPinned, tomb, finals, ops>>
  BY DEF Create, counts
<1>2. /\ s \in Ids /\ s \notin records \cup tomb \cup marker \cup Owners \cup Leaving
      /\ active[s] = 0 /\ RoomPart'
  BY <1>1, NextIsNew
<1>3. SpawnSession(s, s \in diskPinned)
  <2>1. s \notin diskPinned
    BY <1>2 DEF IndexInv, Sets
  <2>. QED BY <2>1, <1>1 DEF SpawnSession
<1>4. nextId \in Nat /\ nextId =< created + 1 /\ created \in Nat
  BY DEF IndexInv, FreshPart, Shapes
<1>5. /\ nextId' \in 1..(created' + 1) /\ s < nextId' /\ nextId =< nextId' /\ created' \in Nat
  BY <1>1, <1>4
<1>6. children' \in [Ids -> SUBSET Ids]
  BY <1>1, <1>2 DEF IndexInv, Shapes
<1>. QED BY <1>1, <1>2, <1>3, <1>5, <1>6, SpawnKeeps

\* CreateSession of a client.
LEMMA HandleCreateKeeps ==
  ASSUME IndexInv, HandleCreate
  PROVE  IndexInv'
<1>1. /\ Shapes /\ Replies /\ Len(threads) \in Nat /\ Len(calls) \in Nat
  BY Counts DEF IndexInv
<1>2. Handles("create") /\ Create(Head(queue).parent) /\ calls' = calls /\ conn' = [conn EXCEPT ![Head(queue).who].pc = "idle"]
  BY DEF HandleCreate
<1>3. /\ Head(queue).who \in Clients /\ Head(queue).parent \in {0} \cup Ids
      /\ Len(threads) =< Len(threads) + 1 /\ Len(threads) + 1 \in Nat
  BY <1>1, <1>2, HandlesOne, OrderFields
<1>4. CallState(Len(threads)) \subseteq CallState(Len(threads) + 1)
      /\ ConnState(Len(threads)) \subseteq ConnState(Len(threads) + 1)
  BY <1>1, <1>3, Monotone
<1>5. calls' \in Seq(CallState(Len(threads) + 1)) /\ Len(calls') = Len(calls)
  BY <1>1, <1>2, <1>4, SeqMonotonic DEF Shapes
<1>6. /\ conn' \in [Clients -> ConnState(Len(threads))]
      /\ \A d \in Clients : conn'[d].pc = "reply" => conn'[d].got # 0
  BY <1>2, <1>3, AnsweredConn
<1>7. Replies' /\ conn' \in [Clients -> ConnState(Len(threads) + 1)]
  BY <1>1, <1>2, <1>4, <1>6 DEF Replies
<1>8. PICK p \in {0} \cup Ids : p = Head(queue).parent
  BY <1>3
<1>. QED BY <1>2, <1>5, <1>7, <1>8, CreateKeeps

\* CreateSession for a spawn_subsession call: the parent is the caller's session.
LEMMA HandleSpawnKeeps ==
  ASSUME IndexInv, HandleSpawn
  PROVE  IndexInv'
<1>. DEFINE k == Head(queue).call
            t == calls[k].by
            p == threads[t].owner
            z == Len(threads) + 1
            call == [calls[k] EXCEPT !.pc = "made", !.child = z]
<1>1. /\ Shapes /\ Replies /\ Len(threads) \in Nat /\ Len(calls) \in Nat /\ DOMAIN calls = 1..Len(calls)
      /\ FreshPart
  BY Counts DEF IndexInv
<1>2. Handles("spawn") /\ Create(p) /\ conn' = conn
      /\ calls' = [calls EXCEPT ![k].pc = "made", ![k].child = z]
  BY DEF HandleSpawn
<1>3. k \in 1..Len(calls) /\ Len(threads) =< z /\ z \in Nat /\ z # 0
  BY <1>1, <1>2, HandlesOne, OrderFields, SMTT(30)
<1>4. calls[k] \in CallState(Len(threads))
  BY <1>1, <1>3, Counts
<1>5. t \in 1..Len(threads)
  BY <1>4 DEF CallState
<1>6. p \in {0} \cup Ids
  BY <1>1, <1>5, Counts, ThreadFields
<1>7. CallState(Len(threads)) \subseteq CallState(z) /\ ConnState(Len(threads)) \subseteq ConnState(z)
  BY <1>1, <1>3, Monotone
<1>8. call \in CallState(z) /\ call.child = z
  <2>1. z \in 0..z /\ calls[k] \in CallState(z)
    BY <1>3, <1>4, <1>7, SMTT(30)
  <2>. HIDE DEF z
  <2>. QED BY <2>1 DEF CallState
<1>9. calls' = [calls EXCEPT ![k] = call]
  BY <1>1, <1>2, <1>3, <1>4 DEF CallState, Shapes
<1>10. calls \in Seq(CallState(z))
  BY <1>1, <1>7, SeqMonotonic DEF Shapes
<1>. HIDE DEF call, k, p
<1>11. /\ calls' \in Seq(CallState(z)) /\ Len(calls') = Len(calls)
       /\ \A j \in 1..Len(calls) : calls'[j] = IF j = k THEN call ELSE calls[j]
  BY <1>3, <1>8, <1>9, <1>10, ExceptSeq
<1>12. Replies' /\ conn' \in [Clients -> ConnState(z)]
  <2>1. conn' \in [Clients -> ConnState(z)]
    BY <1>1, <1>2, <1>7 DEF Shapes
  <2>2. \A j \in 1..Len(calls) : calls'[j].pc \in {"made", "wait"} => calls'[j].child # 0
    BY <1>1, <1>3, <1>8, <1>11 DEF Replies
  <2>. QED BY <2>1, <2>2, <1>1, <1>2, <1>11 DEF Replies
<1>. HIDE DEF z
<1>. QED BY <1>2, <1>6, <1>11, <1>12, CreateKeeps DEF z

\* ensure_active_session names a thread of the list, or none.
LEMMA EnsureForm ==
  ASSUME Shapes, NEW s \in Ids, NEW got, Ensure(s, got)
  PROVE  /\ got \in 0..Len(threads')
         /\ \/ UNCHANGED <<threads, active, listed, awake, pinned>>
            \/ Len(threads') = Len(threads) + 1
<1>1. Len(threads) \in Nat /\ active[s] \in 0..Len(threads) /\ threads \in Seq(ThreadState(Len(calls)))
  BY Counts DEF Shapes
<1>2. CASE threads' = threads /\ UNCHANGED <<threads, active, listed, awake, pinned>> /\ (got = 0 \/ got = active[s])
  BY <1>1, <1>2
<1>3. CASE got = Len(threads) + 1 /\ SpawnSession(s, s \in diskPinned)
  <2>1. Len(threads') = Len(threads) + 1
    BY <1>1, <1>3, SpawnedThread DEF SpawnSession
  <2>. QED BY <2>1, <1>1, <1>3
<1>. QED BY <1>2, <1>3 DEF Ensure

\* AttachSession and GetSessionState: a session without a thread, that is not
\* being deleted, has nobody who may still write its record.
LEMMA EnsureKeeps ==
  ASSUME IndexInv, NEW op \in {"attach", "get"}, Handles(op), NEW got, Ensure(Head(queue).id, got),
         conn' \in [Clients -> ConnState(Len(threads'))],
         \A c \in Clients : conn'[c].pc = "reply" => conn'[c].got # 0,
         UNCHANGED <<nextId, marker, children, calls, finals, disk, created, ops>>
  PROVE  IndexInv'
<1>. DEFINE s == Head(queue).id
<1>1. /\ Shapes /\ Replies /\ Sets /\ Agreement /\ OwnerPart /\ MarkPart /\ FreshPart
      /\ Len(threads) \in Nat /\ Len(calls) \in Nat
  BY Counts DEF IndexInv
<1>2. s \in Ids /\ RoomPart'
  BY HandlesOne, OrderFields
<1>3. CASE UNCHANGED <<threads, active, listed, awake, pinned>>
  <2>1. Calm
    BY <1>3 DEF Calm, index, disk, Own, Writers, Owners
  <2>2. threads' \in Seq(ThreadState(Len(calls))) /\ conn' \in [Clients -> ConnState(Len(threads))]
    BY <1>1, <1>3 DEF Shapes
  <2>. QED BY <2>1, <2>2, HandlesCalmly
<1>4. CASE s \notin marker /\ active[s] = 0 /\ s \in records /\ SpawnSession(s, s \in diskPinned)
  <2>1. s \notin Owners /\ s \notin Leaving
    BY <1>4, ReportedIsActive
  <2>2. Len(threads') = Len(threads) + 1
    BY <1>1, <1>2, <1>4, SpawnedThread DEF SpawnSession
  <2>3. calls' \in Seq(CallState(Len(threads) + 1)) /\ Len(calls') = Len(calls)
    <3>1. CallState(Len(threads)) \subseteq CallState(Len(threads) + 1)
      BY <1>1, Monotone
    <3>. QED BY <3>1, <1>1, SeqMonotonic DEF Shapes
  <2>4. Replies' /\ conn' \in [Clients -> ConnState(Len(threads) + 1)]
    BY <1>1, <2>2 DEF Replies
  <2>5. records' = records \cup {s} /\ UNCHANGED <<marker, diskPinned, tomb, finals, ops>>
    BY <1>4 DEF disk
  <2>6. /\ nextId' \in 1..(created' + 1) /\ s < nextId' /\ nextId =< nextId' /\ created' \in Nat
    BY <1>1, <1>4 DEF FreshPart, Shapes
  <2>7. children' \in [Ids -> SUBSET Ids]
    BY <1>1 DEF Shapes
  <2>. QED BY <1>2, <1>4, <2>1, <2>3, <2>4, <2>5, <2>6, <2>7, SpawnKeeps
<1>. QED BY <1>3, <1>4 DEF Ensure

\* AttachSession and GetSessionState.
LEMMA HandleAttachKeeps ==
  ASSUME IndexInv, HandleAttach \/ HandleGetState
  PROVE  IndexInv'
<1>. DEFINE s == Head(queue).id
            c == Head(queue).who
<1>1. /\ Shapes /\ Replies /\ Len(threads) \in Nat
  BY Counts DEF IndexInv
<1>2. UNCHANGED <<nextId, marker, children, calls, finals, disk, created, ops>>
  BY DEF HandleAttach, HandleGetState, counts
<1>3. ASSUME NEW got \in 0..(Len(threads) + 1), Ensure(s, got), s \in Ids
      PROVE  /\ got \in 0..Len(threads') /\ Len(threads') \in Nat
             /\ ConnState(Len(threads)) \subseteq ConnState(Len(threads'))
  <2>1. got \in 0..Len(threads') /\ (threads' = threads \/ Len(threads') = Len(threads) + 1)
    BY <1>1, <1>3, EnsureForm
  <2>2. Len(threads') \in Nat /\ Len(threads) =< Len(threads')
    BY <1>1, <2>1, SMTT(30)
  <2>. QED BY <1>1, <2>1, <2>2, Monotone
<1>4. CASE HandleAttach
  <2>1. PICK got \in 0..(Len(threads) + 1) :
          /\ Ensure(s, got)
          /\ conn' = [conn EXCEPT ![c].pc = IF got = 0 THEN "idle" ELSE "reply", ![c].got = got]
    BY <1>4 DEF HandleAttach
  <2>2. Handles("attach") /\ s \in Ids /\ c \in Clients
    BY <1>4, HandlesOne, OrderFields DEF HandleAttach
  <2>3. /\ got \in 0..Len(threads') /\ conn \in [Clients -> ConnState(Len(threads'))]
    BY <2>1, <2>2, <1>1, <1>3 DEF Shapes
  <2>4. conn' = [conn EXCEPT ![c] = [conn[c] EXCEPT !.pc = IF got = 0 THEN "idle" ELSE "reply", !.got = got]]
    BY <2>1, <2>2, <2>3 DEF ConnState
  <2>5. /\ conn' \in [Clients -> ConnState(Len(threads'))]
        /\ \A d \in Clients : conn'[d].pc = "reply" => conn'[d].got # 0
    BY <2>2, <2>3, <2>4, <1>1, ZenonT(40) DEF ConnState, Replies
  <2>. QED BY <2>1, <2>2, <2>5, <1>2, EnsureKeeps, SMTT(30)
<1>5. CASE HandleGetState
  <2>1. PICK got \in 0..(Len(threads) + 1) : Ensure(s, got)
    BY <1>5 DEF HandleGetState
  <2>2. Handles("get") /\ s \in Ids /\ c \in Clients /\ conn' = [conn EXCEPT ![c].pc = "idle"]
    BY <1>5, HandlesOne, OrderFields DEF HandleGetState
  <2>3. /\ conn' \in [Clients -> ConnState(Len(threads))]
        /\ \A d \in Clients : conn'[d].pc = "reply" => conn'[d].got # 0
    BY <2>2, AnsweredConn
  <2>4. conn' \in [Clients -> ConnState(Len(threads'))]
    BY <2>1, <2>2, <2>3, <1>3
  <2>. QED BY <2>1, <2>2, <2>3, <2>4, <1>2, EnsureKeeps
<1>. QED BY <1>4, <1>5

-----------------------------------------------------------------------------
(* Crash and restart.                                                      *)

\* A nonempty set of sessions has a largest one.
LEMMA LargestSession ==
  ASSUME NEW S \in SUBSET Ids, S # {}
  PROVE  Max(S) \in S /\ \A s \in S : s =< Max(S)
<1>1. MaxIds \in Nat
  BY BoundsAssumption
<1>. DEFINE Low == {MaxIds - s : s \in S}
            R == OpToRel(<, Nat)
<1>2. Low \subseteq Nat /\ Low # {}
  <2>1. \A s \in S : MaxIds - s \in Nat
    BY <1>1 DEF Ids
  <2>. QED BY <2>1
<1>3. IsWellFoundedOn(R, Nat)
  BY NatLessThanWellFounded
<1>4. \A x, y \in Nat : y < x => <<y, x>> \in R
  BY DEF OpToRel
<1>5. \A s \in S : MaxIds - s \in Low /\ s \in Nat
  BY DEF Ids
<1>6. \A x \in Low : \E s \in S : x = MaxIds - s
  OBVIOUS
<1>. HIDE DEF Low, R
<1>7. \E x \in Low : \A y \in Low : <<y, x>> \notin R
  BY <1>2, <1>3, WFMin
<1>8. PICK x \in Low : \A y \in Low : ~(y < x)
  BY <1>2, <1>4, <1>7
<1>9. PICK m \in S : x = MaxIds - m
  BY <1>6
<1>10. \A s \in S : s =< m
  BY <1>1, <1>2, <1>5, <1>8, <1>9
<1>. QED BY <1>10 DEF Max

\* A crash and the start of the next process.
LEMMA RestartKeeps ==
  ASSUME IndexInv, Restart
  PROVE  IndexInv'
<1>1. /\ Shapes /\ Sets /\ FreshPart /\ RoomPart /\ MaxIds \in Nat \ {0} /\ Agreement
  BY Counts DEF IndexInv
<1>2. /\ records' = Purged /\ tomb' = {} /\ diskPinned' = diskPinned \cap Purged
      /\ listed' = Purged /\ pinned' = diskPinned \cap Purged /\ awake' = {}
      /\ active' = [s \in Ids |-> 0] /\ marker' = {} /\ children' = [s \in Ids |-> {}]
      /\ queue' = <<>> /\ threads' = <<>> /\ calls' = <<>>
      /\ finals' = [s \in Ids |-> "none"] /\ conn' = [c \in Clients |-> Offline]
      /\ UNCHANGED <<created, ops>> /\ nextId' = FirstFree(Purged)
  BY DEF Restart
<1>3. Purged \subseteq records /\ Purged \subseteq Ids
  BY <1>1 DEF Purged, Sets
<1>4. Shapes' /\ Replies'
  BY <1>1, <1>2 DEF Shapes, Replies, Offline, ConnState
<1>5. Own' = <<>> /\ Writers' = {} /\ Owners' = {}
  BY <1>2 DEF Own, Writers, Owners
<1>6. Leaving' = {} /\ Finalizing' = {} /\ QueuePart'
  BY <1>2 DEF Leaving, Finalizing, At, QueuePart
<1>7. Agreement' /\ Sets'
  BY <1>1, <1>2, <1>3 DEF Agreement, Sets
<1>8. OwnerPart'
  BY <1>2, <1>5, <1>6 DEF OwnerPart
<1>9. MarkPart'
  BY <1>2, <1>5, <1>6 DEF MarkPart
<1>10. nextId' \in 1..(created' + 1) /\ \A s \in Purged : s < nextId'
  <2>1. nextId \in 1..(created + 1) /\ created \in Nat /\ \A s \in Purged : s < nextId /\ s \in Nat
    BY <1>1, <1>3 DEF FreshPart, Shapes, Ids
  <2>2. CASE Purged = {}
    BY <2>1, <2>2, <1>2 DEF FirstFree
  <2>3. CASE Purged # {}
    <3>1. Max(Purged) \in Purged /\ \A s \in Purged : s =< Max(Purged)
      BY <2>3, <1>3, LargestSession
    <3>2. nextId' = Max(Purged) + 1
      BY <2>3, <1>2 DEF FirstFree
    <3>. QED BY <3>1, <3>2, <2>1, <1>2
  <2>. QED BY <2>2, <2>3
<1>11. FreshPart'
  <2>1. Len(threads') = 0
    BY <1>2
  <2>. QED BY <1>1, <1>2, <1>10, <2>1 DEF FreshPart
<1>12. RoomPart'
  <2>1. PendingCreates' = {}
    BY <1>2 DEF PendingCreates
  <2>2. created \in Nat /\ Cardinality(PendingCreates) \in Nat
    BY <1>1, PendingFinite DEF Shapes
  <2>. QED BY <1>1, <1>2, <2>1, <2>2, FS_EmptySet DEF RoomPart
<1>. QED BY <1>4, <1>6, <1>7, <1>8, <1>9, <1>11, <1>12 DEF IndexInv

-----------------------------------------------------------------------------
(* The invariant, and what follows from it.                                *)

\* No session exists when the daemon first starts.
LEMMA InitIndex ==
  ASSUME Init
  PROVE  IndexInv
<1>1. Shapes /\ Replies
  BY BoundsAssumption DEF Init, Shapes, Replies, Offline, ConnState
<1>2. Writers = {} /\ Owners = {} /\ Leaving = {} /\ Finalizing = {} /\ QueuePart
  BY DEF Init, Writers, Owners, Leaving, Finalizing, At, QueuePart
<1>3. Sets /\ Agreement
  BY DEF Init, Sets, Agreement
<1>4. OwnerPart /\ MarkPart
  BY <1>2 DEF Init, OwnerPart, MarkPart
<1>5. FreshPart
  <2>1. Len(threads) = 0
    BY DEF Init
  <2>. QED BY <2>1, BoundsAssumption DEF Init, FreshPart, Ids
<1>6. RoomPart
  <2>1. PendingCreates = {}
    BY DEF Init, PendingCreates
  <2>. QED BY <2>1, FS_EmptySet, BoundsAssumption DEF Init, RoomPart
<1>. QED BY <1>1, <1>2, <1>3, <1>4, <1>5, <1>6 DEF IndexInv

\* A step that changes nothing.
LEMMA StutterIndex ==
  ASSUME IndexInv, UNCHANGED vars
  PROVE  IndexInv'
<1>1. UNCHANGED <<index, queue, threads, calls, finals, conn, disk, created, ops>>
  BY DEF vars, counts
<1>2. Calm
  BY <1>1 DEF Calm, index, disk, Own, Writers, Owners
<1>3. /\ Len(calls') = Len(calls) /\ threads' \in Seq(ThreadState(Len(calls)))
      /\ calls' \in Seq(CallState(Len(threads))) /\ conn' \in [Clients -> ConnState(Len(threads))]
      /\ ops' \in 0..MaxOps /\ ops =< ops' /\ Replies'
  <2>1. calls' = calls /\ threads' = threads /\ conn' = conn /\ ops' = ops
    BY <1>1
  <2>2. ops =< ops
    BY DEF IndexInv, Shapes
  <2>3. Replies'
    BY <2>1 DEF IndexInv, Replies
  <2>. QED BY <2>1, <2>2, <2>3 DEF IndexInv, Shapes
<1>. QED BY <1>1, <1>2, <1>3, SilentKeeps

\* Every step of the daemon keeps the invariant.
LEMMA NextIndex ==
  ASSUME IndexInv, [Next]_vars
  PROVE  IndexInv'
<1>1. CASE \E c \in Clients : Client(c)
  BY <1>1, ClientKeeps
<1>2. CASE Daemon
  BY <1>2, HandleCreateKeeps, HandleSpawnKeeps, HandleAttachKeeps, HandleFlagsKeeps,
     HandleUpdateMetadataKeeps, HandleStatusKeeps, HandleExitedKeeps, HandleDeleteFinalizedKeeps,
     HandleCancelRequestKeeps, HandleDeleteKeeps DEF Daemon
<1>3. CASE \E s \in Ids : Finalize(s)
  BY <1>3, FinalizeKeeps
<1>4. ASSUME NEW t \in Threads, ThreadStep(t)
      PROVE  IndexInv'
  BY <1>4, ReportsKeep, SilentCommandsKeep, RunChildKeeps, PersistAndExitKeeps, ThreadGoneKeeps
     DEF ThreadStep
<1>5. CASE \E t \in Threads : ThreadStep(t) \/ WorkerReports(t) \/ WorkerSpawns(t) \/ WorkerEnds(t)
  BY <1>4, <1>5, WorkerReportsKeeps, WorkerSpawnsKeeps, WorkerEndsKeeps
<1>6. CASE \E k \in Threads : CallRuns(k)
  BY <1>6, CallRunsKeeps
<1>7. CASE Restart
  BY <1>7, RestartKeeps
<1>8. CASE UNCHANGED vars
  BY <1>8, StutterIndex
<1>. QED BY <1>1, <1>2, <1>3, <1>5, <1>6, <1>7, <1>8 DEF Next

\* IndexInv holds throughout.
THEOREM IndexInvariant == Spec => []IndexInv
<1>1. Init => IndexInv
  BY InitIndex
<1>2. IndexInv /\ [Next]_vars => IndexInv'
  BY NextIndex
<1>. QED BY <1>1, <1>2, PTL DEF Spec

\* The index the clients are shown is what a restart at that moment would
\* load, whatever deletes wait for their threads, late reports are on their
\* way and processes died before (daemon.rs, sessions.rs, the tombstones).
THEOREM IndexIsWhatRestartLoads == Spec => []IndexMatchesDisk
<1>1. IndexInv => IndexMatchesDisk
  BY ShapesAreTyped DEF IndexInv, IndexMatchesDisk, Agreement
<1>. QED BY <1>1, IndexInvariant, PTL

\* Only CreateSession gives out an id.
LEMMA CreatedGrows ==
  ASSUME IndexInv, [Next]_vars, created' # created
  PROVE  \E op \in {"create", "spawn"} : \E p : Handles(op) /\ Create(p)
<1>1. CASE Daemon
  BY <1>1, ZenonT(40) DEF Daemon, HandleCreate, HandleSpawn, HandleAttach, HandleGetState, HandleFlags,
     HandleUpdateMetadata, HandleStatus, HandleExited, Exited, HandleDeleteFinalized,
     HandleCancelRequest, HandleDelete
<1>2. CASE \E c \in Clients : Client(c)
  BY <1>2 DEF Client, ClientCreate, ClientAttach, ClientGetState, ClientDelete, ClientFlags, Ask,
     ClientCancel, ClientTells, ClientLeaves, SwitchAttached
<1>3. CASE \E s \in Ids : Finalize(s)
  BY <1>3 DEF Finalize
<1>4. CASE \E t \in Threads : ThreadStep(t) \/ WorkerReports(t) \/ WorkerSpawns(t) \/ WorkerEnds(t)
  BY <1>4 DEF ThreadStep, ThreadStart, RunInput, RunChildInput, CancelCommand, ShutdownCommand,
     AttachCommand, DetachCommand, EditCommand, StatusCommand, RequestFinished, PersistAndExit,
     ThreadGone, WorkerReports, WorkerSpawns, WorkerEnds
<1>5. CASE (\E k \in Threads : CallRuns(k)) \/ Restart \/ UNCHANGED vars
  BY <1>5 DEF CallRuns, Restart, vars
<1>. QED BY <1>1, <1>2, <1>3, <1>4, <1>5, SMTT(30) DEF Next

\* An id given out is in no record, tombstone or delete in progress, and no
\* thread can still write for it, whatever parents the clients name and
\* however often the numbering starts again (handle_create_session, open.rs).
THEOREM IdsGivenOutAreFresh == Spec => CreateIsFresh
<1>. DEFINE Step == created' > created =>
       /\ nextId \notin records \cup tomb \cup marker
       /\ \A t \in DOMAIN threads : threads[t].owner = nextId => threads[t].pc = "gone"
<1>1. ASSUME IndexInv, [Next]_vars
      PROVE  Step
  <2>. SUFFICES ASSUME created' > created
                PROVE  /\ nextId \notin records \cup tomb \cup marker
                       /\ \A t \in DOMAIN threads : threads[t].owner = nextId => threads[t].pc = "gone"
    OBVIOUS
  <2>1. Shapes /\ Sets /\ FreshPart /\ created \in Nat /\ DOMAIN threads = 1..Len(threads) /\ Len(calls) \in Nat
    BY <1>1, Counts DEF IndexInv, Shapes
  <2>2. created' # created
    BY <2>1
  <2>3. PICK op \in {"create", "spawn"} : \E p : Handles(op) /\ Create(p)
    BY <1>1, <2>2, CreatedGrows
  <2>4. Handles(op) /\ created' = created + 1
    BY <2>3 DEF Create
  <2>5. nextId \in Ids /\ nextId \notin records \cup tomb \cup marker
    BY <1>1, <2>4, NextIsNew
  <2>7. \A t \in DOMAIN threads : threads[t].owner # nextId
    <3>. SUFFICES ASSUME NEW t \in DOMAIN threads PROVE threads[t].owner # nextId
      OBVIOUS
    <3>1. threads[t].owner < nextId /\ threads[t].owner \in Nat /\ nextId \in Nat
      BY <2>1, <2>5, Counts, ThreadFields DEF FreshPart, Own, Ids
    <3>. QED BY <3>1
  <2>. QED BY <2>5, <2>7
<1>2. CreateIsFresh <=> [][Step]_vars
  BY DEF CreateIsFresh
<1>3. IndexInv /\ [Next]_vars => [Step]_vars
  BY <1>1
<1>. HIDE DEF Step
<1>4. Spec => [][Step]_vars
  BY <1>3, IndexInvariant, PTL DEF Spec
<1>. QED BY <1>2, <1>4

-----------------------------------------------------------------------------
(* The daemon implements Catalogue: its sessions are the listed ones.      *)

\* A step that does not create a session adds none to the index.
LEMMA IndexOnlyShrinks ==
  ASSUME IndexInv, [Next]_vars, created' = created
  PROVE  listed' \subseteq listed
<1>1. CASE Daemon
  <2>1. CASE HandleCreate \/ HandleSpawn
    <3>1. created' = created + 1 /\ created \in Nat
      BY <2>1 DEF HandleCreate, HandleSpawn, Create, IndexInv, Shapes
    <3>. QED BY <3>1, SMTT(30)
  <2>2. CASE HandleAttach \/ HandleGetState
    <3>1. PICK got : Ensure(Head(queue).id, got)
      BY <2>2 DEF HandleAttach, HandleGetState
    <3>. QED BY <3>1 DEF Ensure, SpawnSession, IndexInv, Agreement, MarkPart
  <2>3. CASE HandleUpdateMetadata
    <3>1. Handles("update") /\ threads' = threads
      BY <2>3 DEF HandleUpdateMetadata
    <3>2. Owners' = Owners
      BY <3>1 DEF Owners, Own, Writers
    <3>3. Head(queue).id \in Owners \cup Leaving
      BY <3>1, <3>2, HandlesOne, TakesFirst DEF IndexInv
    <3>4. Head(queue).id \notin marker => Head(queue).id \in listed
      BY <3>3, ReportedIsActive
    <3>. QED BY <2>3, <3>4 DEF HandleUpdateMetadata
  <2>4. CASE HandleDelete
    BY <2>4, SMTT(30) DEF HandleDelete, DeleteInner, DeleteAll
  <2>. QED BY <1>1, <2>1, <2>2, <2>3, <2>4 DEF Daemon, HandleFlags, HandleStatus, HandleExited,
       Exited, HandleDeleteFinalized, HandleCancelRequest, index
<1>2. CASE \E c \in Clients : Client(c)
  BY <1>2, ZenonT(40) DEF Client, ClientCreate, ClientAttach, ClientGetState, ClientDelete, ClientFlags, Ask,
     ClientCancel, ClientTells, ClientLeaves, SwitchAttached, index
<1>3. CASE \E s \in Ids : Finalize(s)
  BY <1>3 DEF Finalize, index
<1>4. CASE \E t \in Threads : ThreadStep(t) \/ WorkerReports(t) \/ WorkerSpawns(t) \/ WorkerEnds(t)
  BY <1>4, ZenonT(40) DEF ThreadStep, ThreadStart, RunInput, RunChildInput, CancelCommand, ShutdownCommand,
     AttachCommand, DetachCommand, EditCommand, StatusCommand, RequestFinished, PersistAndExit,
     ThreadGone, WorkerReports, WorkerSpawns, WorkerEnds, index
<1>5. CASE (\E k \in Threads : CallRuns(k)) \/ UNCHANGED vars
  BY <1>5 DEF CallRuns, vars, index
<1>6. CASE Restart
  BY <1>6 DEF Restart, Purged, IndexInv, Agreement
<1>. QED BY <1>1, <1>2, <1>3, <1>4, <1>5, <1>6, SMTT(30) DEF Next

\* Every step of the daemon is a step of the catalogue, or none.
LEMMA StepsAreCatalogued ==
  ASSUME IndexInv, IndexInv', [Next]_vars
  PROVE  [Cat!Next]_<<records \ tomb, created>>
<1>1. listed = records \ tomb /\ listed' = (records \ tomb)'
  BY DEF IndexInv, Agreement
<1>2. CASE created' = created
  <2>1. listed' \subseteq listed
    BY <1>2, IndexOnlyShrinks
  <2>2. listed' = listed \ (listed \ listed') /\ listed \ listed' \in SUBSET listed
    BY <2>1
  <2>3. Cat!Delete
    BY <1>1, <1>2, <2>2 DEF Cat!Delete
  <2>. QED BY <2>3 DEF Cat!Next
<1>3. CASE created' # created
  <2>1. PICK op \in {"create", "spawn"} : \E p : Handles(op) /\ Create(p)
    BY <1>3, CreatedGrows
  <2>2. Handles(op) /\ created' = created + 1 /\ listed' = listed \cup {nextId}
    BY <2>1 DEF Create, SpawnSession
  <2>3. nextId \in Ids \ listed
    BY <2>2, <1>1, NextIsNew
  <2>4. Cat!Create
    BY <1>1, <2>2, <2>3 DEF Cat!Create
  <2>. QED BY <2>4 DEF Cat!Next
<1>. QED BY <1>2, <1>3

\* A session appears only by a CreateSession, and a deleted one never comes
\* back: not by a late report, a last write of its thread, or a restart.
THEOREM DaemonIsCatalogued == Spec => Catalogued
<1>1. Init => Cat!Init
  BY DEF Init, Cat!Init
<1>2. IndexInv /\ IndexInv' /\ [Next]_vars => [Cat!Next]_<<records \ tomb, created>>
  BY StepsAreCatalogued
<1>3. Spec => Cat!Spec
  BY <1>1, <1>2, IndexInvariant, PTL DEF Spec, Cat!Spec
<1>. QED BY <1>3 DEF Catalogued

-----------------------------------------------------------------------------
(* A cancel reaches the runs it is for.  The strengthening says of every   *)
(* thread what its inbox may hold while a run works, of every call that    *)
(* its child is still tracked for the caller's session unless the child    *)
(* was told to stop, and of every run in hit that it is still that run.    *)

Elems(z) == {z[i] : i \in 1..Len(z)}
Ends(z) == {i \in 1..Len(z) : z[i].op = "finished"}

(* Condemned, of a thread's state; a run that works and is condemned; a    *)
(* thread that takes no more runs; the calls a thread answers or will.     *)
Struck(th) ==
  \/ th.cancel
  \/ \E m \in Elems(th.inbox) :
       m.op = "shutdown" \/ (m.op = "cancel" /\ m.stream \in {0, th.stream})
Engaged(th) == th.run \in {"begun", "work"} /\ Struck(th)
Settled(th) ==
  \/ th.pc \notin {"start", "loop"} \/ th.stop
  \/ \E m \in Elems(th.inbox) : m.op = "shutdown"
Asked(th, k) ==
  \/ k # 0 /\ k = th.caller
  \/ \E m \in Elems(th.inbox) : m.op = "child" /\ m.call = k

(* A run keeps its thread in the loop and reports its end once; a run that *)
(* goes on after a shutdown is cancelled.                                  *)
Sound(th) ==
  /\ th.run # "idle" => th.pc = "loop"
  /\ \A i \in Ends(th.inbox) : th.run = "ended" /\ \A j \in Ends(th.inbox) : i = j
  /\ th.stop /\ th.run # "idle" => th.cancel
SoundPart == \A t \in 1..Len(threads) : Sound(threads[t])

(* A call is answered by the thread that was made for it, and by no other. *)
CallerPart ==
  \A t \in 1..Len(threads) : \A k \in 1..Len(calls) :
    Asked(threads[t], k) => calls[k].child = t
AskPart ==
  /\ \A i \in At("spawn") : calls[queue[i].call].child = 0
  /\ \A i, j \in At("spawn") : queue[i].call = queue[j].call => i = j

(* The daemon would pass a cancel of the caller's session on to the child. *)
Tracked(u, t) == Own[u] \in children[Own[t]] /\ active[Own[u]] = u
TrackPart ==
  \A k \in 1..Len(calls) : calls[k].child # 0 =>
    Settled(threads[calls[k].child]) \/ Tracked(calls[k].child, calls[k].by)

HitPart ==
  \A p \in hit : \E t \in 1..Len(threads) :
    p = <<t, threads[t].stream>> /\ Engaged(threads[t])

CancelInv == SoundPart /\ CallerPart /\ AskPart /\ TrackPart /\ HitPart

\* Condemned is Struck of the thread's state.
LEMMA StruckIsCondemned ==
  ASSUME Shapes, NEW t \in 1..Len(threads)
  PROVE  Struck(threads[t]) <=> Condemned(t)
<1>1. DOMAIN threads[t].inbox = 1..Len(threads[t].inbox)
  BY Counts, ThreadFields
<1>. QED BY <1>1 DEF Struck, Condemned, Elems

-----------------------------------------------------------------------------
(* Inboxes.                                                                *)

\* Short lists of messages.
LEMMA ElemsOf ==
  ASSUME NEW x, NEW y
  PROVE  Elems(<<>>) = {} /\ Elems(<<x>>) = {x} /\ Elems(<<x, y>>) = {x, y}
<1>1. Elems(<<>>) = {}
  BY DEF Elems
<1>2. Len(<<x>>) = 1 /\ <<x>>[1] = x /\ 1..1 = {1}
  OBVIOUS
<1>3. Len(<<x, y>>) = 2 /\ <<x, y>>[1] = x /\ <<x, y>>[2] = y /\ 1..2 = {1, 2}
  OBVIOUS
<1>4. Elems(<<x>>) = {x}
  BY <1>2, Zenon DEF Elems
<1>5. Elems(<<x, y>>) = {x, y}
  BY <1>3, Zenon DEF Elems
<1>. QED BY <1>1, <1>4, <1>5

\* What is left of an inbox whose first message was taken.
LEMMA BoxTail ==
  ASSUME NEW M, NEW z \in Seq(M), z # <<>>
  PROVE  /\ Elems(Tail(z)) \subseteq Elems(z) /\ Elems(z) \subseteq Elems(Tail(z)) \cup {Head(z)}
         /\ \A i \in Ends(Tail(z)) : i + 1 \in Ends(z) /\ i \in Nat
         /\ Head(z).op = "finished" => 1 \in Ends(z)
         /\ Head(z) \in Elems(z)
<1>1. /\ Len(z) \in Nat /\ Len(z) > 0 /\ Len(Tail(z)) = Len(z) - 1 /\ Head(z) = z[1]
      /\ \A i \in 1..Len(Tail(z)) : Tail(z)[i] = z[i + 1]
  OBVIOUS
<1>. DEFINE y == Tail(z)
            h == Head(z)
<1>. HIDE DEF y, h
<1>2. Len(y) = Len(z) - 1 /\ h = z[1] /\ \A i \in 1..Len(y) : y[i] = z[i + 1]
  BY <1>1 DEF y, h
<1>3. \A i \in 1..Len(y) : i + 1 \in 1..Len(z) /\ i \in Nat
  BY <1>1, <1>2
<1>4. \A i \in 1..Len(z) : i # 1 => i - 1 \in 1..Len(y) /\ y[i - 1] = z[i]
  BY <1>1, <1>2
<1>5. Elems(y) \subseteq Elems(z)
  BY <1>2, <1>3 DEF Elems
<1>6. Elems(z) \subseteq Elems(y) \cup {h}
  BY <1>2, <1>4 DEF Elems
<1>7. \A i \in Ends(y) : i + 1 \in Ends(z) /\ i \in Nat
  BY <1>2, <1>3 DEF Ends
<1>8. 1 \in 1..Len(z)
  BY <1>1
<1>9. (h.op = "finished" => 1 \in Ends(z)) /\ h \in Elems(z)
  BY <1>2, <1>8 DEF Ends, Elems
<1>. QED BY <1>5, <1>6, <1>7, <1>9 DEF y, h

\* A run's end is reported once, also after a message was taken.
LEMMA EndsOnce ==
  ASSUME NEW M, NEW z \in Seq(M), z # <<>>, \A i, j \in Ends(z) : i = j
  PROVE  /\ \A i, j \in Ends(Tail(z)) : i = j
         /\ Head(z).op = "finished" => Ends(Tail(z)) = {}
         /\ Ends(z) = {} => Ends(Tail(z)) = {}
<1>. DEFINE y == Tail(z)
<1>. HIDE DEF y
<1>1. \A i \in Ends(y) : i + 1 \in Ends(z) /\ i \in Nat
  BY BoxTail DEF y
<1>2. Head(z).op = "finished" => 1 \in Ends(z)
  BY BoxTail
<1>3. \A i, j \in Ends(y) : i = j
  BY <1>1
<1>4. ASSUME Head(z).op = "finished", NEW i \in Ends(y)
      PROVE  FALSE
  <2>1. i + 1 = 1 /\ i \in Nat /\ i \in 1..Len(y)
    BY <1>1, <1>2, <1>4 DEF Ends
  <2>. QED BY <2>1
<1>. QED BY <1>1, <1>3, <1>4 DEF y

\* Messages are added at the end.
LEMMA BoxConcat ==
  ASSUME NEW M, NEW z \in Seq(M), NEW ms \in Seq(M)
  PROVE  /\ Elems(z \o ms) = Elems(z) \cup Elems(ms)
         /\ Ends(ms) = {} => Ends(z \o ms) = Ends(z)
<1>1. /\ Len(z \o ms) = Len(z) + Len(ms)
      /\ \A i \in 1..(Len(z) + Len(ms)) : (z \o ms)[i] =
                   IF i <= Len(z) THEN z[i] ELSE ms[i - Len(z)]
  BY ConcatProperties
<1>2. Len(z) \in Nat /\ Len(ms) \in Nat
  OBVIOUS
<1>. DEFINE y == z \o ms
<1>. HIDE DEF y
<1>3. /\ \A i \in 1..Len(z) : i \in 1..Len(y) /\ y[i] = z[i]
      /\ \A i \in 1..Len(ms) : i + Len(z) \in 1..Len(y) /\ y[i + Len(z)] = ms[i]
      /\ \A i \in 1..Len(y) : i \in 1..Len(z) \/ (i - Len(z) \in 1..Len(ms) /\ y[i] = ms[i - Len(z)])
  BY <1>1, <1>2 DEF y
<1>4. Elems(z) \subseteq Elems(y) /\ Elems(ms) \subseteq Elems(y)
  <2>1. ASSUME NEW i \in 1..Len(ms)
        PROVE  ms[i] \in Elems(y)
    <3>. DEFINE j == i + Len(z)
    <3>1. j \in 1..Len(y) /\ y[j] = ms[i]
      BY <1>3
    <3>. HIDE DEF j
    <3>. QED BY <3>1 DEF Elems
  <2>2. \A i \in 1..Len(z) : z[i] \in Elems(y)
    BY <1>3 DEF Elems
  <2>. QED BY <2>1, <2>2 DEF Elems
<1>5. \A i \in 1..Len(y) : y[i] \in Elems(z) \/ y[i] \in Elems(ms)
  <2>1. \A i \in 1..Len(z) : y[i] \in Elems(z)
    BY <1>3 DEF Elems
  <2>2. \A i \in 1..Len(ms) : ms[i] \in Elems(ms)
    BY DEF Elems
  <2>. QED BY <2>1, <2>2, <1>3
<1>6. Ends(z) \subseteq Ends(y)
  BY <1>3 DEF Ends
<1>7. Ends(ms) = {} => Ends(y) \subseteq Ends(z)
  BY <1>3 DEF Ends
<1>8. Elems(y) \subseteq Elems(z) \cup Elems(ms)
  BY <1>5 DEF Elems
<1>. QED BY <1>4, <1>6, <1>7, <1>8 DEF y

\* One message is added.
LEMMA BoxAppend ==
  ASSUME NEW M, NEW z \in Seq(M), NEW m \in M
  PROVE  /\ Elems(Append(z, m)) = Elems(z) \cup {m}
         /\ m.op # "finished" => Ends(Append(z, m)) = Ends(z)
         /\ Ends(z) = {} => \A i, j \in Ends(Append(z, m)) : i = j
<1>. DEFINE y == Append(z, m)
            l == Len(z)
<1>1. /\ l \in Nat /\ Len(y) = l + 1 /\ y[l + 1] = m /\ \A i \in 1..l : y[i] = z[i]
  OBVIOUS
<1>. HIDE DEF y
<1>2. l \in Nat /\ 1..Len(y) = 1..l \cup {l + 1}
  BY <1>1
<1>3. Elems(y) = Elems(z) \cup {m}
  BY <1>1, <1>2 DEF Elems
<1>4. m.op # "finished" => Ends(y) = Ends(z)
  BY <1>1, <1>2 DEF Ends
<1>5. Ends(z) = {} => \A i \in Ends(y) : i = l + 1
  BY <1>1, <1>2 DEF Ends
<1>. QED BY <1>3, <1>4, <1>5 DEF y

-----------------------------------------------------------------------------
(* What a step may do to one thread.                                       *)

Steady(th, th1) ==
  Sound(th1) /\ th1.owner = th.owner /\ (Settled(th) => Settled(th1))
Bound(th, th1) == Engaged(th) => Engaged(th1) /\ th1.stream = th.stream
Fewer(th, th1) == \A k : Asked(th1, k) => Asked(th, k)
Follow(th, th1) == Steady(th, th1) /\ Bound(th, th1) /\ Fewer(th, th1)

\* A thread that does nothing.
LEMMA FollowSelf ==
  ASSUME NEW th, Sound(th)
  PROVE  Follow(th, th)
  BY DEF Follow, Steady, Bound, Fewer

(* Mail ms is added to the inbox.                                          *)
Delivered(n, th, th1, ms) ==
  /\ th \in ThreadState(n) /\ Sound(th) /\ ms \in Seq(Mail(n))
  /\ \A m \in Elems(ms) : m.op # "finished"
  /\ th1.inbox = th.inbox \o ms /\ th1.owner = th.owner /\ th1.pc = th.pc
  /\ th1.run = th.run /\ th1.stream = th.stream /\ th1.caller = th.caller
  /\ th1.cancel <=> th.cancel
  /\ th1.stop <=> th.stop
Arrived(th, th1, ms) ==
  /\ Steady(th, th1) /\ Bound(th, th1) /\ Elems(ms) \subseteq Elems(th1.inbox)
  /\ \A k : Asked(th1, k) => Asked(th, k) \/ \E m \in Elems(ms) : m.op = "child" /\ m.call = k

\* Mail is delivered.
LEMMA MailFollows ==
  ASSUME NEW n \in Nat, NEW th, NEW th1, NEW ms, Delivered(n, th, th1, ms)
  PROVE  Arrived(th, th1, ms)
<1>1. th.inbox \in Seq(Mail(n)) /\ ms \in Seq(Mail(n))
  BY ThreadFields DEF Delivered
<1>2. Ends(ms) = {}
  BY DEF Ends, Elems, Delivered
<1>3. Elems(th1.inbox) = Elems(th.inbox) \cup Elems(ms) /\ Ends(th1.inbox) = Ends(th.inbox)
  BY <1>1, <1>2, BoxConcat DEF Delivered
<1>4. Steady(th, th1)
  BY <1>3 DEF Steady, Sound, Settled, Delivered
<1>5. Bound(th, th1)
  BY <1>3 DEF Bound, Engaged, Struck, Delivered
<1>6. \A k : Asked(th1, k) => Asked(th, k) \/ \E m \in Elems(ms) : m.op = "child" /\ m.call = k
  BY <1>3 DEF Asked, Delivered
<1>. QED BY <1>3, <1>4, <1>5, <1>6 DEF Arrived

(* The thread after a command is th1: the rest of the inbox and the state  *)
(* of the run, with leaves saying whether it leaves the loop.              *)
Served(th, th1) ==
  /\ th.pc = "loop" /\ th.inbox # <<>> /\ th1.inbox = Tail(th.inbox) /\ th1.owner = th.owner
  /\ th1.pc \in {"loop", "exit"} /\ (th1.pc = "exit" => th1.run = "idle")

\* A command that neither starts, cancels nor ends a run.
LEMMA PlainFollows ==
  ASSUME NEW n \in Nat, NEW th \in ThreadState(n), NEW th1 \in ThreadState(n), Sound(th),
         Served(th, th1), Head(th.inbox).op \notin {"cancel", "shutdown"},
         th1.run = th.run, th1.stream = th.stream, th1.caller = th.caller,
         th1.cancel <=> th.cancel, th1.stop <=> th.stop
  PROVE  Follow(th, th1)
<1>1. th.inbox \in Seq(Mail(n)) /\ th.inbox # <<>>
  BY ThreadFields DEF Served
<1>2. /\ Elems(th1.inbox) \subseteq Elems(th.inbox)
      /\ Elems(th.inbox) \subseteq Elems(th1.inbox) \cup {Head(th.inbox)}
  BY <1>1, BoxTail DEF Served
<1>3. /\ \A i, j \in Ends(th.inbox) : i = j
      /\ Ends(th.inbox) # {} => th.run = "ended"
  BY DEF Sound
<1>4. /\ \A i, j \in Ends(th1.inbox) : i = j
      /\ Ends(th1.inbox) # {} => th1.run = "ended"
  <2>1. /\ \A i, j \in Ends(th1.inbox) : i = j
        /\ Ends(th.inbox) = {} => Ends(th1.inbox) = {}
    BY <1>1, <1>3, EndsOnce, SMTT(30) DEF Served
  <2>. QED BY <2>1, <1>3
<1>5. Sound(th1)
  <2>1. th1.run # "idle" => th1.pc = "loop"
    BY DEF Served
  <2>2. th1.stop /\ th1.run # "idle" => th1.cancel
    BY DEF Sound
  <2>. QED BY <2>1, <2>2, <1>4 DEF Sound
<1>6. Steady(th, th1)
  BY <1>2, <1>5 DEF Steady, Settled, Served
<1>7. Bound(th, th1)
  BY <1>2 DEF Bound, Engaged, Struck
<1>8. Fewer(th, th1)
  BY <1>2 DEF Fewer, Asked
<1>. QED BY <1>6, <1>7, <1>8 DEF Follow

\* CancelRequest, and ShutdownSession: the run that works is cancelled.
LEMMA CancelFollows ==
  ASSUME NEW n \in Nat, NEW th \in ThreadState(n), NEW th1 \in ThreadState(n), Sound(th),
         Served(th, th1), th1.run = th.run, th1.stream = th.stream, th1.caller = th.caller,
         LET m == Head(th.inbox) IN
         \/ /\ m.op = "cancel" /\ (th1.stop <=> th.stop)
            /\ th1.cancel <=> (th.cancel \/ (th.run # "idle" /\ m.stream \in {0, th.stream}))
         \/ /\ m.op = "shutdown" /\ th1.stop
            /\ th1.cancel <=> (th.cancel \/ th.run # "idle")
  PROVE  Follow(th, th1)
<1>. DEFINE m == Head(th.inbox)
<1>1. th.inbox \in Seq(Mail(n)) /\ th.inbox # <<>>
  BY ThreadFields DEF Served
<1>2. /\ Elems(th1.inbox) \subseteq Elems(th.inbox)
      /\ Elems(th.inbox) \subseteq Elems(th1.inbox) \cup {m}
  BY <1>1, BoxTail DEF Served
<1>3. /\ \A i, j \in Ends(th.inbox) : i = j
      /\ Ends(th.inbox) # {} => th.run = "ended"
  BY DEF Sound
<1>4. /\ \A i, j \in Ends(th1.inbox) : i = j
      /\ Ends(th1.inbox) # {} => th1.run = "ended"
  <2>1. /\ \A i, j \in Ends(th1.inbox) : i = j
        /\ Ends(th.inbox) = {} => Ends(th1.inbox) = {}
    BY <1>1, <1>3, EndsOnce DEF Served
  <2>. QED BY <2>1, <1>3
<1>. HIDE DEF m
<1>5. \/ /\ m.op = "cancel" /\ (th1.stop <=> th.stop)
         /\ th1.cancel <=> (th.cancel \/ (th.run # "idle" /\ m.stream \in {0, th.stream}))
      \/ /\ m.op = "shutdown" /\ th1.stop
         /\ th1.cancel <=> (th.cancel \/ th.run # "idle")
  BY DEF m
<1>6. Sound(th1)
  <2>1. th1.run # "idle" => th1.pc = "loop"
    BY DEF Served
  <2>2. th1.stop /\ th1.run # "idle" => th1.cancel
    BY <1>5 DEF Sound
  <2>. QED BY <2>1, <2>2, <1>4 DEF Sound
<1>7. Steady(th, th1)
  BY <1>2, <1>5, <1>6 DEF Steady, Settled, Served
<1>8. Bound(th, th1)
  BY <1>2, <1>5 DEF Bound, Engaged, Struck
<1>9. Fewer(th, th1)
  BY <1>2 DEF Fewer, Asked
<1>. QED BY <1>7, <1>8, <1>9 DEF Follow

\* A run begins, for call k or for a client.
LEMMA BeginFollows ==
  ASSUME NEW n \in Nat, NEW th \in ThreadState(n), NEW th1 \in ThreadState(n), Sound(th),
         Served(th, th1), Head(th.inbox).op \notin {"cancel", "shutdown"},
         th.run = "idle", ~th.stop, ~th1.stop, th1.run = "begun", th1.pc = "loop", ~th1.cancel,
         th1.caller = 0 \/ (Head(th.inbox).op = "child" /\ Head(th.inbox).call = th1.caller)
  PROVE  Follow(th, th1)
<1>1. th.inbox \in Seq(Mail(n)) /\ th.inbox # <<>>
  BY ThreadFields DEF Served
<1>2. /\ Elems(th1.inbox) \subseteq Elems(th.inbox) /\ Head(th.inbox) \in Elems(th.inbox)
      /\ Elems(th.inbox) \subseteq Elems(th1.inbox) \cup {Head(th.inbox)}
  BY <1>1, BoxTail DEF Served
<1>3. Ends(th.inbox) = {}
  BY DEF Sound
<1>4. Ends(th1.inbox) = {}
  BY <1>1, <1>3, EndsOnce DEF Served
<1>5. Sound(th1)
  BY <1>4 DEF Sound
<1>6. Steady(th, th1)
  BY <1>2, <1>5 DEF Steady, Settled, Served
<1>7. Bound(th, th1)
  BY DEF Bound, Engaged
<1>8. Fewer(th, th1)
  BY <1>2 DEF Fewer, Asked
<1>. QED BY <1>6, <1>7, <1>8 DEF Follow

\* The end of a run is taken: it was the only one reported.
LEMMA FinishFollows ==
  ASSUME NEW n \in Nat, NEW th \in ThreadState(n), NEW th1 \in ThreadState(n), Sound(th),
         Served(th, th1), Head(th.inbox).op = "finished", th1.run = "idle", th1.caller = 0,
         th1.stop <=> th.stop
  PROVE  Follow(th, th1)
<1>1. th.inbox \in Seq(Mail(n)) /\ th.inbox # <<>>
  BY ThreadFields DEF Served
<1>2. /\ Elems(th1.inbox) \subseteq Elems(th.inbox) /\ 1 \in Ends(th.inbox)
      /\ Elems(th.inbox) \subseteq Elems(th1.inbox) \cup {Head(th.inbox)}
  BY <1>1, BoxTail DEF Served
<1>3. th.run = "ended" /\ \A i, j \in Ends(th.inbox) : i = j
  BY <1>2 DEF Sound
<1>4. Ends(th1.inbox) = {}
  BY <1>1, <1>3, EndsOnce DEF Served
<1>5. Sound(th1)
  BY <1>4 DEF Sound
<1>6. Steady(th, th1)
  BY <1>2, <1>5 DEF Steady, Settled, Served
<1>7. Bound(th, th1)
  BY <1>3 DEF Bound, Engaged
<1>8. Fewer(th, th1)
  BY <1>2 DEF Fewer, Asked
<1>. QED BY <1>6, <1>7, <1>8 DEF Follow

-----------------------------------------------------------------------------
(* What a step may do to the threads and the calls together.               *)

\* Threads follow, calls keep the child they have, and a child is tracked
\* until it is told to stop.
LEMMA CancelFrame ==
  ASSUME Shapes, Shapes', SoundPart, CallerPart, TrackPart, HitPart,
         Len(threads) =< Len(threads'),
         \A t \in 1..Len(threads) : Steady(threads[t], threads'[t]),
         \A t \in 1..Len(threads) :
           <<t, threads[t].stream>> \in hit' => Bound(threads[t], threads'[t]),
         \A t \in 1..Len(threads') : t \notin 1..Len(threads) =>
           Sound(threads'[t]) /\ \A k : ~Asked(threads'[t], k),
         \A t \in 1..Len(threads) : \A k \in 1..Len(calls') : Asked(threads'[t], k) =>
           k \in 1..Len(calls) /\ (Asked(threads[t], k) \/ calls[k].child = t),
         \A k \in 1..Len(calls) : calls[k].child # 0 =>
           k \in 1..Len(calls') /\ calls'[k].child = calls[k].child /\ calls'[k].by = calls[k].by,
         \A k \in 1..Len(calls') : calls'[k].child # 0 =>
           \/ k \in 1..Len(calls) /\ calls'[k].child = calls[k].child
           \/ Tracked(calls[k].child, calls[k].by)',
         \A u, t \in 1..Len(threads) : Tracked(u, t) => Settled(threads'[u]) \/ Tracked(u, t)',
         \A p \in hit' : p \in hit \/ \E t \in 1..Len(threads') :
           p = <<t, threads'[t].stream>> /\ Engaged(threads'[t])
  PROVE  SoundPart' /\ CallerPart' /\ TrackPart' /\ HitPart'
<1>1. /\ Len(threads) \in Nat /\ Len(threads') \in Nat /\ 1..Len(threads) \subseteq 1..Len(threads')
      /\ \A k \in 1..Len(calls) : calls[k].child \in 0..Len(threads) /\ calls[k].by \in 1..Len(threads)
  <2>1. Len(threads) \in Nat /\ \A k \in 1..Len(calls) : calls[k] \in CallState(Len(threads))
    BY Counts
  <2>2. Len(threads') \in Nat
    BY DEF Shapes
  <2>3. \A k \in 1..Len(calls) : calls[k].child \in 0..Len(threads) /\ calls[k].by \in 1..Len(threads)
    BY <2>1 DEF CallState
  <2>. QED BY <2>1, <2>2, <2>3
<1>2. SoundPart'
  BY DEF SoundPart, Steady
<1>3. CallerPart'
  <2>. SUFFICES ASSUME NEW t \in 1..Len(threads'), NEW k \in 1..Len(calls'), Asked(threads'[t], k)
                PROVE  calls'[k].child = t
    BY DEF CallerPart
  <2>1. t \in 1..Len(threads) /\ k \in 1..Len(calls) /\ (Asked(threads[t], k) \/ calls[k].child = t)
    OBVIOUS
  <2>2. calls[k].child = t
    BY <2>1 DEF CallerPart
  <2>3. t # 0
    BY <1>1, <2>1
  <2>. QED BY <2>1, <2>2, <2>3
<1>4. TrackPart'
  <2>. SUFFICES ASSUME NEW k \in 1..Len(calls'), calls'[k].child # 0, ~Tracked(calls[k].child, calls[k].by)'
                PROVE  Settled(threads'[calls'[k].child])
    BY DEF TrackPart
  <2>. DEFINE u == calls[k].child
              t == calls[k].by
  <2>1. k \in 1..Len(calls) /\ calls'[k].child = u /\ u # 0
    OBVIOUS
  <2>2. calls'[k].by = t
    BY <2>1
  <2>3. u \in 1..Len(threads) /\ t \in 1..Len(threads)
    BY <2>1, <1>1
  <2>4. Settled(threads[u]) \/ Tracked(u, t)
    BY <2>1 DEF TrackPart
  <2>5. CASE Settled(threads[u])
    BY <2>1, <2>3, <2>5 DEF Steady
  <2>6. CASE Tracked(u, t)
    <3>1. Settled(threads'[u]) \/ (Own'[u] \in children'[Own'[t]] /\ active'[Own'[u]] = u)
      BY <2>3, <2>6 DEF Tracked
    <3>2. ~(Own'[u] \in children'[Own'[t]] /\ active'[Own'[u]] = u)
      BY <2>1, <2>2 DEF Tracked
    <3>. QED BY <3>1, <3>2, <2>1
  <2>. QED BY <2>4, <2>5, <2>6
<1>5. HitPart'
  <2>. SUFFICES ASSUME NEW p \in hit', p \in hit
                PROVE  \E t \in 1..Len(threads') : p = <<t, threads'[t].stream>> /\ Engaged(threads'[t])
    BY DEF HitPart
  <2>1. PICK t \in 1..Len(threads) : p = <<t, threads[t].stream>> /\ Engaged(threads[t])
    BY DEF HitPart
  <2>2. Engaged(threads'[t]) /\ threads'[t].stream = threads[t].stream
    BY <2>1 DEF Bound
  <2>. QED BY <2>1, <2>2, <1>1
<1>. QED BY <1>2, <1>3, <1>4, <1>5

\* The daemon's channel keeps its requests for children.
LEMMA AskFrame ==
  ASSUME Shapes, AskPart, NEW n \in Nat, queue \in Seq(Orders(n)), NEW ms \in Seq(Orders(n)),
         queue' = queue \o ms, \A i \in 1..Len(ms) : ms[i].op # "spawn",
         \A k \in 1..Len(calls) : calls[k].child = 0 => calls'[k].child = 0
  PROVE  AskPart'
<1>1. /\ Len(queue) \in Nat /\ Len(ms) \in Nat /\ Len(queue \o ms) = Len(queue) + Len(ms)
      /\ \A i \in 1..(Len(queue) + Len(ms)) : (queue \o ms)[i] =
                   IF i <= Len(queue) THEN queue[i] ELSE ms[i - Len(queue)]
  BY ConcatProperties
<1>2. At("spawn")' = At("spawn") /\ \A i \in At("spawn") : queue'[i] = queue[i]
  BY <1>1 DEF At
<1>3. \A i \in At("spawn") : queue[i].call \in 1..Len(calls)
  BY Counts, OrderFields DEF At
<1>. QED BY <1>2, <1>3, ZenonT(40) DEF AskPart

\* A command that is no such request is taken.
LEMMA AskTaken ==
  ASSUME Shapes, AskPart, queue # <<>>, queue' = Tail(queue),
         \A k \in 1..Len(calls) : calls[k].child = 0 =>
           calls'[k].child = 0 \/ (Head(queue).op = "spawn" /\ k = Head(queue).call)
  PROVE  AskPart'
<1>. DEFINE h == Head(queue)
<1>1. /\ Len(queue) \in Nat /\ Len(queue) > 0 /\ Len(queue') = Len(queue) - 1 /\ h = queue[1]
      /\ \A i \in 1..Len(queue') : queue'[i] = queue[i + 1]
  BY DEF Shapes
<1>. HIDE DEF h
<1>2. \A i \in At("spawn")' : i + 1 \in At("spawn") /\ queue'[i] = queue[i + 1] /\ i \in Nat /\ i # 0
  BY <1>1 DEF At
<1>3. \A i \in At("spawn") : queue[i].call \in 1..Len(calls)
  BY Counts, OrderFields DEF At
<1>4. h.op = "spawn" => 1 \in At("spawn")
  BY <1>1 DEF At
<1>5. ASSUME NEW i \in At("spawn")'
      PROVE  calls'[queue'[i].call].child = 0
  <2>1. i + 1 \in At("spawn") /\ queue'[i] = queue[i + 1] /\ i \in Nat /\ i # 0
    BY <1>2
  <2>2. h.op = "spawn" => queue[i + 1].call # h.call
    <3>1. i + 1 # 1
      BY <2>1
    <3>. QED BY <3>1, <1>1, <1>4, <2>1 DEF AskPart
  <2>. QED BY <2>1, <2>2, <1>3 DEF AskPart, h
<1>6. ASSUME NEW i \in At("spawn")', NEW j \in At("spawn")', queue'[i].call = queue'[j].call
      PROVE  i = j
  <2>1. /\ i + 1 \in At("spawn") /\ queue'[i] = queue[i + 1] /\ i \in Nat
        /\ j + 1 \in At("spawn") /\ queue'[j] = queue[j + 1] /\ j \in Nat
    BY <1>2
  <2>2. i + 1 = j + 1
    BY <2>1, <1>6 DEF AskPart
  <2>. QED BY <2>1, <2>2
<1>. QED BY <1>5, <1>6 DEF AskPart

(* The calls keep their callers and children.                              *)
SameCalls ==
  /\ Len(calls') = Len(calls)
  /\ \A k \in 1..Len(calls) : calls'[k].child = calls[k].child /\ calls'[k].by = calls[k].by

\* Calls that keep their callers and children, as a list.
LEMMA CallsKept ==
  ASSUME Shapes, calls' \in [1..Len(calls) -> CallState(Len(threads))],
         \A k \in 1..Len(calls) : calls'[k].child = calls[k].child /\ calls'[k].by = calls[k].by
  PROVE  SameCalls
  BY Counts, FunctionIsSeq DEF SameCalls

\* Nothing that concerns the channel or the calls changes.
LEMMA AskSame ==
  ASSUME Shapes, AskPart, queue' = queue, SameCalls
  PROVE  AskPart'
<1>1. \A i \in At("spawn") : queue[i].call \in 1..Len(calls)
  BY Counts, OrderFields DEF At
<1>2. At("spawn")' = At("spawn")
  BY DEF At
<1>. QED BY <1>1, <1>2 DEF AskPart, SameCalls

\* The threads follow; the index of threads and children stays.
LEMMA AllFollow ==
  ASSUME Shapes, Shapes', CancelInv, AskPart', SameCalls, Len(threads') = Len(threads),
         \A t \in 1..Len(threads) : Steady(threads[t], threads'[t]),
         \A t \in 1..Len(threads) :
           <<t, threads[t].stream>> \in hit' => Bound(threads[t], threads'[t]),
         \A t \in 1..Len(threads) : \A k \in 1..Len(calls) : Asked(threads'[t], k) =>
           Asked(threads[t], k) \/ calls[k].child = t,
         hit' \subseteq hit, UNCHANGED <<active, children>>
  PROVE  CancelInv'
<1>1. Len(threads) =< Len(threads') /\ Len(calls') = Len(calls)
  BY Counts DEF SameCalls
<1>2. Own' = Own
  BY DEF Own, Steady
<1>3. \A u, t \in 1..Len(threads) : Tracked(u, t) => Tracked(u, t)'
  BY <1>2 DEF Tracked
<1>4. SoundPart /\ CallerPart /\ TrackPart /\ HitPart
  BY DEF CancelInv
<1>5. SoundPart' /\ CallerPart' /\ TrackPart' /\ HitPart'
  BY <1>1, <1>3, <1>4, CancelFrame DEF SameCalls
<1>. QED BY <1>5 DEF CancelInv

\* One thread changes.
LEMMA OneFollows ==
  ASSUME Shapes, Shapes', CancelInv, AskPart', SameCalls, NEW t \in 1..Len(threads),
         NEW th \in ThreadState(Len(calls)), threads' = [threads EXCEPT ![t] = th],
         Follow(threads[t], th), UNCHANGED <<active, children, hit>>
  PROVE  CancelInv'
<1>1. /\ Len(threads') = Len(threads)
      /\ \A u \in 1..Len(threads) : threads'[u] = IF u = t THEN th ELSE threads[u]
  BY ThreadBecomes
<1>2. ASSUME NEW u \in 1..Len(threads)
      PROVE  Follow(threads[u], threads'[u])
  BY <1>1, FollowSelf DEF CancelInv, SoundPart
<1>3. \A u \in 1..Len(threads) : Steady(threads[u], threads'[u]) /\ Bound(threads[u], threads'[u])
  BY <1>2 DEF Follow
<1>4. \A u \in 1..Len(threads) : \A k \in 1..Len(calls) : Asked(threads'[u], k) => Asked(threads[u], k)
  BY <1>2 DEF Follow, Fewer
<1>. QED BY <1>1, <1>3, <1>4, AllFollow

\* No thread changes.
LEMMA NoneFollows ==
  ASSUME Shapes, Shapes', CancelInv, AskPart', SameCalls, UNCHANGED <<threads, active, children, hit>>
  PROVE  CancelInv'
<1>1. \A u \in 1..Len(threads) : Follow(threads[u], threads'[u])
  BY FollowSelf DEF CancelInv, SoundPart
<1>2. \A u \in 1..Len(threads) : Steady(threads[u], threads'[u]) /\ Bound(threads[u], threads'[u])
  BY <1>1 DEF Follow
<1>. QED BY <1>2, AllFollow

\* A mailing, without the end of a run.
LEMMA MailedFollow ==
  ASSUME Shapes, SoundPart, NEW mail \in [1..Len(threads) -> Seq(Mail(Len(calls)))],
         threads' = Mailed(mail), \A u \in 1..Len(threads) : \A m \in Elems(mail[u]) : m.op # "finished"
  PROVE  /\ Len(threads') = Len(threads) /\ Own' = Own
         /\ \A u \in 1..Len(threads) :
              /\ Steady(threads[u], threads'[u]) /\ Bound(threads[u], threads'[u])
              /\ threads'[u].run = threads[u].run /\ threads'[u].stream = threads[u].stream
              /\ Reads(u) => Elems(mail[u]) \subseteq Elems(threads'[u].inbox)
              /\ \A k : Asked(threads'[u], k) =>
                   Asked(threads[u], k) \/ \E m \in Elems(mail[u]) : m.op = "child" /\ m.call = k
<1>1. /\ threads' \in Seq(ThreadState(Len(calls))) /\ Len(threads') = Len(threads) /\ Own' = Own
      /\ \A u \in 1..Len(threads) :
           threads'[u] = IF Reads(u) THEN [threads[u] EXCEPT !.inbox = @ \o mail[u]] ELSE threads[u]
  BY MailedKeeps
<1>2. ASSUME NEW u \in 1..Len(threads)
      PROVE  /\ Steady(threads[u], threads'[u]) /\ Bound(threads[u], threads'[u])
             /\ threads'[u].run = threads[u].run /\ threads'[u].stream = threads[u].stream
             /\ Reads(u) => Elems(mail[u]) \subseteq Elems(threads'[u].inbox)
             /\ \A k : Asked(threads'[u], k) =>
                  Asked(threads[u], k) \/ \E m \in Elems(mail[u]) : m.op = "child" /\ m.call = k
  <2>1. /\ threads[u] \in ThreadState(Len(calls)) /\ threads'[u] \in ThreadState(Len(calls))
        /\ Sound(threads[u]) /\ Len(calls) \in Nat /\ mail[u] \in Seq(Mail(Len(calls)))
    BY <1>1, Counts DEF SoundPart
  <2>2. CASE Reads(u)
    <3>1. threads'[u] = [threads[u] EXCEPT !.inbox = threads[u].inbox \o mail[u]]
      BY <1>1, <2>2
    <3>2. \A m \in Elems(mail[u]) : m.op # "finished"
      OBVIOUS
    <3>. DEFINE a == threads[u]
                b == threads'[u]
                ms == mail[u]
    <3>3. Arrived(a, b, ms) /\ b.run = a.run /\ b.stream = a.stream
      <4>1. /\ a \in ThreadState(Len(calls)) /\ b \in ThreadState(Len(calls)) /\ Sound(a)
            /\ Len(calls) \in Nat /\ ms \in Seq(Mail(Len(calls)))
            /\ b = [a EXCEPT !.inbox = a.inbox \o ms] /\ \A m \in Elems(ms) : m.op # "finished"
        BY <2>1, <3>1, <3>2
      <4>. HIDE DEF a, b, ms
      <4>2. /\ b.inbox = a.inbox \o ms /\ b.owner = a.owner /\ b.pc = a.pc /\ b.run = a.run
            /\ b.stream = a.stream /\ b.caller = a.caller /\ (b.cancel <=> a.cancel) /\ (b.stop <=> a.stop)
        BY <4>1 DEF ThreadState
      <4>3. Delivered(Len(calls), a, b, ms)
        BY <4>1, <4>2 DEF Delivered
      <4>. QED BY <4>1, <4>2, <4>3, MailFollows
    <3>. QED BY <3>3 DEF Arrived
  <2>3. CASE ~Reads(u)
    <3>1. threads'[u] = threads[u]
      BY <1>1, <2>3
    <3>. QED BY <2>1, <2>3, <3>1, FollowSelf DEF Follow
  <2>. QED BY <2>2, <2>3
<1>. QED BY <1>1, <1>2

\* A mailing that leaves the index alone; a prompt goes to its call's child.
LEMMA MailingFollows ==
  ASSUME Shapes, Shapes', CancelInv, AskPart', SameCalls,
         NEW mail \in [1..Len(threads) -> Seq(Mail(Len(calls)))], threads' = Mailed(mail),
         \A u \in 1..Len(threads) : \A m \in Elems(mail[u]) :
           m.op # "finished" /\ (m.op = "child" => calls[m.call].child = u),
         UNCHANGED <<active, children, hit>>
  PROVE  CancelInv'
<1>1. /\ Len(threads') = Len(threads) /\ Own' = Own
      /\ \A u \in 1..Len(threads) :
           /\ Steady(threads[u], threads'[u]) /\ Bound(threads[u], threads'[u])
           /\ \A k : Asked(threads'[u], k) =>
                Asked(threads[u], k) \/ \E m \in Elems(mail[u]) : m.op = "child" /\ m.call = k
  BY MailedFollow DEF CancelInv
<1>2. \A u \in 1..Len(threads) : \A k \in 1..Len(calls) :
        Asked(threads'[u], k) => Asked(threads[u], k) \/ calls[k].child = u
  <2>. SUFFICES ASSUME NEW u \in 1..Len(threads), NEW k \in 1..Len(calls),
                       Asked(threads'[u], k), ~Asked(threads[u], k)
                PROVE  calls[k].child = u
    OBVIOUS
  <2>1. PICK m \in Elems(mail[u]) : m.op = "child" /\ m.call = k
    BY <1>1
  <2>. QED BY <2>1
<1>. QED BY <1>1, <1>2, AllFollow

\* A thread is spawned for a session that has none.
LEMMA SpawnFollows ==
  ASSUME IndexInv, Shapes', CancelInv, NEW s \in Ids, active[s] = 0,
         threads' = Append(threads, Fresh(s)), active' = [active EXCEPT ![s] = Len(threads) + 1],
         \A q \in Ids : children[q] \subseteq children'[q], hit' = hit, Len(calls') = Len(calls),
         \A k \in 1..Len(calls) : calls[k].child # 0 =>
           calls'[k].child = calls[k].child /\ calls'[k].by = calls[k].by,
         \A k \in 1..Len(calls) : calls'[k].child # 0 =>
           calls'[k].child = calls[k].child \/ Tracked(calls[k].child, calls[k].by)'
  PROVE  SoundPart' /\ CallerPart' /\ TrackPart' /\ HitPart'
<1>. DEFINE z == Len(threads) + 1
<1>1. /\ Shapes /\ Len(threads) \in Nat /\ Len(calls) \in Nat /\ Len(threads) =< z
      /\ SoundPart /\ CallerPart /\ TrackPart /\ HitPart
  BY Counts DEF IndexInv, CancelInv
<1>2. Len(threads') = z /\ \A t \in 1..Len(threads) : Own'[t] = Own[t]
  BY <1>1, SpawnedThread
<1>3. threads'[z] = Fresh(s) /\ \A t \in 1..Len(threads) : threads'[t] = threads[t]
  BY <1>1 DEF Shapes
<1>4. Sound(Fresh(s)) /\ \A k : ~Asked(Fresh(s), k)
  <2>1. Elems(<<>>) = {} /\ Ends(<<>>) = {}
    BY DEF Elems, Ends
  <2>. QED BY <2>1 DEF Sound, Asked, Fresh
<1>5. \A t \in 1..Len(threads') : t \notin 1..Len(threads) => threads'[t] = Fresh(s)
  <2>1. \A t \in 1..z : t \notin 1..Len(threads) => t = z
    BY <1>1
  <2>. QED BY <2>1, <1>2, <1>3
<1>6. \A t \in 1..Len(threads) : Follow(threads[t], threads'[t])
  BY <1>1, <1>3, FollowSelf DEF SoundPart
<1>7. ASSUME NEW u \in 1..Len(threads), NEW t \in 1..Len(threads), Tracked(u, t)
      PROVE  Tracked(u, t)'
  <2>1. Own[u] \in Ids /\ Own[t] \in Ids
    BY <1>1, Counts, ThreadFields DEF Own
  <2>2. Own[u] # s
    BY <1>7, <1>1 DEF Tracked
  <2>3. active'[Own[u]] = active[Own[u]]
    BY <2>1, <2>2, <1>1 DEF Shapes
  <2>. QED BY <2>1, <2>3, <1>2, <1>7 DEF Tracked
<1>8. /\ \A t \in 1..Len(threads) : Steady(threads[t], threads'[t]) /\ Bound(threads[t], threads'[t])
      /\ \A t \in 1..Len(threads) : \A k : Asked(threads'[t], k) => Asked(threads[t], k)
  BY <1>6 DEF Follow, Fewer
<1>9. \A t \in 1..Len(threads') : t \notin 1..Len(threads) =>
        Sound(threads'[t]) /\ \A k : ~Asked(threads'[t], k)
  BY <1>4, <1>5
<1>10. Len(threads) =< Len(threads')
  BY <1>1, <1>2
<1>. HIDE DEF z
<1>. QED BY <1>1, <1>7, <1>8, <1>9, <1>10, CancelFrame

\* A command that asks for no child is posted.
LEMMA AskPost ==
  ASSUME Shapes, AskPart, SameCalls, NEW m, queue' = Append(queue, m), m.op # "spawn"
  PROVE  AskPart'
<1>. DEFINE S == Orders(Len(calls)) \cup {m}
<1>1. queue \in Seq(S)
  <2>1. Orders(Len(calls)) \subseteq S
    OBVIOUS
  <2>. QED BY <2>1, SeqMonotonic DEF Shapes
<1>2. m \in S
  OBVIOUS
<1>. HIDE DEF S
<1>3. /\ Len(queue) \in Nat /\ Len(queue') = Len(queue) + 1 /\ queue'[Len(queue) + 1] = m
      /\ \A i \in 1..Len(queue) : queue'[i] = queue[i]
  BY <1>1, <1>2
<1>4. 1..Len(queue') = 1..Len(queue) \cup {Len(queue) + 1}
  BY <1>3
<1>5. At("spawn")' = At("spawn") /\ \A i \in At("spawn") : queue'[i] = queue[i]
  BY <1>3, <1>4 DEF At
<1>6. \A i \in At("spawn") : queue[i].call \in 1..Len(calls)
  BY Counts, OrderFields DEF At
<1>7. \A i \in At("spawn") : calls'[queue'[i].call].child = calls[queue[i].call].child
  BY <1>5, <1>6 DEF SameCalls
<1>. QED BY <1>5, <1>7, ZenonT(40) DEF AskPart

-----------------------------------------------------------------------------
(* The steps, one by one.                                                  *)

\* What a connection asks the daemon.
LEMMA ClientAsksCancel ==
  ASSUME Shapes, Shapes', CancelInv, NEW c \in Clients,
         \/ ClientCreate(c) \/ ClientAttach(c) \/ ClientGetState(c) \/ ClientDelete(c)
         \/ ClientFlags(c) \/ ClientCancel(c)
  PROVE  CancelInv'
<1>1. UNCHANGED <<threads, active, children, calls, hit>>
  BY DEF ClientCreate, ClientAttach, ClientGetState, ClientDelete, ClientFlags, ClientCancel, Ask, index
<1>2. \E m : queue' = Append(queue, m) /\ m.op # "spawn"
  <2>1. CASE ClientCreate(c)
    BY <2>1 DEF ClientCreate, Ask
  <2>2. CASE ClientAttach(c)
    BY <2>2 DEF ClientAttach, Ask
  <2>3. CASE ClientGetState(c)
    BY <2>3 DEF ClientGetState, Ask
  <2>4. CASE ClientDelete(c)
    BY <2>4 DEF ClientDelete, Ask
  <2>5. CASE ClientFlags(c)
    BY <2>5 DEF ClientFlags, Ask
  <2>6. CASE ClientCancel(c)
    BY <2>6 DEF ClientCancel
  <2>. QED BY <2>1, <2>2, <2>3, <2>4, <2>5, <2>6
<1>3. SameCalls
  BY <1>1 DEF SameCalls
<1>4. AskPart'
  BY <1>2, <1>3, AskPost DEF CancelInv
<1>. QED BY <1>1, <1>3, <1>4, NoneFollows

\* What a connection sends to a thread, attaching and leaving included.
LEMMA ClientMailsCancel ==
  ASSUME Shapes, Shapes', CancelInv, NEW c \in Clients,
         ClientTells(c) \/ ClientLeaves(c) \/ SwitchAttached(c)
  PROVE  CancelInv'
<1>1. UNCHANGED <<queue, active, children, calls, hit>>
  BY DEF ClientTells, ClientLeaves, SwitchAttached, index
<1>2. SameCalls /\ AskPart'
  <2>1. SameCalls
    BY <1>1 DEF SameCalls
  <2>. QED BY <2>1, <1>1, AskSame DEF CancelInv
<1>3. Len(calls) \in Nat /\ DOMAIN threads = 1..Len(threads)
  BY Counts
<1>4. ASSUME NEW t, NEW m \in Mail(Len(calls)), m.op \notin {"finished", "child"}, threads' = Mail1(t, m)
      PROVE  CancelInv'
  <2>1. PICK mail \in [1..Len(threads) -> Seq(Mail(Len(calls)))] :
          mail = [u \in 1..Len(threads) |-> IF u = t THEN <<m>> ELSE <<>>] /\ threads' = Mailed(mail)
    BY <1>4, OneMail
  <2>2. Elems(<<m>>) = {m} /\ Elems(<<>>) = {}
    BY ElemsOf
  <2>3. \A u \in 1..Len(threads) : \A x \in Elems(mail[u]) : x = m
    BY <2>1, <2>2
  <2>4. \A u \in 1..Len(threads) : \A x \in Elems(mail[u]) :
          x.op # "finished" /\ (x.op = "child" => calls[x.call].child = u)
    BY <2>3, <1>4
  <2>. QED BY <1>1, <1>2, <2>1, <2>4, MailingFollows
<1>5. CASE ClientTells(c)
  <2>1. PICK op \in {"run", "edit"} : threads' = Mail1(conn[c].at, [op |-> op])
    BY <1>5 DEF ClientTells
  <2>2. [op |-> op] \in Mail(Len(calls)) /\ [op |-> op].op \notin {"finished", "child"}
    BY <1>3, MailForms
  <2>. QED BY <1>4, <2>1, <2>2
<1>6. CASE ClientLeaves(c)
  <2>. DEFINE m == [op |-> "detach", who |-> c]
  <2>1. threads' = Mail1(conn[c].at, m)
    BY <1>6 DEF ClientLeaves
  <2>2. m \in Mail(Len(calls)) /\ m.op \notin {"finished", "child"}
    BY <1>3, MailForms
  <2>. HIDE DEF m
  <2>. QED BY <1>4, <2>1, <2>2
<1>7. CASE SwitchAttached(c)
  <2>. DEFINE new == conn[c].got
              old == conn[c].at
              leaves == old # 0 /\ threads[old].owner # threads[new].owner
              bye == [op |-> "detach", who |-> c]
              hello == [op |-> "attach", who |-> c]
              out(t) == IF leaves /\ t = old THEN <<bye>> ELSE <<>>
              in(t) == IF t = new THEN <<hello>> ELSE <<>>
              mail == [t \in 1..Len(threads) |-> out(t) \o in(t)]
  <2>1. bye \in Mail(Len(calls)) /\ hello \in Mail(Len(calls))
    BY <1>3, MailForms
  <2>2. threads' = Mailed(mail)
    BY <1>3, <1>7 DEF SwitchAttached
  <2>3. bye.op = "detach" /\ hello.op = "attach"
    OBVIOUS
  <2>. HIDE DEF leaves, bye, hello
  <2>4. ASSUME NEW t \in 1..Len(threads)
        PROVE  /\ out(t) \o in(t) \in Seq(Mail(Len(calls)))
               /\ \A x \in Elems(out(t) \o in(t)) : x \in {bye, hello}
    <3>1. out(t) \in Seq(Mail(Len(calls))) /\ in(t) \in Seq(Mail(Len(calls)))
      BY <2>1
    <3>2. Elems(<<bye>>) = {bye} /\ Elems(<<hello>>) = {hello} /\ Elems(<<>>) = {}
      BY ElemsOf
    <3>3. Elems(out(t)) \subseteq {bye} /\ Elems(in(t)) \subseteq {hello}
      BY <3>2
    <3>. HIDE DEF out, in
    <3>4. Elems(out(t) \o in(t)) = Elems(out(t)) \cup Elems(in(t))
      BY <3>1, BoxConcat
    <3>5. out(t) \o in(t) \in Seq(Mail(Len(calls)))
      BY <3>1, ConcatProperties
    <3>. QED BY <3>3, <3>4, <3>5
  <2>. HIDE DEF out, in
  <2>5. mail \in [1..Len(threads) -> Seq(Mail(Len(calls)))]
    BY <2>4
  <2>6. \A t \in 1..Len(threads) : \A x \in Elems(mail[t]) :
          x.op # "finished" /\ (x.op = "child" => calls[x.call].child = t)
    BY <2>3, <2>4
  <2>. HIDE DEF mail
  <2>. QED BY <1>1, <1>2, <2>2, <2>5, <2>6, MailingFollows
<1>. QED BY <1>5, <1>6, <1>7

\* The commands that concern neither threads nor children, and the finalize
\* thread.
LEMMA QuietCancel ==
  ASSUME IndexInv, Shapes', CancelInv,
         \/ HandleFlags \/ HandleUpdateMetadata \/ HandleStatus \/ HandleDeleteFinalized
         \/ \E s \in Ids : Finalize(s)
  PROVE  CancelInv'
<1>1. UNCHANGED <<threads, active, children, calls, hit>> /\ Shapes
  BY DEF HandleFlags, HandleUpdateMetadata, HandleStatus, HandleDeleteFinalized, Finalize, index, IndexInv
<1>2. SameCalls
  BY <1>1 DEF SameCalls
<1>3. AskPart'
  <2>1. CASE queue' = Tail(queue) /\ queue # <<>>
    BY <1>1, <2>1, AskTaken DEF CancelInv
  <2>2. CASE queue' = queue
    BY <1>1, <1>2, <2>2, AskSame DEF CancelInv
  <2>3. CASE \E s \in Ids : queue' = Append(queue, [op |-> "finalized", id |-> s])
    BY <1>1, <1>2, <2>3, AskPost DEF CancelInv
  <2>. QED BY <2>1, <2>2, <2>3 DEF HandleFlags, HandleUpdateMetadata, HandleStatus, HandleDeleteFinalized,
         Handles, Finalize
<1>. QED BY <1>1, <1>2, <1>3, NoneFollows

-----------------------------------------------------------------------------
(* A thread and its worker.                                                *)

\* What a thread that served a command is, field by field.
LEMMA GoesFields ==
  ASSUME Shapes, NEW t, NEW op, Takes(t, op), NEW th \in ThreadState(Len(calls)),
         th.inbox = threads[t].inbox, NEW pc1 \in {"loop", "exit"}, Goes(t, th, pc1)
  PROVE  \E new \in ThreadState(Len(calls)) :
           /\ threads' = [threads EXCEPT ![t] = new] /\ new.owner = th.owner /\ new.pc = pc1
           /\ new.inbox = Tail(threads[t].inbox) /\ new.run = th.run /\ new.stream = th.stream
           /\ new.caller = th.caller /\ (new.cancel <=> th.cancel) /\ (new.stop <=> th.stop)
<1>. DEFINE new == [th EXCEPT !.inbox = Tail(@), !.pc = pc1]
<1>1. Tail(th.inbox) \in Seq(Mail(Len(calls)))
  BY TakesMail, HeadTailProperties
<1>2. /\ new \in ThreadState(Len(calls)) /\ new.owner = th.owner /\ new.pc = pc1
      /\ new.inbox = Tail(threads[t].inbox) /\ new.run = th.run /\ new.stream = th.stream
      /\ new.caller = th.caller /\ (new.cancel <=> th.cancel) /\ (new.stop <=> th.stop)
  BY <1>1 DEF ThreadState
<1>3. threads' = [threads EXCEPT ![t] = new]
  BY DEF Goes
<1>. HIDE DEF new
<1>. QED BY <1>2, <1>3

\* A thread serves a command that neither starts, cancels nor ends a run.
LEMMA PlainServed ==
  ASSUME Shapes, Shapes', CancelInv, AskPart', SameCalls, UNCHANGED <<active, children, hit>>,
         NEW t, NEW op, Takes(t, op), op \notin {"cancel", "shutdown"},
         NEW th \in ThreadState(Len(calls)), th.inbox = threads[t].inbox, th.owner = threads[t].owner,
         th.run = threads[t].run, th.stream = threads[t].stream, th.caller = threads[t].caller,
         th.cancel <=> threads[t].cancel, th.stop <=> threads[t].stop,
         NEW pc1 \in {"loop", "exit"}, pc1 = "exit" => th.run = "idle", Goes(t, th, pc1)
  PROVE  CancelInv'
<1>1. /\ t \in 1..Len(threads) /\ threads[t] \in ThreadState(Len(calls)) /\ Len(calls) \in Nat
      /\ threads[t].pc = "loop" /\ threads[t].inbox # <<>>
  BY TakesMail
<1>2. PICK new \in ThreadState(Len(calls)) :
        /\ threads' = [threads EXCEPT ![t] = new] /\ new.owner = th.owner /\ new.pc = pc1
        /\ new.inbox = Tail(threads[t].inbox) /\ new.run = th.run /\ new.stream = th.stream
        /\ new.caller = th.caller /\ (new.cancel <=> th.cancel) /\ (new.stop <=> th.stop)
  BY GoesFields
<1>3. Sound(threads[t]) /\ Head(threads[t].inbox).op = op
  BY <1>1 DEF CancelInv, SoundPart, Takes, Next1
<1>4. Served(threads[t], new)
  BY <1>1, <1>2 DEF Served
<1>5. Follow(threads[t], new)
  BY <1>1, <1>2, <1>3, <1>4, PlainFollows
<1>. QED BY <1>1, <1>2, <1>5, OneFollows

\* Attach, detach and edits; the refusal of a run; the worker's status.
LEMMA PlainCommandsCancel ==
  ASSUME Shapes, Shapes', CancelInv, NEW t,
         \/ AttachCommand(t) \/ DetachCommand(t) \/ EditCommand(t) \/ StatusCommand(t)
         \/ Takes(t, "run") /\ Becomes(t, threads[t], FALSE)
            /\ UNCHANGED <<index, queue, calls, finals, conn, disk, created, hit, counts>>
  PROVE  CancelInv'
<1>1. UNCHANGED <<active, children, calls, hit>>
  BY DEF AttachCommand, DetachCommand, EditCommand, StatusCommand, index
<1>2. SameCalls
  BY <1>1 DEF SameCalls
<1>3. AskPart'
  <2>1. CASE queue' = queue
    BY <1>2, <2>1, AskSame DEF CancelInv
  <2>2. CASE \E op \in {"update", "status"} : queue' = Append(queue, Post(t, op))
    BY <1>2, <2>2, AskPost DEF CancelInv, Post
  <2>. QED BY <2>1, <2>2 DEF AttachCommand, DetachCommand, EditCommand, StatusCommand
<1>4. ASSUME NEW op \in {"attach", "detach", "edit", "status", "run"}, Takes(t, op),
             NEW th \in ThreadState(Len(calls)), th.inbox = threads[t].inbox, th.owner = threads[t].owner,
             th.run = threads[t].run, th.stream = threads[t].stream, th.caller = threads[t].caller,
             th.cancel <=> threads[t].cancel, th.stop <=> threads[t].stop,
             NEW pc1 \in {"loop", "exit"}, pc1 = "exit" => th.run = "idle", Goes(t, th, pc1)
      PROVE  CancelInv'
  <2>1. op \notin {"cancel", "shutdown"}
    OBVIOUS
  <2>. QED BY <1>1, <1>2, <1>3, <1>4, <2>1, PlainServed
<1>5. ASSUME NEW op \in {"attach", "detach", "edit", "status", "run"}, Takes(t, op), Goes(t, threads[t], "loop")
      PROVE  CancelInv'
  <2>1. threads[t] \in ThreadState(Len(calls))
    BY <1>5, TakesMail
  <2>. QED BY <1>4, <1>5, <2>1
<1>6. CASE AttachCommand(t)
  <2>. DEFINE th == [threads[t] EXCEPT !.subs = @ \cup {Next1(t).who}]
  <2>1. Takes(t, "attach") /\ Goes(t, th, "loop")
    BY <1>6 DEF AttachCommand, Becomes, Goes
  <2>2. threads[t] \in ThreadState(Len(calls)) /\ Next1(t) \in Mail(Len(calls)) /\ Len(calls) \in Nat
    BY <2>1, TakesMail
  <2>3. Next1(t).who \in Clients
    BY <2>1, <2>2, MailFields DEF Takes
  <2>4. /\ th \in ThreadState(Len(calls)) /\ th.inbox = threads[t].inbox /\ th.owner = threads[t].owner
        /\ th.run = threads[t].run /\ th.stream = threads[t].stream /\ th.caller = threads[t].caller
        /\ (th.cancel <=> threads[t].cancel) /\ (th.stop <=> threads[t].stop)
    BY <2>2, <2>3 DEF ThreadState
  <2>. HIDE DEF th
  <2>. QED BY <1>4, <2>1, <2>4
<1>7. CASE DetachCommand(t)
  <2>. DEFINE th == [threads[t] EXCEPT !.subs = @ \ {Next1(t).who}]
              pc1 == Way(Idle(th))
  <2>1. Takes(t, "detach") /\ Goes(t, th, pc1) /\ pc1 \in {"loop", "exit"}
    BY <1>7 DEF DetachCommand, Becomes, Goes, Way
  <2>2. threads[t] \in ThreadState(Len(calls))
    BY <2>1, TakesMail
  <2>3. /\ th \in ThreadState(Len(calls)) /\ th.inbox = threads[t].inbox /\ th.owner = threads[t].owner
        /\ th.run = threads[t].run /\ th.stream = threads[t].stream /\ th.caller = threads[t].caller
        /\ (th.cancel <=> threads[t].cancel) /\ (th.stop <=> threads[t].stop)
    BY <2>2 DEF ThreadState
  <2>4. pc1 = "exit" => th.run = "idle"
    BY DEF Way, Idle
  <2>. HIDE DEF th, pc1
  <2>. QED BY <1>4, <2>1, <2>3, <2>4
<1>8. CASE EditCommand(t)
  BY <1>5, <1>8 DEF EditCommand, Becomes, Goes
<1>9. CASE StatusCommand(t)
  BY <1>5, <1>9 DEF StatusCommand, Becomes, Goes
<1>10. CASE Takes(t, "run") /\ Becomes(t, threads[t], FALSE)
  BY <1>5, <1>10 DEF Becomes, Goes
<1>. QED BY <1>6, <1>7, <1>8, <1>9, <1>10

\* A run begins, for a client or for a call.
LEMMA BeginCancel ==
  ASSUME Shapes, Shapes', CancelInv, NEW t, NEW op \in {"run", "child"}, Takes(t, op),
         NEW k \in 0..Len(calls), k = 0 \/ (op = "child" /\ k = Next1(t).call),
         Accepts(t), Becomes(t, Started(t, k), FALSE), UNCHANGED <<queue, active, children, calls, hit>>
  PROVE  CancelInv'
<1>1. /\ t \in 1..Len(threads) /\ threads[t] \in ThreadState(Len(calls)) /\ Len(calls) \in Nat
      /\ threads[t].pc = "loop" /\ threads[t].inbox # <<>>
  BY TakesMail
<1>2. SameCalls /\ AskPart'
  <2>1. SameCalls
    BY DEF SameCalls
  <2>. QED BY <2>1, AskSame DEF CancelInv
<1>. DEFINE th == Started(t, k)
<1>3. /\ th \in ThreadState(Len(calls)) /\ th.inbox = threads[t].inbox /\ th.owner = threads[t].owner
      /\ th.run = "begun" /\ th.caller = k /\ ~th.cancel /\ (th.stop <=> threads[t].stop)
  <2>1. th \in ThreadState(Len(calls)) /\ th.inbox = threads[t].inbox /\ th.owner = threads[t].owner
    BY <1>1, StartedForm
  <2>2. th.run = "begun" /\ th.caller = k /\ ~th.cancel /\ (th.stop <=> threads[t].stop)
    BY <1>1 DEF Started, ThreadState
  <2>. QED BY <2>1, <2>2
<1>4. Goes(t, th, "loop")
  BY DEF Becomes, Goes
<1>. HIDE DEF th
<1>5. PICK new \in ThreadState(Len(calls)) :
        /\ threads' = [threads EXCEPT ![t] = new] /\ new.owner = th.owner /\ new.pc = "loop"
        /\ new.inbox = Tail(threads[t].inbox) /\ new.run = th.run /\ new.stream = th.stream
        /\ new.caller = th.caller /\ (new.cancel <=> th.cancel) /\ (new.stop <=> th.stop)
  BY <1>3, <1>4, GoesFields
<1>6. /\ Sound(threads[t]) /\ Head(threads[t].inbox).op = op /\ threads[t].run = "idle" /\ ~threads[t].stop
      /\ Next1(t) = Head(threads[t].inbox)
  BY <1>1 DEF CancelInv, SoundPart, Takes, Next1, Accepts
<1>7. Served(threads[t], new)
  BY <1>1, <1>3, <1>5 DEF Served
<1>8. Follow(threads[t], new)
  BY <1>1, <1>3, <1>5, <1>6, <1>7, BeginFollows
<1>. QED BY <1>1, <1>2, <1>5, <1>8, OneFollows

\* RunInput.
LEMMA RunInputCancel ==
  ASSUME Shapes, Shapes', CancelInv, NEW t, RunInput(t)
  PROVE  CancelInv'
<1>1. /\ Takes(t, "run") /\ UNCHANGED <<index, queue, calls, finals, conn, disk, created, hit, counts>>
      /\ UNCHANGED <<queue, active, children, calls, hit>> /\ 0 \in 0..Len(calls)
  BY Counts DEF RunInput, index
<1>2. CASE Accepts(t) /\ Becomes(t, Started(t, 0), FALSE)
  BY <1>1, <1>2, BeginCancel
<1>3. CASE Becomes(t, threads[t], FALSE)
  BY <1>1, <1>3, PlainCommandsCancel
<1>. QED BY <1>2, <1>3 DEF RunInput

\* RunChildInput: a refused call has its answer.
LEMMA RunChildCancel ==
  ASSUME Shapes, Shapes', CancelInv, NEW t, RunChildInput(t)
  PROVE  CancelInv'
<1>. DEFINE k == Next1(t).call
<1>1. Takes(t, "child") /\ UNCHANGED <<queue, active, children, hit>>
  BY DEF RunChildInput, index
<1>2. /\ threads[t] \in ThreadState(Len(calls)) /\ Len(calls) \in Nat /\ k \in 1..Len(calls)
  <2>1. threads[t] \in ThreadState(Len(calls)) /\ Len(calls) \in Nat /\ Next1(t) \in Mail(Len(calls))
        /\ Next1(t).op = "child"
    BY <1>1, TakesMail DEF Takes
  <2>. QED BY <2>1, MailFields
<1>3. CASE Accepts(t) /\ Becomes(t, Started(t, k), FALSE) /\ UNCHANGED calls
  <2>1. k \in 0..Len(calls)
    BY <1>2
  <2>. QED BY <1>1, <1>3, <2>1, BeginCancel
<1>4. CASE Becomes(t, threads[t], FALSE) /\ calls' = [calls EXCEPT ![k].pc = "done"]
  <2>1. SameCalls
    <3>1. calls' \in [1..Len(calls) -> CallState(Len(threads))]
      BY <1>2, <1>4, Counts DEF CallState
    <3>2. \A j \in 1..Len(calls) : calls'[j].child = calls[j].child /\ calls'[j].by = calls[j].by
      BY <1>2, <1>4, Counts DEF CallState
    <3>. QED BY <3>1, <3>2, CallsKept
  <2>2. AskPart'
    BY <1>1, <2>1, AskSame DEF CancelInv
  <2>3. Goes(t, threads[t], "loop")
    BY <1>4 DEF Becomes, Goes
  <2>4. UNCHANGED <<active, children, hit>>
    BY <1>1
  <2>. QED BY <1>1, <1>2, <2>1, <2>2, <2>3, <2>4, PlainServed
<1>. QED BY <1>3, <1>4 DEF RunChildInput

\* CancelRequest and ShutdownSession reach the thread.
LEMMA StopCommandsCancel ==
  ASSUME Shapes, Shapes', CancelInv, NEW t, CancelCommand(t) \/ ShutdownCommand(t)
  PROVE  CancelInv'
<1>1. UNCHANGED <<queue, active, children, calls, hit>>
  BY DEF CancelCommand, ShutdownCommand, index
<1>2. SameCalls /\ AskPart'
  <2>1. SameCalls
    BY <1>1 DEF SameCalls
  <2>. QED BY <2>1, <1>1, AskSame DEF CancelInv
<1>3. ASSUME NEW op \in {"cancel", "shutdown"}, Takes(t, op), NEW th \in ThreadState(Len(calls)),
             th.inbox = threads[t].inbox, th.owner = threads[t].owner, th.run = threads[t].run,
             th.stream = threads[t].stream, th.caller = threads[t].caller,
             LET m == Next1(t) IN
             \/ /\ m.op = "cancel" /\ (th.stop <=> threads[t].stop)
                /\ th.cancel <=> (threads[t].cancel \/ (threads[t].run # "idle" /\ m.stream \in {0, threads[t].stream}))
             \/ /\ m.op = "shutdown" /\ th.stop
                /\ th.cancel <=> (threads[t].cancel \/ threads[t].run # "idle"),
             NEW pc1 \in {"loop", "exit"}, pc1 = "exit" => th.run = "idle", Goes(t, th, pc1)
      PROVE  CancelInv'
  <2>1. /\ t \in 1..Len(threads) /\ threads[t] \in ThreadState(Len(calls)) /\ Len(calls) \in Nat
        /\ threads[t].pc = "loop" /\ threads[t].inbox # <<>> /\ Sound(threads[t])
    BY <1>3, TakesMail DEF CancelInv, SoundPart
  <2>2. PICK new \in ThreadState(Len(calls)) :
          /\ threads' = [threads EXCEPT ![t] = new] /\ new.owner = th.owner /\ new.pc = pc1
          /\ new.inbox = Tail(threads[t].inbox) /\ new.run = th.run /\ new.stream = th.stream
          /\ new.caller = th.caller /\ (new.cancel <=> th.cancel) /\ (new.stop <=> th.stop)
    BY <1>3, GoesFields
  <2>3. Served(threads[t], new)
    BY <1>3, <2>1, <2>2 DEF Served
  <2>. DEFINE m == Head(threads[t].inbox)
              a == threads[t]
  <2>4. LET x == Head(a.inbox) IN
        \/ /\ x.op = "cancel" /\ (new.stop <=> a.stop)
           /\ new.cancel <=> (a.cancel \/ (a.run # "idle" /\ x.stream \in {0, a.stream}))
        \/ /\ x.op = "shutdown" /\ new.stop
           /\ new.cancel <=> (a.cancel \/ a.run # "idle")
    BY <1>3, <2>2 DEF Next1
  <2>5. Follow(a, new)
    <3>1. /\ a \in ThreadState(Len(calls)) /\ Sound(a) /\ Served(a, new) /\ new.run = a.run
          /\ new.stream = a.stream /\ new.caller = a.caller
      BY <1>3, <2>1, <2>2, <2>3
    <3>. HIDE DEF a
    <3>. QED BY <3>1, <2>1, <2>4, CancelFollows
  <2>. QED BY <1>1, <1>2, <2>1, <2>2, <2>5, OneFollows
<1>4. CASE CancelCommand(t)
  <2>. DEFINE aims == threads[t].run # "idle" /\ Next1(t).stream \in {0, threads[t].stream}
              th == [threads[t] EXCEPT !.cancel = @ \/ aims]
  <2>1. Takes(t, "cancel") /\ Goes(t, th, "loop")
    BY <1>4 DEF CancelCommand, Becomes, Goes
  <2>2. threads[t] \in ThreadState(Len(calls)) /\ Next1(t).op = "cancel"
    BY <2>1, TakesMail DEF Takes
  <2>3. /\ th \in ThreadState(Len(calls)) /\ th.inbox = threads[t].inbox /\ th.owner = threads[t].owner
        /\ th.run = threads[t].run /\ th.stream = threads[t].stream /\ th.caller = threads[t].caller
        /\ (th.cancel <=> (threads[t].cancel \/ aims)) /\ (th.stop <=> threads[t].stop)
    BY <2>2 DEF ThreadState
  <2>. HIDE DEF th
  <2>. QED BY <1>3, <2>1, <2>2, <2>3
<1>5. CASE ShutdownCommand(t)
  <2>. DEFINE busy == threads[t].run # "idle"
              th == [threads[t] EXCEPT !.stop = TRUE, !.cancel = @ \/ busy]
              pc1 == Way(~busy)
  <2>1. Takes(t, "shutdown") /\ Goes(t, th, pc1) /\ pc1 \in {"loop", "exit"}
    BY <1>5 DEF ShutdownCommand, Becomes, Goes, Way
  <2>2. threads[t] \in ThreadState(Len(calls)) /\ Next1(t).op = "shutdown"
    BY <2>1, TakesMail DEF Takes
  <2>3. /\ th \in ThreadState(Len(calls)) /\ th.inbox = threads[t].inbox /\ th.owner = threads[t].owner
        /\ th.run = threads[t].run /\ th.stream = threads[t].stream /\ th.caller = threads[t].caller
        /\ (th.cancel <=> (threads[t].cancel \/ busy)) /\ th.stop
    BY <2>2 DEF ThreadState
  <2>4. pc1 = "exit" => th.run = "idle"
    BY <2>3 DEF Way
  <2>. HIDE DEF th, pc1
  <2>. QED BY <1>3, <2>1, <2>2, <2>3, <2>4
<1>. QED BY <1>4, <1>5

\* The end of the run reaches the thread.
LEMMA RequestFinishedCancel ==
  ASSUME Shapes, Shapes', CancelInv, NEW t, RequestFinished(t)
  PROVE  CancelInv'
<1>. DEFINE th == [threads[t] EXCEPT !.run = "idle", !.caller = 0, !.cancel = FALSE]
            pc1 == Way(Idle(th))
            ms == <<Post(t, "update"), Post(t, "status")>>
<1>1. /\ Takes(t, "finished") /\ Goes(t, th, pc1) /\ pc1 \in {"loop", "exit"} /\ queue' = queue \o ms
      /\ UNCHANGED <<active, children, calls, hit>>
  BY DEF RequestFinished, Becomes, Goes, Way, index
<1>2. /\ t \in 1..Len(threads) /\ threads[t] \in ThreadState(Len(calls)) /\ Len(calls) \in Nat
      /\ threads[t].pc = "loop" /\ threads[t].inbox # <<>> /\ Sound(threads[t])
  BY <1>1, TakesMail DEF CancelInv, SoundPart
<1>3. SameCalls /\ AskPart'
  <2>1. SameCalls
    BY <1>1 DEF SameCalls
  <2>2. Post(t, "update") \in Orders(Len(calls)) /\ Post(t, "status") \in Orders(Len(calls))
    BY <1>2, ThreadFields, OrderForms DEF Post
  <2>3. /\ ms \in Seq(Orders(Len(calls))) /\ Len(ms) = 2
        /\ ms[1] = Post(t, "update") /\ ms[2] = Post(t, "status")
    BY <2>2
  <2>4. \A i \in 1..Len(ms) : ms[i].op # "spawn"
    BY <2>3 DEF Post
  <2>5. queue \in Seq(Orders(Len(calls)))
    BY DEF Shapes
  <2>. HIDE DEF ms
  <2>6. AskPart'
    BY <1>1, <1>2, <2>1, <2>3, <2>4, <2>5, AskFrame DEF CancelInv, SameCalls
  <2>. QED BY <2>1, <2>6
<1>4. /\ th \in ThreadState(Len(calls)) /\ th.inbox = threads[t].inbox /\ th.owner = threads[t].owner
      /\ th.run = "idle" /\ th.caller = 0 /\ (th.stop <=> threads[t].stop)
  <2>1. 0 \in 0..Len(calls)
    BY <1>2
  <2>. QED BY <2>1, <1>2 DEF ThreadState
<1>. HIDE DEF th, pc1
<1>5. PICK new \in ThreadState(Len(calls)) :
        /\ threads' = [threads EXCEPT ![t] = new] /\ new.owner = th.owner /\ new.pc = pc1
        /\ new.inbox = Tail(threads[t].inbox) /\ new.run = th.run /\ new.stream = th.stream
        /\ new.caller = th.caller /\ (new.cancel <=> th.cancel) /\ (new.stop <=> th.stop)
  BY <1>1, <1>4, GoesFields
<1>6. Served(threads[t], new) /\ Head(threads[t].inbox).op = "finished"
  BY <1>1, <1>2, <1>4, <1>5 DEF Served, Takes, Next1
<1>7. Follow(threads[t], new)
  BY <1>2, <1>4, <1>5, <1>6, FinishFollows
<1>. QED BY <1>1, <1>2, <1>3, <1>5, <1>7, OneFollows

\* The thread begins, and the thread exits.
LEMMA StartExitCancel ==
  ASSUME Shapes, Shapes', CancelInv, NEW t, ThreadStart(t) \/ PersistAndExit(t)
  PROVE  CancelInv'
<1>1. UNCHANGED <<active, children, calls, hit>>
  BY DEF ThreadStart, PersistAndExit, index
<1>2. SameCalls
  BY <1>1 DEF SameCalls
<1>3. AskPart'
  <2>1. PICK op \in {"update", "exited"} : queue' = Append(queue, Post(t, op))
    BY DEF ThreadStart, PersistAndExit
  <2>2. Post(t, op).op # "spawn"
    BY <2>1 DEF Post
  <2>. QED BY <1>2, <2>1, <2>2, AskPost DEF CancelInv
<1>4. PICK pc1 \in {"loop", "sent"} :
        /\ t \in 1..Len(threads) /\ threads' = [threads EXCEPT ![t].pc = pc1]
        /\ threads[t].pc = (IF pc1 = "loop" THEN "start" ELSE "exit")
  BY Counts DEF ThreadStart, PersistAndExit, In
<1>. DEFINE a == threads[t]
            th == [a EXCEPT !.pc = pc1]
<1>5. a \in ThreadState(Len(calls)) /\ Sound(a) /\ a.pc = (IF pc1 = "loop" THEN "start" ELSE "exit")
  BY <1>4, Counts DEF CancelInv, SoundPart
<1>6. threads' = [threads EXCEPT ![t] = th]
  BY <1>4
<1>. HIDE DEF a
<1>7. /\ th \in ThreadState(Len(calls)) /\ th.owner = a.owner /\ th.pc = pc1 /\ th.inbox = a.inbox
      /\ th.run = a.run /\ th.stream = a.stream /\ th.caller = a.caller
      /\ (th.cancel <=> a.cancel) /\ (th.stop <=> a.stop)
  BY <1>5 DEF ThreadState
<1>. HIDE DEF th
<1>8. a.run = "idle"
  BY <1>5 DEF Sound
<1>9. Sound(th)
  BY <1>5, <1>7, <1>8 DEF Sound
<1>10. Follow(a, th)
  <2>1. Steady(a, th)
    BY <1>5, <1>7, <1>9 DEF Steady, Settled
  <2>2. Bound(a, th)
    BY <1>8 DEF Bound, Engaged
  <2>3. Fewer(a, th)
    BY <1>7 DEF Fewer, Asked
  <2>. QED BY <2>1, <2>2, <2>3 DEF Follow
<1>. QED BY <1>1, <1>2, <1>3, <1>4, <1>6, <1>7, <1>10, OneFollows DEF a

\* The thread is gone.
LEMMA ThreadGoneCancel ==
  ASSUME Shapes, Shapes', CancelInv, NEW t, ThreadGone(t)
  PROVE  CancelInv'
<1>. DEFINE a == threads[t]
            th == [Fresh(a.owner) EXCEPT !.pc = "gone"]
<1>1. /\ t \in 1..Len(threads) /\ a \in ThreadState(Len(calls)) /\ Sound(a) /\ a.pc = "sent"
      /\ threads' = [threads EXCEPT ![t] = th] /\ UNCHANGED <<queue, active, children, hit>> /\ Len(calls) \in Nat
  BY Counts DEF ThreadGone, In, CancelInv, SoundPart, index
<1>2. SameCalls
  <2>1. calls' \in [1..Len(calls) -> CallState(Len(threads))]
    BY Counts DEF ThreadGone, CallState
  <2>2. \A k \in 1..Len(calls) : calls'[k].child = calls[k].child /\ calls'[k].by = calls[k].by
    BY Counts DEF ThreadGone, CallState
  <2>. QED BY <2>1, <2>2, CallsKept
<1>3. AskPart'
  BY <1>1, <1>2, AskSame DEF CancelInv
<1>. HIDE DEF a
<1>4. /\ th \in ThreadState(Len(calls)) /\ th.owner = a.owner /\ th.pc = "gone" /\ th.inbox = <<>>
      /\ th.run = "idle" /\ th.caller = 0
  <2>1. 0 \in 0..Len(calls) /\ <<>> \in Seq(Mail(Len(calls))) /\ a.owner \in Ids
    BY <1>1, ThreadFields
  <2>. QED BY <2>1 DEF ThreadState, Fresh
<1>. HIDE DEF th
<1>5. Elems(<<>>) = {} /\ Ends(<<>>) = {} /\ a.run = "idle"
  BY <1>1 DEF Elems, Ends, Sound
<1>6. Follow(a, th)
  <2>1. Steady(a, th)
    BY <1>4, <1>5 DEF Steady, Settled, Sound
  <2>2. Bound(a, th)
    BY <1>5 DEF Bound, Engaged
  <2>3. Fewer(a, th)
    BY <1>4, <1>5 DEF Fewer, Asked
  <2>. QED BY <2>1, <2>2, <2>3 DEF Follow
<1>. QED BY <1>1, <1>2, <1>3, <1>4, <1>6, OneFollows DEF a

\* Every step of a thread.
LEMMA ThreadStepCancel ==
  ASSUME Shapes, Shapes', CancelInv, NEW t, ThreadStep(t)
  PROVE  CancelInv'
  BY StartExitCancel, RunInputCancel, RunChildCancel, StopCommandsCancel, PlainCommandsCancel,
     RequestFinishedCancel, ThreadGoneCancel DEF ThreadStep

\* The worker reports that it works.
LEMMA WorkerReportsCancel ==
  ASSUME Shapes, Shapes', CancelInv, NEW t, WorkerReports(t)
  PROVE  CancelInv'
<1>. DEFINE a == threads[t]
            m == [op |-> "status"]
            th == [a EXCEPT !.run = "work", !.inbox = Append(@, m)]
<1>1. /\ t \in 1..Len(threads) /\ a \in ThreadState(Len(calls)) /\ Sound(a) /\ a.run = "begun"
      /\ UNCHANGED <<queue, active, children, calls, hit>> /\ Len(calls) \in Nat
  BY Counts DEF WorkerReports, CancelInv, SoundPart, index
<1>2. threads' = [threads EXCEPT ![t] = th]
  BY <1>1, Counts DEF WorkerReports
<1>3. SameCalls /\ AskPart'
  <2>1. SameCalls
    BY <1>1 DEF SameCalls
  <2>. QED BY <2>1, <1>1, AskSame DEF CancelInv
<1>4. m \in Mail(Len(calls)) /\ m.op = "status" /\ a.inbox \in Seq(Mail(Len(calls)))
  BY <1>1, MailForms, ThreadFields
<1>. HIDE DEF a, m
<1>5. Append(a.inbox, m) \in Seq(Mail(Len(calls)))
  BY <1>4
<1>6. /\ th \in ThreadState(Len(calls)) /\ th.owner = a.owner /\ th.pc = a.pc /\ th.inbox = Append(a.inbox, m)
      /\ th.run = "work" /\ th.stream = a.stream /\ th.caller = a.caller
      /\ (th.cancel <=> a.cancel) /\ (th.stop <=> a.stop)
  BY <1>1, <1>5 DEF ThreadState
<1>. HIDE DEF th
<1>7. Elems(th.inbox) = Elems(a.inbox) \cup {m} /\ Ends(th.inbox) = Ends(a.inbox) /\ Ends(a.inbox) = {}
  <2>1. Ends(a.inbox) = {}
    BY <1>1 DEF Sound
  <2>. QED BY <2>1, <1>4, <1>6, BoxAppend
<1>8. Follow(a, th)
  <2>1. Steady(a, th)
    BY <1>1, <1>6, <1>7 DEF Steady, Settled, Sound
  <2>2. Bound(a, th)
    BY <1>6, <1>7 DEF Bound, Engaged, Struck
  <2>3. Fewer(a, th)
    BY <1>4, <1>6, <1>7 DEF Fewer, Asked
  <2>. QED BY <2>1, <2>2, <2>3 DEF Follow
<1>. QED BY <1>1, <1>2, <1>3, <1>6, <1>8, OneFollows DEF a

\* The worker is done, or gives up: its run is no longer to be stopped.
LEMMA WorkerEndsCancel ==
  ASSUME Shapes, Shapes', CancelInv, NEW t, WorkerEnds(t)
  PROVE  CancelInv'
<1>. DEFINE a == threads[t]
            m == [op |-> "finished"]
            th == [a EXCEPT !.run = "ended", !.inbox = Append(@, m)]
<1>1. /\ t \in 1..Len(threads) /\ a \in ThreadState(Len(calls)) /\ Sound(a) /\ a.run = "work"
      /\ UNCHANGED <<queue, active, children>> /\ Len(calls) \in Nat
      /\ hit' = hit \ {<<t, a.stream>>}
  BY Counts DEF WorkerEnds, CancelInv, SoundPart, index
<1>2. threads' = [threads EXCEPT ![t] = th]
  BY <1>1, Counts DEF WorkerEnds
<1>3. SameCalls
  <2>1. calls' \in [1..Len(calls) -> CallState(Len(threads))]
    BY Counts DEF WorkerEnds, CallState
  <2>2. \A k \in 1..Len(calls) : calls'[k].child = calls[k].child /\ calls'[k].by = calls[k].by
    BY Counts DEF WorkerEnds, CallState
  <2>. QED BY <2>1, <2>2, CallsKept
<1>4. AskPart'
  BY <1>1, <1>3, AskSame DEF CancelInv
<1>5. m \in Mail(Len(calls)) /\ m.op = "finished" /\ a.inbox \in Seq(Mail(Len(calls)))
  BY <1>1, MailForms, ThreadFields
<1>. HIDE DEF a, m
<1>6. Append(a.inbox, m) \in Seq(Mail(Len(calls)))
  BY <1>5
<1>7. /\ th \in ThreadState(Len(calls)) /\ th.owner = a.owner /\ th.pc = a.pc /\ th.inbox = Append(a.inbox, m)
      /\ th.run = "ended" /\ th.stream = a.stream /\ th.caller = a.caller
      /\ (th.cancel <=> a.cancel) /\ (th.stop <=> a.stop)
  BY <1>1, <1>6 DEF ThreadState
<1>. HIDE DEF th
<1>8. Elems(th.inbox) = Elems(a.inbox) \cup {m} /\ \A i, j \in Ends(th.inbox) : i = j
  <2>1. Ends(a.inbox) = {}
    BY <1>1 DEF Sound
  <2>. QED BY <2>1, <1>5, <1>7, BoxAppend
<1>9. Sound(th)
  BY <1>1, <1>7, <1>8 DEF Sound
<1>10. Steady(a, th) /\ Fewer(a, th)
  <2>1. Steady(a, th)
    BY <1>7, <1>8, <1>9 DEF Steady, Settled
  <2>2. Fewer(a, th)
    BY <1>5, <1>7, <1>8 DEF Fewer, Asked
  <2>. QED BY <2>1, <2>2
<1>11. /\ Len(threads') = Len(threads)
       /\ \A u \in 1..Len(threads) : threads'[u] = IF u = t THEN th ELSE threads[u]
  BY <1>1, <1>2, <1>7, ThreadBecomes
<1>12. \A u \in 1..Len(threads) : u # t => Follow(threads[u], threads'[u])
  BY <1>11, FollowSelf DEF CancelInv, SoundPart
<1>13. \A u \in 1..Len(threads) : Steady(threads[u], threads'[u])
  BY <1>10, <1>11, <1>12 DEF Follow, a
<1>14. \A u \in 1..Len(threads) : <<u, threads[u].stream>> \in hit' => Bound(threads[u], threads'[u])
  <2>1. <<t, threads[t].stream>> \notin hit'
    BY <1>1 DEF a
  <2>. QED BY <2>1, <1>12 DEF Follow
<1>15. \A u \in 1..Len(threads) : \A k \in 1..Len(calls) : Asked(threads'[u], k) => Asked(threads[u], k)
  BY <1>10, <1>11, <1>12 DEF Follow, Fewer, a
<1>. QED BY <1>1, <1>3, <1>4, <1>11, <1>13, <1>14, <1>15, AllFollow

\* A thread answers calls of the list only.
LEMMA AskedIsKnown ==
  ASSUME Shapes, NEW t \in 1..Len(threads), NEW k, Asked(threads[t], k)
  PROVE  k \in 1..Len(calls)
<1>1. /\ Len(calls) \in Nat /\ threads[t].caller \in 0..Len(calls)
      /\ threads[t].inbox \in Seq(Mail(Len(calls)))
  BY Counts, ThreadFields
<1>2. \A m \in Elems(threads[t].inbox) : m \in Mail(Len(calls))
  BY <1>1 DEF Elems
<1>3. \A m \in Elems(threads[t].inbox) : m.op = "child" => m.call \in 1..Len(calls)
  BY <1>1, <1>2, MailFields
<1>. QED BY <1>1, <1>3 DEF Asked

\* A spawn_subsession call begins: it has no child yet.
LEMMA WorkerSpawnsCancel ==
  ASSUME Shapes, Shapes', CancelInv, NEW t, WorkerSpawns(t)
  PROVE  CancelInv'
<1>. DEFINE k == Len(calls) + 1
            call == [by |-> t, pc |-> "asked", child |-> 0, void |-> FALSE]
            m == [op |-> "spawn", call |-> k]
            S == Orders(k)
<1>1. /\ t \in 1..Len(threads) /\ Len(calls) \in Nat /\ Len(threads) \in Nat
      /\ calls' = Append(calls, call) /\ queue' = Append(queue, m)
      /\ UNCHANGED <<threads, active, children, hit>>
  BY Counts DEF WorkerSpawns, index
<1>2. call \in CallState(Len(threads)) /\ call.child = 0 /\ m.op = "spawn" /\ m.call = k
  BY <1>1 DEF CallState
<1>. HIDE DEF call, m
<1>3. /\ Len(calls') = k /\ calls'[k] = call /\ \A j \in 1..Len(calls) : calls'[j] = calls[j]
  BY <1>1, <1>2 DEF Shapes
<1>4. 1..k = 1..Len(calls) \cup {k} /\ k \notin 1..Len(calls)
  BY <1>1
<1>. HIDE DEF k
<1>5. AskPart'
  <2>. DEFINE Z == Orders(Len(calls)) \cup {m}
  <2>1. queue \in Seq(Z)
    <3>1. Orders(Len(calls)) \subseteq Z
      OBVIOUS
    <3>. QED BY <3>1, SeqMonotonic DEF Shapes
  <2>2. m \in Z
    OBVIOUS
  <2>. HIDE DEF Z
  <2>3. /\ Len(queue) \in Nat /\ Len(queue') = Len(queue) + 1 /\ queue'[Len(queue) + 1] = m
        /\ \A i \in 1..Len(queue) : queue'[i] = queue[i]
    BY <1>1, <2>1, <2>2
  <2>. DEFINE l == Len(queue) + 1
  <2>4. 1..Len(queue') = 1..Len(queue) \cup {l} /\ l \notin 1..Len(queue)
    BY <2>3
  <2>. HIDE DEF l
  <2>5. /\ At("spawn")' = At("spawn") \cup {l} /\ (\A i \in At("spawn") : queue'[i] = queue[i])
        /\ queue'[l] = m
    BY <1>2, <2>3, <2>4 DEF At, l
  <2>6. \A i \in At("spawn") : queue[i].call \in 1..Len(calls)
    BY Counts, OrderFields DEF At
  <2>7. \A i \in At("spawn")' : calls'[queue'[i].call].child = 0
    BY <1>2, <1>3, <2>5, <2>6, SMTT(30) DEF CancelInv, AskPart
  <2>8. \A i, j \in At("spawn")' : queue'[i].call = queue'[j].call => i = j
    BY <1>2, <1>4, <2>5, <2>6 DEF CancelInv, AskPart
  <2>. QED BY <2>7, <2>8 DEF AskPart
<1>6. \A u \in 1..Len(threads) : Follow(threads[u], threads'[u])
  BY <1>1, FollowSelf DEF CancelInv, SoundPart
<1>7. \A u \in 1..Len(threads) : Steady(threads[u], threads'[u]) /\ Bound(threads[u], threads'[u])
  BY <1>6 DEF Follow
<1>8. \A u \in 1..Len(threads) : \A j \in 1..Len(calls') : Asked(threads'[u], j) =>
        j \in 1..Len(calls) /\ Asked(threads[u], j)
  BY <1>1, AskedIsKnown
<1>9. \A u, v \in 1..Len(threads) : Tracked(u, v) => Tracked(u, v)'
  BY <1>1 DEF Tracked, Own
<1>10. \A j \in 1..Len(calls') : calls'[j].child # 0 => j \in 1..Len(calls) /\ calls'[j].child = calls[j].child
  BY <1>2, <1>3, <1>4
<1>11. \A j \in 1..Len(calls) : j \in 1..Len(calls') /\ calls'[j] = calls[j]
  BY <1>3, <1>4
<1>12. SoundPart' /\ CallerPart' /\ TrackPart' /\ HitPart'
  <2>1. Len(threads) =< Len(threads') /\ SoundPart /\ CallerPart /\ TrackPart /\ HitPart
    BY <1>1 DEF CancelInv
  <2>. QED BY <1>1, <1>7, <1>8, <1>9, <1>10, <1>11, <2>1, CancelFrame
<1>. QED BY <1>5, <1>12 DEF CancelInv

\* A call hands its prompt to its child.
LEMMA CallRunsCancel ==
  ASSUME Shapes, Shapes', CancelInv, NEW k, CallRuns(k)
  PROVE  CancelInv'
<1>. DEFINE t == calls[k].child
            m == [op |-> "child", call |-> k]
<1>1. /\ k \in 1..Len(calls) /\ Len(calls) \in Nat /\ UNCHANGED <<queue, active, children, hit>>
      /\ calls[k] \in CallState(Len(threads))
  BY Counts DEF CallRuns, index
<1>2. SameCalls
  <2>1. PICK p \in {"wait", "done"} : calls' = [calls EXCEPT ![k].pc = p]
    BY DEF CallRuns
  <2>2. calls' \in [1..Len(calls) -> CallState(Len(threads))]
    BY <1>1, <2>1, Counts DEF CallState
  <2>3. \A j \in 1..Len(calls) : calls'[j].child = calls[j].child /\ calls'[j].by = calls[j].by
    BY <1>1, <2>1, Counts DEF CallState
  <2>. QED BY <2>2, <2>3, CallsKept
<1>3. AskPart'
  BY <1>1, <1>2, AskSame DEF CancelInv
<1>4. CASE threads' = threads
  BY <1>1, <1>2, <1>3, <1>4, NoneFollows
<1>5. CASE threads' = Mail1(t, m)
  <2>1. m \in Mail(Len(calls)) /\ m.op = "child" /\ m.call = k
    BY <1>1, MailForms
  <2>. HIDE DEF m
  <2>2. PICK mail \in [1..Len(threads) -> Seq(Mail(Len(calls)))] :
          mail = [u \in 1..Len(threads) |-> IF u = t THEN <<m>> ELSE <<>>] /\ threads' = Mailed(mail)
    BY <1>5, <2>1, OneMail
  <2>3. Elems(<<m>>) = {m} /\ Elems(<<>>) = {}
    BY ElemsOf
  <2>4. \A u \in 1..Len(threads) : \A x \in Elems(mail[u]) : x = m /\ u = t
    BY <2>2, <2>3
  <2>5. \A u \in 1..Len(threads) : \A x \in Elems(mail[u]) :
          x.op # "finished" /\ (x.op = "child" => calls[x.call].child = u)
    BY <2>1, <2>4
  <2>. QED BY <1>1, <1>2, <1>3, <2>2, <2>5, MailingFollows
<1>. QED BY <1>4, <1>5 DEF CallRuns

-----------------------------------------------------------------------------
(* The command loop.                                                       *)

\* CreateSession of a client, AttachSession and GetSessionState.
LEMMA SpawningCancel ==
  ASSUME IndexInv, Shapes', CancelInv, HandleCreate \/ HandleAttach \/ HandleGetState
  PROVE  CancelInv'
<1>1. Shapes /\ UNCHANGED <<calls, hit>>
  BY DEF IndexInv, HandleCreate, Create, HandleAttach, HandleGetState
<1>2. SameCalls
  BY <1>1 DEF SameCalls
<1>3. AskPart'
  BY <1>1, AskTaken DEF CancelInv, HandleCreate, HandleAttach, HandleGetState, Handles
<1>4. CASE UNCHANGED <<threads, active, children>>
  BY <1>1, <1>2, <1>3, <1>4, NoneFollows
<1>5. ASSUME NEW s \in Ids, active[s] = 0, threads' = Append(threads, Fresh(s)),
             active' = [active EXCEPT ![s] = Len(threads) + 1],
             \A q \in Ids : children[q] \subseteq children'[q]
      PROVE  CancelInv'
  <2>1. /\ \A q \in Ids : children[q] \subseteq children'[q]
        /\ \A k \in 1..Len(calls) : calls'[k].child = calls[k].child /\ calls'[k].by = calls[k].by
        /\ Len(calls') = Len(calls) /\ hit' = hit
    BY <1>1, <1>5
  <2>2. SoundPart' /\ CallerPart' /\ TrackPart' /\ HitPart'
    BY <1>5, <2>1, SpawnFollows
  <2>. QED BY <1>3, <2>2 DEF CancelInv
<1>6. CASE HandleCreate
  <2>1. Handles("create") /\ SpawnSession(nextId, FALSE) /\ created' = created + 1
    BY <1>6 DEF HandleCreate, Create
  <2>2. nextId \in Ids /\ active[nextId] = 0
    BY <2>1, NextIsNew
  <2>3. PICK p : children' = IF p = 0 THEN children ELSE [children EXCEPT ![p] = @ \cup {nextId}]
    BY <1>6 DEF HandleCreate, Create
  <2>4. \A q \in Ids : children[q] \subseteq children'[q]
    BY <1>1, <2>3 DEF Shapes
  <2>. QED BY <1>5, <2>1, <2>2, <2>4 DEF SpawnSession
<1>7. CASE HandleAttach \/ HandleGetState
  <2>1. PICK got : Ensure(Head(queue).id, got)
    BY <1>7 DEF HandleAttach, HandleGetState
  <2>2. Head(queue).id \in Ids
    BY <1>7, HandlesOne, OrderFields, SMTT(30) DEF HandleAttach, HandleGetState
  <2>3. children' = children
    BY <1>7 DEF HandleAttach, HandleGetState
  <2>. QED BY <1>4, <1>5, <2>1, <2>2, <2>3, SMTT(30) DEF Ensure, SpawnSession
<1>. QED BY <1>6, <1>7

\* CreateSession for a call: the child is tracked for the caller's session.
LEMMA HandleSpawnCancel ==
  ASSUME IndexInv, Shapes', CancelInv, HandleSpawn
  PROVE  CancelInv'
<1>0. PICK k : k = Head(queue).call
  BY Zenon
<1>. DEFINE t == calls[k].by
            p == threads[t].owner
            s == nextId
            z == Len(threads) + 1
<1>1. /\ Handles("spawn") /\ SpawnSession(s, FALSE) /\ created' = created + 1 /\ hit' = hit
      /\ children' = IF p = 0 THEN children ELSE [children EXCEPT ![p] = @ \cup {s}]
      /\ calls' = [calls EXCEPT ![k].pc = "made", ![k].child = z]
  BY <1>0, ZenonT(40) DEF HandleSpawn, Create
<1>2. /\ Shapes /\ Len(threads) \in Nat /\ Len(calls) \in Nat /\ k \in 1..Len(calls) /\ queue # <<>>
      /\ Head(queue).op = "spawn" /\ queue' = Tail(queue)
  BY <1>0, <1>1, Counts, HandlesOne, OrderFields DEF IndexInv
<1>3. s \in Ids /\ active[s] = 0
  BY <1>1, NextIsNew
<1>4. calls[k] \in CallState(Len(threads)) /\ t \in 1..Len(threads)
  BY <1>2, Counts DEF CallState
<1>5. p \in Ids /\ p # 0 /\ p = Own[t]
  BY <1>2, <1>4, Counts, ThreadFields DEF Own, Ids
<1>6. calls[k].child = 0
  <2>1. 1 \in At("spawn") /\ queue[1] = Head(queue)
    BY <1>2 DEF At, Shapes
  <2>. QED BY <1>0, <2>1 DEF CancelInv, AskPart
<1>7. /\ Len(calls') = Len(calls) /\ calls'[k].child = z /\ calls'[k].by = t
      /\ \A j \in 1..Len(calls) : j # k => calls'[j] = calls[j]
  <2>. DEFINE call == [calls[k] EXCEPT !.pc = "made", !.child = z]
  <2>1. call.child = z /\ call.by = t
    BY <1>4 DEF CallState
  <2>2. calls' = [calls EXCEPT ![k] = call]
    BY <1>1, <1>2, <1>4, ZenonT(40) DEF CallState, Shapes
  <2>. HIDE DEF call
  <2>3. /\ Len(calls') = Len(calls)
        /\ \A j \in 1..Len(calls) : calls'[j] = IF j = k THEN call ELSE calls[j]
    BY <1>2, <2>2 DEF Shapes
  <2>. QED BY <2>1, <2>3, <1>2
<1>8. threads' = Append(threads, Fresh(s)) /\ active' = [active EXCEPT ![s] = z]
  BY <1>1 DEF SpawnSession
<1>9. (\A q \in Ids : children[q] \subseteq children'[q]) /\ s \in children'[p]
  <2>1. children' = [children EXCEPT ![p] = @ \cup {s}]
    BY <1>1, <1>5
  <2>. HIDE DEF p, s
  <2>2. \A q \in Ids : children'[q] = IF q = p THEN children[q] \cup {s} ELSE children[q]
    BY <2>1, <1>2 DEF Shapes
  <2>. QED BY <2>2, <1>5
<1>10. Own'[z] = s /\ Own'[t] = p /\ active'[s] = z
  BY <1>2, <1>3, <1>4, <1>5, <1>8, SpawnedThread DEF Shapes
<1>. HIDE DEF t, p, s
<1>11. AskPart'
  <2>1. \A j \in 1..Len(calls) : calls[j].child = 0 =>
          calls'[j].child = 0 \/ (Head(queue).op = "spawn" /\ j = Head(queue).call)
    BY <1>0, <1>2, <1>7
  <2>. QED BY <1>2, <2>1, AskTaken DEF CancelInv
<1>12. /\ \A j \in 1..Len(calls) : calls[j].child # 0 =>
            calls'[j].child = calls[j].child /\ calls'[j].by = calls[j].by
       /\ \A j \in 1..Len(calls) : calls'[j].child # 0 =>
            calls'[j].child = calls[j].child \/ Tracked(calls[j].child, calls[j].by)'
  <2>1. Tracked(calls[k].child, calls[k].by)'
    BY <1>7, <1>9, <1>10 DEF Tracked
  <2>. QED BY <2>1, <1>6, <1>7
<1>13. SoundPart' /\ CallerPart' /\ TrackPart' /\ HitPart'
  BY <1>1, <1>3, <1>7, <1>8, <1>9, <1>12, SpawnFollows
<1>. QED BY <1>11, <1>13 DEF CancelInv

\* A mailing of ShutdownSession: who is told to stop takes no more runs.
LEMMA ToldToStop ==
  ASSUME Shapes, SoundPart, NEW K,
         NEW mail \in [1..Len(threads) -> Seq(Mail(Len(calls)))],
         mail = [u \in 1..Len(threads) |-> IF u \in K THEN <<CancelAll, Shutdown>> ELSE <<>>],
         threads' = Mailed(mail)
  PROVE  /\ Len(threads') = Len(threads) /\ Own' = Own
         /\ \A u \in 1..Len(threads) : Steady(threads[u], threads'[u]) /\ Bound(threads[u], threads'[u])
         /\ \A u \in 1..Len(threads) : \A k : Asked(threads'[u], k) => Asked(threads[u], k)
         /\ \A u \in 1..Len(threads) : u \in K => Settled(threads'[u])
<1>1. /\ Elems(<<CancelAll, Shutdown>>) = {CancelAll, Shutdown} /\ Elems(<<>>) = {}
      /\ CancelAll.op = "cancel" /\ Shutdown.op = "shutdown"
  BY ElemsOf DEF CancelAll, Shutdown
<1>2. \A u \in 1..Len(threads) : Elems(mail[u]) = IF u \in K THEN {CancelAll, Shutdown} ELSE {}
  BY <1>1
<1>3. \A u \in 1..Len(threads) : \A m \in Elems(mail[u]) : m.op # "finished" /\ m.op # "child"
  BY <1>1, <1>2
<1>4. /\ Len(threads') = Len(threads) /\ Own' = Own
      /\ \A u \in 1..Len(threads) :
           /\ Steady(threads[u], threads'[u]) /\ Bound(threads[u], threads'[u])
           /\ Reads(u) => Elems(mail[u]) \subseteq Elems(threads'[u].inbox)
           /\ \A k : Asked(threads'[u], k) =>
                Asked(threads[u], k) \/ \E m \in Elems(mail[u]) : m.op = "child" /\ m.call = k
  BY <1>3, MailedFollow
<1>5. \A u \in 1..Len(threads) : \A k : Asked(threads'[u], k) => Asked(threads[u], k)
  <2>. SUFFICES ASSUME NEW u \in 1..Len(threads), NEW k, Asked(threads'[u], k), ~Asked(threads[u], k)
               PROVE  FALSE
    OBVIOUS
  <2>1. PICK m \in Elems(mail[u]) : m.op = "child"
    BY <1>4
  <2>. QED BY <1>3, <2>1
<1>6. ASSUME NEW u \in 1..Len(threads), u \in K
      PROVE  Settled(threads'[u])
  <2>1. CASE Reads(u)
    <3>1. Shutdown \in Elems(threads'[u].inbox)
      BY <1>2, <1>4, <1>6, <2>1, ZenonT(40)
    <3>. QED BY <3>1, <1>1 DEF Settled
  <2>2. CASE ~Reads(u)
    <3>1. Settled(threads[u])
      BY <2>2 DEF Reads, Settled
    <3>. QED BY <3>1, <1>4 DEF Steady
  <2>. QED BY <2>1, <2>2
<1>. QED BY <1>4, <1>5, <1>6

\* Children are forgotten, or lose their threads, only once told to stop.
LEMMA StoppingCancel ==
  ASSUME Shapes, Shapes', CancelInv, NEW K,
         NEW mail \in [1..Len(threads) -> Seq(Mail(Len(calls)))],
         mail = [u \in 1..Len(threads) |-> IF u \in K THEN <<CancelAll, Shutdown>> ELSE <<>>],
         threads' = Mailed(mail), queue # <<>>, queue' = Tail(queue), UNCHANGED <<calls, hit>>,
         \A u, t \in 1..Len(threads) : Tracked(u, t) /\ u \notin K =>
           Settled(threads[u]) \/ (Own[u] \in children'[Own[t]] /\ active'[Own[u]] = u)
  PROVE  CancelInv'
<1>1. /\ Len(threads') = Len(threads) /\ Own' = Own
      /\ \A u \in 1..Len(threads) : Steady(threads[u], threads'[u]) /\ Bound(threads[u], threads'[u])
      /\ \A u \in 1..Len(threads) : \A k : Asked(threads'[u], k) => Asked(threads[u], k)
      /\ \A u \in 1..Len(threads) : u \in K => Settled(threads'[u])
  BY ToldToStop DEF CancelInv
<1>2. AskPart'
  BY AskTaken DEF CancelInv
<1>3. ASSUME NEW u \in 1..Len(threads), NEW t \in 1..Len(threads), Tracked(u, t)
      PROVE  Settled(threads'[u]) \/ Tracked(u, t)'
  BY <1>1, <1>3 DEF Steady, Tracked
<1>4. Len(threads) =< Len(threads') /\ SoundPart /\ CallerPart /\ TrackPart /\ HitPart
  BY <1>1, Counts DEF CancelInv
<1>5. SoundPart' /\ CallerPart' /\ TrackPart' /\ HitPart'
  BY <1>1, <1>3, <1>4, CancelFrame
<1>. QED BY <1>2, <1>5 DEF CancelInv

\* SessionExited: the children of the session are stopped; nobody works for
\* the session itself any more.
LEMMA HandleExitedCancel ==
  ASSUME IndexInv, Shapes', CancelInv, HandleExited
  PROVE  CancelInv'
<1>. DEFINE s == Head(queue).id
            kids == {active[d] : d \in children[s] \ {s}} \ {0}
            mail == [t \in 1..Len(threads) |-> IF t \in kids THEN <<CancelAll, Shutdown>> ELSE <<>>]
<1>1. /\ Shapes /\ OwnerPart /\ QueuePart /\ Handles("exited") /\ active' = [active EXCEPT ![s] = 0]
      /\ children' = Untracked(s, children[s]) /\ UNCHANGED <<calls, hit>>
  BY DEF IndexInv, HandleExited, Exited
<1>2. Len(calls) \in Nat /\ Len(threads) \in Nat /\ DOMAIN threads = 1..Len(threads)
  BY <1>1, Counts
<1>3. mail \in [1..Len(threads) -> Seq(Mail(Len(calls)))]
  BY <1>2, MailForms
<1>4. threads' = Mailed(mail)
  BY <1>2 DEF HandleExited, Exited
<1>5. queue # <<>> /\ queue' = Tail(queue) /\ s \in Ids /\ Head(queue).op = "exited"
  BY <1>1, HandlesOne, OrderFields
<1>6. mail = [t \in 1..Len(threads) |-> IF t \in kids THEN <<CancelAll, Shutdown>> ELSE <<>>]
  OBVIOUS
<1>. HIDE DEF mail
<1>7. s \in Leaving
  <2>1. Owners \subseteq Owners'
    BY <1>1, <1>3, <1>4, MailedKeeps
  <2>. QED BY <2>1, <1>1, <1>5, TakesFirst
<1>8. ASSUME NEW u \in 1..Len(threads), NEW t \in 1..Len(threads), Tracked(u, t), u \notin kids
      PROVE  Settled(threads[u]) \/ (Own[u] \in children'[Own[t]] /\ active'[Own[u]] = u)
  <2>1. Own[u] \in Ids /\ Own[t] \in Ids /\ Own[u] \in children[Own[t]] /\ active[Own[u]] = u /\ u # 0
    BY <1>1, <1>2, <1>8, Counts, ThreadFields DEF Own, Tracked
  <2>2. CASE Own[u] = s
    <3>1. u \notin Writers
      BY <1>1, <1>7, <2>2 DEF OwnerPart, Owners
    <3>. QED BY <3>1 DEF Writers, Settled
  <2>3. CASE Own[u] # s
    <3>1. active'[Own[u]] = u
      BY <1>1, <2>1, <2>3 DEF Shapes
    <3>2. Own[u] \notin children[s]
      BY <1>8, <2>1, <2>3
    <3>3. Own[u] \in children'[Own[t]]
      BY <1>1, <2>1, <3>2 DEF Untracked
    <3>. QED BY <3>1, <3>3
  <2>. QED BY <2>2, <2>3
<1>. HIDE DEF kids
<1>. QED BY <1>1, <1>3, <1>4, <1>5, <1>6, <1>8, StoppingCancel

\* DeleteSession: the session and its children are told to stop.
LEMMA HandleDeleteCancel ==
  ASSUME IndexInv, Shapes', CancelInv, HandleDelete
  PROVE  CancelInv'
<1>. DEFINE s == Head(queue).id
            D == {s} \cup children[s]
            K == {active[d] : d \in D}
            mail == [t \in 1..Len(threads) |-> IF t \in K THEN <<CancelAll, Shutdown>> ELSE <<>>]
<1>1. /\ Shapes /\ Handles("delete") /\ children' = Untracked(s, D) /\ UNCHANGED <<calls, hit>>
      /\ active' = [u \in Ids |-> IF u \in D THEN 0 ELSE active[u]]
  BY DEF IndexInv, HandleDelete, DeleteInner, DeleteAll
<1>2. Len(calls) \in Nat /\ Len(threads) \in Nat /\ DOMAIN threads = 1..Len(threads)
  BY <1>1, Counts
<1>3. mail \in [1..Len(threads) -> Seq(Mail(Len(calls)))]
  BY <1>2, MailForms
<1>4. threads' = Mailed(mail)
  <2>1. threads' = Mailed([t \in 1..Len(threads) |->
          IF \E d \in D : active[d] = t THEN <<CancelAll, Shutdown>> ELSE <<>>])
    BY <1>2 DEF HandleDelete, DeleteInner, DeleteAll
  <2>2. \A t : (\E d \in D : active[d] = t) <=> t \in K
    OBVIOUS
  <2>. HIDE DEF K
  <2>3. mail = [t \in 1..Len(threads) |->
          IF \E d \in D : active[d] = t THEN <<CancelAll, Shutdown>> ELSE <<>>]
    BY <2>2
  <2>. QED BY <2>1, <2>3
<1>5. queue # <<>> /\ queue' = Tail(queue) /\ s \in Ids
  BY <1>1, HandlesOne, OrderFields
<1>6. mail = [t \in 1..Len(threads) |-> IF t \in K THEN <<CancelAll, Shutdown>> ELSE <<>>]
  OBVIOUS
<1>. HIDE DEF mail
<1>7. ASSUME NEW u \in 1..Len(threads), NEW t \in 1..Len(threads), Tracked(u, t), u \notin K
      PROVE  Own[u] \in children'[Own[t]] /\ active'[Own[u]] = u
  <2>1. Own[u] \in Ids /\ Own[t] \in Ids /\ Own[u] \in children[Own[t]] /\ active[Own[u]] = u
    BY <1>1, <1>2, <1>7, Counts, ThreadFields DEF Own, Tracked
  <2>2. Own[u] \notin D
    BY <1>7, <2>1
  <2>. QED BY <1>1, <2>1, <2>2 DEF Untracked
<1>. HIDE DEF K
<1>. QED BY <1>1, <1>3, <1>4, <1>5, <1>6, <1>7, StoppingCancel

\* A run that was told to stop is condemned.
LEMMA SettledIsStruck ==
  ASSUME NEW th, Sound(th), Settled(th), th.run \in {"begun", "work"}
  PROVE  Engaged(th)
  BY DEF Sound, Settled, Engaged, Struck

\* CancelRequest: the cancel goes to the run and to the children tracked for
\* its session; a child run that is not tracked was told to stop before.
LEMMA HandleCancelRequestCancel ==
  ASSUME IndexInv, Shapes', CancelInv, HandleCancelRequest
  PROVE  CancelInv'
<1>. DEFINE s == Head(queue).id
            n == Head(queue).stream
            r == active[s]
            own(u) == IF u = r THEN <<[op |-> "cancel", stream |-> n]>> ELSE <<>>
            all(u) == IF u \in ToCancel(s) THEN <<CancelAll>> ELSE <<>>
            mail == [u \in 1..Len(threads) |-> own(u) \o all(u)]
            Own1 == [op |-> "cancel", stream |-> n]
<1>1. /\ Handles("cancelReq") /\ UNCHANGED <<active, children, calls>>
      /\ Shapes /\ OwnerPart /\ DOMAIN threads = 1..Len(threads)
  BY Counts DEF HandleCancelRequest, index, IndexInv
<1>2. Len(calls) \in Nat /\ n \in Nat /\ s \in Ids /\ queue # <<>> /\ queue' = Tail(queue)
  BY <1>1, HandlesOne, OrderFields
<1>3. \A u \in 1..Len(threads) : own(u) \in Seq(Mail(Len(calls))) /\ all(u) \in Seq(Mail(Len(calls)))
  BY <1>2, MailForms
<1>4. \A u \in 1..Len(threads) : own(u) \o all(u) \in Seq(Mail(Len(calls)))
  BY <1>3, ConcatProperties
<1>5. mail \in [1..Len(threads) -> Seq(Mail(Len(calls)))]
  BY <1>4
<1>6. threads' = Mailed(mail)
  BY <1>1 DEF HandleCancelRequest
<1>7. /\ Own1.op = "cancel" /\ Own1.stream = n /\ CancelAll.op = "cancel" /\ CancelAll.stream = 0
      /\ Elems(<<Own1>>) = {Own1} /\ Elems(<<CancelAll>>) = {CancelAll} /\ Elems(<<>>) = {}
  BY ElemsOf DEF CancelAll
<1>8. \A u \in 1..Len(threads) : Elems(mail[u]) = Elems(own(u)) \cup Elems(all(u))
  <2>1. \A u \in 1..Len(threads) : mail[u] = own(u) \o all(u)
    OBVIOUS
  <2>. HIDE DEF own, all, mail
  <2>. QED BY <2>1, <1>3, BoxConcat, ZenonT(40)
<1>9. \A u \in 1..Len(threads) :
        Elems(mail[u]) = (IF u = r THEN {Own1} ELSE {}) \cup (IF u \in ToCancel(s) THEN {CancelAll} ELSE {})
  <2>1. \A u \in 1..Len(threads) : /\ Elems(own(u)) = IF u = r THEN {Own1} ELSE {}
                                   /\ Elems(all(u)) = IF u \in ToCancel(s) THEN {CancelAll} ELSE {}
    BY <1>7
  <2>. HIDE DEF own, all, mail
  <2>. QED BY <2>1, <1>8
<1>. HIDE DEF mail
<1>10. \A u \in 1..Len(threads) : \A m \in Elems(mail[u]) : m.op # "finished" /\ m.op # "child"
  BY <1>7, <1>9
<1>11. /\ Len(threads') = Len(threads) /\ Own' = Own
       /\ \A u \in 1..Len(threads) :
            /\ Steady(threads[u], threads'[u]) /\ Bound(threads[u], threads'[u])
            /\ threads'[u].run = threads[u].run /\ threads'[u].stream = threads[u].stream
            /\ Reads(u) => Elems(mail[u]) \subseteq Elems(threads'[u].inbox)
            /\ \A k : Asked(threads'[u], k) =>
                 Asked(threads[u], k) \/ \E m \in Elems(mail[u]) : m.op = "child" /\ m.call = k
  <2>1. SoundPart /\ \A u \in 1..Len(threads) : \A m \in Elems(mail[u]) : m.op # "finished"
    BY <1>10 DEF CancelInv
  <2>. HIDE DEF own, all
  <2>. QED BY <1>1, <1>5, <1>6, <2>1, MailedFollow
<1>12. ASSUME NEW u \in 1..Len(threads), NEW k, Asked(threads'[u], k)
       PROVE  Asked(threads[u], k)
  <2>. SUFFICES ASSUME ~Asked(threads[u], k) PROVE FALSE
    OBVIOUS
  <2>1. PICK m \in Elems(mail[u]) : m.op = "child"
    BY <1>11, <1>12
  <2>. QED BY <1>10, <2>1
<1>13. ASSUME NEW u \in 1..Len(threads), Busy(u)
       PROVE  /\ Sound(threads[u]) /\ Reads(u) /\ threads'[u].run \in {"begun", "work"}
              /\ Elems(mail[u]) \subseteq Elems(threads'[u].inbox)
  <2>1. Sound(threads[u])
    BY DEF CancelInv, SoundPart
  <2>2. Reads(u)
    BY <1>13, <2>1 DEF Sound, Reads, Busy
  <2>. QED BY <1>11, <1>13, <2>1, <2>2 DEF Busy
<1>. HIDE DEF Own1
<1>14. ASSUME r # 0, Busy(r), threads[r].stream = n
       PROVE  r \in 1..Len(threads) /\ Engaged(threads'[r])
  <2>1. r \in 1..Len(threads)
    BY <1>1, <1>2, <1>14, Counts, SMTT(30) DEF Shapes
  <2>2. Own1 \in Elems(threads'[r].inbox) /\ threads'[r].run \in {"begun", "work"}
    BY <1>9, <1>13, <1>14, <2>1
  <2>3. threads'[r].stream = n
    BY <1>11, <1>14, <2>1
  <2>. QED BY <1>7, <2>1, <2>2, <2>3 DEF Engaged, Struck
<1>15. ASSUME r # 0, NEW u \in Below(r)
       PROVE  u \in 1..Len(threads) /\ Engaged(threads'[u])
  <2>. DEFINE k == threads[u].caller
  <2>1. /\ u \in 1..Len(threads) /\ Busy(u) /\ k # 0 /\ calls[k].by = r
        /\ threads[u] \in ThreadState(Len(calls))
    BY <1>1, <1>15, Counts DEF Below
  <2>2. k \in 1..Len(calls)
    BY <1>2, <2>1, ThreadFields
  <2>3. calls[k].child = u
    BY <2>1, <2>2 DEF CancelInv, CallerPart, Asked
  <2>4. Settled(threads[u]) \/ Tracked(u, r)
    <3>1. u # 0
      BY <1>1, <2>1, Counts
    <3>. QED BY <3>1, <2>1, <2>2, <2>3 DEF CancelInv, TrackPart
  <2>5. CASE Settled(threads[u])
    <3>1. Engaged(threads[u])
      BY <1>13, <2>1, <2>5, SettledIsStruck DEF Busy
    <3>. QED BY <3>1, <2>1, <1>11 DEF Bound
  <2>6. CASE Tracked(u, r)
    <3>1. Own[r] = s
      BY <1>1, <1>2, <1>15 DEF OwnerPart
    <3>2. u \in ToCancel(s)
      <4>1. u # 0
        BY <1>1, <2>1, Counts
      <4>. QED BY <3>1, <4>1, <2>6, <1>15 DEF Tracked, ToCancel
    <3>3. CancelAll \in Elems(threads'[u].inbox) /\ threads'[u].run \in {"begun", "work"}
      BY <1>9, <1>13, <2>1, <3>2
    <3>. QED BY <1>7, <2>1, <3>3 DEF Engaged, Struck
  <2>. QED BY <2>4, <2>5, <2>6
<1>16. ASSUME NEW p \in hit', p \notin hit
       PROVE  \E t \in 1..Len(threads') : p = <<t, threads'[t].stream>> /\ Engaged(threads'[t])
  <2>1. /\ r # 0 /\ Busy(r) /\ threads[r].stream = n
        /\ \E u \in {r} \cup Below(r) : p = <<u, threads[u].stream>>
    BY <1>16 DEF HandleCancelRequest
  <2>2. PICK u \in {r} \cup Below(r) : p = <<u, threads[u].stream>>
    BY <2>1
  <2>3. u \in 1..Len(threads) /\ Engaged(threads'[u])
    BY <1>14, <1>15, <2>1, <2>2
  <2>4. threads'[u].stream = threads[u].stream /\ u \in 1..Len(threads')
    BY <1>11, <2>3
  <2>. QED BY <2>2, <2>3, <2>4
<1>. HIDE DEF s, n, r
<1>17. AskPart'
  BY <1>1, <1>2, AskTaken DEF CancelInv
<1>18. \A u, t \in 1..Len(threads) : Tracked(u, t) => Tracked(u, t)'
  BY <1>1, <1>11 DEF Tracked
<1>19. Len(threads) =< Len(threads') /\ SoundPart /\ CallerPart /\ TrackPart /\ HitPart
  BY <1>1, <1>11, Counts DEF CancelInv
<1>20. SoundPart' /\ CallerPart' /\ TrackPart' /\ HitPart'
  BY <1>1, <1>11, <1>12, <1>16, <1>18, <1>19, CancelFrame
<1>. QED BY <1>17, <1>20 DEF CancelInv

\* No thread, no call, no cancel: the daemon starts.
LEMMA EmptyCancel ==
  ASSUME threads = <<>>, calls = <<>>, queue = <<>>, hit = {}
  PROVE  CancelInv
<1>1. Len(threads) = 0 /\ Len(calls) = 0 /\ Len(queue) = 0 /\ 1..0 = {}
  OBVIOUS
<1>2. At("spawn") = {}
  BY <1>1 DEF At
<1>. QED BY <1>1, <1>2 DEF CancelInv, SoundPart, CallerPart, AskPart, TrackPart, HitPart

\* A restart forgets the cancels with the runs they were for.
LEMMA RestartCancel ==
  ASSUME Restart
  PROVE  CancelInv'
<1>1. threads' = <<>> /\ calls' = <<>> /\ queue' = <<>> /\ hit' = {}
  BY DEF Restart
<1>2. Len(threads') = 0 /\ Len(calls') = 0 /\ Len(queue') = 0 /\ 1..0 = {}
  BY <1>1
<1>3. At("spawn")' = {}
  BY <1>2 DEF At
<1>. QED BY <1>1, <1>2, <1>3 DEF CancelInv, SoundPart, CallerPart, AskPart, TrackPart, HitPart

\* A step that changes nothing.
LEMMA StutterCancel ==
  ASSUME Shapes, Shapes', CancelInv, UNCHANGED vars
  PROVE  CancelInv'
<1>1. UNCHANGED <<threads, calls, queue, active, children, hit>>
  BY DEF vars, index
<1>2. SameCalls
  BY <1>1 DEF SameCalls
<1>3. AskPart'
  BY <1>1, <1>2, AskSame DEF CancelInv
<1>. QED BY <1>1, <1>2, <1>3, NoneFollows

\* Every step of the daemon keeps CancelInv.
LEMMA NextCancel ==
  ASSUME IndexInv, IndexInv', CancelInv, [Next]_vars
  PROVE  CancelInv'
<1>0. Shapes /\ Shapes'
  BY DEF IndexInv
<1>1. CASE \E c \in Clients : Client(c)
  BY <1>0, <1>1, ClientAsksCancel, ClientMailsCancel DEF Client
<1>2. CASE Daemon
  BY <1>0, <1>2, QuietCancel, SpawningCancel, HandleSpawnCancel, HandleExitedCancel,
     HandleDeleteCancel, HandleCancelRequestCancel DEF Daemon
<1>3. CASE \E s \in Ids : Finalize(s)
  BY <1>0, <1>3, QuietCancel
<1>4. CASE \E t \in Threads : ThreadStep(t) \/ WorkerReports(t) \/ WorkerSpawns(t) \/ WorkerEnds(t)
  BY <1>0, <1>4, ThreadStepCancel, WorkerReportsCancel, WorkerSpawnsCancel, WorkerEndsCancel
<1>5. CASE \E k \in Threads : CallRuns(k)
  BY <1>0, <1>5, CallRunsCancel
<1>6. CASE Restart
  BY <1>6, RestartCancel
<1>7. CASE UNCHANGED vars
  BY <1>0, <1>7, StutterCancel
<1>. QED BY <1>1, <1>2, <1>3, <1>4, <1>5, <1>6, <1>7 DEF Next

\* CancelInv holds throughout.
THEOREM CancelInvariant == Spec => []CancelInv
<1>1. Init => CancelInv
  BY EmptyCancel DEF Init
<1>2. IndexInv /\ IndexInv' /\ CancelInv /\ [Next]_vars => CancelInv'
  BY NextCancel
<1>. QED BY <1>1, <1>2, IndexInvariant, PTL DEF Spec

\* A cancel that the daemon took has reached, or is on its way to, the run it
\* named and every child run that worked for it then, whatever sub-sessions
\* are created, deleted or exit around it (handle_cancel_request,
\* cancel_children_of, the sub-session tracking of spawn and exit).
THEOREM CancelIsPassedOn == Spec => []CancelReachesChildren
<1>1. ASSUME IndexInv, CancelInv
      PROVE  CancelReachesChildren
  <2>. SUFFICES ASSUME NEW p \in hit PROVE Condemned(p[1])
    BY DEF CancelReachesChildren
  <2>1. PICK t \in 1..Len(threads) : p = <<t, threads[t].stream>> /\ Engaged(threads[t])
    BY <1>1 DEF CancelInv, HitPart
  <2>2. Condemned(t)
    BY <1>1, <2>1, StruckIsCondemned DEF Engaged, IndexInv
  <2>. QED BY <2>1, <2>2
<1>2. IndexInv /\ CancelInv => CancelReachesChildren
  BY <1>1
<1>. QED BY <1>2, IndexInvariant, CancelInvariant, PTL
=============================================================================
