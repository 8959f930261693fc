--------------------------- MODULE DeliveryProofs ---------------------------
(* Theorems about Delivery: the lag counters are honest, closed connections     *)
(* leave nothing behind, and an event is queued once for a client that settled. *)
EXTENDS Delivery, FiniteSetTheorems, SequenceTheorems, TLAPS

-----------------------------------------------------------------------------
(* The inductive invariant.                                                  *)

Flags == BOOLEAN
Entry == [in : Flags, summary : Flags, activity : Flags, sessions : SUBSET Sessions]
Link == [open : Flags, att : Sessions \cup {NoSession}, reqs : 0..MaxRequests]
Net == [q : [Clients -> Seq(Messages)], bytes : [Clients -> Nat], global : Nat]
Copies == {Unwatched} \cup Nat
Past == [copies : [Clients -> [Events -> Copies]], over : SUBSET Clients, lost : Nat]
Writers == {"runs", "drains", "drained", "gone"}
LoopCommands ==
  ({"activity", "status"} \X Events) \cup ({"evict", "disconnected"} \X Clients) \cup {<<"largest">>}
  \cup ({"track", "untrack"} \X Clients \X Sessions)
  \cup ({"subscribe", "unsubscribe"} \X Clients \X {"activity", "summary"})
ThreadCommands == {"attach", "detach", "remove"} \X Clients

Shapes ==
  /\ net \in Net /\ wr \in [Clients -> Writers] /\ clients \in [Clients -> Entry]
  /\ subs \in [Sessions -> SUBSET Clients] /\ sent \subseteq Events /\ conn \in [Clients -> Link]
  /\ dq \in Seq(LoopCommands) /\ sq \in [Sessions -> Seq(ThreadCommands)] /\ h \in Past

\* m comes after place i of the queue q.
Follows(q, i, m) == \E j \in (i + 1)..Len(q) : q[j] = m

\* What holds a closed client, or will, is followed by the command that lets go.
Asks(c) == {i \in 1..Len(dq) : dq[i][1] = "subscribe" /\ dq[i][2] = c}
GoneAt(c) ==
  /\ ~conn[c].open =>
       /\ clients[c].in => Follows(dq, 0, <<"disconnected", c>>)
       /\ \A i \in Asks(c) : Follows(dq, i, <<"disconnected", c>>)
  /\ \A i \in 1..Len(dq) : dq[i] = <<"disconnected", c>> => ~conn[c].open
  /\ \A i, j \in 1..Len(dq) : dq[i] = <<"disconnected", c>> /\ dq[j] = <<"disconnected", c>> => i = j
GonePart == \A c \in Clients : GoneAt(c)
Stays(c, s) == conn[c].open /\ conn[c].att = s
LeftAt(c, s) ==
  ~Stays(c, s) =>
    /\ c \in subs[s] => Follows(sq[s], 0, <<"detach", c>>)
    /\ \A i \in 1..Len(sq[s]) : sq[s][i] = <<"attach", c>> => Follows(sq[s], i, <<"detach", c>>)
LeftPart == \A c \in Clients, s \in Sessions : LeftAt(c, s)

\* The counters, and who was found over its cap.
CountPart ==
  /\ \A c \in Clients : wr[c] # "gone" => net.bytes[c] = Weighing(net.q[c])
  /\ net.global = h.lost + Cardinality(Unwritten)
Parting(c) == GoingDown(c) \/ (~clients[c].in /\ ~conn[c].open /\ Asks(c) = {})
OverPart ==
  /\ \A c \in h.over : Evicting(c) \/ GoingDown(c) \/ ~conn[c].open
  /\ \A c \in Clients : clients[c].in \/ Parting(c)

\* A session is told to drop only who is on its way out.
TellPart ==
  \A c \in Clients, s \in Sessions :
    (\E i \in 1..Len(sq[s]) : sq[s][i] = <<"remove", c>>) => Parting(c)

\* Whether the loop takes c for a client of session s when it comes to place n
\* of the queue q, if it does (b) or does not now.
Tracks(q, c, s, n, b) ==
  \/ b /\ \A i \in 1..(n - 1) : q[i] # <<"untrack", c, s>>
  \/ \E j \in 1..(n - 1) :
       q[j] = <<"track", c, s>> /\ \A i \in (j + 1)..(n - 1) : q[i] # <<"untrack", c, s>>
Served(c, s, n) == Tracks(dq, c, s, n, s \in clients[c].sessions)
Settled(c) == clients[c].in /\ ~GoingDown(c)
TrackPart ==
  \A c \in Clients, s \in Sessions : Settled(c) => (c \in subs[s] <=> Served(c, s, Len(dq) + 1))

\* The copies of an event under way.
Watching(c, e) == h.copies[c][e] # Unwatched
Announced(e) == \E i \in 1..Len(dq) : dq[i] = <<"activity", e>>
OrderPart ==
  /\ \A i, j \in 1..Len(dq) : dq[i] = dq[j] /\ dq[i][1] \in {"activity", "status"} => i = j
  /\ \A i \in 1..Len(dq) : dq[i][1] \in {"activity", "status"} => dq[i][2] \in sent
  /\ \A i \in 1..Len(dq) : dq[i][1] = "status" => dq[i][2] \in Statuses
  /\ \A i \in 1..Len(dq) : dq[i][1] = "activity" /\ dq[i][2] \in Statuses =>
       Follows(dq, i, <<"status", dq[i][2]>>)
  /\ \A j \in 1..Len(dq) : dq[j][1] = "status" =>
       \A i \in 1..(j - 1) : \/ dq[i][1] \in {"evict", "largest"}
                             \/ \E k \in i..(j - 1) : dq[k] = <<"activity", dq[j][2]>>
CopyAt(c, e) ==
  Watching(c, e) =>
    /\ Settled(c) /\ e \in sent /\ h.copies[c][e] \in {0, 1}
    /\ \A i \in 1..Len(dq) : dq[i] = <<"activity", e>> =>
         (h.copies[c][e] = 1 <=> Served(c, Origin[e], i))
    /\ ~Announced(e) =>
         IF Pending(e) THEN h.copies[c][e] = 1 <=> (clients[c].activity \/ Origin[e] \in clients[c].sessions)
         ELSE h.copies[c][e] = 0 => ~Wants(c, e)
CopyPart == \A c \in Clients, e \in Events : CopyAt(c, e)

DelInv == Shapes /\ CountPart /\ GonePart /\ LeftPart /\ OverPart /\ TellPart /\ TrackPart /\ OrderPart /\ CopyPart

-----------------------------------------------------------------------------
(* Queues.                                                                   *)

\* r is q with messages of M put behind it, and r is q without its head.
Extends(q, r, M) ==
  /\ Len(q) =< Len(r) /\ \A i \in 1..Len(q) : r[i] = q[i]
  /\ \A i \in (Len(q) + 1)..Len(r) : r[i] \in M
Shifts(q, r) ==
  /\ Len(q) >= 1 /\ Len(r) = Len(q) - 1
  /\ \A i \in 1..Len(r) : r[i] = q[i + 1]

\* A set in some order: each member once.
LEMMA SetInOrder ==
  ASSUME NEW S, IsFiniteSet(S)
  PROVE  /\ SetToSeq(S) \in Seq(S)
         /\ \A i, j \in 1..Len(SetToSeq(S)) : SetToSeq(S)[i] = SetToSeq(S)[j] => i = j
         /\ \A x \in S : \E i \in 1..Len(SetToSeq(S)) : SetToSeq(S)[i] = x
<1>. DEFINE n == Cardinality(S)
<1>1. n \in Nat /\ ExistsBijection(1..n, S)
  BY FS_CardinalityType
<1>2. PICK g : g \in Bijection(1..n, S)
  BY <1>1 DEF ExistsBijection
<1>3. g \in [1..n -> S] /\ IsInjective(g)
  BY <1>2, Zenon DEF Bijection, Injection
<1>4. PICK f : f = SetToSeq(S)
  OBVIOUS
<1>5. f \in [1..n -> S] /\ IsInjective(f)
  BY <1>3, <1>4, Zenon DEF SetToSeq
<1>6. f \in Seq(S) /\ Len(f) = n /\ DOMAIN f = 1..n
  BY <1>1, <1>5
<1>7. f \in Injection(1..n, S)
  BY <1>5 DEF Injection
<1>8. Cardinality(1..n) = n
  BY <1>1, FS_Interval
<1>9. f \in Surjection(1..n, S)
  BY <1>7, <1>8, FS_Injection
<1>10. \A x \in S : \E i \in 1..n : f[i] = x
  BY <1>9 DEF Surjection
<1>11. \A i, j \in 1..n : f[i] = f[j] => i = j
  BY <1>5, <1>6, Zenon DEF IsInjective
<1>. QED
  BY <1>4, <1>6, <1>10, <1>11

\* What the three ways to change a queue do to it.
LEMMA AppendExtends ==
  ASSUME NEW T, NEW q \in Seq(T), NEW m \in T
  PROVE  /\ Append(q, m) \in Seq(T) /\ Extends(q, Append(q, m), {m})
         /\ Len(Append(q, m)) = Len(q) + 1 /\ Append(q, m)[Len(q) + 1] = m
BY AppendProperties DEF Extends

LEMMA ConcatExtends ==
  ASSUME NEW T, NEW q \in Seq(T), NEW M \in SUBSET T, NEW r \in Seq(M)
  PROVE  q \o r \in Seq(T) /\ Extends(q, q \o r, M)
<1>1. r \in Seq(T)
  BY SeqMonotonic
<1>2. \A i \in 1..Len(r) : r[i] \in M
  BY ElementOfSeq
<1>. QED
  BY <1>1, <1>2, ConcatProperties DEF Extends

LEMMA TailShifts ==
  ASSUME NEW T, NEW q \in Seq(T), q # <<>>
  PROVE  /\ Tail(q) \in Seq(T) /\ Shifts(q, Tail(q)) /\ Head(q) = q[1] /\ Head(q) \in T
         /\ Len(q) \in Nat \ {0}
<1>1. Len(q) \in Nat \ {0}
  BY EmptySeq
<1>. QED
  BY <1>1, HeadTailProperties DEF Shifts

LEMMA ExtendsTwice ==
  ASSUME NEW T, NEW q \in Seq(T), NEW r \in Seq(T), NEW u \in Seq(T), NEW M, NEW N,
         Extends(q, r, M), Extends(r, u, N)
  PROVE  Extends(q, u, M \cup N)
<1>1. Len(q) \in Nat /\ Len(r) \in Nat /\ Len(u) \in Nat
  BY LenProperties
<1>2. \A i \in 1..Len(q) : i \in 1..Len(r) /\ u[i] = q[i]
  BY <1>1 DEF Extends
<1>3. \A i \in (Len(q) + 1)..Len(u) :
        \/ i \in (Len(q) + 1)..Len(r) /\ i \in 1..Len(r)
        \/ i \in (Len(r) + 1)..Len(u)
  BY <1>1 DEF Extends
<1>4. ASSUME NEW i \in (Len(q) + 1)..Len(u) PROVE u[i] \in M \cup N
  BY <1>3, <1>4 DEF Extends
<1>. QED
  BY <1>1, <1>2, <1>4 DEF Extends

LEMMA ExtendsItself ==
  ASSUME NEW T, NEW q \in Seq(T), NEW M
  PROVE  Extends(q, q, M)
BY DEF Extends

-----------------------------------------------------------------------------
(* Counting.                                                                 *)

LEMMA SomeWeigh ==
  ASSUME NEW q \in Seq(Messages)
  PROVE  /\ IsFiniteSet({i \in DOMAIN q : Weight(q[i]) = 1}) /\ Weighing(q) \in Nat
         /\ q = <<>> => Weighing(q) = 0
<1>. DEFINE W == {i \in DOMAIN q : Weight(q[i]) = 1}
<1>1. DOMAIN q = 1..Len(q) /\ Len(q) \in Nat
  BY LenProperties
<1>2. IsFiniteSet(1..Len(q)) /\ W \in SUBSET (1..Len(q))
  BY <1>1, FS_Interval
<1>3. IsFiniteSet(W)
  BY <1>2, FS_Subset
<1>4. Weighing(q) \in Nat
  BY <1>3, FS_CardinalityType DEF Weighing
<1>5. ASSUME q = <<>> PROVE Weighing(q) = 0
  <2>1. W = {}
    BY <1>5, <1>1
  <2>. QED
    BY <2>1, FS_EmptySet DEF Weighing
<1>. QED
  BY <1>3, <1>4, <1>5

\* One more message weighs its weight.
LEMMA WeighOneMore ==
  ASSUME NEW q \in Seq(Messages), NEW m \in Messages
  PROVE  Weighing(Append(q, m)) = Weighing(q) + Weight(m)
<1>. DEFINE W == {i \in DOMAIN q : Weight(q[i]) = 1}
<1>1. PICK r : r = Append(q, m)
  OBVIOUS
<1>2. /\ r \in Seq(Messages) /\ Len(r) = Len(q) + 1 /\ r[Len(q) + 1] = m
      /\ \A i \in 1..Len(q) : r[i] = q[i]
  BY <1>1, AppendProperties
<1>3. DOMAIN q = 1..Len(q) /\ Len(q) \in Nat /\ DOMAIN r = 1..(Len(q) + 1)
  BY <1>2, LenProperties
<1>. DEFINE V == {i \in DOMAIN r : Weight(r[i]) = 1}
<1>4. IsFiniteSet(W) /\ Cardinality(W) \in Nat
  BY SomeWeigh DEF Weighing
<1>5. CASE Weight(m) = 1
  <2>1. V = W \cup {Len(q) + 1} /\ Len(q) + 1 \notin W
    BY <1>2, <1>3, <1>5
  <2>2. Cardinality(V) = Cardinality(W) + 1
    BY <2>1, <1>4, FS_AddElement
  <2>. QED
    BY <2>2, <1>1, <1>5 DEF Weighing
<1>6. CASE Weight(m) = 0
  <2>1. V = W
    BY <1>2, <1>3, <1>6
  <2>2. Weighing(r) = Weighing(q)
    BY <2>1, Zenon DEF Weighing
  <2>3. Weighing(q) \in Nat
    BY SomeWeigh
  <2>. QED
    BY <2>2, <2>3, <1>1, <1>6
<1>. QED
  BY <1>5, <1>6 DEF Weight

\* A queue weighs what its head and what the rest do.
LEMMA WeighHead ==
  ASSUME NEW q \in Seq(Messages), q # <<>>
  PROVE  Weighing(SubSeq(q, 2, Len(q))) = Weighing(q) - Weighing(<<Head(q)>>)
<1>1. PICK r : r = SubSeq(q, 2, Len(q))
  OBVIOUS
<1>2. /\ r \in Seq(Messages) /\ Len(q) \in Nat \ {0} /\ Len(r) = Len(q) - 1
      /\ \A i \in 1..Len(r) : r[i] = q[i + 1]
  BY <1>1, TailShifts, TailIsSubSeq DEF Shifts
<1>3. Head(q) = q[1] /\ q[1] \in Messages /\ DOMAIN q = 1..Len(q) /\ DOMAIN r = 1..(Len(q) - 1)
  BY <1>2, TailShifts, LenProperties
<1>. DEFINE W == {i \in DOMAIN q : Weight(q[i]) = 1}
            V == {i \in DOMAIN r : Weight(r[i]) = 1}
            O == W \ {1}
            f == [i \in V |-> i + 1]
<1>4. IsFiniteSet(W) /\ IsFiniteSet(V) /\ Cardinality(W) \in Nat
  BY <1>2, SomeWeigh DEF Weighing
<1>5. f \in [V -> O]
  BY <1>2, <1>3
<1>6. \A a, b \in V : f[a] = f[b] => a = b
  BY <1>3
<1>7. ASSUME NEW x \in O PROVE \E a \in V : f[a] = x
  <2>1. x \in 2..Len(q) /\ Weight(q[x]) = 1
    BY <1>2, <1>3
  <2>2. x - 1 \in 1..Len(r) /\ r[x - 1] = q[x]
    BY <2>1, <1>2
  <2>3. x - 1 \in V /\ f[x - 1] = x
    BY <2>1, <2>2, <1>2, <1>3
  <2>. QED
    BY <2>3
<1>8. f \in Bijection(V, O)
  BY <1>5, <1>6, <1>7 DEF Bijection, Injection, Surjection, IsInjective
<1>9. Cardinality(O) = Cardinality(V)
  BY <1>4, <1>8, FS_Bijection DEF ExistsBijection
<1>10. Cardinality(O) = IF 1 \in W THEN Cardinality(W) - 1 ELSE Cardinality(W)
  BY <1>4, FS_RemoveElement
<1>11. Weighing(<<Head(q)>>) = Weight(q[1])
  <2>1. <<Head(q)>> = Append(<<>>, q[1]) /\ <<>> \in Seq(Messages)
    BY <1>3
  <2>2. Weight(q[1]) \in {0, 1}
    BY DEF Weight
  <2>3. Weighing(<<>>) = 0
    BY <2>1, SomeWeigh
  <2>4. Weighing(Append(<<>>, q[1])) = 0 + Weight(q[1])
    BY <2>1, <2>3, <1>3, WeighOneMore
  <2>. QED
    BY <2>1, <2>2, <2>4
<1>12. 1 \in W <=> Weight(q[1]) = 1
  BY <1>2, <1>3
<1>13. Cardinality(V) = Cardinality(W) - Weight(q[1])
  BY <1>4, <1>9, <1>10, <1>12 DEF Weight
<1>. QED
  BY <1>1, <1>11, <1>13 DEF Weighing

\* The messages in the queues of n, and when its counters are right.
Column(n, c) == {c} \X (1..Len(n.q[c]))
Waiting(n) == UNION {Column(n, c) : c \in Clients}
Honest(n, w, l) ==
  /\ \A c \in Clients : w[c] # "gone" => n.bytes[c] = Weighing(n.q[c])
  /\ n.global = l + Cardinality(Waiting(n))

LEMMA NetShape ==
  ASSUME NEW n \in Net
  PROVE  /\ \A c \in Clients : /\ n.q[c] \in Seq(Messages) /\ Len(n.q[c]) \in Nat
                               /\ DOMAIN n.q[c] = 1..Len(n.q[c]) /\ n.bytes[c] \in Nat
         /\ n.global \in Nat
<1>1. n.q \in [Clients -> Seq(Messages)] /\ n.bytes \in [Clients -> Nat] /\ n.global \in Nat
  BY DEF Net
<1>2. ASSUME NEW c \in Clients PROVE n.q[c] \in Seq(Messages)
  BY <1>1
<1>. QED
  BY <1>1, <1>2, LenProperties

LEMMA FinitelyManyWait ==
  ASSUME NEW n \in Net
  PROVE  IsFiniteSet(Waiting(n)) /\ Cardinality(Waiting(n)) \in Nat
<1>. DEFINE T == {Column(n, c) : c \in Clients}
            f == [c \in Clients |-> Column(n, c)]
<1>1. f \in Surjection(Clients, T)
  BY DEF Surjection
<1>2. IsFiniteSet(T)
  BY <1>1, ClientsAssumption, FS_Surjection
<1>3. ASSUME NEW c \in Clients PROVE IsFiniteSet(Column(n, c))
  <2>1. IsFiniteSet({c})
    BY FS_Singleton
  <2>2. Len(n.q[c]) \in Int
    BY NetShape
  <2>3. IsFiniteSet(1..Len(n.q[c]))
    BY <2>2, FS_Interval
  <2>. QED
    BY <2>1, <2>3, FS_Product DEF Column
<1>4. \A C \in T : IsFiniteSet(C)
  BY <1>3
<1>5. IsFiniteSet(Waiting(n))
  BY <1>2, <1>4, FS_UNION DEF Waiting
<1>. QED
  BY <1>5, FS_CardinalityType

LEMMA WaitingPairs ==
  ASSUME NEW n
  PROVE  /\ \A c, i : <<c, i>> \in Waiting(n) <=> c \in Clients /\ i \in 1..Len(n.q[c])
         /\ \A z \in Waiting(n) : z = <<z[1], z[2]>>
BY DEF Waiting, Column

-----------------------------------------------------------------------------
(* Sinks.                                                                    *)

\* What send_accounted does to the queues.
LEMMA PushShape ==
  ASSUME NEW n \in Net, NEW S \in SUBSET Clients, NEW m \in Messages
  PROVE  /\ Push(n, S, m) \in Net
         /\ \A c \in Clients \ Live(S) : /\ Push(n, S, m).q[c] = n.q[c]
                                         /\ Push(n, S, m).bytes[c] = n.bytes[c]
         /\ \A c \in Live(S) : /\ Push(n, S, m).q[c] = Append(n.q[c], m)
                               /\ Push(n, S, m).bytes[c] = n.bytes[c] + Weight(m)
         /\ Push(n, S, m).global = n.global + Cardinality(Live(S))
         /\ IsFiniteSet(Live(S)) /\ Cardinality(Live(S)) \in Nat
<1>1. Live(S) \in SUBSET Clients
  BY DEF Live
<1>2. IsFiniteSet(Live(S)) /\ Cardinality(Live(S)) \in Nat
  BY <1>1, ClientsAssumption, FS_Subset, FS_CardinalityType
<1>3. PICK L : L = Live(S)
  OBVIOUS
<1>4. PICK g : g = Push(n, S, m)
  OBVIOUS
<1>5. g = [q |-> [c \in Clients |-> IF c \in L THEN Append(n.q[c], m) ELSE n.q[c]],
           bytes |-> [c \in Clients |-> IF c \in L THEN n.bytes[c] + Weight(m) ELSE n.bytes[c]],
           global |-> n.global + Cardinality(L)]
  BY <1>3, <1>4 DEF Push
<1>6. \A c \in Clients : g.q[c] = IF c \in L THEN Append(n.q[c], m) ELSE n.q[c]
  BY <1>5
<1>7. \A c \in Clients : g.bytes[c] = IF c \in L THEN n.bytes[c] + Weight(m) ELSE n.bytes[c]
  BY <1>5
<1>8. g.global = n.global + Cardinality(L)
  BY <1>5
<1>9. ASSUME NEW c \in Clients PROVE g.q[c] \in Seq(Messages) /\ g.bytes[c] \in Nat
  <2>1. n.q[c] \in Seq(Messages) /\ n.bytes[c] \in Nat
    BY NetShape
  <2>2. Append(n.q[c], m) \in Seq(Messages)
    BY <2>1, AppendProperties
  <2>3. n.bytes[c] + Weight(m) \in Nat
    BY <2>1 DEF Weight
  <2>. QED
    BY <1>6, <1>7, <2>1, <2>2, <2>3
<1>10. g.q \in [Clients -> Seq(Messages)] /\ g.bytes \in [Clients -> Nat]
  <2>1. g.q = [c \in Clients |-> g.q[c]] /\ g.bytes = [c \in Clients |-> g.bytes[c]]
    BY <1>5
  <2>. QED
    BY <2>1, <1>9
<1>11. g.global \in Nat
  BY <1>2, <1>3, <1>8, NetShape
<1>12. g = [q |-> g.q, bytes |-> g.bytes, global |-> g.global]
  BY <1>5
<1>13. g \in Net
  BY <1>10, <1>11, <1>12 DEF Net
<1>14. \A c \in Clients \ L : g.q[c] = n.q[c] /\ g.bytes[c] = n.bytes[c]
  BY <1>6, <1>7
<1>15. \A c \in L : g.q[c] = Append(n.q[c], m) /\ g.bytes[c] = n.bytes[c] + Weight(m)
  BY <1>1, <1>3, <1>6, <1>7
<1>. QED
  BY <1>2, <1>3, <1>4, <1>8, <1>13, <1>14, <1>15

\* It keeps the counters right.
LEMMA PushHonest ==
  ASSUME NEW n \in Net, NEW S \in SUBSET Clients, NEW m \in Messages, NEW l \in Nat,
         Honest(n, wr, l)
  PROVE  Honest(Push(n, S, m), wr, l)
<1>1. PICK g : g = Push(n, S, m)
  OBVIOUS
<1>2. PICK L : L = Live(S)
  OBVIOUS
<1>3. /\ g \in Net /\ IsFiniteSet(L) /\ Cardinality(L) \in Nat /\ g.global = n.global + Cardinality(L)
      /\ \A c \in Clients \ L : g.q[c] = n.q[c] /\ g.bytes[c] = n.bytes[c]
      /\ \A c \in L : g.q[c] = Append(n.q[c], m) /\ g.bytes[c] = n.bytes[c] + Weight(m)
  BY <1>1, <1>2, PushShape
<1>4. L \in SUBSET Clients
  BY <1>2 DEF Live
<1>5. ASSUME NEW c \in Clients, wr[c] # "gone" PROVE g.bytes[c] = Weighing(g.q[c])
  <2>1. n.q[c] \in Seq(Messages) /\ n.bytes[c] = Weighing(n.q[c])
    BY <1>5, NetShape DEF Honest
  <2>2. Weighing(Append(n.q[c], m)) = Weighing(n.q[c]) + Weight(m)
    BY <2>1, WeighOneMore
  <2>. QED
    BY <2>1, <2>2, <1>3
<1>. DEFINE new == [c \in L |-> <<c, Len(n.q[c]) + 1>>]
            N == {new[c] : c \in L}
<1>6. \A c \in L : Len(g.q[c]) = Len(n.q[c]) + 1 /\ Len(n.q[c]) \in Nat
  <2>1. ASSUME NEW c \in L PROVE Len(g.q[c]) = Len(n.q[c]) + 1 /\ Len(n.q[c]) \in Nat
    <3>1. n.q[c] \in Seq(Messages)
      BY <1>4, NetShape
    <3>2. Len(Append(n.q[c], m)) = Len(n.q[c]) + 1 /\ Len(n.q[c]) \in Nat
      BY <3>1, AppendProperties, LenProperties
    <3>. QED
      BY <1>3, <3>2
  <2>. QED
    BY <2>1
<1>7. ASSUME NEW c, NEW i PROVE <<c, i>> \in Waiting(g) <=> <<c, i>> \in Waiting(n) \cup N
  <2>1. <<c, i>> \in N <=> c \in L /\ i = Len(n.q[c]) + 1
    OBVIOUS
  <2>2. CASE c \in L
    <3>1. i \in 1..(Len(n.q[c]) + 1) <=> i \in 1..Len(n.q[c]) \/ i = Len(n.q[c]) + 1
      BY <2>2, <1>6, SMTT(30)
    <3>. QED
      BY <2>1, <2>2, <3>1, <1>4, <1>6, WaitingPairs
  <2>3. CASE c \in Clients \ L
    BY <2>1, <2>3, <1>3, WaitingPairs
  <2>4. CASE c \notin Clients
    BY <2>1, <2>4, <1>4, WaitingPairs
  <2>. QED
    BY <2>2, <2>3, <2>4
<1>8. Waiting(g) = Waiting(n) \cup N
  <2>1. \A z \in N : z = <<z[1], z[2]>>
    OBVIOUS
  <2>2. \A z \in Waiting(g) : z = <<z[1], z[2]>>
    BY WaitingPairs
  <2>3. \A z \in Waiting(n) : z = <<z[1], z[2]>>
    BY WaitingPairs
  <2>4. ASSUME NEW z \in Waiting(g) PROVE z \in Waiting(n) \cup N
    <3>1. <<z[1], z[2]>> \in Waiting(g)
      BY <2>2
    <3>2. <<z[1], z[2]>> \in Waiting(n) \cup N
      BY <3>1, <1>7
    <3>. QED
      BY <3>2, <2>2
  <2>5. ASSUME NEW z \in Waiting(n) \cup N PROVE z \in Waiting(g)
    <3>1. z = <<z[1], z[2]>>
      BY <2>1, <2>3
    <3>2. <<z[1], z[2]>> \in Waiting(n) \cup N
      BY <3>1
    <3>3. <<z[1], z[2]>> \in Waiting(g)
      BY <3>2, <1>7
    <3>. QED
      BY <3>1, <3>3
  <2>. QED
    BY <2>4, <2>5
<1>9. Waiting(n) \cap N = {}
  <2>1. ASSUME NEW c \in L PROVE new[c] \notin Waiting(n)
    <3>1. new[c] = <<c, Len(n.q[c]) + 1>>
      OBVIOUS
    <3>2. Len(n.q[c]) + 1 \notin 1..Len(n.q[c])
      BY <1>6
    <3>. QED
      BY <3>1, <3>2, WaitingPairs
  <2>. QED
    BY <2>1
<1>10. IsFiniteSet(N) /\ Cardinality(N) = Cardinality(L)
  <2>1. new \in [L -> N] /\ \A a, b \in L : new[a] = new[b] => a = b
    OBVIOUS
  <2>2. new \in Bijection(L, N)
    BY <2>1 DEF Bijection, Injection, Surjection, IsInjective
  <2>. QED
    BY <2>2, <1>3, FS_Bijection DEF ExistsBijection
<1>11. Cardinality(Waiting(g)) = Cardinality(Waiting(n)) + Cardinality(N) - Cardinality({})
  BY <1>8, <1>9, <1>10, FinitelyManyWait, FS_Union
<1>12. Cardinality(Waiting(g)) = Cardinality(Waiting(n)) + Cardinality(L)
  BY <1>3, <1>10, <1>11, FinitelyManyWait, FS_EmptySet
<1>13. g.global = l + Cardinality(Waiting(g))
  BY <1>3, <1>12, FinitelyManyWait DEF Honest
<1>. QED
  BY <1>1, <1>5, <1>13 DEF Honest

\* What a writer takes out of its queue is no longer counted among the messages
\* that wait.
LEMMA DequeueShape ==
  ASSUME NEW n \in Net, NEW g, NEW c \in Clients, NEW k \in 0..Len(n.q[c]),
         g.q = [n.q EXCEPT ![c] = SubSeq(n.q[c], k + 1, Len(n.q[c]))]
  PROVE  /\ g.q \in [Clients -> Seq(Messages)]
         /\ \A b \in Clients \ {c} : g.q[b] = n.q[b]
         /\ Len(g.q[c]) = Len(n.q[c]) - k
         /\ \A i \in 1..Len(g.q[c]) : g.q[c][i] = n.q[c][i + k]
         /\ Cardinality(Waiting(n)) \in Nat
         /\ Cardinality(Waiting(g)) = Cardinality(Waiting(n)) - k
         /\ Cardinality(Waiting(g)) \in Nat
<1>1. PICK q : q = n.q[c]
  OBVIOUS
<1>2. q \in Seq(Messages) /\ Len(q) \in Nat /\ k \in Nat /\ k =< Len(q)
  BY <1>1, NetShape
<1>3. PICK r : r = SubSeq(q, k + 1, Len(q))
  OBVIOUS
<1>4. \A i \in (k + 1)..Len(q) : q[i] \in Messages
  BY <1>2, ElementOfSeq
<1>5. r \in Seq(Messages) /\ Len(r) = Len(q) - k /\ \A i \in 1..Len(r) : r[i] = q[i + k]
  BY <1>2, <1>3, <1>4, SubSeqProperties
<1>6. n.q \in [Clients -> Seq(Messages)]
  BY DEF Net
<1>7. g.q = [n.q EXCEPT ![c] = r]
  BY <1>1, <1>3
<1>8. g.q \in [Clients -> Seq(Messages)] /\ g.q[c] = r /\ \A b \in Clients \ {c} : g.q[b] = n.q[b]
  BY <1>5, <1>6, <1>7
<1>. DEFINE O == {c} \X ((Len(q) - k + 1)..Len(q))
<1>9. IsFiniteSet(O) /\ Cardinality(O) = k
  <2>. DEFINE J == (Len(q) - k + 1)..Len(q)
  <2>1. IsFiniteSet(J) /\ Cardinality(J) = k
    <3>1. Len(q) - k + 1 \in Int /\ Len(q) \in Int
      BY <1>2
    <3>2. /\ IsFiniteSet(J)
          /\ Cardinality(J) = IF Len(q) - k + 1 > Len(q) THEN 0 ELSE Len(q) - (Len(q) - k + 1) + 1
      BY <3>1, FS_Interval
    <3>. QED
      BY <3>2, <1>2
  <2>2. IsFiniteSet({c}) /\ Cardinality({c}) = 1
    BY FS_Singleton
  <2>. HIDE DEF J
  <2>3. IsFiniteSet({c} \X J) /\ Cardinality({c} \X J) = Cardinality({c}) * Cardinality(J)
    BY <2>1, <2>2, FS_Product
  <2>. QED
    BY <2>1, <2>2, <2>3, <1>2 DEF J
<1>10. ASSUME NEW b, NEW i PROVE <<b, i>> \in Waiting(g) <=> <<b, i>> \in Waiting(n) \ O
  <2>1. CASE b = c
    <3>1. i \in 1..(Len(q) - k) <=> i \in 1..Len(q) /\ i \notin (Len(q) - k + 1)..Len(q)
      BY <1>2
    <3>. QED
      BY <2>1, <3>1, <1>1, <1>5, <1>8, WaitingPairs
  <2>2. CASE b # c
    BY <2>2, <1>8, WaitingPairs
  <2>. QED
    BY <2>1, <2>2
<1>11. Waiting(g) = Waiting(n) \ O
  <2>1. ASSUME NEW z \in Waiting(g) PROVE z \in Waiting(n) \ O
    <3>1. z = <<z[1], z[2]>>
      BY WaitingPairs
    <3>2. <<z[1], z[2]>> \in Waiting(n) \ O
      BY <3>1, <1>10
    <3>. QED
      BY <3>1, <3>2
  <2>2. ASSUME NEW z \in Waiting(n) \ O PROVE z \in Waiting(g)
    <3>1. z = <<z[1], z[2]>>
      BY WaitingPairs
    <3>2. <<z[1], z[2]>> \in Waiting(g)
      BY <3>1, <1>10
    <3>. QED
      BY <3>1, <3>2
  <2>. QED
    BY <2>1, <2>2
<1>12. Waiting(n) \cap O = O
  <2>1. ASSUME NEW z \in O PROVE z \in Waiting(n)
    <3>1. PICK i \in (Len(q) - k + 1)..Len(q) : z = <<c, i>>
      OBVIOUS
    <3>2. i \in 1..Len(q)
      BY <3>1, <1>2
    <3>. QED
      BY <3>1, <3>2, <1>1, WaitingPairs
  <2>. QED
    BY <2>1
<1>13. IsFiniteSet(Waiting(n)) /\ Cardinality(Waiting(n)) \in Nat
  BY FinitelyManyWait
<1>14. IsFiniteSet(Waiting(g)) /\ Cardinality(Waiting(g)) = Cardinality(Waiting(n)) - k
  <2>. HIDE DEF O
  <2>1. /\ IsFiniteSet(Waiting(n) \ O)
        /\ Cardinality(Waiting(n) \ O) = Cardinality(Waiting(n)) - Cardinality(Waiting(n) \cap O)
    BY <1>13, FS_Difference
  <2>. QED
    BY <2>1, <1>9, <1>11, <1>12
<1>15. Cardinality(Waiting(g)) \in Nat
  BY <1>14, FS_CardinalityType
<1>. QED
  BY <1>1, <1>5, <1>8, <1>13, <1>14, <1>15

-----------------------------------------------------------------------------
(* Evictions.                                                                *)

\* The part of the state that evictions change; the clients of a part that are
\* on their way out.
Pack ==
  [net : Net, cl : [Clients -> Entry], sq : [Sessions -> Seq(ThreadCommands)], out : SUBSET Clients]
Down(n, c) == wr[c] # "runs" \/ \E i \in 1..Len(n.q[c]) : n.q[c][i] = "evicted"

\* y is x after the eviction of the clients of D.
Grown(x, y, D) ==
  /\ y \in Pack /\ y.cl = Removed(x.cl, D) /\ y.out = x.out \cup D
  /\ \A s \in Sessions : Extends(x.sq[s], y.sq[s], {"remove"} \X D)
  /\ \A c \in Clients : Extends(x.net.q[c], y.net.q[c], Messages)
  /\ \A c \in D : Down(y.net, c)
  /\ \A c \in Clients \ D : y.net.q[c] = x.net.q[c]
  /\ \A l \in Nat : Honest(x.net, wr, l) => Honest(y.net, wr, l)

LEMMA PackShape ==
  ASSUME NEW x \in Pack
  PROVE  /\ x.net \in Net /\ x.cl \in [Clients -> Entry] /\ x.out \in SUBSET Clients
         /\ x.sq \in [Sessions -> Seq(ThreadCommands)]
BY DEF Pack

LEMMA RemovedShape ==
  ASSUME NEW cl \in [Clients -> Entry], NEW D \in SUBSET Clients
  PROVE  /\ Removed(cl, D) \in [Clients -> Entry]
         /\ \A c \in Clients : Removed(cl, D)[c] = IF c \in D THEN Absent ELSE cl[c]
<1>1. Absent \in Entry
  <2>1. PICK no \in Flags : no = FALSE
    BY DEF Flags
  <2>2. Absent = [in |-> no, summary |-> no, activity |-> no, sessions |-> {}]
    BY <2>1 DEF Absent
  <2>. QED
    BY <2>2 DEF Entry
<1>. QED
  BY <1>1 DEF Removed

LEMMA RemovedTwice ==
  ASSUME NEW cl, NEW D, NEW E
  PROVE  Removed(Removed(cl, D), E) = Removed(cl, D \cup E)
BY DEF Removed

\* Each session that a client of S is tracked for is told to drop it.
LEMMA ToldShape ==
  ASSUME NEW queues \in [Sessions -> Seq(ThreadCommands)], NEW cl, NEW S \in SUBSET Clients
  PROVE  /\ Told(queues, cl, S) \in [Sessions -> Seq(ThreadCommands)]
         /\ \A s \in Sessions : Extends(queues[s], Told(queues, cl, S)[s], {"remove"} \X S)
<1>1. ASSUME NEW s \in Sessions
      PROVE  /\ Told(queues, cl, S)[s] \in Seq(ThreadCommands)
             /\ Extends(queues[s], Told(queues, cl, S)[s], {"remove"} \X S)
  <2>. DEFINE B == {b \in S : s \in cl[b].sessions}
              f == [c \in B |-> <<"remove", c>>]
              C == {<<"remove", c>> : c \in B}
  <2>1. IsFiniteSet(B)
    BY ClientsAssumption, FS_Subset
  <2>2. f \in Surjection(B, C)
    BY DEF Surjection
  <2>3. IsFiniteSet(C)
    BY <2>1, <2>2, FS_Surjection
  <2>4. SetToSeq(C) \in Seq(C)
    BY <2>3, SetInOrder
  <2>5. C \subseteq {"remove"} \X S /\ {"remove"} \X S \in SUBSET ThreadCommands
    BY DEF ThreadCommands
  <2>6. SetToSeq(C) \in Seq({"remove"} \X S)
    BY <2>4, <2>5, SeqMonotonic
  <2>7. Told(queues, cl, S)[s] = queues[s] \o SetToSeq(C)
    BY DEF Told
  <2>. QED
    BY <2>5, <2>6, <2>7, ConcatExtends
<1>2. Told(queues, cl, S) = [s \in Sessions |-> Told(queues, cl, S)[s]]
  BY DEF Told
<1>. QED
  BY <1>1, <1>2

LEMMA EvictGrows ==
  ASSUME NEW x \in Pack, NEW S \in SUBSET Clients
  PROVE  Grown(x, Evict(x, S), {c \in S : x.cl[c].in})
<1>1. PICK D \in SUBSET Clients : D = {c \in S : x.cl[c].in}
  OBVIOUS
<1>2. PICK y : y = Evict(x, S)
  OBVIOUS
<1>3. y = [net |-> Push(x.net, D, "evicted"), cl |-> Removed(x.cl, D),
           sq |-> Told(x.sq, x.cl, D), out |-> x.out \cup D]
  BY <1>1, <1>2 DEF Evict
<1>4. /\ x.net \in Net /\ x.cl \in [Clients -> Entry] /\ x.out \in SUBSET Clients
      /\ x.sq \in [Sessions -> Seq(ThreadCommands)] /\ "evicted" \in Messages
  BY PackShape DEF Messages
<1>5. PICK g : g = Push(x.net, D, "evicted")
  OBVIOUS
<1>6. /\ g \in Net
      /\ \A c \in Clients \ Live(D) : g.q[c] = x.net.q[c]
      /\ \A c \in Live(D) : g.q[c] = Append(x.net.q[c], "evicted")
  BY <1>4, <1>5, PushShape
<1>7. y.net = g /\ y.cl = Removed(x.cl, D) /\ y.sq = Told(x.sq, x.cl, D) /\ y.out = x.out \cup D
  BY <1>3, <1>5
<1>8. y \in Pack
  <2>1. y.cl \in [Clients -> Entry]
    BY <1>4, <1>7, RemovedShape
  <2>2. y.sq \in [Sessions -> Seq(ThreadCommands)]
    <3>1. PICK queues : queues = x.sq
      OBVIOUS
    <3>2. Told(queues, x.cl, D) \in [Sessions -> Seq(ThreadCommands)]
      BY <1>4, <3>1, ToldShape
    <3>. QED
      BY <1>7, <3>1, <3>2
  <2>3. y = [net |-> y.net, cl |-> y.cl, sq |-> y.sq, out |-> y.out]
    BY <1>3
  <2>4. y.net \in Net /\ y.out \in SUBSET Clients
    BY <1>4, <1>6, <1>7
  <2>. QED
    BY <2>1, <2>2, <2>3, <2>4 DEF Pack
<1>9. \A s \in Sessions : Extends(x.sq[s], y.sq[s], {"remove"} \X D)
  BY <1>4, <1>7, ToldShape
<1>10. ASSUME NEW c \in Clients
       PROVE  /\ Extends(x.net.q[c], g.q[c], Messages)
              /\ c \in D => Down(g, c)
              /\ c \notin D => g.q[c] = x.net.q[c]
  <2>1. x.net.q[c] \in Seq(Messages) /\ Len(x.net.q[c]) \in Nat
    BY <1>4, NetShape
  <2>2. CASE c \in Live(D)
    <3>0. PICK q : q = x.net.q[c]
      OBVIOUS
    <3>1. /\ Extends(q, g.q[c], {"evicted"}) /\ Len(g.q[c]) = Len(q) + 1
          /\ g.q[c][Len(q) + 1] = "evicted"
      <4>1. g.q[c] = Append(q, "evicted") /\ q \in Seq(Messages)
        BY <2>1, <2>2, <3>0, <1>6
      <4>. QED
        BY <4>1, <1>4, AppendExtends
    <3>2. Extends(x.net.q[c], g.q[c], Messages)
      BY <3>0, <3>1, <1>4 DEF Extends
    <3>3. Len(q) + 1 \in 1..Len(g.q[c])
      BY <3>0, <3>1, <2>1
    <3>4. Down(g, c)
      BY <3>1, <3>3 DEF Down
    <3>. QED
      BY <2>2, <3>2, <3>4 DEF Live
  <2>3. CASE c \notin Live(D)
    <3>1. g.q[c] = x.net.q[c]
      BY <2>3, <1>6
    <3>2. Extends(x.net.q[c], g.q[c], Messages)
      BY <3>1, <2>1, ExtendsItself
    <3>3. c \in D => wr[c] = "gone"
      BY <2>3 DEF Live
    <3>. QED
      BY <3>1, <3>2, <3>3 DEF Down
  <2>. QED
    BY <2>2, <2>3
<1>11. \A l \in Nat : Honest(x.net, wr, l) => Honest(g, wr, l)
  BY <1>4, <1>5, PushHonest
<1>12. Grown(x, y, D)
  BY <1>7, <1>8, <1>9, <1>10, <1>11 DEF Grown
<1>. QED
  BY <1>1, <1>2, <1>12

LEMMA GrownTwice ==
  ASSUME NEW x \in Pack, NEW y \in Pack, NEW z \in Pack, NEW D \in SUBSET Clients, NEW E \in SUBSET Clients,
         Grown(x, y, D), Grown(y, z, E)
  PROVE  Grown(x, z, D \cup E)
<1>1. z.cl = Removed(x.cl, D \cup E) /\ z.out = x.out \cup (D \cup E)
  BY RemovedTwice DEF Grown
<1>2. ASSUME NEW s \in Sessions PROVE Extends(x.sq[s], z.sq[s], {"remove"} \X (D \cup E))
  <2>1. /\ x.sq[s] \in Seq(ThreadCommands) /\ y.sq[s] \in Seq(ThreadCommands)
        /\ z.sq[s] \in Seq(ThreadCommands)
    BY PackShape
  <2>2. Extends(x.sq[s], y.sq[s], {"remove"} \X D) /\ Extends(y.sq[s], z.sq[s], {"remove"} \X E)
    BY DEF Grown
  <2>3. Extends(x.sq[s], z.sq[s], ({"remove"} \X D) \cup ({"remove"} \X E))
    BY <2>1, <2>2, ExtendsTwice
  <2>4. ({"remove"} \X D) \cup ({"remove"} \X E) = {"remove"} \X (D \cup E)
    OBVIOUS
  <2>. QED
    BY <2>3, <2>4
<1>3. ASSUME NEW c \in Clients
      PROVE  /\ Extends(x.net.q[c], z.net.q[c], Messages)
             /\ c \in D \cup E => Down(z.net, c)
             /\ c \notin D \cup E => z.net.q[c] = x.net.q[c]
  <2>1. /\ x.net.q[c] \in Seq(Messages) /\ y.net.q[c] \in Seq(Messages)
        /\ z.net.q[c] \in Seq(Messages)
    BY PackShape, NetShape
  <2>2. Extends(x.net.q[c], y.net.q[c], Messages) /\ Extends(y.net.q[c], z.net.q[c], Messages)
    BY DEF Grown
  <2>3. Extends(x.net.q[c], z.net.q[c], Messages \cup Messages)
    BY <2>1, <2>2, ExtendsTwice
  <2>4. ASSUME c \in D PROVE Down(z.net, c)
    <3>1. Down(y.net, c)
      BY <2>4 DEF Grown
    <3>2. Len(y.net.q[c]) \in Nat /\ Len(z.net.q[c]) \in Nat
      BY <2>1, LenProperties
    <3>3. \A i \in 1..Len(y.net.q[c]) : i \in 1..Len(z.net.q[c]) /\ z.net.q[c][i] = y.net.q[c][i]
      BY <2>2, <3>2 DEF Extends
    <3>. QED
      BY <3>1, <3>3 DEF Down
  <2>5. c \in E => Down(z.net, c)
    BY DEF Grown
  <2>6. c \notin D \cup E => z.net.q[c] = x.net.q[c]
    BY DEF Grown
  <2>. QED
    BY <2>3, <2>4, <2>5, <2>6
<1>4. \A l \in Nat : Honest(x.net, wr, l) => Honest(z.net, wr, l)
  BY DEF Grown
<1>. QED
  BY <1>1, <1>2, <1>3, <1>4 DEF Grown

LEMMA NothingGrows ==
  ASSUME NEW x \in Pack
  PROVE  Grown(x, x, {})
<1>1. x.cl = Removed(x.cl, {})
  BY PackShape DEF Removed
<1>2. \A s \in Sessions : Extends(x.sq[s], x.sq[s], {"remove"} \X {})
  BY PackShape, ExtendsItself
<1>3. \A c \in Clients : Extends(x.net.q[c], x.net.q[c], Messages)
  BY PackShape, NetShape, ExtendsItself
<1>. QED
  BY <1>1, <1>2, <1>3 DEF Grown

LEMMA LargestGrows ==
  ASSUME NEW x \in Pack, NEW y \in EvictLargest(x)
  PROVE  \E D \in SUBSET Clients : Grown(x, y, D)
<1>1. CASE Largest(x) = {}
  <2>1. y = x
    BY <1>1 DEF EvictLargest
  <2>. QED
    BY <2>1, NothingGrows
<1>2. CASE Largest(x) # {}
  <2>1. PICK c \in Largest(x) : y = Evict(x, {c})
    BY <1>2 DEF EvictLargest
  <2>2. {c} \in SUBSET Clients
    BY DEF Largest
  <2>3. PICK D \in SUBSET Clients : D = {b \in {c} : x.cl[b].in}
    BY <2>2
  <2>4. Grown(x, y, D)
    BY <2>1, <2>2, <2>3, EvictGrows
  <2>. QED
    BY <2>4
<1>. QED
  BY <1>1, <1>2

LEMMA FinishedGrows ==
  ASSUME NEW x \in Pack, NEW S \in SUBSET Clients, NEW big, NEW y \in Finished(x, S, big)
  PROVE  \E D \in SUBSET Clients : Grown(x, y, D) /\ \A c \in S : x.cl[c].in => c \in D
<1>1. PICK D \in SUBSET Clients : D = {c \in S : x.cl[c].in}
  OBVIOUS
<1>2. PICK z : z = Evict(x, S)
  OBVIOUS
<1>3. Grown(x, z, D)
  BY <1>1, <1>2, EvictGrows
<1>4. z \in Pack
  BY <1>3 DEF Grown
<1>5. y = z \/ y \in EvictLargest(z)
  BY <1>2 DEF Finished
<1>6. CASE y = z
  BY <1>1, <1>3, <1>6
<1>7. CASE y \in EvictLargest(z)
  <2>1. PICK E \in SUBSET Clients : Grown(z, y, E)
    BY <1>4, <1>7, LargestGrows
  <2>2. y \in Pack
    BY <2>1 DEF Grown
  <2>3. Grown(x, y, D \cup E)
    BY <1>3, <1>4, <2>1, <2>2, GrownTwice
  <2>4. D \cup E \in SUBSET Clients /\ \A c \in S : x.cl[c].in => c \in D \cup E
    BY <1>1
  <2>. QED
    BY <2>3, <2>4
<1>. QED
  BY <1>5, <1>6, <1>7

-----------------------------------------------------------------------------
(* The history.                                                              *)

Table == [Clients -> [Events -> Copies]]

LEMMA CopiedShape ==
  ASSUME NEW k \in Table, NEW S, NEW e \in Events
  PROVE  /\ Copied(k, S, e) \in Table
         /\ \A c \in Clients, f \in Events : Copied(k, S, e)[c][f] =
              IF c \in Live(S) /\ f = e /\ k[c][e] # Unwatched THEN k[c][e] + 1 ELSE k[c][f]
<1>1. PICK g : g = Copied(k, S, e)
  OBVIOUS
<1>2. PICK L : L = Live(S)
  OBVIOUS
<1>3. g = [c \in Clients |->
             IF c \in L /\ k[c][e] # Unwatched THEN [k[c] EXCEPT ![e] = k[c][e] + 1] ELSE k[c]]
  BY <1>1, <1>2 DEF Copied
<1>4. ASSUME NEW c \in Clients
      PROVE  /\ g[c] \in [Events -> Copies]
             /\ \A f \in Events :
                  g[c][f] = IF c \in L /\ f = e /\ k[c][e] # Unwatched THEN k[c][e] + 1 ELSE k[c][f]
  <2>1. k[c] \in [Events -> Copies] /\ k[c][e] \in Copies
    BY DEF Table
  <2>2. k[c][e] + 1 \in Copies
    BY <2>1 DEF Copies, Unwatched
  <2>3. g[c] = IF c \in L /\ k[c][e] # Unwatched THEN [k[c] EXCEPT ![e] = k[c][e] + 1] ELSE k[c]
    BY <1>3
  <2>. QED
    BY <2>1, <2>2, <2>3
<1>5. g \in Table
  BY <1>3, <1>4 DEF Table
<1>. QED
  BY <1>1, <1>2, <1>4, <1>5

LEMMA WatchedShape ==
  ASSUME NEW k \in Table, NEW e \in Events
  PROVE  /\ Watched(k, e) \in Table
         /\ \A c \in Clients, f \in Events : Watched(k, e)[c][f] =
              IF f = e /\ clients[c].in /\ ~GoingDown(c) THEN 0 ELSE k[c][f]
<1>1. PICK g : g = Watched(k, e)
  OBVIOUS
<1>2. PICK U : U = {c \in Clients : clients[c].in /\ ~GoingDown(c)}
  OBVIOUS
<1>3. g = [c \in Clients |-> IF c \in U THEN [k[c] EXCEPT ![e] = 0] ELSE k[c]]
  BY <1>1, <1>2 DEF Watched
<1>4. ASSUME NEW c \in Clients
      PROVE  /\ g[c] \in [Events -> Copies]
             /\ \A f \in Events : g[c][f] = IF f = e /\ c \in U THEN 0 ELSE k[c][f]
  <2>1. k[c] \in [Events -> Copies]
    BY DEF Table
  <2>2. 0 \in Copies
    BY DEF Copies
  <2>3. g[c] = IF c \in U THEN [k[c] EXCEPT ![e] = 0] ELSE k[c]
    BY <1>3
  <2>. QED
    BY <2>1, <2>2, <2>3
<1>5. g \in Table
  BY <1>3, <1>4 DEF Table
<1>6. \A c \in Clients : c \in U <=> clients[c].in /\ ~GoingDown(c)
  BY <1>2
<1>. QED
  BY <1>1, <1>4, <1>5, <1>6

LEMMA ChangedShape ==
  ASSUME NEW k \in Table, NEW S
  PROVE  /\ Changed(k, S) \in Table
         /\ \A c \in Clients, f \in Events : Changed(k, S)[c][f] = IF c \in S THEN Unwatched ELSE k[c][f]
<1>1. \A c \in Clients : k[c] \in [Events -> Copies]
  BY DEF Table
<1>2. Unwatched \in Copies
  BY DEF Copies
<1>. QED
  BY <1>1, <1>2 DEF Changed, Table

LEMMA PastFields ==
  ASSUME h \in Past
  PROVE  h.copies \in Table /\ h.over \in SUBSET Clients /\ h.lost \in Nat
BY DEF Past, Table

LEMMA PastCopies ==
  ASSUME NEW k \in Table, h \in Past, h' = [h EXCEPT !.copies = k]
  PROVE  h' \in Past /\ h'.copies = k /\ h'.over = h.over /\ h'.lost = h.lost
BY DEF Past, Table

LEMMA PastCopiesOver ==
  ASSUME NEW k \in Table, NEW O \in SUBSET Clients, h \in Past,
         h' = [h EXCEPT !.copies = k, !.over = O]
  PROVE  h' \in Past /\ h'.copies = k /\ h'.over = O /\ h'.lost = h.lost
BY DEF Past, Table

LEMMA PastLost ==
  ASSUME NEW l \in Nat, h \in Past, h' = [h EXCEPT !.lost = l]
  PROVE  h' \in Past /\ h'.copies = h.copies /\ h'.over = h.over /\ h'.lost = l
BY DEF Past, Table

-----------------------------------------------------------------------------
(* What a fan-out or an eviction of the command loop changes.                *)

LoopStep(D) ==
  /\ net' \in Net /\ clients' = Removed(clients, D) /\ sq' \in [Sessions -> Seq(ThreadCommands)]
  /\ \A s \in Sessions : Extends(sq[s], sq'[s], {"remove"} \X D)
  /\ \A c \in Clients : Extends(net.q[c], net'.q[c], Messages)
  /\ \A c \in D : Down(net', c)
  /\ \A c \in Clients \ D : Down(net', c) => Down(net, c)
  /\ \A l \in Nat : Honest(net, wr, l) => Honest(net', wr, l)

LEMMA FanOutStep ==
  ASSUME Shapes, NEW S \in SUBSET Clients, NEW e \in Events, \A c \in S : clients[c].in, LoopFansOut(S, e)
  PROVE  \E D \in SUBSET Clients :
           /\ LoopStep(D) /\ S \ Live(S) \subseteq D
           /\ h' \in Past /\ h'.copies = Changed(Copied(h.copies, S, e), D) /\ h'.lost = h.lost
           /\ h'.over \subseteq h.over \cup D
<1>1. /\ net \in Net /\ clients \in [Clients -> Entry] /\ sq \in [Sessions -> Seq(ThreadCommands)]
      /\ h \in Past /\ wr \in [Clients -> Writers]
  BY DEF Shapes
<1>2. PICK n : n = Push(net, S, "other")
  OBVIOUS
<1>3. PICK dead \in SUBSET Clients : dead = S \ Live(S)
  OBVIOUS
<1>4. PICK x : x = [net |-> n, cl |-> Removed(clients, dead), sq |-> sq, out |-> {}]
  OBVIOUS
<1>5. PICK O \in SUBSET Clients : O = OverLag(n, S)
  BY DEF OverLag, Live
<1>6. PICK big : \E y \in Finished(x, O, big) :
        /\ Becomes(y)
        /\ h' = [h EXCEPT !.copies = Changed(Copied(h.copies, S, e), dead \cup y.out),
                          !.over = h.over \cup Up(O)]
  BY <1>2, <1>3, <1>4, <1>5 DEF LoopFansOut
<1>7. PICK y \in Finished(x, O, big) :
        /\ Becomes(y)
        /\ h' = [h EXCEPT !.copies = Changed(Copied(h.copies, S, e), dead \cup y.out),
                          !.over = h.over \cup Up(O)]
  BY <1>6
<1>8. /\ "other" \in Messages /\ n \in Net
      /\ \A c \in Clients \ Live(S) : n.q[c] = net.q[c]
      /\ \A c \in Live(S) : n.q[c] = Append(net.q[c], "other")
  BY <1>1, <1>2, PushShape DEF Messages
<1>9. x.net = n /\ x.cl = Removed(clients, dead) /\ x.sq = sq /\ x.out = {}
  BY <1>4
<1>10. x \in Pack
  <2>1. Removed(clients, dead) \in [Clients -> Entry]
    BY <1>1, RemovedShape
  <2>. QED
    BY <2>1, <1>1, <1>4, <1>8 DEF Pack
<1>11. PICK E \in SUBSET Clients : Grown(x, y, E) /\ \A c \in O : x.cl[c].in => c \in E
  BY <1>7, <1>10, FinishedGrows
<1>12. PICK D \in SUBSET Clients : D = dead \cup E
  OBVIOUS
<1>13. y \in Pack /\ y.out = E
  BY <1>9, <1>11 DEF Grown
<1>14. O \subseteq D
  <2>1. ASSUME NEW c \in O PROVE c \in E
    <3>1. c \in S /\ c \in Live(S) /\ c \in Clients /\ c \notin dead
      BY <1>3, <1>5 DEF OverLag, Live
    <3>2. x.cl[c] = clients[c]
      BY <3>1, <1>1, <1>9, RemovedShape
    <3>. QED
      BY <3>1, <3>2, <1>11
  <2>. QED
    BY <2>1, <1>12
<1>15. /\ net' = y.net /\ clients' = y.cl /\ sq' = y.sq /\ net' \in Net
       /\ sq' \in [Sessions -> Seq(ThreadCommands)]
  BY <1>7, <1>13, PackShape DEF Becomes
<1>16. clients' = Removed(clients, D)
  BY <1>9, <1>11, <1>12, <1>15, RemovedTwice DEF Grown
<1>17. ASSUME NEW s \in Sessions PROVE Extends(sq[s], sq'[s], {"remove"} \X D)
  <2>1. Extends(sq[s], sq'[s], {"remove"} \X E)
    BY <1>9, <1>11, <1>15 DEF Grown
  <2>2. {"remove"} \X E \subseteq {"remove"} \X D
    BY <1>12
  <2>. QED
    BY <2>1, <2>2 DEF Extends
<1>18. ASSUME NEW c \in Clients
       PROVE  /\ Extends(net.q[c], net'.q[c], Messages)
              /\ c \in D => Down(net', c)
              /\ c \notin D => (Down(net', c) => Down(net, c))
  <2>1. net.q[c] \in Seq(Messages) /\ n.q[c] \in Seq(Messages) /\ net'.q[c] \in Seq(Messages)
    BY <1>1, <1>8, <1>15, NetShape
  <2>2. Len(net.q[c]) \in Nat /\ Len(n.q[c]) \in Nat
    BY <2>1, LenProperties
  <2>3. Extends(net.q[c], n.q[c], {"other"})
    <3>1. CASE c \in Live(S)
      <4>1. n.q[c] = Append(net.q[c], "other")
        BY <3>1, <1>8
      <4>. QED
        BY <4>1, <2>1, <1>8, AppendExtends
    <3>2. CASE c \notin Live(S)
      BY <3>2, <2>1, <1>8, ExtendsItself
    <3>. QED
      BY <3>1, <3>2
  <2>4. Extends(n.q[c], net'.q[c], Messages)
    BY <1>9, <1>11, <1>15 DEF Grown
  <2>5. Extends(net.q[c], net'.q[c], {"other"} \cup Messages)
    BY <2>1, <2>3, <2>4, ExtendsTwice
  <2>6. {"other"} \cup Messages = Messages
    BY <1>8
  <2>7. ASSUME c \in D PROVE Down(net', c)
    <3>1. c \in dead => wr[c] = "gone"
      BY <1>3 DEF Live
    <3>2. c \in E => Down(net', c)
      BY <1>11, <1>15 DEF Grown
    <3>. QED
      BY <2>7, <3>1, <3>2, <1>12 DEF Down
  <2>8. ASSUME c \notin D, Down(net', c) PROVE Down(net, c)
    <3>1. net'.q[c] = n.q[c]
      BY <2>8, <1>9, <1>11, <1>12, <1>15 DEF Grown
    <3>2. ASSUME NEW i \in 1..Len(n.q[c]), n.q[c][i] = "evicted"
          PROVE  i \in 1..Len(net.q[c]) /\ net.q[c][i] = "evicted"
      BY <2>2, <2>3, <3>2 DEF Extends
    <3>. QED
      BY <2>8, <3>1, <3>2 DEF Down
  <2>. QED
    BY <2>5, <2>6, <2>7, <2>8
<1>19. ASSUME NEW l \in Nat, Honest(net, wr, l) PROVE Honest(net', wr, l)
  <2>1. Honest(n, wr, l)
    BY <1>1, <1>2, <1>8, <1>19, PushHonest
  <2>. QED
    BY <2>1, <1>9, <1>11, <1>15 DEF Grown
<1>20. LoopStep(D)
  BY <1>15, <1>16, <1>17, <1>18, <1>19 DEF LoopStep
<1>21. PICK k : k = Changed(Copied(h.copies, S, e), D)
  OBVIOUS
<1>22. k \in Table
  <2>1. h.copies \in Table
    BY <1>1 DEF Past, Table
  <2>. QED
    BY <2>1, <1>21, CopiedShape, ChangedShape
<1>23. PICK V \in SUBSET Clients : V = h.over \cup Up(O)
  BY <1>1 DEF Past, Up
<1>24. h' = [h EXCEPT !.copies = k, !.over = V]
  BY <1>7, <1>12, <1>13, <1>21, <1>23
<1>25. h' \in Past /\ h'.copies = k /\ h'.over = V /\ h'.lost = h.lost
  BY <1>1, <1>22, <1>24, PastCopiesOver
<1>26. V \subseteq h.over \cup D
  BY <1>14, <1>23 DEF Up
<1>27. S \ Live(S) \subseteq D
  BY <1>3, <1>12
<1>. QED
  BY <1>20, <1>21, <1>25, <1>26, <1>27

LEMMA EvictStep ==
  ASSUME Shapes, HandleEvict
  PROVE  \E D \in SUBSET Clients :
           /\ LoopStep(D)
           /\ \A c \in Clients : Head(dq) = <<"evict", c>> /\ clients[c].in => c \in D
           /\ h' \in Past /\ h'.copies = Changed(h.copies, D) /\ h'.lost = h.lost /\ h'.over = h.over
<1>1. /\ net \in Net /\ clients \in [Clients -> Entry] /\ sq \in [Sessions -> Seq(ThreadCommands)]
      /\ h \in Past /\ wr \in [Clients -> Writers] /\ dq \in Seq(LoopCommands)
  BY DEF Shapes
<1>2. dq # <<>> /\ Head(dq)[1] \in {"evict", "largest"}
  BY DEF HandleEvict, Command
<1>3. Head(dq) \in LoopCommands
  BY <1>1, <1>2, TailShifts
<1>4. PICK x : x = [net |-> net, cl |-> clients, sq |-> sq, out |-> {}]
  OBVIOUS
<1>5. x \in Pack /\ x.net = net /\ x.cl = clients /\ x.sq = sq /\ x.out = {}
  BY <1>1, <1>4 DEF Pack
<1>6. PICK y \in IF Head(dq)[1] = "evict" THEN {Evict(x, {Head(dq)[2]})} ELSE EvictLargest(x) :
        Becomes(y) /\ h' = [h EXCEPT !.copies = Changed(h.copies, y.out)]
  BY <1>4 DEF HandleEvict
<1>7. \E D \in SUBSET Clients :
        Grown(x, y, D) /\ \A c \in Clients : Head(dq) = <<"evict", c>> /\ clients[c].in => c \in D
  <2>1. CASE Head(dq)[1] = "evict"
    <3>1. PICK b \in Clients : Head(dq) = <<"evict", b>>
      BY <2>1, <1>3 DEF LoopCommands
    <3>2. y = Evict(x, {b})
      BY <2>1, <3>1, <1>6
    <3>3. PICK D \in SUBSET Clients : D = {c \in {b} : x.cl[c].in}
      OBVIOUS
    <3>4. Grown(x, y, D)
      BY <3>2, <3>3, <1>5, EvictGrows
    <3>5. \A c \in Clients : Head(dq) = <<"evict", c>> /\ clients[c].in => c \in D
      BY <3>1, <3>3, <1>5
    <3>. QED
      BY <3>4, <3>5
  <2>2. CASE Head(dq)[1] # "evict"
    <3>1. PICK D \in SUBSET Clients : Grown(x, y, D)
      BY <2>2, <1>5, <1>6, LargestGrows
    <3>2. \A c \in Clients : Head(dq) # <<"evict", c>>
      BY <2>2
    <3>. QED
      BY <3>1, <3>2
  <2>. QED
    BY <2>1, <2>2
<1>8. PICK D \in SUBSET Clients :
        Grown(x, y, D) /\ \A c \in Clients : Head(dq) = <<"evict", c>> /\ clients[c].in => c \in D
  BY <1>7
<1>9. y \in Pack /\ y.out = D
  BY <1>5, <1>8 DEF Grown
<1>10. /\ net' = y.net /\ clients' = y.cl /\ sq' = y.sq /\ net' \in Net
       /\ sq' \in [Sessions -> Seq(ThreadCommands)]
  BY <1>6, <1>9, PackShape DEF Becomes
<1>11. \A c \in Clients \ D : Down(net', c) => Down(net, c)
  BY <1>5, <1>8, <1>10 DEF Grown, Down
<1>12. LoopStep(D)
  BY <1>5, <1>8, <1>10, <1>11 DEF LoopStep, Grown
<1>13. PICK k : k = Changed(h.copies, D)
  OBVIOUS
<1>14. k \in Table
  BY <1>1, <1>13, PastFields, ChangedShape
<1>15. h' \in Past /\ h'.copies = k /\ h'.over = h.over /\ h'.lost = h.lost
  BY <1>1, <1>6, <1>9, <1>13, <1>14, PastCopies
<1>. QED
  BY <1>8, <1>12, <1>13, <1>15

-----------------------------------------------------------------------------
(* The commands.                                                             *)

LEMMA LoopForms ==
  ASSUME NEW m \in LoopCommands
  PROVE  /\ m[1] \in {"activity", "status"} => m[2] \in Events /\ m = <<m[1], m[2]>>
         /\ m[1] \in {"evict", "disconnected"} => m[2] \in Clients /\ m = <<m[1], m[2]>>
         /\ m[1] \in {"track", "untrack"} =>
              m[2] \in Clients /\ m[3] \in Sessions /\ m = <<m[1], m[2], m[3]>>
         /\ m[1] \in {"subscribe", "unsubscribe"} =>
              m[2] \in Clients /\ m[3] \in {"activity", "summary"} /\ m = <<m[1], m[2], m[3]>>
BY DEF LoopCommands

LEMMA ThreadForms ==
  ASSUME NEW m \in ThreadCommands
  PROVE  m[1] \in {"attach", "detach", "remove"} /\ m[2] \in Clients /\ m = <<m[1], m[2]>>
BY DEF ThreadCommands

LEMMA LoopMembers ==
  /\ \A e \in Events : <<"activity", e>> \in LoopCommands /\ <<"status", e>> \in LoopCommands
  /\ \A c \in Clients : <<"evict", c>> \in LoopCommands /\ <<"disconnected", c>> \in LoopCommands
  /\ <<"largest">> \in LoopCommands
  /\ \A c \in Clients, s \in Sessions :
       <<"track", c, s>> \in LoopCommands /\ <<"untrack", c, s>> \in LoopCommands
  /\ \A c \in Clients, k \in {"subscribe", "unsubscribe"}, w \in {"activity", "summary"} :
       <<k, c, w>> \in LoopCommands
BY DEF LoopCommands

LEMMA ThreadMembers ==
  \A c \in Clients, k \in {"attach", "detach", "remove"} : <<k, c>> \in ThreadCommands
BY DEF ThreadCommands

\* The command that the loop, or a session thread, takes.
LEMMA LoopTakes ==
  ASSUME Shapes, NEW kind, Command(kind)
  PROVE  /\ dq' \in Seq(LoopCommands) /\ Shifts(dq, dq')
         /\ Head(dq) = dq[1] /\ Head(dq) \in LoopCommands /\ dq[1][1] = kind
         /\ Len(dq) \in Nat \ {0} /\ Len(dq') \in Nat
<1>1. dq \in Seq(LoopCommands) /\ dq # <<>> /\ Head(dq)[1] = kind /\ dq' = Tail(dq)
  BY DEF Shapes, Command
<1>2. PICK q : q = Tail(dq)
  OBVIOUS
<1>3. q \in Seq(LoopCommands) /\ Shifts(dq, q) /\ Head(dq) = dq[1] /\ Head(dq) \in LoopCommands
  BY <1>1, <1>2, TailShifts
<1>4. Len(dq) \in Nat \ {0} /\ Len(q) \in Nat
  BY <1>1, <1>3, TailShifts, LenProperties
<1>. QED
  BY <1>1, <1>2, <1>3, <1>4

LEMMA ThreadTakes ==
  ASSUME Shapes, NEW s \in Sessions, NEW kind, Takes(s, kind)
  PROVE  /\ sq' \in [Sessions -> Seq(ThreadCommands)] /\ Shifts(sq[s], sq'[s])
         /\ \A t \in Sessions \ {s} : sq'[t] = sq[t]
         /\ Head(sq[s]) = sq[s][1] /\ Head(sq[s]) \in ThreadCommands /\ sq[s][1][1] = kind
         /\ Len(sq[s]) \in Nat \ {0}
<1>1. /\ sq \in [Sessions -> Seq(ThreadCommands)] /\ sq[s] # <<>> /\ Head(sq[s])[1] = kind
      /\ sq' = [sq EXCEPT ![s] = Tail(sq[s])]
  BY DEF Shapes, Takes
<1>2. PICK q : q = sq[s]
  OBVIOUS
<1>3. PICK r : r = Tail(q)
  OBVIOUS
<1>4. q \in Seq(ThreadCommands)
  BY <1>1, <1>2
<1>5. /\ r \in Seq(ThreadCommands) /\ Shifts(q, r) /\ Head(q) = q[1] /\ Head(q) \in ThreadCommands
      /\ Len(q) \in Nat \ {0}
  BY <1>1, <1>2, <1>3, <1>4, TailShifts
<1>6. sq' = [sq EXCEPT ![s] = r]
  BY <1>1, <1>2, <1>3
<1>7. sq' \in [Sessions -> Seq(ThreadCommands)] /\ sq'[s] = r /\ \A t \in Sessions \ {s} : sq'[t] = sq[t]
  BY <1>1, <1>5, <1>6
<1>. QED
  BY <1>1, <1>2, <1>5, <1>7

-----------------------------------------------------------------------------
(* The counters.                                                             *)

\* The queues grow by messages that evict nobody, and the counters with them.
NetStep ==
  /\ net' \in Net /\ wr' = wr
  /\ \A c \in Clients : Extends(net.q[c], net'.q[c], {"other", "image"})
  /\ \A l \in Nat : Honest(net, wr, l) => Honest(net', wr, l)

LEMMA StillStep ==
  ASSUME Shapes, net' = net, wr' = wr
  PROVE  NetStep
<1>1. net \in Net
  BY DEF Shapes
<1>2. \A c \in Clients : Extends(net.q[c], net.q[c], {"other", "image"})
  BY <1>1, NetShape, ExtendsItself
<1>. QED
  BY <1>1, <1>2 DEF NetStep

LEMMA PushExtends ==
  ASSUME NEW n \in Net, NEW S \in SUBSET Clients, NEW m \in {"other", "image"}, NEW c \in Clients
  PROVE  Extends(n.q[c], Push(n, S, m).q[c], {"other", "image"})
<1>1. m \in Messages
  BY DEF Messages
<1>2. PICK q : q = n.q[c]
  OBVIOUS
<1>3. q \in Seq(Messages)
  BY <1>2, NetShape
<1>4. CASE c \in Live(S)
  <2>1. Push(n, S, m).q[c] = Append(q, m)
    BY <1>1, <1>2, <1>4, PushShape
  <2>2. Extends(q, Append(q, m), {m})
    BY <1>1, <1>3, AppendExtends
  <2>3. Extends(q, Append(q, m), {"other", "image"})
    BY <2>2 DEF Extends
  <2>. QED
    BY <1>2, <2>1, <2>3
<1>5. CASE c \notin Live(S)
  <2>1. Push(n, S, m).q[c] = q
    BY <1>1, <1>2, <1>5, PushShape
  <2>. QED
    BY <1>2, <1>3, <2>1, ExtendsItself
<1>. QED
  BY <1>4, <1>5

LEMMA PushStep ==
  ASSUME Shapes, NEW S \in SUBSET Clients, NEW m \in {"other", "image"},
         net' = Push(net, S, m), wr' = wr
  PROVE  NetStep
<1>1. net \in Net /\ m \in Messages
  BY DEF Shapes, Messages
<1>2. net' \in Net
  BY <1>1, PushShape
<1>3. \A c \in Clients : Extends(net.q[c], net'.q[c], {"other", "image"})
  BY <1>1, PushExtends
<1>4. \A l \in Nat : Honest(net, wr, l) => Honest(net', wr, l)
  BY <1>1, PushHonest
<1>. QED
  BY <1>2, <1>3, <1>4 DEF NetStep

LEMMA TwoPushesStep ==
  ASSUME Shapes, NEW S \in SUBSET Clients,
         net' = Push(Push(net, S, "other"), S, "other"), wr' = wr
  PROVE  NetStep
<1>1. net \in Net /\ "other" \in Messages
  BY DEF Shapes, Messages
<1>2. PICK n : n = Push(net, S, "other")
  OBVIOUS
<1>3. n \in Net /\ net' = Push(n, S, "other")
  BY <1>1, <1>2, PushShape
<1>4. net' \in Net
  BY <1>1, <1>3, PushShape
<1>5. ASSUME NEW c \in Clients PROVE Extends(net.q[c], net'.q[c], {"other", "image"})
  <2>1. Extends(net.q[c], n.q[c], {"other", "image"}) /\ Extends(n.q[c], net'.q[c], {"other", "image"})
    BY <1>1, <1>2, <1>3, PushExtends
  <2>2. net.q[c] \in Seq(Messages) /\ n.q[c] \in Seq(Messages) /\ net'.q[c] \in Seq(Messages)
    BY <1>1, <1>3, <1>4, NetShape
  <2>3. Extends(net.q[c], net'.q[c], {"other", "image"} \cup {"other", "image"})
    BY <2>1, <2>2, ExtendsTwice
  <2>. QED
    BY <2>3
<1>6. ASSUME NEW l \in Nat, Honest(net, wr, l) PROVE Honest(net', wr, l)
  <2>1. Honest(n, wr, l)
    BY <1>1, <1>2, <1>6, PushHonest
  <2>. QED
    BY <2>1, <1>1, <1>3, PushHonest
<1>. QED
  BY <1>4, <1>5, <1>6 DEF NetStep

LEMMA CountIsHonest ==
  ASSUME Shapes
  PROVE  CountPart <=> Honest(net, wr, h.lost)
<1>1. net \in Net
  BY DEF Shapes
<1>2. Unwritten = Waiting(net)
  <2>1. \A c \in Clients : {c} \X DOMAIN net.q[c] = Column(net, c)
    BY <1>1, NetShape DEF Column
  <2>. QED
    BY <2>1 DEF Unwritten, Waiting
<1>. QED
  BY <1>2, Zenon DEF CountPart, Honest

LEMMA CountAfter ==
  ASSUME net' \in Net, Honest(net', wr', h'.lost)
  PROVE  CountPart'
<1>1. \A c \in Clients : {c} \X DOMAIN net'.q[c] = Column(net', c)
  BY NetShape DEF Column
<1>2. Unwritten' = Waiting(net')
  BY <1>1 DEF Unwritten, Waiting
<1>. QED
  BY <1>2, Zenon DEF CountPart, Honest

-----------------------------------------------------------------------------
(* What the handlers of the command loop do.                                 *)

Taken(m) ==
  /\ dq' \in Seq(LoopCommands) /\ Shifts(dq, dq') /\ dq[1] = m
  /\ Len(dq) \in Nat \ {0} /\ Len(dq') \in Nat
Loops == wr' = wr /\ subs' = subs /\ conn' = conn /\ sent' = sent
FanStep(S, e, D) ==
  /\ LoopStep(D) /\ Loops /\ S \ Live(S) \subseteq D
  /\ h' \in Past /\ h'.copies = Changed(Copied(h.copies, S, e), D) /\ h'.lost = h.lost
  /\ h'.over \subseteq h.over \cup D
OustStep(D) ==
  /\ LoopStep(D) /\ Loops
  /\ \A c \in Clients : dq[1] = <<"evict", c>> /\ clients[c].in => c \in D
  /\ h' \in Past /\ h'.copies = Changed(h.copies, D) /\ h'.lost = h.lost /\ h'.over = h.over

LEMMA ActivityFacts ==
  ASSUME Shapes, HandleActivity
  PROVE  \E e \in Events, D \in SUBSET Clients :
           /\ Taken(<<"activity", e>>)
           /\ FanStep({c \in Clients : clients[c].in /\ clients[c].activity
                                       /\ Origin[e] \notin clients[c].sessions}, e, D)
<1>1. Command("activity") /\ Loop
  BY DEF HandleActivity
<1>2. PICK e : e = Head(dq)[2]
  OBVIOUS
<1>3. e \in Events /\ Taken(<<"activity", e>>)
  BY <1>1, <1>2, LoopTakes, LoopForms DEF Taken
<1>4. PICK S : S = {c \in Clients : clients[c].in /\ clients[c].activity
                                    /\ Origin[e] \notin clients[c].sessions}
  OBVIOUS
<1>5. LoopFansOut(S, e)
  BY <1>2, <1>4 DEF HandleActivity
<1>6. S \in SUBSET Clients /\ \A c \in S : clients[c].in
  BY <1>4
<1>7. PICK D \in SUBSET Clients :
           /\ LoopStep(D) /\ S \ Live(S) \subseteq D
           /\ h' \in Past /\ h'.copies = Changed(Copied(h.copies, S, e), D) /\ h'.lost = h.lost
           /\ h'.over \subseteq h.over \cup D
  BY <1>3, <1>5, <1>6, FanOutStep
<1>8. FanStep(S, e, D)
  BY <1>1, <1>7 DEF FanStep, Loop, Loops
<1>. QED
  BY <1>3, <1>4, <1>8

LEMMA StatusFacts ==
  ASSUME Shapes, HandleStatus
  PROVE  \E e \in Events, D \in SUBSET Clients :
           /\ Taken(<<"status", e>>)
           /\ FanStep({c \in Clients : clients[c].in /\ clients[c].summary /\ ~clients[c].activity
                                       /\ Origin[e] \notin clients[c].sessions}, e, D)
<1>1. Command("status") /\ Loop
  BY DEF HandleStatus
<1>2. PICK e : e = Head(dq)[2]
  OBVIOUS
<1>3. e \in Events /\ Taken(<<"status", e>>)
  BY <1>1, <1>2, LoopTakes, LoopForms DEF Taken
<1>4. PICK S : S = {c \in Clients : clients[c].in /\ clients[c].summary /\ ~clients[c].activity
                                    /\ Origin[e] \notin clients[c].sessions}
  OBVIOUS
<1>5. LoopFansOut(S, e)
  BY <1>2, <1>4 DEF HandleStatus
<1>6. S \in SUBSET Clients /\ \A c \in S : clients[c].in
  BY <1>4
<1>7. PICK D \in SUBSET Clients :
           /\ LoopStep(D) /\ S \ Live(S) \subseteq D
           /\ h' \in Past /\ h'.copies = Changed(Copied(h.copies, S, e), D) /\ h'.lost = h.lost
           /\ h'.over \subseteq h.over \cup D
  BY <1>3, <1>5, <1>6, FanOutStep
<1>8. FanStep(S, e, D)
  BY <1>1, <1>7 DEF FanStep, Loop, Loops
<1>. QED
  BY <1>3, <1>4, <1>8

LEMMA EvictFacts ==
  ASSUME Shapes, HandleEvict
  PROVE  \E m \in LoopCommands, D \in SUBSET Clients :
           Taken(m) /\ m[1] \in {"evict", "largest"} /\ OustStep(D)
<1>1. PICK kind \in {"evict", "largest"} : Command(kind)
  BY DEF HandleEvict
<1>2. PICK m : m = Head(dq)
  OBVIOUS
<1>3. m \in LoopCommands /\ Taken(m) /\ m[1] = kind
  BY <1>1, <1>2, LoopTakes DEF Taken
<1>4. PICK D \in SUBSET Clients :
           /\ LoopStep(D)
           /\ \A c \in Clients : Head(dq) = <<"evict", c>> /\ clients[c].in => c \in D
           /\ h' \in Past /\ h'.copies = Changed(h.copies, D) /\ h'.lost = h.lost /\ h'.over = h.over
  BY EvictStep
<1>5. Loops
  BY DEF HandleEvict, Loop, Loops
<1>6. dq[1] = Head(dq)
  BY <1>2, <1>3 DEF Taken
<1>7. OustStep(D)
  BY <1>4, <1>5, <1>6 DEF OustStep
<1>. QED
  BY <1>1, <1>3, <1>7

LEMMA EntryFields ==
  ASSUME NEW r \in Entry
  PROVE  /\ r.in \in Flags /\ r.summary \in Flags /\ r.activity \in Flags
         /\ r.sessions \in SUBSET Sessions
         /\ r = [in |-> r.in, summary |-> r.summary, activity |-> r.activity, sessions |-> r.sessions]
BY DEF Entry

LEMMA TrackFacts ==
  ASSUME Shapes, HandleTrack
  PROVE  \E c \in Clients, s \in Sessions :
           /\ Taken(<<"track", c, s>>) /\ Loops /\ net' = net /\ sq' = sq /\ h' = h
           /\ clients' \in [Clients -> Entry] /\ \A b \in Clients \ {c} : clients'[b] = clients[b]
           /\ clients'[c].in = clients[c].in /\ clients'[c].activity = clients[c].activity
           /\ clients'[c].summary = clients[c].summary
           /\ clients[c].in => clients'[c].sessions = clients[c].sessions \cup {s}
<1>1. Command("track") /\ Loop /\ net' = net /\ sq' = sq /\ h' = h
  BY DEF HandleTrack
<1>2. PICK c, s : c = Head(dq)[2] /\ s = Head(dq)[3]
  OBVIOUS
<1>3. c \in Clients /\ s \in Sessions /\ Taken(<<"track", c, s>>)
  BY <1>1, <1>2, LoopTakes, LoopForms DEF Taken
<1>4. clients \in [Clients -> Entry]
  BY DEF Shapes
<1>5. PICK T : T = clients[c].sessions \cup {s}
  OBVIOUS
<1>6. clients' = IF clients[c].in THEN [clients EXCEPT ![c].sessions = T] ELSE clients
  BY <1>2, <1>5 DEF HandleTrack
<1>7. PICK r : r = [in |-> clients[c].in, summary |-> clients[c].summary,
                    activity |-> clients[c].activity, sessions |-> T]
  OBVIOUS
<1>8. clients[c] \in Entry
  BY <1>3, <1>4
<1>9. T \in SUBSET Sessions
  BY <1>3, <1>5, <1>8, EntryFields
<1>10. r \in Entry
  <2>1. clients[c].in \in Flags /\ clients[c].summary \in Flags /\ clients[c].activity \in Flags
    BY <1>8, EntryFields
  <2>. QED
    BY <2>1, <1>7, <1>9 DEF Entry
<1>11. [clients[c] EXCEPT !.sessions = T] = r
  BY <1>7, <1>8, EntryFields
<1>12. clients' = IF clients[c].in THEN [clients EXCEPT ![c] = r] ELSE clients
  BY <1>4, <1>6, <1>11
<1>13. clients' \in [Clients -> Entry] /\ \A b \in Clients \ {c} : clients'[b] = clients[b]
  BY <1>3, <1>4, <1>10, <1>12
<1>14. clients'[c] = IF clients[c].in THEN r ELSE clients[c]
  BY <1>3, <1>4, <1>12
<1>15. /\ clients'[c].in = clients[c].in /\ clients'[c].activity = clients[c].activity
       /\ clients'[c].summary = clients[c].summary
       /\ clients[c].in => clients'[c].sessions = clients[c].sessions \cup {s}
  BY <1>5, <1>7, <1>14
<1>. QED
  BY <1>1, <1>3, <1>13, <1>15 DEF Loop, Loops

LEMMA UntrackFacts ==
  ASSUME Shapes, HandleUntrack
  PROVE  \E c \in Clients, s \in Sessions :
           /\ Taken(<<"untrack", c, s>>) /\ Loops /\ net' = net /\ sq' = sq /\ h' = h
           /\ clients' \in [Clients -> Entry] /\ \A b \in Clients \ {c} : clients'[b] = clients[b]
           /\ clients'[c].in = clients[c].in /\ clients'[c].activity = clients[c].activity
           /\ clients'[c].summary = clients[c].summary
           /\ clients'[c].sessions = clients[c].sessions \ {s}
<1>1. Command("untrack") /\ Loop /\ net' = net /\ sq' = sq /\ h' = h
  BY DEF HandleUntrack
<1>2. PICK c, s : c = Head(dq)[2] /\ s = Head(dq)[3]
  OBVIOUS
<1>3. c \in Clients /\ s \in Sessions /\ Taken(<<"untrack", c, s>>)
  BY <1>1, <1>2, LoopTakes, LoopForms DEF Taken
<1>4. clients \in [Clients -> Entry]
  BY DEF Shapes
<1>5. PICK T : T = clients[c].sessions \ {s}
  OBVIOUS
<1>6. clients' = [clients EXCEPT ![c].sessions = T]
  BY <1>2, <1>5 DEF HandleUntrack
<1>7. PICK r : r = [in |-> clients[c].in, summary |-> clients[c].summary,
                    activity |-> clients[c].activity, sessions |-> T]
  OBVIOUS
<1>8. clients[c] \in Entry
  BY <1>3, <1>4
<1>9. T \in SUBSET Sessions
  BY <1>5, <1>8, EntryFields
<1>10. r \in Entry
  <2>1. clients[c].in \in Flags /\ clients[c].summary \in Flags /\ clients[c].activity \in Flags
    BY <1>8, EntryFields
  <2>. QED
    BY <2>1, <1>7, <1>9 DEF Entry
<1>11. [clients[c] EXCEPT !.sessions = T] = r
  BY <1>7, <1>8, EntryFields
<1>12. clients' = [clients EXCEPT ![c] = r]
  BY <1>4, <1>6, <1>11
<1>13. clients' \in [Clients -> Entry] /\ \A b \in Clients \ {c} : clients'[b] = clients[b]
  BY <1>3, <1>4, <1>10, <1>12
<1>14. clients'[c] = r
  BY <1>3, <1>4, <1>12
<1>15. /\ clients'[c].in = clients[c].in /\ clients'[c].activity = clients[c].activity
       /\ clients'[c].summary = clients[c].summary
       /\ clients'[c].sessions = clients[c].sessions \ {s}
  BY <1>5, <1>7, <1>14
<1>. QED
  BY <1>1, <1>3, <1>13, <1>15 DEF Loop, Loops

LEMMA SubscribeFacts ==
  ASSUME Shapes, HandleSubscribe
  PROVE  \E c \in Clients, w \in {"activity", "summary"} :
           /\ Taken(<<"subscribe", c, w>>) /\ Loops /\ NetStep /\ sq' = sq
           /\ clients' \in [Clients -> Entry] /\ \A b \in Clients \ {c} : clients'[b] = clients[b]
           /\ clients'[c].sessions = clients[c].sessions /\ clients'[c].in
           /\ h' \in Past /\ h'.copies = Changed(h.copies, {c}) /\ h'.lost = h.lost /\ h'.over = h.over
<1>1. Command("subscribe") /\ Loop /\ sq' = sq
  BY DEF HandleSubscribe
<1>2. PICK c, w : c = Head(dq)[2] /\ w = Head(dq)[3]
  OBVIOUS
<1>3. c \in Clients /\ w \in {"activity", "summary"} /\ Taken(<<"subscribe", c, w>>)
  BY <1>1, <1>2, LoopTakes, LoopForms DEF Taken
<1>4. clients \in [Clients -> Entry] /\ h \in Past
  BY DEF Shapes
<1>5. clients[c] \in Entry
  BY <1>3, <1>4
<1>6. PICK yes \in Flags, a \in Flags, v \in Flags :
        yes = TRUE /\ a = (clients[c].activity \/ w = "activity") /\ v = (clients[c].summary \/ w # "activity")
  BY DEF Flags
<1>7. clients' = [clients EXCEPT ![c].in = yes, ![c].activity = a, ![c].summary = v]
  BY <1>2, <1>6 DEF HandleSubscribe
<1>8. PICK r : r = [clients[c] EXCEPT !.in = yes, !.activity = a, !.summary = v]
  OBVIOUS
<1>9. r \in Entry
  BY <1>5, <1>8 DEF Entry
<1>10. r.sessions = clients[c].sessions /\ r.in = yes
  BY <1>5, <1>8 DEF Entry
<1>11. clients' = [clients EXCEPT ![c] = [clients[c] EXCEPT !.in = yes, !.activity = a, !.summary = v]]
  BY <1>3, <1>4, <1>7
<1>12. clients' = [clients EXCEPT ![c] = r]
  BY <1>8, <1>11
<1>13. clients' \in [Clients -> Entry] /\ \A b \in Clients \ {c} : clients'[b] = clients[b]
  BY <1>3, <1>4, <1>9, <1>12
<1>14. clients'[c].sessions = clients[c].sessions /\ clients'[c].in
  BY <1>3, <1>4, <1>6, <1>10, <1>12
<1>15. NetStep
  <2>1. wr' = wr /\ {c} \in SUBSET Clients
    BY <1>1, <1>3 DEF Loop
  <2>2. net' = net \/ net' = Push(Push(net, {c}, "other"), {c}, "other")
    BY <1>2 DEF HandleSubscribe
  <2>. QED
    BY <2>1, <2>2, StillStep, TwoPushesStep
<1>16. PICK k : k = Changed(h.copies, {c})
  OBVIOUS
<1>17. k \in Table /\ h' = [h EXCEPT !.copies = k]
  BY <1>2, <1>4, <1>16, PastFields, ChangedShape DEF HandleSubscribe
<1>18. h' \in Past /\ h'.copies = k /\ h'.over = h.over /\ h'.lost = h.lost
  BY <1>4, <1>17, PastCopies
<1>. QED
  BY <1>1, <1>3, <1>13, <1>14, <1>15, <1>16, <1>18 DEF Loop, Loops

LEMMA UnsubscribeFacts ==
  ASSUME Shapes, HandleUnsubscribe
  PROVE  \E c \in Clients, w \in {"activity", "summary"} :
           /\ Taken(<<"unsubscribe", c, w>>) /\ Loops /\ net' = net /\ sq' = sq
           /\ clients' \in [Clients -> Entry] /\ \A b \in Clients \ {c} : clients'[b] = clients[b]
           /\ clients'[c].in = clients[c].in /\ clients'[c].sessions = clients[c].sessions
           /\ h' \in Past /\ h'.copies = Changed(h.copies, {c}) /\ h'.lost = h.lost /\ h'.over = h.over
<1>1. Command("unsubscribe") /\ Loop /\ net' = net /\ sq' = sq
  BY DEF HandleUnsubscribe
<1>2. PICK c, w : c = Head(dq)[2] /\ w = Head(dq)[3]
  OBVIOUS
<1>3. c \in Clients /\ w \in {"activity", "summary"} /\ Taken(<<"unsubscribe", c, w>>)
  BY <1>1, <1>2, LoopTakes, LoopForms DEF Taken
<1>4. clients \in [Clients -> Entry] /\ h \in Past
  BY DEF Shapes
<1>5. clients[c] \in Entry
  BY <1>3, <1>4
<1>6. PICK no \in Flags : no = FALSE
  BY DEF Flags
<1>7. \/ clients' = [clients EXCEPT ![c].activity = no]
      \/ clients' = [clients EXCEPT ![c].summary = no]
  BY <1>2, <1>6 DEF HandleUnsubscribe
<1>8. PICK a \in Flags, v \in Flags :
        clients' = [clients EXCEPT ![c] = [in |-> clients[c].in, summary |-> v, activity |-> a,
                                           sessions |-> clients[c].sessions]]
  <2>1. CASE clients' = [clients EXCEPT ![c].activity = no]
    <3>1. [clients[c] EXCEPT !.activity = no] =
            [in |-> clients[c].in, summary |-> clients[c].summary, activity |-> no,
             sessions |-> clients[c].sessions]
      BY <1>5, EntryFields
    <3>2. clients' = [clients EXCEPT ![c] = [clients[c] EXCEPT !.activity = no]]
      BY <1>3, <1>4, <2>1
    <3>3. clients[c].summary \in Flags
      BY <1>5, EntryFields
    <3>. QED
      BY <3>1, <3>2, <3>3
  <2>2. CASE clients' = [clients EXCEPT ![c].summary = no]
    <3>1. [clients[c] EXCEPT !.summary = no] =
            [in |-> clients[c].in, summary |-> no, activity |-> clients[c].activity,
             sessions |-> clients[c].sessions]
      BY <1>5, EntryFields
    <3>2. clients' = [clients EXCEPT ![c] = [clients[c] EXCEPT !.summary = no]]
      BY <1>3, <1>4, <2>2
    <3>3. clients[c].activity \in Flags
      BY <1>5, EntryFields
    <3>. QED
      BY <3>1, <3>2, <3>3
  <2>. QED
    BY <1>7, <2>1, <2>2
<1>9. PICK r : r = [in |-> clients[c].in, summary |-> v, activity |-> a,
                    sessions |-> clients[c].sessions]
  OBVIOUS
<1>10. r \in Entry
  BY <1>5, <1>9, EntryFields DEF Entry
<1>11. r.in = clients[c].in /\ r.sessions = clients[c].sessions
  BY <1>9
<1>12. clients' = [clients EXCEPT ![c] = r]
  BY <1>8, <1>9
<1>13. clients' \in [Clients -> Entry] /\ \A b \in Clients \ {c} : clients'[b] = clients[b]
  BY <1>3, <1>4, <1>10, <1>12
<1>14. clients'[c].in = clients[c].in /\ clients'[c].sessions = clients[c].sessions
  BY <1>3, <1>4, <1>11, <1>12
<1>15. PICK k : k = Changed(h.copies, {c})
  OBVIOUS
<1>16. k \in Table /\ h' = [h EXCEPT !.copies = k]
  BY <1>2, <1>4, <1>15, PastFields, ChangedShape DEF HandleUnsubscribe
<1>17. h' \in Past /\ h'.copies = k /\ h'.over = h.over /\ h'.lost = h.lost
  BY <1>4, <1>16, PastCopies
<1>. QED
  BY <1>1, <1>3, <1>13, <1>14, <1>15, <1>17 DEF Loop, Loops

LEMMA DisconnectedFacts ==
  ASSUME Shapes, HandleDisconnected
  PROVE  \E c \in Clients :
           /\ Taken(<<"disconnected", c>>) /\ Loops /\ net' = net
           /\ clients' = Removed(clients, {c}) /\ sq' \in [Sessions -> Seq(ThreadCommands)]
           /\ \A s \in Sessions : Extends(sq[s], sq'[s], {"remove"} \X {c})
           /\ h' \in Past /\ h'.copies = Changed(h.copies, {c}) /\ h'.lost = h.lost /\ h'.over = h.over
<1>1. Command("disconnected") /\ Loop /\ net' = net
  BY DEF HandleDisconnected
<1>2. PICK c : c = Head(dq)[2]
  OBVIOUS
<1>3. c \in Clients /\ Taken(<<"disconnected", c>>)
  BY <1>1, <1>2, LoopTakes, LoopForms DEF Taken
<1>4. h \in Past /\ sq \in [Sessions -> Seq(ThreadCommands)]
  BY DEF Shapes
<1>5. clients' = Removed(clients, {c}) /\ sq' = Told(sq, clients, {c})
  BY <1>2 DEF HandleDisconnected
<1>6. {c} \in SUBSET Clients
  BY <1>3
<1>7. /\ sq' \in [Sessions -> Seq(ThreadCommands)]
      /\ \A s \in Sessions : Extends(sq[s], sq'[s], {"remove"} \X {c})
  BY <1>4, <1>5, <1>6, ToldShape
<1>8. PICK k : k = Changed(h.copies, {c})
  OBVIOUS
<1>9. k \in Table /\ h' = [h EXCEPT !.copies = k]
  BY <1>2, <1>4, <1>8, PastFields, ChangedShape DEF HandleDisconnected
<1>10. h' \in Past /\ h'.copies = k /\ h'.over = h.over /\ h'.lost = h.lost
  BY <1>4, <1>9, PastCopies
<1>. QED
  BY <1>1, <1>3, <1>5, <1>7, <1>8, <1>10 DEF Loop, Loops

-----------------------------------------------------------------------------
(* What the session threads do.                                              *)

\* What a broadcast of e posts: the event, whom to evict, and a status again.
Posts(e, O) ==
  /\ dq' \in Seq(LoopCommands) /\ Len(dq) \in Nat /\ Len(dq') \in Nat /\ Len(dq) < Len(dq')
  /\ \A i \in 1..Len(dq) : dq'[i] = dq[i]
  /\ dq'[Len(dq) + 1] = <<"activity", e>>
  /\ \A i \in (Len(dq) + 2)..Len(dq') :
       \/ dq'[i][1] \in {"evict", "largest"}
       \/ dq'[i] = <<"status", e>> /\ i = Len(dq') /\ e \in Statuses
  /\ e \in Statuses => Len(dq') >= Len(dq) + 2 /\ dq'[Len(dq')] = <<"status", e>>
  /\ \A c \in O : \E i \in 1..Len(dq') : dq'[i] = <<"evict", c>>

LEMMA Posting ==
  ASSUME dq \in Seq(LoopCommands), NEW e \in Events, NEW O \in SUBSET Clients, NEW big,
         dq' = dq \o <<<<"activity", e>>>>
                  \o SetToSeq({<<"evict", c>> : c \in O})
                  \o (IF big THEN <<<<"largest">>>> ELSE <<>>)
                  \o (IF e \in Statuses THEN <<<<"status", e>>>> ELSE <<>>)
  PROVE  Posts(e, O)
<1>. DEFINE C == {<<"evict", c>> : c \in O}
            f == [c \in O |-> <<"evict", c>>]
            A == <<"activity", e>>
            T == <<"status", e>>
<1>1. IsFiniteSet(C)
  <2>1. IsFiniteSet(O)
    BY ClientsAssumption, FS_Subset
  <2>2. f \in Surjection(O, C)
    BY DEF Surjection
  <2>. QED
    BY <2>1, <2>2, FS_Surjection
<1>2. PICK z : z = SetToSeq(C)
  OBVIOUS
<1>3. z \in Seq(C) /\ \A x \in C : \E i \in 1..Len(z) : z[i] = x
  BY <1>1, <1>2, SetInOrder
<1>4. A \in LoopCommands /\ T \in LoopCommands /\ C \in SUBSET LoopCommands /\ <<"largest">> \in LoopCommands
  BY LoopMembers
<1>5. PICK q1 : q1 = dq \o <<A>>
  OBVIOUS
<1>6. PICK q2 : q2 = q1 \o z
  OBVIOUS
<1>7. PICK q3 : q3 = q2 \o (IF big THEN <<<<"largest">>>> ELSE <<>>)
  OBVIOUS
<1>8. dq' = q3 \o (IF e \in Statuses THEN <<T>> ELSE <<>>)
  BY <1>2, <1>5, <1>6, <1>7
<1>9. q1 \in Seq(LoopCommands) /\ Len(dq) \in Nat /\ Len(q1) = Len(dq) + 1 /\ q1[Len(dq) + 1] = A
      /\ \A i \in 1..Len(dq) : q1[i] = dq[i]
  <2>1. q1 = Append(dq, A)
    BY <1>4, <1>5, AppendIsConcat
  <2>. QED
    BY <2>1, <1>4, AppendProperties, LenProperties
<1>10. q2 \in Seq(LoopCommands) /\ Extends(q1, q2, C)
  BY <1>3, <1>4, <1>6, <1>9, ConcatExtends
<1>11. \A c \in O : \E i \in 1..Len(q2) : q2[i] = <<"evict", c>>
  <2>1. ASSUME NEW c \in O PROVE \E i \in 1..Len(q2) : q2[i] = <<"evict", c>>
    <3>1. PICK i \in 1..Len(z) : z[i] = <<"evict", c>>
      BY <1>3
    <3>2. z \in Seq(LoopCommands)
      BY <1>3, <1>4, SeqMonotonic
    <3>3. Len(q2) = Len(q1) + Len(z) /\ Len(q1) \in Nat /\ Len(z) \in Nat
      BY <3>2, <1>6, <1>9, ConcatProperties, LenProperties
    <3>4. Len(q1) + i \in 1..(Len(q1) + Len(z)) /\ ~(Len(q1) + i =< Len(q1)) /\ Len(q1) + i - Len(q1) = i
      BY <3>3
    <3>5. q2[Len(q1) + i] = z[Len(q1) + i - Len(q1)]
      BY <3>2, <3>4, <1>6, <1>9, ConcatProperties
    <3>. QED
      BY <3>1, <3>3, <3>4, <3>5
  <2>. QED
    BY <2>1
<1>12. q3 \in Seq(LoopCommands) /\ Extends(q2, q3, {<<"largest">>})
  <2>1. CASE big
    <3>1. <<<<"largest">>>> \in Seq({<<"largest">>}) /\ {<<"largest">>} \in SUBSET LoopCommands
      BY <1>4
    <3>. QED
      BY <2>1, <3>1, <1>7, <1>10, ConcatExtends
  <2>2. CASE ~big
    <3>1. <<>> \in Seq({<<"largest">>}) /\ {<<"largest">>} \in SUBSET LoopCommands
      BY <1>4
    <3>. QED
      BY <2>2, <3>1, <1>7, <1>10, ConcatExtends
  <2>. QED
    BY <2>1, <2>2
<1>13. Extends(q1, q3, C \cup {<<"largest">>})
  BY <1>9, <1>10, <1>12, ExtendsTwice
<1>14. Len(q1) \in Nat /\ Len(q2) \in Nat /\ Len(q3) \in Nat
  BY <1>9, <1>10, <1>12, LenProperties
<1>15. \A i \in (Len(dq) + 2)..Len(q3) : q3[i][1] \in {"evict", "largest"}
  <2>1. \A m \in C \cup {<<"largest">>} : m[1] \in {"evict", "largest"}
    OBVIOUS
  <2>2. \A i \in (Len(dq) + 2)..Len(q3) : q3[i] \in C \cup {<<"largest">>}
    BY <1>9, <1>13 DEF Extends
  <2>. QED
    BY <2>1, <2>2
<1>16. /\ Len(q3) >= Len(dq) + 1 /\ q3[Len(dq) + 1] = A
       /\ \A i \in 1..Len(dq) : q3[i] = dq[i]
  BY <1>9, <1>13, <1>14 DEF Extends
<1>17. \A c \in O : \E i \in 1..Len(q3) : q3[i] = <<"evict", c>>
  <2>1. \A i \in 1..Len(q2) : i \in 1..Len(q3) /\ q3[i] = q2[i]
    BY <1>12, <1>14 DEF Extends
  <2>. QED
    BY <1>11, <2>1
<1>18. CASE e \in Statuses
  <2>1. PICK r : r = Append(q3, T)
    OBVIOUS
  <2>2. dq' = r
    BY <1>4, <1>8, <1>12, <1>18, <2>1, AppendIsConcat
  <2>3. /\ r \in Seq(LoopCommands) /\ Len(r) = Len(q3) + 1 /\ r[Len(q3) + 1] = T
        /\ \A i \in 1..Len(q3) : r[i] = q3[i]
    BY <2>1, <1>4, <1>12, AppendProperties
  <2>4. \A i \in (Len(dq) + 2)..Len(r) : i \in (Len(dq) + 2)..Len(q3) \/ i = Len(r)
    <3>1. Len(r) = Len(q3) + 1 /\ Len(q3) \in Nat /\ Len(dq) \in Nat
      BY <2>3, <1>9, <1>14
    <3>2. PICK x \in Nat, y \in Nat : x = Len(dq) /\ y = Len(q3)
      BY <3>1
    <3>3. \A i \in (x + 2)..(y + 1) : i \in (x + 2)..y \/ i = y + 1
      OBVIOUS
    <3>. QED
      BY <3>1, <3>2, <3>3
  <2>5. \A i \in (Len(dq) + 2)..Len(r) :
          r[i][1] \in {"evict", "largest"} \/ (r[i] = T /\ i = Len(r) /\ e \in Statuses)
    <3>1. ASSUME NEW i \in (Len(dq) + 2)..Len(q3) PROVE r[i][1] \in {"evict", "largest"}
      <4>1. i \in 1..Len(q3)
        BY <1>9, <1>14
      <4>. QED
        BY <4>1, <2>3, <1>15
    <3>. QED
      BY <3>1, <2>3, <2>4, <1>18
  <2>6. \A c \in O : \E i \in 1..Len(r) : r[i] = <<"evict", c>>
    <3>1. \A i \in 1..Len(q3) : i \in 1..Len(r)
      BY <2>3, <1>14
    <3>. QED
      BY <3>1, <2>3, <1>17
  <2>7. /\ Len(r) \in Nat /\ Len(dq) < Len(r) /\ Len(r) >= Len(dq) + 2 /\ r[Len(r)] = T
        /\ r[Len(dq) + 1] = A /\ \A i \in 1..Len(dq) : r[i] = dq[i]
    BY <2>3, <1>9, <1>14, <1>16
  <2>. QED
    BY <2>2, <2>3, <2>5, <2>6, <2>7, <1>9, <1>18 DEF Posts
<1>19. CASE e \notin Statuses
  <2>1. dq' = q3
    BY <1>8, <1>12, <1>19, ConcatEmptySeq
  <2>2. Len(dq) < Len(q3)
    <3>1. Len(q3) >= Len(dq) + 1 /\ Len(q3) \in Nat /\ Len(dq) \in Nat
      BY <1>9, <1>14, <1>16
    <3>. QED
      BY <3>1
  <2>. HIDE DEF C, f, A, T
  <2>. QED
    BY <2>1, <2>2, <1>9, <1>12, <1>14, <1>15, <1>16, <1>17, <1>19 DEF Posts, A
<1>. QED
  BY <1>18, <1>19

LEMMA EmitFacts ==
  ASSUME Shapes, NEW e \in Events, Emit(e)
  PROVE  /\ e \notin sent /\ sent' = sent \cup {e} /\ NetStep
         /\ clients' = clients /\ sq' = sq /\ conn' = conn
         /\ \A t \in Sessions : /\ subs'[t] \subseteq subs[t]
                                /\ \A c \in subs[t] : c \in subs'[t] \/ wr[c] = "gone"
         /\ subs' \in [Sessions -> SUBSET Clients]
         /\ h' \in Past /\ h'.copies = Copied(Watched(h.copies, e), subs[Origin[e]], e)
         /\ h'.lost = h.lost
         /\ \E O \in SUBSET Clients : Posts(e, O) /\ h'.over \subseteq h.over \cup O
<1>1. PICK s : s = Origin[e]
  OBVIOUS
<1>2. /\ dq \in Seq(LoopCommands) /\ h \in Past /\ subs \in [Sessions -> SUBSET Clients]
      /\ s \in Sessions
  BY <1>1, EventsAssumption DEF Shapes
<1>3. PICK n : n = Push(net, subs[s], "other")
  OBVIOUS
<1>4. PICK O \in SUBSET Clients : O = OverLag(n, subs[s])
  BY <1>2 DEF OverLag, Live
<1>5. PICK big : 
        /\ net' = n
        /\ dq' = dq \o <<<<"activity", e>>>>
                    \o SetToSeq({<<"evict", c>> : c \in O})
                    \o (IF big THEN <<<<"largest">>>> ELSE <<>>)
                    \o (IF e \in Statuses THEN <<<<"status", e>>>> ELSE <<>>)
        /\ h' = [h EXCEPT !.copies = Copied(Watched(h.copies, e), subs[s], e), !.over = h.over \cup Up(O)]
  BY <1>1, <1>3, <1>4 DEF Emit
<1>6. Posts(e, O)
  BY <1>2, <1>5, Posting
<1>7. NetStep
  <2>1. wr' = wr /\ subs[s] \in SUBSET Clients
    BY <1>2 DEF Emit
  <2>. QED
    BY <2>1, <1>3, <1>5, PushStep
<1>8. PICK k : k = Copied(Watched(h.copies, e), subs[s], e)
  OBVIOUS
<1>9. k \in Table
  BY <1>2, <1>8, PastFields, WatchedShape, CopiedShape
<1>10. PICK V \in SUBSET Clients : V = h.over \cup Up(O)
  BY <1>2, PastFields DEF Up
<1>11. h' = [h EXCEPT !.copies = k, !.over = V]
  BY <1>5, <1>8, <1>10
<1>12. h' \in Past /\ h'.copies = k /\ h'.over = V /\ h'.lost = h.lost
  BY <1>2, <1>9, <1>11, PastCopiesOver
<1>13. V \subseteq h.over \cup O
  BY <1>10 DEF Up
<1>14. subs' = [subs EXCEPT ![s] = Live(subs[s])]
  BY <1>1 DEF Emit
<1>15. Live(subs[s]) \in SUBSET Clients /\ Live(subs[s]) \subseteq subs[s]
  BY <1>2 DEF Live
<1>16. \A c \in subs[s] : c \in Live(subs[s]) \/ wr[c] = "gone"
  BY DEF Live
<1>17. subs' \in [Sessions -> SUBSET Clients]
  BY <1>2, <1>14, <1>15
<1>18. \A t \in Sessions : subs'[t] = IF t = s THEN Live(subs[s]) ELSE subs[t]
  BY <1>2, <1>14
<1>19. \A t \in Sessions : subs'[t] \subseteq subs[t] /\ \A c \in subs[t] : c \in subs'[t] \/ wr[c] = "gone"
  BY <1>15, <1>16, <1>18
<1>20. e \notin sent /\ sent' = sent \cup {e} /\ clients' = clients /\ sq' = sq /\ conn' = conn
  BY DEF Emit
<1>. QED
  BY <1>1, <1>6, <1>7, <1>8, <1>12, <1>13, <1>17, <1>19, <1>20

Taking(s, m) ==
  /\ sq' \in [Sessions -> Seq(ThreadCommands)] /\ Shifts(sq[s], sq'[s]) /\ sq[s][1] = m
  /\ \A t \in Sessions \ {s} : sq'[t] = sq[t]
  /\ Len(sq[s]) \in Nat \ {0} /\ Len(sq'[s]) \in Nat
Queued(m) ==
  /\ dq' \in Seq(LoopCommands) /\ Len(dq) \in Nat /\ Len(dq') = Len(dq) + 1
  /\ dq'[Len(dq) + 1] = m /\ \A i \in 1..Len(dq) : dq'[i] = dq[i]
Threads == wr' = wr /\ clients' = clients /\ conn' = conn /\ sent' = sent /\ h' = h
Subscribers(s) ==
  subs' \in [Sessions -> SUBSET Clients] /\ \A t \in Sessions \ {s} : subs'[t] = subs[t]

LEMMA TakingHolds ==
  ASSUME Shapes, NEW s \in Sessions, NEW kind \in {"attach", "detach", "remove"}, Takes(s, kind)
  PROVE  \E c \in Clients : c = Head(sq[s])[2] /\ Taking(s, <<kind, c>>)
<1>1. PICK m : m = Head(sq[s])
  OBVIOUS
<1>2. /\ sq' \in [Sessions -> Seq(ThreadCommands)] /\ Shifts(sq[s], sq'[s])
      /\ \A t \in Sessions \ {s} : sq'[t] = sq[t]
      /\ m = sq[s][1] /\ m \in ThreadCommands /\ m[1] = kind /\ Len(sq[s]) \in Nat \ {0}
  BY <1>1, ThreadTakes
<1>3. m[2] \in Clients /\ m = <<kind, m[2]>>
  BY <1>2, ThreadForms
<1>4. Len(sq'[s]) \in Nat
  BY <1>2 DEF Shifts
<1>5. Taking(s, <<kind, m[2]>>)
  BY <1>2, <1>3, <1>4 DEF Taking
<1>. QED
  BY <1>1, <1>3, <1>5

LEMMA QueuedHolds ==
  ASSUME Shapes, NEW m \in LoopCommands, dq' = Append(dq, m)
  PROVE  Queued(m)
<1>1. dq \in Seq(LoopCommands)
  BY DEF Shapes
<1>. QED
  BY <1>1, AppendProperties, LenProperties DEF Queued

LEMMA AttachedFacts ==
  ASSUME Shapes, NEW s \in Sessions, HandleAttach(s)
  PROVE  \E c \in Clients :
           /\ Taking(s, <<"attach", c>>) /\ Queued(<<"track", c, s>>) /\ NetStep /\ Threads
           /\ Subscribers(s) /\ subs'[s] = subs[s] \cup {c}
<1>1. PICK c \in Clients : c = Head(sq[s])[2] /\ Taking(s, <<"attach", c>>)
  BY TakingHolds DEF HandleAttach
<1>2. subs \in [Sessions -> SUBSET Clients]
  BY DEF Shapes
<1>3. /\ subs' = [subs EXCEPT ![s] = subs[s] \cup {c}] /\ dq' = Append(dq, <<"track", c, s>>)
      /\ net' = Push(net, {c}, "other") /\ Threads
  BY <1>1 DEF HandleAttach, Thread, Threads
<1>4. Queued(<<"track", c, s>>)
  BY <1>3, QueuedHolds, LoopMembers
<1>5. NetStep
  BY <1>1, <1>3, PushStep DEF Threads
<1>6. Subscribers(s) /\ subs'[s] = subs[s] \cup {c}
  BY <1>1, <1>2, <1>3 DEF Subscribers
<1>. QED
  BY <1>1, <1>3, <1>4, <1>5, <1>6

LEMMA DetachedFacts ==
  ASSUME Shapes, NEW s \in Sessions, HandleDetach(s)
  PROVE  \E c \in Clients :
           /\ Taking(s, <<"detach", c>>) /\ Queued(<<"untrack", c, s>>) /\ NetStep /\ Threads
           /\ Subscribers(s) /\ subs'[s] = subs[s] \ {c}
<1>1. PICK c \in Clients : c = Head(sq[s])[2] /\ Taking(s, <<"detach", c>>)
  BY TakingHolds DEF HandleDetach
<1>2. subs \in [Sessions -> SUBSET Clients]
  BY DEF Shapes
<1>3. /\ subs' = [subs EXCEPT ![s] = subs[s] \ {c}] /\ dq' = Append(dq, <<"untrack", c, s>>)
      /\ net' = net /\ Threads
  BY <1>1 DEF HandleDetach, Thread, Threads
<1>4. Queued(<<"untrack", c, s>>)
  BY <1>3, QueuedHolds, LoopMembers
<1>5. NetStep
  BY <1>3, StillStep DEF Threads
<1>6. Subscribers(s) /\ subs'[s] = subs[s] \ {c}
  BY <1>1, <1>2, <1>3 DEF Subscribers
<1>. QED
  BY <1>1, <1>3, <1>4, <1>5, <1>6

LEMMA RemovedFacts ==
  ASSUME Shapes, NEW s \in Sessions, HandleRemove(s)
  PROVE  \E c \in Clients :
           /\ Taking(s, <<"remove", c>>) /\ dq' = dq /\ NetStep /\ Threads
           /\ Subscribers(s) /\ subs'[s] = subs[s] \ {c}
<1>1. PICK c \in Clients : c = Head(sq[s])[2] /\ Taking(s, <<"remove", c>>)
  BY TakingHolds DEF HandleRemove
<1>2. subs \in [Sessions -> SUBSET Clients]
  BY DEF Shapes
<1>3. subs' = [subs EXCEPT ![s] = subs[s] \ {c}] /\ dq' = dq /\ net' = net /\ Threads
  BY <1>1 DEF HandleRemove, Thread, Threads
<1>4. NetStep
  BY <1>3, StillStep DEF Threads
<1>5. Subscribers(s) /\ subs'[s] = subs[s] \ {c}
  BY <1>1, <1>2, <1>3 DEF Subscribers
<1>. QED
  BY <1>1, <1>3, <1>4, <1>5

-----------------------------------------------------------------------------
(* What the connection threads do.                                           *)

Sides == wr' = wr /\ clients' = clients /\ subs' = subs /\ sent' = sent /\ h' = h
Linked(c) ==
  /\ conn' \in [Clients -> Link] /\ \A b \in Clients \ {c} : conn'[b] = conn[b]

LEMMA LinkFields ==
  ASSUME NEW r \in Link
  PROVE  r.open \in Flags /\ r.att \in Sessions \cup {NoSession} /\ r.reqs \in 0..MaxRequests
BY DEF Link

LEMMA RequestCounts ==
  ASSUME Shapes, NEW c \in Clients, Request(c)
  PROVE  conn[c].open /\ conn[c].reqs + 1 \in 0..MaxRequests
<1>1. conn[c].reqs \in 0..MaxRequests /\ MaxRequests \in Nat
  BY LinkFields, LimitsAssumption DEF Shapes
<1>. QED
  BY <1>1 DEF Request

LEMMA CountedLink ==
  ASSUME Shapes, NEW c \in Clients, Request(c), conn' = [conn EXCEPT ![c].reqs = conn[c].reqs + 1]
  PROVE  Linked(c) /\ conn'[c].open = conn[c].open /\ conn'[c].att = conn[c].att /\ conn[c].open
<1>1. conn \in [Clients -> Link] /\ conn[c] \in Link
  BY DEF Shapes
<1>2. PICK n \in 0..MaxRequests : n = conn[c].reqs + 1
  BY RequestCounts
<1>3. PICK r : r = [conn[c] EXCEPT !.reqs = n]
  OBVIOUS
<1>4. r \in Link
  BY <1>1, <1>3 DEF Link
<1>5. r.open = conn[c].open /\ r.att = conn[c].att
  BY <1>1, <1>3 DEF Link
<1>6. conn' = [conn EXCEPT ![c] = r]
  BY <1>1, <1>2, <1>3
<1>. QED
  BY <1>1, <1>4, <1>5, <1>6, RequestCounts DEF Linked

LEMMA RequestFacts ==
  ASSUME Shapes, NEW c \in Clients, NEW k \in {"subscribe", "unsubscribe"},
         NEW w \in {"activity", "summary"}, Subscribe(c, k, w)
  PROVE  /\ Linked(c) /\ conn'[c].open = conn[c].open /\ conn'[c].att = conn[c].att /\ conn[c].open
         /\ Queued(<<k, c, w>>) /\ NetStep /\ Sides /\ sq' = sq
<1>1. /\ Request(c) /\ conn' = [conn EXCEPT ![c].reqs = conn[c].reqs + 1]
      /\ dq' = Append(dq, <<k, c, w>>) /\ net' = Push(net, {c}, "other") /\ Sides /\ sq' = sq
  BY DEF Subscribe, Replied, Side, Sides
<1>2. Queued(<<k, c, w>>)
  BY <1>1, QueuedHolds, LoopMembers
<1>3. NetStep
  BY <1>1, PushStep DEF Sides
<1>. QED
  BY <1>1, <1>2, <1>3, CountedLink

LEMMA ImageFacts ==
  ASSUME Shapes, NEW c \in Clients, GetImage(c)
  PROVE  /\ Linked(c) /\ conn'[c].open = conn[c].open /\ conn'[c].att = conn[c].att /\ conn[c].open
         /\ dq' = dq /\ NetStep /\ Sides /\ sq' = sq
<1>1. /\ Request(c) /\ conn' = [conn EXCEPT ![c].reqs = conn[c].reqs + 1]
      /\ dq' = dq /\ net' = Push(net, {c}, "image") /\ Sides /\ sq' = sq
  BY DEF GetImage, Replied, Side, Sides
<1>2. NetStep
  BY <1>1, PushStep DEF Sides
<1>. QED
  BY <1>1, <1>2, CountedLink

\* A session's queue is given one more message.
Given(t, m) ==
  /\ Len(sq[t]) \in Nat /\ Len(sq'[t]) = Len(sq[t]) + 1 /\ sq'[t][Len(sq[t]) + 1] = m
  /\ \A i \in 1..Len(sq[t]) : sq'[t][i] = sq[t][i]

LEMMA SwitchFacts ==
  ASSUME Shapes, NEW c \in Clients, NEW s \in Sessions, Attach(c, s)
  PROVE  /\ Linked(c) /\ conn'[c].open = conn[c].open /\ conn'[c].att = s /\ conn[c].open
         /\ dq' = dq /\ NetStep /\ Sides /\ sq' \in [Sessions -> Seq(ThreadCommands)]
         /\ Given(s, <<"attach", c>>)
         /\ \A t \in Sessions \ {s} : t = conn[c].att => Given(t, <<"detach", c>>)
         /\ \A t \in Sessions \ {s} : t # conn[c].att => sq'[t] = sq[t]
<1>1. PICK old : old = conn[c].att
  OBVIOUS
<1>2. /\ Request(c) /\ conn' = [conn EXCEPT ![c].reqs = conn[c].reqs + 1, ![c].att = s]
      /\ dq' = dq /\ net' = Push(net, {c}, "other") /\ Sides
      /\ sq' = [t \in Sessions |-> IF t = s THEN Append(sq[t], <<"attach", c>>)
                                   ELSE IF t = old THEN Append(sq[t], <<"detach", c>>) ELSE sq[t]]
  BY <1>1 DEF Attach, Replied, Side, Sides
<1>3. NetStep
  BY <1>2, PushStep DEF Sides
<1>4. Linked(c) /\ conn'[c].open = conn[c].open /\ conn'[c].att = s /\ conn[c].open
  <2>1. conn \in [Clients -> Link] /\ conn[c] \in Link
    BY DEF Shapes
  <2>2. PICK n \in 0..MaxRequests : n = conn[c].reqs + 1
    BY <1>2, RequestCounts
  <2>3. PICK r : r = [conn[c] EXCEPT !.reqs = n, !.att = s]
    OBVIOUS
  <2>4. r \in Link
    BY <2>1, <2>3 DEF Link
  <2>5. r.open = conn[c].open /\ r.att = s
    BY <2>1, <2>3 DEF Link
  <2>6. conn' = [conn EXCEPT ![c] = r]
    BY <1>2, <2>1, <2>2, <2>3
  <2>. QED
    BY <1>2, <2>1, <2>4, <2>5, <2>6, RequestCounts DEF Linked
<1>5. <<"attach", c>> \in ThreadCommands /\ <<"detach", c>> \in ThreadCommands
  BY ThreadMembers
<1>6. sq \in [Sessions -> Seq(ThreadCommands)]
  BY DEF Shapes
<1>7. ASSUME NEW t \in Sessions, NEW m \in ThreadCommands, sq'[t] = Append(sq[t], m)
      PROVE  sq'[t] \in Seq(ThreadCommands) /\ Given(t, m)
  <2>1. sq[t] \in Seq(ThreadCommands)
    BY <1>6
  <2>. QED
    BY <1>7, <2>1, AppendProperties, LenProperties DEF Given
<1>8. \A t \in Sessions : sq'[t] = IF t = s THEN Append(sq[t], <<"attach", c>>)
                                   ELSE IF t = old THEN Append(sq[t], <<"detach", c>>) ELSE sq[t]
  BY <1>2
<1>9. Given(s, <<"attach", c>>)
  BY <1>5, <1>7, <1>8
<1>10. \A t \in Sessions \ {s} : t = conn[c].att => Given(t, <<"detach", c>>)
  BY <1>1, <1>5, <1>7, <1>8
<1>11. \A t \in Sessions \ {s} : t # conn[c].att => sq'[t] = sq[t]
  BY <1>1, <1>8
<1>12. sq' \in [Sessions -> Seq(ThreadCommands)]
  <2>1. ASSUME NEW t \in Sessions PROVE sq'[t] \in Seq(ThreadCommands)
    BY <1>5, <1>6, <1>7, <1>8
  <2>2. sq' = [t \in Sessions |-> sq'[t]]
    BY <1>2
  <2>. QED
    BY <2>1, <2>2
<1>. QED
  BY <1>2, <1>3, <1>4, <1>9, <1>10, <1>11, <1>12

LEMMA CloseFacts ==
  ASSUME Shapes, NEW c \in Clients, Close(c)
  PROVE  /\ Linked(c) /\ conn[c].open /\ ~conn'[c].open /\ conn'[c].att = conn[c].att
         /\ Queued(<<"disconnected", c>>) /\ NetStep /\ Sides
         /\ sq' \in [Sessions -> Seq(ThreadCommands)]
         /\ \A t \in Sessions : t = conn[c].att => Given(t, <<"detach", c>>)
         /\ \A t \in Sessions : t # conn[c].att => sq'[t] = sq[t]
<1>1. PICK s : s = conn[c].att
  OBVIOUS
<1>2. PICK no \in Flags : no = FALSE
  BY DEF Flags
<1>3. /\ conn[c].open /\ conn' = [conn EXCEPT ![c].open = no] /\ net' = net /\ Sides
      /\ sq' = IF s \in Sessions THEN [sq EXCEPT ![s] = Append(sq[s], <<"detach", c>>)] ELSE sq
      /\ dq' = Append(dq, <<"disconnected", c>>)
  BY <1>1, <1>2 DEF Close, Side, Sides
<1>4. NetStep
  BY <1>3, StillStep DEF Sides
<1>5. Linked(c) /\ ~conn'[c].open /\ conn'[c].att = conn[c].att
  <2>1. conn \in [Clients -> Link] /\ conn[c] \in Link
    BY DEF Shapes
  <2>2. PICK r : r = [conn[c] EXCEPT !.open = no]
    OBVIOUS
  <2>3. r \in Link
    BY <2>1, <2>2 DEF Link
  <2>4. r.open = no /\ r.att = conn[c].att
    BY <2>1, <2>2 DEF Link
  <2>5. conn' = [conn EXCEPT ![c] = r]
    BY <1>3, <2>1, <2>2
  <2>. QED
    BY <1>2, <2>1, <2>3, <2>4, <2>5 DEF Linked
<1>6. Queued(<<"disconnected", c>>)
  BY <1>3, QueuedHolds, LoopMembers
<1>7. sq \in [Sessions -> Seq(ThreadCommands)] /\ <<"detach", c>> \in ThreadCommands
  BY ThreadMembers DEF Shapes
<1>8. ASSUME s \in Sessions
      PROVE  sq'[s] \in Seq(ThreadCommands) /\ Given(s, <<"detach", c>>)
  <2>1. PICK q : q = sq[s]
    OBVIOUS
  <2>2. q \in Seq(ThreadCommands) /\ sq'[s] = Append(q, <<"detach", c>>)
    BY <1>3, <1>7, <1>8, <2>1
  <2>. QED
    BY <2>1, <2>2, <1>7, AppendProperties, LenProperties DEF Given
<1>9. \A t \in Sessions : t # s => sq'[t] = sq[t]
  BY <1>3, <1>7
<1>10. sq' \in [Sessions -> Seq(ThreadCommands)]
  <2>1. CASE s \in Sessions
    <3>1. sq' = [sq EXCEPT ![s] = sq'[s]]
      BY <1>3, <1>7, <2>1
    <3>. QED
      BY <3>1, <1>7, <1>8, <2>1
  <2>2. CASE s \notin Sessions
    BY <1>3, <1>7, <2>2
  <2>. QED
    BY <2>1, <2>2
<1>11. \A t \in Sessions : t = conn[c].att => Given(t, <<"detach", c>>)
  BY <1>1, <1>8
<1>12. \A t \in Sessions : t # conn[c].att => sq'[t] = sq[t]
  BY <1>1, <1>9
<1>. QED
  BY <1>3, <1>4, <1>5, <1>6, <1>10, <1>11, <1>12

-----------------------------------------------------------------------------
(* What the writer threads do.                                               *)

WriterStep(c) ==
  /\ clients' = clients /\ subs' = subs /\ dq' = dq /\ sq' = sq /\ conn' = conn /\ sent' = sent
  /\ net' \in Net /\ wr' \in [Clients -> Writers] /\ h' \in Past /\ Honest(net', wr', h'.lost)
  /\ \A b \in Clients \ {c} : net'.q[b] = net.q[b] /\ wr'[b] = wr[b]
  /\ h'.over \subseteq h.over
  /\ \/ /\ wr' = wr /\ h'.copies = h.copies /\ wr[c] = "runs"
        /\ Down(net', c) <=> Down(net, c)
     \/ wr'[c] # "runs" /\ h'.copies = Changed(h.copies, {c})
     \/ wr'[c] # "runs" /\ wr[c] # "runs" /\ h'.copies = h.copies

\* The message is uncounted as it leaves the queue.
Leaves(c, k, ms) ==
  /\ k \in 0..Len(net.q[c]) /\ ms \in Seq(Messages) /\ Len(ms) = k
  /\ Weighing(SubSeq(net.q[c], k + 1, Len(net.q[c]))) = Weighing(net.q[c]) - Weighing(ms)
  /\ net' = Dequeued(Uncount(net, c, ms), c, k)

LEMMA Dequeues ==
  ASSUME Shapes, CountPart, NEW c \in Clients, wr[c] # "gone", NEW k, NEW ms, Leaves(c, k, ms)
  PROVE  /\ net' \in Net /\ Honest(net', wr, h.lost)
         /\ \A b \in Clients \ {c} : net'.q[b] = net.q[b]
         /\ Len(net'.q[c]) = Len(net.q[c]) - k
         /\ \A i \in 1..Len(net'.q[c]) : net'.q[c][i] = net.q[c][i + k]
<1>1. net \in Net /\ Honest(net, wr, h.lost) /\ h.lost \in Nat
  BY CountIsHonest, PastFields DEF Shapes
<1>2. PICK q : q = net.q[c]
  OBVIOUS
<1>3. q \in Seq(Messages) /\ Len(q) \in Nat /\ net.bytes[c] = Weighing(q)
  BY <1>1, <1>2, NetShape DEF Honest
<1>4. PICK r : r = SubSeq(q, k + 1, Len(q))
  OBVIOUS
<1>5. PICK B : B = [net.bytes EXCEPT ![c] = net.bytes[c] - Weighing(ms)]
  OBVIOUS
<1>6. net' = [net EXCEPT !.bytes = B, !.global = net.global - k, !.q = [net.q EXCEPT ![c] = r]]
  <2>1. PICK n : n = Uncount(net, c, ms)
    OBVIOUS
  <2>2. n = [net EXCEPT !.bytes = B, !.global = net.global - k]
    BY <2>1, <1>1, <1>5 DEF Uncount, Net, Leaves
  <2>3. n.q = net.q
    BY <2>2, <1>1 DEF Net
  <2>4. net' = [n EXCEPT !.q = [net.q EXCEPT ![c] = r]]
    BY <2>1, <2>2, <2>3, <1>1, <1>2, <1>4 DEF Dequeued, Net, Leaves
  <2>. QED
    BY <2>2, <2>4, <1>1 DEF Net
<1>7. /\ net' = [q |-> net'.q, bytes |-> net'.bytes, global |-> net'.global]
      /\ net'.q = [net.q EXCEPT ![c] = r] /\ net'.bytes = B /\ net'.global = net.global - k
  BY <1>1, <1>6 DEF Net
<1>8. net'.q = [net.q EXCEPT ![c] = SubSeq(net.q[c], k + 1, Len(net.q[c]))]
  BY <1>2, <1>4, <1>7
<1>9. k \in 0..Len(net.q[c])
  BY DEF Leaves
<1>10. /\ net'.q \in [Clients -> Seq(Messages)]
       /\ \A b \in Clients \ {c} : net'.q[b] = net.q[b]
       /\ Len(net'.q[c]) = Len(net.q[c]) - k
       /\ \A i \in 1..Len(net'.q[c]) : net'.q[c][i] = net.q[c][i + k]
       /\ Cardinality(Waiting(net)) \in Nat
       /\ Cardinality(Waiting(net')) = Cardinality(Waiting(net)) - k
       /\ Cardinality(Waiting(net')) \in Nat
  <2>1. PICK g : g = net'
    OBVIOUS
  <2>2. g.q = [net.q EXCEPT ![c] = SubSeq(net.q[c], k + 1, Len(net.q[c]))]
    BY <2>1, <1>8
  <2>3. /\ g.q \in [Clients -> Seq(Messages)]
        /\ \A b \in Clients \ {c} : g.q[b] = net.q[b]
        /\ Len(g.q[c]) = Len(net.q[c]) - k
        /\ \A i \in 1..Len(g.q[c]) : g.q[c][i] = net.q[c][i + k]
        /\ Cardinality(Waiting(net)) \in Nat
        /\ Cardinality(Waiting(g)) = Cardinality(Waiting(net)) - k
        /\ Cardinality(Waiting(g)) \in Nat
    BY <2>2, <1>1, <1>9, DequeueShape
  <2>. QED
    BY <2>1, <2>3
<1>11. k \in Nat /\ net.global = h.lost + Cardinality(Waiting(net)) /\ net.global \in Nat
  BY <1>1, <1>2, <1>3, <1>9, NetShape DEF Honest
<1>12. net'.global = h.lost + Cardinality(Waiting(net')) /\ net'.global \in Nat
  <2>1. PICK l \in Nat, a \in Nat, z \in Nat :
          l = h.lost /\ a = Cardinality(Waiting(net)) /\ z = Cardinality(Waiting(net'))
    BY <1>1, <1>10
  <2>2. z = a - k /\ net'.global = (l + a) - k
    BY <2>1, <1>7, <1>10, <1>11
  <2>3. (l + a) - k = l + z /\ l + z \in Nat
    BY <2>1, <2>2, <1>11
  <2>. QED
    BY <2>1, <2>2, <2>3
<1>13. net'.q[c] = r /\ r \in Seq(Messages)
  BY <1>1, <1>7, <1>10 DEF Net
<1>14. Weighing(r) \in Nat /\ Weighing(r) = net.bytes[c] - Weighing(ms)
  BY <1>2, <1>3, <1>4, <1>13, SomeWeigh DEF Leaves
<1>15. net.bytes \in [Clients -> Nat]
  BY <1>1 DEF Net
<1>16. B \in [Clients -> Nat] /\ B[c] = Weighing(r) /\ \A b \in Clients \ {c} : B[b] = net.bytes[b]
  BY <1>5, <1>14, <1>15
<1>17. net' \in Net
  BY <1>7, <1>10, <1>12, <1>16 DEF Net
<1>18. ASSUME NEW b \in Clients, wr[b] # "gone" PROVE net'.bytes[b] = Weighing(net'.q[b])
  <2>1. CASE b = c
    BY <2>1, <1>7, <1>13, <1>16
  <2>2. CASE b # c
    BY <2>2, <1>1, <1>7, <1>10, <1>16, <1>18 DEF Honest
  <2>. QED
    BY <2>1, <2>2
<1>19. Honest(net', wr, h.lost)
  BY <1>12, <1>18 DEF Honest
<1>. QED
  BY <1>10, <1>17, <1>19

\* A writer that stops, and what is then seen of its client.
LEMMA StopsFacts ==
  ASSUME Shapes, NEW c \in Clients, Stops(c)
  PROVE  /\ wr' \in [Clients -> Writers] /\ wr'[c] = "drains" /\ \A b \in Clients \ {c} : wr'[b] = wr[b]
         /\ h' \in Past /\ h'.copies = Changed(h.copies, {c}) /\ h'.lost = h.lost
         /\ h'.over \subseteq h.over
<1>1. wr \in [Clients -> Writers] /\ h \in Past
  BY DEF Shapes
<1>2. wr' = [wr EXCEPT ![c] = "drains"]
  BY DEF Stops
<1>3. wr' \in [Clients -> Writers] /\ wr'[c] = "drains" /\ \A b \in Clients \ {c} : wr'[b] = wr[b]
  BY <1>1, <1>2 DEF Writers
<1>4. PICK k : k = Changed(h.copies, {c})
  OBVIOUS
<1>5. PICK V \in SUBSET Clients : V = h.over \ {c}
  BY <1>1, PastFields
<1>6. k \in Table /\ h' = [h EXCEPT !.copies = k, !.over = V]
  BY <1>1, <1>4, <1>5, PastFields, ChangedShape DEF Stops
<1>7. h' \in Past /\ h'.copies = k /\ h'.over = V /\ h'.lost = h.lost
  BY <1>1, <1>6, PastCopiesOver
<1>. QED
  BY <1>3, <1>4, <1>5, <1>7

\* Of a writer that has not ended only the place matters to the counters.
LEMMA HonestWriters ==
  ASSUME NEW n, NEW l, NEW w \in [Clients -> Writers], NEW v \in [Clients -> Writers], Honest(n, w, l),
         \A c \in Clients : w[c] = "gone" => v[c] = "gone"
  PROVE  Honest(n, v, l)
BY DEF Honest

LEMMA WriteFacts ==
  ASSUME Shapes, CountPart, NEW c \in Clients, Write(c)
  PROVE  WriterStep(c)
<1>1. /\ net \in Net /\ wr \in [Clients -> Writers] /\ h \in Past
      /\ wr[c] = "runs" /\ net.q[c] # <<>> /\ Rest
  BY DEF Shapes, Write
<1>2. PICK q : q = net.q[c]
  OBVIOUS
<1>3. q \in Seq(Messages) /\ q # <<>>
  BY <1>1, <1>2, NetShape
<1>4. Len(q) \in Nat \ {0} /\ Head(q) = q[1] /\ Head(q) \in Messages
  BY <1>3, TailShifts
<1>5. PICK ms : ms = <<Head(q)>>
  OBVIOUS
<1>6. ms \in Seq(Messages) /\ Len(ms) = 1 /\ 1 \in 0..Len(q)
  BY <1>4, <1>5
<1>7. Weighing(SubSeq(q, 1 + 1, Len(q))) = Weighing(q) - Weighing(ms)
  BY <1>3, <1>5, WeighHead
<1>8. net' = Dequeued(Uncount(net, c, ms), c, 1)
  BY <1>2, <1>5 DEF Write
<1>9. /\ net' \in Net /\ Honest(net', wr, h.lost)
      /\ \A b \in Clients \ {c} : net'.q[b] = net.q[b]
      /\ Len(net'.q[c]) = Len(q) - 1
      /\ \A i \in 1..Len(net'.q[c]) : net'.q[c][i] = q[i + 1]
  BY <1>1, <1>2, <1>6, <1>7, <1>8, Dequeues DEF Leaves
<1>10. CASE Head(q) # "evicted" /\ UNCHANGED <<wr, h>>
  <2>1. Down(net', c) <=> Down(net, c)
    <3>1. ASSUME NEW i \in 1..Len(q), q[i] = "evicted" PROVE Down(net', c)
      <4>1. i # 1
        BY <3>1, <1>4, <1>10
      <4>2. i - 1 \in 1..Len(net'.q[c]) /\ (i - 1) + 1 = i
        BY <4>1, <1>4, <1>9
      <4>3. net'.q[c][i - 1] = "evicted"
        BY <3>1, <4>2, <1>9
      <4>. QED
        BY <4>2, <4>3 DEF Down
    <3>2. ASSUME NEW i \in 1..Len(net'.q[c]), net'.q[c][i] = "evicted" PROVE Down(net, c)
      <4>1. i + 1 \in 1..Len(q) /\ q[i + 1] = "evicted"
        BY <3>2, <1>4, <1>9
      <4>. QED
        BY <4>1, <1>2 DEF Down
    <3>. QED
      BY <3>1, <3>2, <1>1, <1>2 DEF Down
  <2>. QED
    BY <2>1, <1>1, <1>9, <1>10 DEF WriterStep, Rest
<1>11. CASE Stops(c)
  <2>1. /\ wr' \in [Clients -> Writers] /\ wr'[c] = "drains" /\ \A b \in Clients \ {c} : wr'[b] = wr[b]
        /\ h' \in Past /\ h'.copies = Changed(h.copies, {c}) /\ h'.lost = h.lost
        /\ h'.over \subseteq h.over
    BY <1>11, StopsFacts
  <2>2. \A b \in Clients : wr[b] = "gone" => wr'[b] = "gone"
    BY <2>1, <1>1
  <2>3. Honest(net', wr', h'.lost)
    BY <2>1, <2>2, <1>1, <1>9, HonestWriters
  <2>. QED
    BY <2>1, <2>3, <1>1, <1>9 DEF WriterStep, Rest
<1>. QED
  BY <1>2, <1>10, <1>11 DEF Write

LEMMA HangupFacts ==
  ASSUME Shapes, CountPart, NEW c \in Clients, Hangup(c)
  PROVE  WriterStep(c)
<1>1. /\ net \in Net /\ wr \in [Clients -> Writers] /\ h \in Past
      /\ wr[c] = "runs" /\ Stops(c) /\ Rest /\ net' = net
  BY DEF Shapes, Hangup
<1>2. /\ wr' \in [Clients -> Writers] /\ wr'[c] = "drains" /\ \A b \in Clients \ {c} : wr'[b] = wr[b]
      /\ h' \in Past /\ h'.copies = Changed(h.copies, {c}) /\ h'.lost = h.lost
      /\ h'.over \subseteq h.over
  BY <1>1, StopsFacts
<1>3. \A b \in Clients : wr[b] = "gone" => wr'[b] = "gone"
  BY <1>1, <1>2
<1>4. Honest(net, wr, h.lost)
  BY CountIsHonest
<1>5. Honest(net', wr', h'.lost)
  BY <1>1, <1>2, <1>3, <1>4, HonestWriters
<1>. QED
  BY <1>1, <1>2, <1>5 DEF WriterStep, Rest

LEMMA DrainFacts ==
  ASSUME Shapes, CountPart, NEW c \in Clients, Drain(c)
  PROVE  WriterStep(c)
<1>1. /\ net \in Net /\ wr \in [Clients -> Writers] /\ h \in Past
      /\ wr[c] = "drains" /\ Rest /\ h' = h /\ wr' = [wr EXCEPT ![c] = "drained"]
  BY DEF Shapes, Drain
<1>2. PICK q : q = net.q[c]
  OBVIOUS
<1>3. q \in Seq(Messages) /\ Len(q) \in Nat /\ Len(q) \in 0..Len(q)
  BY <1>1, <1>2, NetShape
<1>4. Weighing(SubSeq(q, Len(q) + 1, Len(q))) = Weighing(q) - Weighing(q)
  <2>1. SubSeq(q, Len(q) + 1, Len(q)) = <<>>
    BY <1>3, SubSeqEmpty
  <2>2. Weighing(<<>>) = 0
    <3>1. <<>> \in Seq(Messages)
      OBVIOUS
    <3>. QED
      BY <3>1, SomeWeigh
  <2>3. Weighing(q) \in Nat
    BY <1>3, SomeWeigh
  <2>4. Weighing(q) - Weighing(q) = 0
    BY <2>3
  <2>. QED
    BY <2>1, <2>2, <2>4, Zenon
<1>5. net' = Dequeued(Uncount(net, c, q), c, Len(q))
  BY <1>2 DEF Drain
<1>6. /\ net' \in Net /\ Honest(net', wr, h.lost)
      /\ \A b \in Clients \ {c} : net'.q[b] = net.q[b]
  BY <1>1, <1>2, <1>3, <1>4, <1>5, Dequeues DEF Leaves
<1>7. wr' \in [Clients -> Writers] /\ wr'[c] = "drained" /\ \A b \in Clients \ {c} : wr'[b] = wr[b]
  BY <1>1 DEF Writers
<1>8. \A b \in Clients : wr[b] = "gone" => wr'[b] = "gone"
  BY <1>1, <1>7
<1>9. Honest(net', wr', h'.lost)
  BY <1>1, <1>6, <1>7, <1>8, HonestWriters
<1>. QED
  BY <1>1, <1>6, <1>7, <1>9 DEF WriterStep, Rest

LEMMA EndFacts ==
  ASSUME Shapes, CountPart, NEW c \in Clients, End(c)
  PROVE  WriterStep(c)
<1>1. /\ net \in Net /\ wr \in [Clients -> Writers] /\ h \in Past
      /\ wr[c] = "drained" /\ Rest /\ wr' = [wr EXCEPT ![c] = "gone"]
  BY DEF Shapes, End
<1>2. PICK k : k = Len(net.q[c])
  OBVIOUS
<1>3. k \in Nat /\ k \in 0..Len(net.q[c])
  BY <1>1, <1>2, NetShape
<1>4. PICK Q : Q = [net.q EXCEPT ![c] = SubSeq(net.q[c], k + 1, Len(net.q[c]))]
  OBVIOUS
<1>5. net' = [net EXCEPT !.q = Q] /\ h' = [h EXCEPT !.lost = h.lost + k]
  BY <1>1, <1>2, <1>4 DEF End, Dequeued, Net
<1>6. /\ net' = [q |-> net'.q, bytes |-> net'.bytes, global |-> net'.global]
      /\ net'.q = Q /\ net'.bytes = net.bytes /\ net'.global = net.global
  BY <1>1, <1>5 DEF Net
<1>7. /\ net'.q \in [Clients -> Seq(Messages)]
      /\ \A b \in Clients \ {c} : net'.q[b] = net.q[b]
      /\ Cardinality(Waiting(net)) \in Nat
      /\ Cardinality(Waiting(net')) = Cardinality(Waiting(net)) - k
  <2>1. PICK g : g = net'
    OBVIOUS
  <2>2. g.q = [net.q EXCEPT ![c] = SubSeq(net.q[c], k + 1, Len(net.q[c]))]
    BY <2>1, <1>4, <1>6
  <2>3. /\ g.q \in [Clients -> Seq(Messages)]
        /\ \A b \in Clients \ {c} : g.q[b] = net.q[b]
        /\ Len(g.q[c]) = Len(net.q[c]) - k
        /\ \A i \in 1..Len(g.q[c]) : g.q[c][i] = net.q[c][i + k]
        /\ Cardinality(Waiting(net)) \in Nat
        /\ Cardinality(Waiting(g)) = Cardinality(Waiting(net)) - k
        /\ Cardinality(Waiting(g)) \in Nat
    <3>1. net \in Net /\ k \in 0..Len(net.q[c])
      BY <1>1, <1>3
    <3>. QED
      BY <2>2, <3>1, DequeueShape
  <2>. QED
    BY <2>1, <2>3
<1>8. net' \in Net
  BY <1>1, <1>6, <1>7 DEF Net
<1>9. Honest(net, wr, h.lost) /\ h.lost \in Nat
  BY <1>1, CountIsHonest, PastFields
<1>10. h.lost + k \in Nat
  BY <1>3, <1>9
<1>11. h' \in Past /\ h'.copies = h.copies /\ h'.over = h.over /\ h'.lost = h.lost + k
  BY <1>1, <1>5, <1>10, PastLost
<1>12. net'.global = h'.lost + Cardinality(Waiting(net'))
  BY <1>3, <1>6, <1>7, <1>9, <1>11 DEF Honest
<1>13. wr' \in [Clients -> Writers] /\ wr'[c] = "gone" /\ \A b \in Clients \ {c} : wr'[b] = wr[b]
  BY <1>1 DEF Writers
<1>14. ASSUME NEW b \in Clients, wr'[b] # "gone" PROVE net'.bytes[b] = Weighing(net'.q[b])
  <2>1. b # c /\ wr[b] # "gone"
    BY <1>13, <1>14
  <2>. QED
    BY <2>1, <1>6, <1>7, <1>9 DEF Honest
<1>15. Honest(net', wr', h'.lost)
  BY <1>12, <1>14 DEF Honest
<1>. QED
  BY <1>1, <1>7, <1>8, <1>11, <1>13, <1>15 DEF WriterStep, Rest

-----------------------------------------------------------------------------
(* Shapes and counters.                                                      *)

LEMMA CountsStep ==
  ASSUME Shapes, CountPart, Next
  PROVE  Shapes' /\ CountPart'
<1>1. /\ wr \in [Clients -> Writers] /\ clients \in [Clients -> Entry]
      /\ subs \in [Sessions -> SUBSET Clients] /\ sent \subseteq Events /\ conn \in [Clients -> Link]
      /\ dq \in Seq(LoopCommands) /\ sq \in [Sessions -> Seq(ThreadCommands)] /\ h \in Past
      /\ h.lost \in Nat /\ Honest(net, wr, h.lost)
  BY CountIsHonest, PastFields DEF Shapes
<1>2. ASSUME NEW D \in SUBSET Clients, LoopStep(D), Loops, dq' \in Seq(LoopCommands), h' \in Past,
             h'.lost = h.lost
      PROVE  Shapes' /\ CountPart'
  <2>1. clients' \in [Clients -> Entry]
    BY <1>1, <1>2, RemovedShape DEF LoopStep
  <2>2. net' \in Net /\ Honest(net', wr', h'.lost) /\ sq' \in [Sessions -> Seq(ThreadCommands)]
    BY <1>1, <1>2 DEF LoopStep, Loops
  <2>3. CountPart'
    BY <2>2, CountAfter
  <2>. QED
    BY <1>1, <1>2, <2>1, <2>2, <2>3 DEF Shapes, Loops
<1>3. ASSUME NetStep, h' \in Past, h'.lost = h.lost PROVE net' \in Net /\ wr' = wr /\ CountPart'
  <2>1. net' \in Net /\ wr' = wr /\ Honest(net', wr', h'.lost)
    BY <1>1, <1>3 DEF NetStep
  <2>. QED
    BY <2>1, CountAfter
<1>4. CASE HandleActivity
  <2>1. PICK e \in Events, D \in SUBSET Clients :
           /\ Taken(<<"activity", e>>)
           /\ FanStep({c \in Clients : clients[c].in /\ clients[c].activity
                                       /\ Origin[e] \notin clients[c].sessions}, e, D)
    BY <1>4, ActivityFacts
  <2>. QED
    BY <1>2, <2>1 DEF FanStep, Taken
<1>5. CASE HandleStatus
  <2>1. PICK e \in Events, D \in SUBSET Clients :
           /\ Taken(<<"status", e>>)
           /\ FanStep({c \in Clients : clients[c].in /\ clients[c].summary /\ ~clients[c].activity
                                       /\ Origin[e] \notin clients[c].sessions}, e, D)
    BY <1>5, StatusFacts
  <2>. QED
    BY <1>2, <2>1 DEF FanStep, Taken
<1>6. CASE HandleEvict
  <2>1. PICK m \in LoopCommands, D \in SUBSET Clients :
           Taken(m) /\ m[1] \in {"evict", "largest"} /\ OustStep(D)
    BY <1>6, EvictFacts
  <2>. QED
    BY <1>2, <2>1 DEF OustStep, Taken
<1>7. CASE HandleTrack
  <2>1. /\ dq' \in Seq(LoopCommands) /\ Loops /\ net' = net /\ sq' = sq /\ h' = h
        /\ clients' \in [Clients -> Entry]
    BY <1>7, TrackFacts DEF Taken
  <2>2. net' \in Net /\ wr' = wr /\ CountPart'
    BY <2>1, <1>1, <1>3, StillStep DEF Loops
  <2>. QED
    BY <2>1, <2>2, <1>1 DEF Shapes, Loops
<1>8. CASE HandleUntrack
  <2>1. /\ dq' \in Seq(LoopCommands) /\ Loops /\ net' = net /\ sq' = sq /\ h' = h
        /\ clients' \in [Clients -> Entry]
    BY <1>8, UntrackFacts DEF Taken
  <2>2. net' \in Net /\ wr' = wr /\ CountPart'
    BY <2>1, <1>1, <1>3, StillStep DEF Loops
  <2>. QED
    BY <2>1, <2>2, <1>1 DEF Shapes, Loops
<1>9. CASE HandleSubscribe
  <2>1. /\ dq' \in Seq(LoopCommands) /\ Loops /\ NetStep /\ sq' = sq /\ h' \in Past
        /\ h'.lost = h.lost /\ clients' \in [Clients -> Entry]
    BY <1>9, SubscribeFacts DEF Taken
  <2>2. net' \in Net /\ wr' = wr /\ CountPart'
    BY <2>1, <1>3
  <2>. QED
    BY <2>1, <2>2, <1>1 DEF Shapes, Loops
<1>10. CASE HandleUnsubscribe
  <2>1. /\ dq' \in Seq(LoopCommands) /\ Loops /\ net' = net /\ sq' = sq /\ h' \in Past
        /\ h'.lost = h.lost /\ clients' \in [Clients -> Entry]
    BY <1>10, UnsubscribeFacts DEF Taken
  <2>2. net' \in Net /\ wr' = wr /\ CountPart'
    BY <2>1, <1>1, <1>3, StillStep DEF Loops
  <2>. QED
    BY <2>1, <2>2, <1>1 DEF Shapes, Loops
<1>11. CASE HandleDisconnected
  <2>1. PICK c \in Clients :
          /\ dq' \in Seq(LoopCommands) /\ Loops /\ net' = net
          /\ sq' \in [Sessions -> Seq(ThreadCommands)] /\ h' \in Past
          /\ h'.lost = h.lost /\ clients' = Removed(clients, {c})
    BY <1>11, DisconnectedFacts DEF Taken
  <2>2. net' \in Net /\ wr' = wr /\ CountPart'
    BY <2>1, <1>1, <1>3, StillStep DEF Loops
  <2>3. clients' \in [Clients -> Entry]
    <3>1. {c} \in SUBSET Clients
      BY <2>1
    <3>. QED
      BY <3>1, <2>1, <1>1, RemovedShape
  <2>. QED
    BY <2>1, <2>2, <2>3, <1>1 DEF Shapes, Loops
<1>12. ASSUME NEW e \in Events, Emit(e) PROVE Shapes' /\ CountPart'
  <2>1. /\ sent' = sent \cup {e} /\ NetStep /\ clients' = clients /\ sq' = sq /\ conn' = conn
        /\ subs' \in [Sessions -> SUBSET Clients] /\ h' \in Past /\ h'.lost = h.lost
    BY <1>12, EmitFacts
  <2>2. dq' \in Seq(LoopCommands)
    BY <1>12, EmitFacts DEF Posts
  <2>3. net' \in Net /\ wr' = wr /\ CountPart'
    BY <2>1, <1>3
  <2>. QED
    BY <2>1, <2>2, <2>3, <1>1 DEF Shapes
<1>13. ASSUME NEW s \in Sessions, HandleAttach(s) \/ HandleDetach(s) \/ HandleRemove(s)
       PROVE  Shapes' /\ CountPart'
  <2>1. /\ sq' \in [Sessions -> Seq(ThreadCommands)] /\ dq' \in Seq(LoopCommands) /\ NetStep /\ Threads
        /\ subs' \in [Sessions -> SUBSET Clients]
    <3>1. CASE HandleAttach(s)
      BY <3>1, AttachedFacts DEF Taking, Queued, Subscribers
    <3>2. CASE HandleDetach(s)
      BY <3>2, DetachedFacts DEF Taking, Queued, Subscribers
    <3>3. CASE HandleRemove(s)
      BY <3>3, <1>1, RemovedFacts DEF Taking, Subscribers
    <3>. QED
      BY <1>13, <3>1, <3>2, <3>3
  <2>2. net' \in Net /\ wr' = wr /\ CountPart'
    BY <2>1, <1>1, <1>3 DEF Threads
  <2>. QED
    BY <2>1, <2>2, <1>1 DEF Shapes, Threads
<1>14. ASSUME NEW c \in Clients,
              \/ Close(c) \/ GetImage(c) \/ \E s \in Sessions : Attach(c, s)
              \/ \E k \in {"subscribe", "unsubscribe"}, w \in {"activity", "summary"} : Subscribe(c, k, w)
       PROVE  Shapes' /\ CountPart'
  <2>1. /\ sq' \in [Sessions -> Seq(ThreadCommands)] /\ dq' \in Seq(LoopCommands) /\ NetStep /\ Sides
        /\ conn' \in [Clients -> Link]
    <3>1. CASE Close(c)
      BY <3>1, CloseFacts DEF Linked, Queued
    <3>2. CASE GetImage(c)
      BY <3>2, <1>1, ImageFacts DEF Linked
    <3>3. CASE \E s \in Sessions : Attach(c, s)
      BY <3>3, <1>1, SwitchFacts DEF Linked
    <3>4. CASE \E k \in {"subscribe", "unsubscribe"}, w \in {"activity", "summary"} : Subscribe(c, k, w)
      BY <3>4, <1>1, RequestFacts DEF Linked, Queued
    <3>. QED
      BY <1>14, <3>1, <3>2, <3>3, <3>4
  <2>2. net' \in Net /\ wr' = wr /\ CountPart'
    BY <2>1, <1>1, <1>3 DEF Sides
  <2>. QED
    BY <2>1, <2>2, <1>1 DEF Shapes, Sides
<1>15. ASSUME NEW c \in Clients, Writer(c) PROVE Shapes' /\ CountPart'
  <2>1. WriterStep(c)
    BY <1>15, WriteFacts, HangupFacts, DrainFacts, EndFacts DEF Writer
  <2>2. CountPart'
    BY <2>1, CountAfter DEF WriterStep
  <2>. QED
    BY <2>1, <2>2, <1>1 DEF Shapes, WriterStep
<1>. QED
  BY <1>4, <1>5, <1>6, <1>7, <1>8, <1>9, <1>10, <1>11, <1>12, <1>13, <1>14, <1>15 DEF Next, Daemon

-----------------------------------------------------------------------------
(* Closed connections.                                                       *)

LEMMA FollowsShifted ==
  ASSUME NEW q, NEW r, NEW i, NEW m, Len(q) \in Nat, Len(r) \in Nat, i \in 1..Len(q),
         Shifts(q, r), Follows(q, i, m)
  PROVE  Follows(r, i - 1, m)
<1>1. PICK j \in (i + 1)..Len(q) : q[j] = m
  BY DEF Follows
<1>2. j - 1 \in ((i - 1) + 1)..Len(r) /\ j - 1 \in 1..Len(r) /\ (j - 1) + 1 = j
  BY DEF Shifts
<1>3. r[j - 1] = m
  BY <1>1, <1>2 DEF Shifts
<1>. QED
  BY <1>2, <1>3 DEF Follows

LEMMA FollowsKept ==
  ASSUME NEW q, NEW r, NEW i \in Nat, NEW m, Len(q) \in Nat, Len(r) \in Nat, Len(q) =< Len(r),
         \A j \in 1..Len(q) : r[j] = q[j], Follows(q, i, m)
  PROVE  Follows(r, i, m)
<1>1. PICK j \in (i + 1)..Len(q) : q[j] = m
  BY DEF Follows
<1>2. j \in (i + 1)..Len(r) /\ j \in 1..Len(q)
  OBVIOUS
<1>. QED
  BY <1>1, <1>2 DEF Follows

\* The loop takes a command.
LEMMA GoneTaken ==
  ASSUME NEW c \in Clients, NEW m, Taken(m), conn' = conn, GoneAt(c),
         clients'[c].in => clients[c].in \/ (m[1] = "subscribe" /\ m[2] = c),
         m = <<"disconnected", c>> => ~clients'[c].in
  PROVE  GoneAt(c)'
<1>. DEFINE d == <<"disconnected", c>>
<1>1. /\ Shifts(dq, dq') /\ dq[1] = m /\ Len(dq) \in Nat \ {0} /\ Len(dq') \in Nat
      /\ 1 \in 1..Len(dq)
  BY DEF Taken
<1>2. \A i \in 1..Len(dq') : i + 1 \in 1..Len(dq) /\ dq'[i] = dq[i + 1] /\ (i + 1) - 1 = i
  BY <1>1 DEF Shifts
<1>3. ASSUME ~conn'[c].open, clients'[c].in PROVE Follows(dq', 0, d)
  <2>1. CASE m[1] = "subscribe" /\ m[2] = c
    <3>1. 1 \in Asks(c)
      BY <2>1, <1>1 DEF Asks
    <3>2. Follows(dq, 1, d)
      BY <3>1, <1>3 DEF GoneAt
    <3>3. Follows(dq', 1 - 1, d)
      BY <3>2, <1>1, FollowsShifted
    <3>. QED
      BY <3>3
  <2>2. CASE clients[c].in
    <3>1. Follows(dq, 0, d)
      BY <2>2, <1>3 DEF GoneAt
    <3>2. PICK j \in 1..Len(dq) : dq[j] = d
      BY <3>1 DEF Follows
    <3>3. j # 1
      BY <3>2, <1>1, <1>3
    <3>4. j - 1 \in 1..Len(dq') /\ (j - 1) + 1 = j
      BY <3>3, <1>1 DEF Shifts
    <3>5. dq'[j - 1] = d
      BY <3>2, <3>4, <1>2
    <3>6. j - 1 \in (0 + 1)..Len(dq')
      BY <3>4
    <3>. QED
      BY <3>5, <3>6 DEF Follows
  <2>. QED
    BY <1>3, <2>1, <2>2
<1>4. ASSUME ~conn'[c].open, NEW i \in Asks(c)' PROVE Follows(dq', i, d)
  <2>1. i \in 1..Len(dq') /\ dq'[i][1] = "subscribe" /\ dq'[i][2] = c
    BY <1>4 DEF Asks
  <2>2. i + 1 \in 1..Len(dq) /\ dq[i + 1] = dq'[i]
    BY <2>1, <1>2
  <2>3. i + 1 \in Asks(c)
    BY <2>1, <2>2 DEF Asks
  <2>4. Follows(dq, i + 1, d)
    BY <2>3, <1>4 DEF GoneAt
  <2>5. Follows(dq', (i + 1) - 1, d)
    BY <2>2, <2>4, <1>1, FollowsShifted
  <2>6. (i + 1) - 1 = i
    BY <2>1, <1>2
  <2>. QED
    BY <2>5, <2>6
<1>5. \A i \in 1..Len(dq') : dq'[i] = d => ~conn'[c].open
  BY <1>2 DEF GoneAt
<1>6. \A i, j \in 1..Len(dq') : dq'[i] = d /\ dq'[j] = d => i = j
  <2>1. ASSUME NEW i \in 1..Len(dq'), NEW j \in 1..Len(dq'), dq'[i] = d, dq'[j] = d PROVE i = j
    <3>1. i + 1 = j + 1
      BY <2>1, <1>2 DEF GoneAt
    <3>. QED
      BY <3>1, <1>1
  <2>. QED
    BY <2>1
<1>. QED
  BY <1>3, <1>4, <1>5, <1>6 DEF GoneAt

\* Commands are queued that are not about the client's end.
LEMMA GoneQueued ==
  ASSUME NEW c \in Clients, Len(dq) \in Nat, Len(dq') \in Nat, Len(dq) =< Len(dq'), 
         \A j \in 1..Len(dq) : dq'[j] = dq[j],
         \A j \in (Len(dq) + 1)..Len(dq') : dq'[j] # <<"disconnected", c>>,
         \A j \in (Len(dq) + 1)..Len(dq') : dq'[j][1] = "subscribe" /\ dq'[j][2] = c => conn[c].open,
         conn'[c].open <=> conn[c].open, clients'[c].in => clients[c].in, GoneAt(c)
  PROVE  GoneAt(c)'
<1>. DEFINE d == <<"disconnected", c>>
<1>1. \A j \in 1..Len(dq') : j \in 1..Len(dq) \/ j \in (Len(dq) + 1)..Len(dq')
  OBVIOUS
<1>2. \A j \in 1..Len(dq) : j \in 1..Len(dq')
  OBVIOUS
<1>3. ASSUME ~conn'[c].open, clients'[c].in PROVE Follows(dq', 0, d)
  <2>1. Follows(dq, 0, d)
    BY <1>3 DEF GoneAt
  <2>. QED
    BY <2>1, FollowsKept
<1>4. ASSUME ~conn'[c].open, NEW i \in Asks(c)' PROVE Follows(dq', i, d)
  <2>1. i \in 1..Len(dq') /\ dq'[i][1] = "subscribe" /\ dq'[i][2] = c
    BY <1>4 DEF Asks
  <2>2. i \in 1..Len(dq)
    BY <2>1, <1>1, <1>4
  <2>3. i \in Asks(c)
    BY <2>1, <2>2 DEF Asks
  <2>4. Follows(dq, i, d) /\ i \in Nat
    BY <2>2, <2>3, <1>4 DEF GoneAt
  <2>. QED
    BY <2>4, FollowsKept
<1>5. \A i \in 1..Len(dq') : dq'[i] = d => i \in 1..Len(dq) /\ dq[i] = d
  BY <1>1
<1>6. \A i \in 1..Len(dq') : dq'[i] = d => ~conn'[c].open
  BY <1>5 DEF GoneAt
<1>7. \A i, j \in 1..Len(dq') : dq'[i] = d /\ dq'[j] = d => i = j
  BY <1>5 DEF GoneAt
<1>. QED
  BY <1>3, <1>4, <1>6, <1>7 DEF GoneAt

\* The connection closes.
LEMMA GoneClosed ==
  ASSUME NEW c \in Clients, Queued(<<"disconnected", c>>), conn[c].open, ~conn'[c].open, GoneAt(c)
  PROVE  GoneAt(c)'
<1>. DEFINE d == <<"disconnected", c>>
<1>1. /\ Len(dq) \in Nat /\ Len(dq') = Len(dq) + 1 /\ dq'[Len(dq) + 1] = d
      /\ \A i \in 1..Len(dq) : dq'[i] = dq[i]
  BY DEF Queued
<1>2. \A i \in 1..Len(dq') : i \in 1..Len(dq) \/ i = Len(dq) + 1
  BY <1>1
<1>3. \A i \in 1..Len(dq) : dq'[i] # d
  BY <1>1 DEF GoneAt
<1>4. Follows(dq', 0, d)
  <2>1. Len(dq) + 1 \in (0 + 1)..Len(dq')
    BY <1>1
  <2>. QED
    BY <2>1, <1>1 DEF Follows
<1>5. ASSUME NEW i \in Asks(c)' PROVE Follows(dq', i, d)
  <2>1. i \in 1..Len(dq') /\ dq'[i][1] = "subscribe"
    BY <1>5 DEF Asks
  <2>2. i # Len(dq) + 1
    BY <2>1, <1>1
  <2>3. i \in 1..Len(dq)
    BY <2>1, <2>2, <1>2
  <2>4. Len(dq) + 1 \in (i + 1)..Len(dq')
    BY <2>3, <1>1
  <2>. QED
    BY <2>4, <1>1 DEF Follows
<1>6. \A i, j \in 1..Len(dq') : dq'[i] = d /\ dq'[j] = d => i = j
  BY <1>2, <1>3
<1>. QED
  BY <1>4, <1>5, <1>6 DEF GoneAt

LEMMA QueuedLast ==
  ASSUME NEW m, Queued(m)
  PROVE  /\ Len(dq) \in Nat /\ Len(dq') \in Nat /\ Len(dq) =< Len(dq')
         /\ \A j \in 1..Len(dq) : dq'[j] = dq[j]
         /\ \A j \in (Len(dq) + 1)..Len(dq') : j = Len(dq) + 1 /\ dq'[j] = m
<1>1. /\ Len(dq) \in Nat /\ Len(dq') = Len(dq) + 1 /\ dq'[Len(dq) + 1] = m
      /\ \A i \in 1..Len(dq) : dq'[i] = dq[i]
  BY DEF Queued
<1>2. \A j \in (Len(dq) + 1)..Len(dq') : j = Len(dq) + 1
  BY <1>1
<1>. QED
  BY <1>1, <1>2

LEMMA DaemonTakes ==
  ASSUME Shapes, Daemon, NEW c \in Clients
  PROVE  \E m : /\ Taken(m) /\ conn' = conn
                /\ clients'[c].in => clients[c].in \/ (m[1] = "subscribe" /\ m[2] = c)
                /\ m = <<"disconnected", c>> => ~clients'[c].in
<1>1. clients \in [Clients -> Entry]
  BY DEF Shapes
<1>2. ASSUME NEW D \in SUBSET Clients, LoopStep(D)
      PROVE  clients'[c].in => clients[c].in
  <2>1. clients'[c] = IF c \in D THEN Absent ELSE clients[c]
    BY <1>1, <1>2, RemovedShape DEF LoopStep
  <2>. QED
    BY <2>1 DEF Absent
<1>3. CASE HandleActivity
  <2>1. PICK e \in Events, D \in SUBSET Clients :
           /\ Taken(<<"activity", e>>)
           /\ FanStep({b \in Clients : clients[b].in /\ clients[b].activity
                                       /\ Origin[e] \notin clients[b].sessions}, e, D)
    BY <1>3, ActivityFacts
  <2>2. conn' = conn /\ (clients'[c].in => clients[c].in)
    BY <2>1, <1>2 DEF FanStep, Loops
  <2>3. PICK m : m = <<"activity", e>>
    OBVIOUS
  <2>4. Taken(m) /\ m # <<"disconnected", c>>
    BY <2>1, <2>3
  <2>. QED
    BY <2>2, <2>4
<1>4. CASE HandleStatus
  <2>1. PICK e \in Events, D \in SUBSET Clients :
           /\ Taken(<<"status", e>>)
           /\ FanStep({b \in Clients : clients[b].in /\ clients[b].summary /\ ~clients[b].activity
                                       /\ Origin[e] \notin clients[b].sessions}, e, D)
    BY <1>4, StatusFacts
  <2>2. conn' = conn /\ (clients'[c].in => clients[c].in)
    BY <2>1, <1>2 DEF FanStep, Loops
  <2>3. PICK m : m = <<"status", e>>
    OBVIOUS
  <2>4. Taken(m) /\ m # <<"disconnected", c>>
    BY <2>1, <2>3
  <2>. QED
    BY <2>2, <2>4
<1>5. CASE HandleEvict
  <2>1. PICK m \in LoopCommands, D \in SUBSET Clients :
           Taken(m) /\ m[1] \in {"evict", "largest"} /\ OustStep(D)
    BY <1>5, EvictFacts
  <2>2. conn' = conn /\ (clients'[c].in => clients[c].in)
    BY <2>1, <1>2 DEF OustStep, Loops
  <2>3. m # <<"disconnected", c>>
    BY <2>1
  <2>. QED
    BY <2>1, <2>2, <2>3
<1>6. CASE HandleTrack
  <2>1. PICK b \in Clients, s \in Sessions :
          /\ Taken(<<"track", b, s>>) /\ Loops /\ \A a \in Clients \ {b} : clients'[a] = clients[a]
          /\ clients'[b].in = clients[b].in
    BY <1>6, TrackFacts
  <2>2. PICK m : m = <<"track", b, s>>
    OBVIOUS
  <2>3. Taken(m) /\ m # <<"disconnected", c>> /\ conn' = conn /\ (clients'[c].in => clients[c].in)
    BY <2>1, <2>2 DEF Loops
  <2>. QED
    BY <2>3
<1>7. CASE HandleUntrack
  <2>1. PICK b \in Clients, s \in Sessions :
          /\ Taken(<<"untrack", b, s>>) /\ Loops /\ \A a \in Clients \ {b} : clients'[a] = clients[a]
          /\ clients'[b].in = clients[b].in
    BY <1>7, UntrackFacts
  <2>2. PICK m : m = <<"untrack", b, s>>
    OBVIOUS
  <2>3. Taken(m) /\ m # <<"disconnected", c>> /\ conn' = conn /\ (clients'[c].in => clients[c].in)
    BY <2>1, <2>2 DEF Loops
  <2>. QED
    BY <2>3
<1>8. CASE HandleSubscribe
  <2>1. PICK b \in Clients, w \in {"activity", "summary"} :
          Taken(<<"subscribe", b, w>>) /\ Loops /\ \A a \in Clients \ {b} : clients'[a] = clients[a]
    BY <1>8, SubscribeFacts
  <2>2. PICK m : m = <<"subscribe", b, w>>
    OBVIOUS
  <2>3. /\ Taken(m) /\ m # <<"disconnected", c>> /\ conn' = conn
        /\ clients'[c].in => clients[c].in \/ (m[1] = "subscribe" /\ m[2] = c)
    BY <2>1, <2>2 DEF Loops
  <2>. QED
    BY <2>3
<1>9. CASE HandleUnsubscribe
  <2>1. PICK b \in Clients, w \in {"activity", "summary"} :
          /\ Taken(<<"unsubscribe", b, w>>) /\ Loops /\ \A a \in Clients \ {b} : clients'[a] = clients[a]
          /\ clients'[b].in = clients[b].in
    BY <1>9, UnsubscribeFacts
  <2>2. PICK m : m = <<"unsubscribe", b, w>>
    OBVIOUS
  <2>3. Taken(m) /\ m # <<"disconnected", c>> /\ conn' = conn /\ (clients'[c].in => clients[c].in)
    BY <2>1, <2>2 DEF Loops
  <2>. QED
    BY <2>3
<1>10. CASE HandleDisconnected
  <2>1. PICK b \in Clients :
          Taken(<<"disconnected", b>>) /\ Loops /\ clients' = Removed(clients, {b})
    BY <1>10, DisconnectedFacts
  <2>2. {b} \in SUBSET Clients
    BY <2>1
  <2>3. clients'[c] = IF c \in {b} THEN Absent ELSE clients[c]
    BY <2>1, <2>2, <1>1, RemovedShape
  <2>4. PICK m : m = <<"disconnected", b>>
    OBVIOUS
  <2>5. /\ Taken(m) /\ conn' = conn /\ (clients'[c].in => clients[c].in)
        /\ m = <<"disconnected", c>> => ~clients'[c].in
    BY <2>1, <2>3, <2>4 DEF Loops, Absent
  <2>. QED
    BY <2>5
<1>. QED
  BY <1>3, <1>4, <1>5, <1>6, <1>7, <1>8, <1>9, <1>10 DEF Daemon

LEMMA DaemonGone ==
  ASSUME Shapes, Daemon, NEW c \in Clients, GoneAt(c)
  PROVE  GoneAt(c)'
<1>1. PICK m : /\ Taken(m) /\ conn' = conn
               /\ clients'[c].in => clients[c].in \/ (m[1] = "subscribe" /\ m[2] = c)
               /\ m = <<"disconnected", c>> => ~clients'[c].in
  BY DaemonTakes
<1>. QED
  BY <1>1, GoneTaken

LEMMA GoneStep ==
  ASSUME Shapes, CountPart, GonePart, Next
  PROVE  GonePart'
<1>. SUFFICES ASSUME NEW c \in Clients PROVE GoneAt(c)'
  BY DEF GonePart
<1>1. GoneAt(c) /\ dq \in Seq(LoopCommands) /\ Len(dq) \in Nat
  BY LenProperties DEF GonePart, Shapes
<1>2. ASSUME dq' = dq, conn'[c].open <=> conn[c].open, clients' = clients PROVE GoneAt(c)'
  BY <1>1, <1>2 DEF GoneAt, Asks
<1>3. CASE Daemon
  BY <1>1, <1>3, DaemonGone
<1>4. ASSUME NEW e \in Events, Emit(e) PROVE GoneAt(c)'
  <2>1. PICK O : Posts(e, O)
    BY <1>4, EmitFacts
  <2>2. clients' = clients /\ conn' = conn
    BY <1>4, EmitFacts
  <2>3. /\ Len(dq) \in Nat /\ Len(dq') \in Nat /\ Len(dq) =< Len(dq')
        /\ \A j \in 1..Len(dq) : dq'[j] = dq[j]
    BY <2>1 DEF Posts
  <2>4. ASSUME NEW j \in (Len(dq) + 1)..Len(dq')
        PROVE  dq'[j] # <<"disconnected", c>> /\ dq'[j][1] # "subscribe"
    <3>1. j = Len(dq) + 1 \/ j \in (Len(dq) + 2)..Len(dq')
      BY <2>3
    <3>2. \/ dq'[j] = <<"activity", e>> \/ dq'[j] = <<"status", e>>
          \/ dq'[j][1] \in {"evict", "largest"}
      BY <3>1, <2>1 DEF Posts
    <3>. QED
      BY <3>2
  <2>. QED
    BY <2>2, <2>3, <2>4, <1>1, GoneQueued
<1>5. ASSUME NEW s \in Sessions, HandleAttach(s) \/ HandleDetach(s) \/ HandleRemove(s) PROVE GoneAt(c)'
  <2>1. CASE dq' = dq /\ Threads
    BY <1>2, <2>1 DEF Threads
  <2>2. ASSUME NEW b \in Clients, NEW k \in {"track", "untrack"}, Queued(<<k, b, s>>), Threads
        PROVE  GoneAt(c)'
    <3>1. PICK m : m = <<k, b, s>>
      OBVIOUS
    <3>2. m # <<"disconnected", c>> /\ m[1] # "subscribe" /\ Queued(m)
      BY <3>1, <2>2
    <3>3. /\ Len(dq) \in Nat /\ Len(dq') \in Nat /\ Len(dq) =< Len(dq')
          /\ \A j \in 1..Len(dq) : dq'[j] = dq[j]
          /\ \A j \in (Len(dq) + 1)..Len(dq') : j = Len(dq) + 1 /\ dq'[j] = m
      BY <3>2, QueuedLast
    <3>. QED
      BY <3>2, <3>3, <2>2, <1>1, GoneQueued DEF Threads
  <2>3. CASE HandleAttach(s)
    BY <2>2, <2>3, AttachedFacts
  <2>4. CASE HandleDetach(s)
    BY <2>2, <2>4, DetachedFacts
  <2>5. CASE HandleRemove(s)
    BY <2>1, <2>5, RemovedFacts
  <2>. QED
    BY <1>5, <2>3, <2>4, <2>5
<1>6. ASSUME NEW b \in Clients, Close(b) PROVE GoneAt(c)'
  <2>1. /\ Linked(b) /\ conn[b].open /\ ~conn'[b].open
        /\ Queued(<<"disconnected", b>>) /\ Sides
    BY <1>6, CloseFacts
  <2>2. CASE b = c
    BY <2>1, <2>2, <1>1, GoneClosed
  <2>3. CASE b # c
    <3>1. PICK m : m = <<"disconnected", b>>
      OBVIOUS
    <3>2. m # <<"disconnected", c>> /\ m[1] # "subscribe" /\ Queued(m)
      BY <3>1, <2>1, <2>3
    <3>3. /\ Len(dq) \in Nat /\ Len(dq') \in Nat /\ Len(dq) =< Len(dq')
          /\ \A j \in 1..Len(dq) : dq'[j] = dq[j]
          /\ \A j \in (Len(dq) + 1)..Len(dq') : j = Len(dq) + 1 /\ dq'[j] = m
      BY <3>2, QueuedLast
    <3>4. conn'[c] = conn[c] /\ clients' = clients
      BY <2>1, <2>3 DEF Linked, Sides
    <3>. QED
      BY <3>2, <3>3, <3>4, <1>1, GoneQueued
  <2>. QED
    BY <2>2, <2>3
<1>7. ASSUME NEW b \in Clients, NEW k \in {"subscribe", "unsubscribe"}, NEW w \in {"activity", "summary"},
             Subscribe(b, k, w)
      PROVE  GoneAt(c)'
  <2>1. /\ Linked(b) /\ conn'[b].open = conn[b].open /\ conn[b].open
        /\ Queued(<<k, b, w>>) /\ Sides
    BY <1>7, RequestFacts
  <2>2. PICK m : m = <<k, b, w>>
    OBVIOUS
  <2>3. m # <<"disconnected", c>> /\ (m[2] = c => conn[c].open) /\ Queued(m)
    BY <2>1, <2>2
  <2>4. /\ Len(dq) \in Nat /\ Len(dq') \in Nat /\ Len(dq) =< Len(dq')
        /\ \A j \in 1..Len(dq) : dq'[j] = dq[j]
        /\ \A j \in (Len(dq) + 1)..Len(dq') : j = Len(dq) + 1 /\ dq'[j] = m
    BY <2>3, QueuedLast
  <2>5. (conn'[c].open <=> conn[c].open) /\ clients' = clients
    BY <2>1 DEF Linked, Sides
  <2>. QED
    BY <2>3, <2>4, <2>5, <1>1, GoneQueued
<1>8. ASSUME NEW b \in Clients, GetImage(b) \/ \E s \in Sessions : Attach(b, s) PROVE GoneAt(c)'
  <2>1. Linked(b) /\ conn'[b].open = conn[b].open /\ dq' = dq /\ Sides
    BY <1>8, ImageFacts, SwitchFacts
  <2>. QED
    BY <2>1, <1>2 DEF Linked, Sides
<1>9. ASSUME NEW b \in Clients, Writer(b) PROVE GoneAt(c)'
  <2>1. WriterStep(b)
    BY <1>9, WriteFacts, HangupFacts, DrainFacts, EndFacts DEF Writer
  <2>. QED
    BY <2>1, <1>2 DEF WriterStep
<1>. QED
  BY <1>3, <1>4, <1>5, <1>6, <1>7, <1>8, <1>9 DEF Next

-----------------------------------------------------------------------------
(* Clients on their way out.                                                 *)

LEMMA DownNow ==
  ASSUME Shapes, NEW c \in Clients
  PROVE  GoingDown(c) <=> Down(net, c)
BY NetShape DEF Shapes, GoingDown, Down

LEMMA DownNext ==
  ASSUME net' \in Net, wr' = wr, NEW c \in Clients
  PROVE  GoingDown(c)' <=> Down(net', c)
<1>1. DOMAIN (net'.q[c]) = 1..Len(net'.q[c])
  BY NetShape
<1>. QED
  BY <1>1 DEF GoingDown, Down

LEMMA DownByNet ==
  ASSUME Shapes, NetStep, NEW c \in Clients
  PROVE  GoingDown(c)' <=> GoingDown(c)
<1>1. Extends(net.q[c], net'.q[c], {"other", "image"}) /\ net' \in Net /\ wr' = wr
  BY DEF NetStep
<1>2. Len(net.q[c]) \in Nat /\ Len(net'.q[c]) \in Nat
  BY <1>1, NetShape DEF Shapes
<1>3. ASSUME NEW i \in 1..Len(net.q[c])
      PROVE  i \in 1..Len(net'.q[c]) /\ net'.q[c][i] = net.q[c][i]
  BY <1>1, <1>2 DEF Extends
<1>4. ASSUME NEW i \in 1..Len(net'.q[c]), net'.q[c][i] = "evicted"
      PROVE  i \in 1..Len(net.q[c])
  <2>1. i \notin (Len(net.q[c]) + 1)..Len(net'.q[c])
    BY <1>1, <1>4 DEF Extends
  <2>. QED
    BY <2>1, <1>2
<1>5. Down(net', c) <=> Down(net, c)
  BY <1>3, <1>4 DEF Down
<1>. QED
  BY <1>1, <1>5, DownNow, DownNext

LEMMA DownByLoop ==
  ASSUME Shapes, wr' = wr, NEW D \in SUBSET Clients, LoopStep(D), NEW c \in Clients
  PROVE  GoingDown(c)' <=> (GoingDown(c) \/ c \in D)
<1>1. /\ Extends(net.q[c], net'.q[c], Messages) /\ net' \in Net
      /\ c \in D => Down(net', c)
      /\ c \notin D => (Down(net', c) => Down(net, c))
  BY DEF LoopStep
<1>2. Len(net.q[c]) \in Nat /\ Len(net'.q[c]) \in Nat
  BY <1>1, NetShape DEF Shapes
<1>3. ASSUME NEW i \in 1..Len(net.q[c])
      PROVE  i \in 1..Len(net'.q[c]) /\ net'.q[c][i] = net.q[c][i]
  BY <1>1, <1>2 DEF Extends
<1>4. Down(net, c) => Down(net', c)
  BY <1>3 DEF Down
<1>. QED
  BY <1>1, <1>4, DownNow, DownNext

\* A client goes down with its writer, and is then no longer watched.
LEMMA DownByWriter ==
  ASSUME Shapes, NEW b \in Clients, WriterStep(b), NEW c \in Clients
  PROVE  /\ GoingDown(c) => GoingDown(c)'
         /\ GoingDown(c)' => GoingDown(c) \/ (b = c /\ h'.copies = Changed(h.copies, {c}))
         /\ \/ h'.copies = h.copies
            \/ h'.copies = Changed(h.copies, {b}) /\ GoingDown(b)'
<1>1. DOMAIN (net'.q[c]) = 1..Len(net'.q[c]) /\ DOMAIN (net.q[c]) = 1..Len(net.q[c])
  BY NetShape DEF WriterStep, Shapes
<1>2. CASE b # c
  <2>1. net'.q[c] = net.q[c] /\ wr'[c] = wr[c]
    BY <1>2 DEF WriterStep
  <2>. QED
    BY <2>1, <1>2 DEF GoingDown, WriterStep
<1>3. CASE b = c
  <2>1. CASE wr' = wr /\ h'.copies = h.copies /\ (Down(net', c) <=> Down(net, c))
    BY <2>1, DownNow, DownNext DEF WriterStep
  <2>2. CASE wr'[c] # "runs" /\ h'.copies = Changed(h.copies, {c})
    BY <1>3, <2>2 DEF GoingDown
  <2>3. CASE wr'[c] # "runs" /\ wr[c] # "runs" /\ h'.copies = h.copies
    BY <2>3 DEF GoingDown
  <2>. QED
    BY <1>3, <2>1, <2>2, <2>3 DEF WriterStep
<1>. QED
  BY <1>2, <1>3

\* The loop forgets a connection that ended: nothing it asked for is left.
LEMMA EndParts ==
  ASSUME Shapes, NEW c \in Clients, GoneAt(c), Taken(<<"disconnected", c>>), conn' = conn, ~clients'[c].in
  PROVE  Parting(c)'
<1>1. /\ Shifts(dq, dq') /\ dq[1] = <<"disconnected", c>> /\ Len(dq) \in Nat \ {0} /\ Len(dq') \in Nat
      /\ Len(dq') = Len(dq) - 1 /\ \A i \in 1..Len(dq') : dq'[i] = dq[i + 1]
  BY DEF Taken, Shifts
<1>2. ~conn[c].open
  BY <1>1 DEF GoneAt
<1>3. ASSUME NEW i \in Asks(c)' PROVE FALSE
  <2>1. i \in 1..Len(dq') /\ dq'[i][1] = "subscribe" /\ dq'[i][2] = c
    BY <1>3 DEF Asks
  <2>2. i + 1 \in Asks(c)
    BY <2>1, <1>1 DEF Asks
  <2>3. PICK j \in (i + 1 + 1)..Len(dq) : dq[j] = <<"disconnected", c>>
    BY <2>2, <1>2, SMTT(30) DEF GoneAt, Follows
  <2>4. j \in 1..Len(dq) /\ 1 \in 1..Len(dq) /\ j # 1
    BY <2>1, <2>3, <1>1
  <2>. QED
    BY <2>3, <2>4, <1>1 DEF GoneAt
<1>. QED
  BY <1>2, <1>3 DEF Parting

LEMMA DaemonLoops ==
  ASSUME Daemon
  PROVE  Loops
BY DEF Daemon, Loop, Loops, HandleActivity, HandleStatus, HandleTrack, HandleUntrack, HandleSubscribe,
       HandleUnsubscribe, HandleEvict, HandleDisconnected

\* The clients that the loop lets go of are on their way out, and only their
\* sessions are told so.
LEMMA DaemonTells ==
  ASSUME Shapes, GonePart, Daemon
  PROVE  \E D \in SUBSET Clients :
           /\ \A s \in Sessions : Extends(sq[s], sq'[s], {"remove"} \X D)
           /\ \A c \in D : Parting(c)'
           /\ \A c \in Clients \ D : clients[c].in => clients'[c].in
           /\ \A c \in Clients : GoingDown(c) => GoingDown(c)'
<1>1. ASSUME sq' = sq PROVE \A s \in Sessions : Extends(sq[s], sq'[s], {"remove"} \X {})
  <2>1. ASSUME NEW s \in Sessions PROVE sq[s] \in Seq(ThreadCommands)
    BY DEF Shapes
  <2>. QED
    BY <2>1, <1>1, ExtendsItself
<1>2. ASSUME NEW D \in SUBSET Clients, LoopStep(D), Loops
      PROVE  /\ \A s \in Sessions : Extends(sq[s], sq'[s], {"remove"} \X D)
             /\ \A c \in D : Parting(c)'
             /\ \A c \in Clients \ D : clients[c].in => clients'[c].in
             /\ \A c \in Clients : GoingDown(c) => GoingDown(c)'
  <2>1. \A c \in Clients : GoingDown(c)' <=> (GoingDown(c) \/ c \in D)
    BY <1>2, DownByLoop DEF Loops
  <2>2. \A c \in Clients \ D : clients'[c] = clients[c]
    BY <1>2, RemovedShape, SMTT(30) DEF LoopStep, Shapes
  <2>3. \A c \in D : c \in Clients /\ GoingDown(c)'
    BY <2>1
  <2>4. \A c \in D : Parting(c)'
    BY <2>3 DEF Parting
  <2>. QED
    BY <1>2, <2>1, <2>2, <2>4 DEF LoopStep
<1>3. ASSUME NetStep, sq' = sq, \A c \in Clients : clients[c].in => clients'[c].in
      PROVE  \E D \in SUBSET Clients :
               /\ \A s \in Sessions : Extends(sq[s], sq'[s], {"remove"} \X D)
               /\ \A c \in D : Parting(c)'
               /\ \A c \in Clients \ D : clients[c].in => clients'[c].in
               /\ \A c \in Clients : GoingDown(c) => GoingDown(c)'
  <2>1. \A c \in Clients : GoingDown(c) => GoingDown(c)'
    BY <1>3, DownByNet
  <2>2. {} \in SUBSET Clients
    OBVIOUS
  <2>. QED
    BY <2>1, <2>2, <1>1, <1>3
<1>4. CASE HandleActivity
  <2>1. \E e \in Events, D \in SUBSET Clients :
          FanStep({c \in Clients : clients[c].in /\ clients[c].activity
                                   /\ Origin[e] \notin clients[c].sessions}, e, D)
    BY <1>4, ActivityFacts
  <2>2. \E D \in SUBSET Clients : LoopStep(D) /\ Loops
    BY <2>1 DEF FanStep
  <2>. QED
    BY <2>2, <1>2
<1>5. CASE HandleStatus
  <2>1. \E e \in Events, D \in SUBSET Clients :
          FanStep({c \in Clients : clients[c].in /\ clients[c].summary /\ ~clients[c].activity
                                   /\ Origin[e] \notin clients[c].sessions}, e, D)
    BY <1>5, StatusFacts
  <2>2. \E D \in SUBSET Clients : LoopStep(D) /\ Loops
    BY <2>1 DEF FanStep
  <2>. QED
    BY <2>2, <1>2
<1>6. CASE HandleEvict
  <2>1. \E D \in SUBSET Clients : LoopStep(D) /\ Loops
    BY <1>6, EvictFacts DEF OustStep
  <2>. QED
    BY <2>1, <1>2
<1>7. CASE HandleTrack
  <2>1. sq' = sq /\ net' = net /\ Loops /\ \A c \in Clients : clients[c].in => clients'[c].in
    BY <1>7, TrackFacts
  <2>. QED
    BY <2>1, <1>3, StillStep DEF Loops
<1>8. CASE HandleUntrack
  <2>1. sq' = sq /\ net' = net /\ Loops /\ \A c \in Clients : clients[c].in => clients'[c].in
    BY <1>8, UntrackFacts
  <2>. QED
    BY <2>1, <1>3, StillStep DEF Loops
<1>9. CASE HandleSubscribe
  <2>1. sq' = sq /\ NetStep /\ \A c \in Clients : clients[c].in => clients'[c].in
    BY <1>9, SubscribeFacts
  <2>. QED
    BY <2>1, <1>3
<1>10. CASE HandleUnsubscribe
  <2>1. sq' = sq /\ net' = net /\ Loops /\ \A c \in Clients : clients[c].in => clients'[c].in
    BY <1>10, UnsubscribeFacts
  <2>. QED
    BY <2>1, <1>3, StillStep DEF Loops
<1>11. CASE HandleDisconnected
  <2>1. PICK b \in Clients :
           /\ Taken(<<"disconnected", b>>) /\ Loops /\ net' = net /\ clients' = Removed(clients, {b})
           /\ \A s \in Sessions : Extends(sq[s], sq'[s], {"remove"} \X {b})
    BY <1>11, DisconnectedFacts
  <2>2. {b} \in SUBSET Clients
    BY <2>1
  <2>3. \A c \in Clients : clients'[c] = IF c \in {b} THEN Absent ELSE clients[c]
    BY <2>1, <2>2, RemovedShape, SMTT(30) DEF Shapes
  <2>4. ~clients'[b].in /\ conn' = conn /\ NetStep
    BY <2>1, <2>3, StillStep DEF Absent, Loops
  <2>5. Parting(b)'
    BY <2>1, <2>4, EndParts DEF GonePart
  <2>6. \A c \in Clients : GoingDown(c) => GoingDown(c)'
    BY <2>4, DownByNet
  <2>7. \A c \in Clients \ {b} : clients[c].in => clients'[c].in
    BY <2>3
  <2>. QED
    BY <2>1, <2>2, <2>5, <2>6, <2>7
<1>. QED
  BY <1>4, <1>5, <1>6, <1>7, <1>8, <1>9, <1>10, <1>11 DEF Daemon

\* Messages are put behind a session's queue that attach nobody who is leaving.
LEMMA LeftKept ==
  ASSUME NEW c \in Clients, NEW s \in Sessions,
         Len(sq[s]) \in Nat, Len(sq'[s]) \in Nat, Len(sq[s]) =< Len(sq'[s]),
         \A j \in 1..Len(sq[s]) : sq'[s][j] = sq[s][j],
         \A j \in (Len(sq[s]) + 1)..Len(sq'[s]) : sq'[s][j] = <<"attach", c>> => Stays(c, s)',
         Stays(c, s) => Stays(c, s)', c \in subs'[s] => c \in subs[s], LeftAt(c, s)
  PROVE  LeftAt(c, s)'
<1>. SUFFICES ASSUME ~Stays(c, s)'
     PROVE  /\ c \in subs'[s] => Follows(sq'[s], 0, <<"detach", c>>)
            /\ \A i \in 1..Len(sq'[s]) : sq'[s][i] = <<"attach", c>> => Follows(sq'[s], i, <<"detach", c>>)
  BY DEF LeftAt
<1>1. /\ c \in subs[s] => Follows(sq[s], 0, <<"detach", c>>)
      /\ \A i \in 1..Len(sq[s]) : sq[s][i] = <<"attach", c>> => Follows(sq[s], i, <<"detach", c>>)
  BY DEF LeftAt
<1>2. ASSUME c \in subs'[s] PROVE Follows(sq'[s], 0, <<"detach", c>>)
  BY <1>1, <1>2, FollowsKept
<1>3. ASSUME NEW i \in 1..Len(sq'[s]), sq'[s][i] = <<"attach", c>>
      PROVE  Follows(sq'[s], i, <<"detach", c>>)
  <2>1. i \in 1..Len(sq[s]) /\ i \in Nat
    BY <1>3
  <2>2. Follows(sq[s], i, <<"detach", c>>)
    BY <1>1, <1>3, <2>1
  <2>. QED
    BY <2>1, <2>2, FollowsKept
<1>. QED
  BY <1>2, <1>3

\* A session takes a message: an attach puts the client among the subscribers,
\* and only who is told to go leaves them.
LEMMA LeftTaken ==
  ASSUME NEW c \in Clients, NEW s \in Sessions, NEW m, Taking(s, m), conn' = conn,
         c \in subs'[s] => c \in subs[s] \/ m = <<"attach", c>>,
         m = <<"detach", c>> => c \notin subs'[s], LeftAt(c, s)
  PROVE  LeftAt(c, s)'
<1>. SUFFICES ASSUME ~Stays(c, s)
     PROVE  /\ c \in subs'[s] => Follows(sq'[s], 0, <<"detach", c>>)
            /\ \A i \in 1..Len(sq'[s]) : sq'[s][i] = <<"attach", c>> => Follows(sq'[s], i, <<"detach", c>>)
  BY DEF LeftAt, Stays
<1>1. /\ c \in subs[s] => Follows(sq[s], 0, <<"detach", c>>)
      /\ \A i \in 1..Len(sq[s]) : sq[s][i] = <<"attach", c>> => Follows(sq[s], i, <<"detach", c>>)
  BY DEF LeftAt
<1>2. /\ Shifts(sq[s], sq'[s]) /\ sq[s][1] = m /\ Len(sq[s]) \in Nat \ {0} /\ Len(sq'[s]) \in Nat
      /\ Len(sq'[s]) = Len(sq[s]) - 1 /\ \A i \in 1..Len(sq'[s]) : sq'[s][i] = sq[s][i + 1]
  BY DEF Taking, Shifts
<1>3. ASSUME c \in subs'[s] PROVE Follows(sq'[s], 0, <<"detach", c>>)
  <2>1. Follows(sq[s], 1, <<"detach", c>>)
    <3>1. CASE m = <<"attach", c>>
      BY <3>1, <1>1, <1>2
    <3>2. CASE c \in subs[s]
      <4>1. PICK j \in (0 + 1)..Len(sq[s]) : sq[s][j] = <<"detach", c>>
        BY <3>2, <1>1 DEF Follows
      <4>2. j # 1
        BY <4>1, <1>2, <1>3
      <4>3. j \in (1 + 1)..Len(sq[s])
        BY <4>1, <4>2, <1>2
      <4>. QED
        BY <4>1, <4>3 DEF Follows
    <3>. QED
      BY <3>1, <3>2, <1>3
  <2>2. 1 \in 1..Len(sq[s]) /\ 1 - 1 = 0
    BY <1>2
  <2>3. Follows(sq'[s], 1 - 1, <<"detach", c>>)
    BY <2>1, <2>2, <1>2, FollowsShifted
  <2>. QED
    BY <2>2, <2>3
<1>4. ASSUME NEW i \in 1..Len(sq'[s]), sq'[s][i] = <<"attach", c>>
      PROVE  Follows(sq'[s], i, <<"detach", c>>)
  <2>1. i + 1 \in 1..Len(sq[s]) /\ sq[s][i + 1] = <<"attach", c>> /\ (i + 1) - 1 = i
    BY <1>2, <1>4
  <2>2. Follows(sq[s], i + 1, <<"detach", c>>)
    BY <2>1, <1>1
  <2>3. Follows(sq'[s], (i + 1) - 1, <<"detach", c>>)
    BY <2>1, <2>2, <1>2, FollowsShifted
  <2>. QED
    BY <2>1, <2>3
<1>. QED
  BY <1>3, <1>4

\* The client leaves the session.
LEMMA LeftGiven ==
  ASSUME NEW c \in Clients, NEW s \in Sessions, Given(s, <<"detach", c>>)
  PROVE  LeftAt(c, s)'
<1>1. /\ Len(sq[s]) \in Nat /\ Len(sq'[s]) = Len(sq[s]) + 1
      /\ sq'[s][Len(sq[s]) + 1] = <<"detach", c>>
  BY DEF Given
<1>2. ASSUME NEW i \in 0..Len(sq[s]) PROVE Follows(sq'[s], i, <<"detach", c>>)
  <2>1. Len(sq[s]) + 1 \in (i + 1)..Len(sq'[s])
    BY <1>1
  <2>. QED
    BY <2>1, <1>1 DEF Follows
<1>3. ASSUME NEW i \in 1..Len(sq'[s]), sq'[s][i] = <<"attach", c>> PROVE i \in 0..Len(sq[s])
  <2>1. i # Len(sq[s]) + 1
    BY <1>1, <1>3
  <2>. QED
    BY <2>1, <1>1
<1>. QED
  BY <1>1, <1>2, <1>3 DEF LeftAt

LEMMA LeftStep ==
  ASSUME Shapes, CountPart, GonePart, LeftPart, Next
  PROVE  LeftPart'
<1>. SUFFICES ASSUME NEW c \in Clients, NEW s \in Sessions PROVE LeftAt(c, s)'
  BY DEF LeftPart
<1>1. LeftAt(c, s) /\ sq[s] \in Seq(ThreadCommands) /\ Len(sq[s]) \in Nat
  BY LenProperties DEF LeftPart, Shapes
<1>2. ASSUME sq'[s] = sq[s], Stays(c, s) => Stays(c, s)', c \in subs'[s] => c \in subs[s]
      PROVE  LeftAt(c, s)'
  BY <1>1, <1>2 DEF LeftAt
<1>3. CASE Daemon
  <2>1. PICK D \in SUBSET Clients : \A t \in Sessions : Extends(sq[t], sq'[t], {"remove"} \X D)
    BY <1>3, DaemonTells
  <2>2. Loops /\ sq' \in [Sessions -> Seq(ThreadCommands)]
    BY <1>3, DaemonLoops, CountsStep DEF Shapes
  <2>3. Len(sq'[s]) \in Nat
    BY <2>2, LenProperties
  <2>4. /\ Len(sq[s]) =< Len(sq'[s]) /\ \A j \in 1..Len(sq[s]) : sq'[s][j] = sq[s][j]
        /\ \A j \in (Len(sq[s]) + 1)..Len(sq'[s]) : sq'[s][j] \in {"remove"} \X D
    BY <2>1 DEF Extends
  <2>5. \A j \in (Len(sq[s]) + 1)..Len(sq'[s]) : sq'[s][j] # <<"attach", c>>
    BY <2>4
  <2>6. subs' = subs /\ (Stays(c, s) => Stays(c, s)')
    BY <2>2 DEF Loops, Stays
  <2>. QED
    BY <2>3, <2>4, <2>5, <2>6, <1>1, LeftKept
<1>4. ASSUME NEW e \in Events, Emit(e) PROVE LeftAt(c, s)'
  <2>1. sq' = sq /\ conn' = conn /\ subs'[s] \subseteq subs[s]
    BY <1>4, EmitFacts
  <2>. QED
    BY <2>1, <1>2 DEF Stays
<1>5. ASSUME NEW t \in Sessions, HandleAttach(t) \/ HandleDetach(t) \/ HandleRemove(t)
      PROVE  LeftAt(c, s)'
  <2>1. PICK b \in Clients, k \in {"attach", "detach", "remove"} :
          /\ Taking(t, <<k, b>>) /\ Threads /\ Subscribers(t)
          /\ subs'[t] = IF k = "attach" THEN subs[t] \cup {b} ELSE subs[t] \ {b}
    <3>1. CASE HandleAttach(t)
      BY <3>1, AttachedFacts
    <3>2. CASE HandleDetach(t)
      BY <3>2, DetachedFacts
    <3>3. CASE HandleRemove(t)
      BY <3>3, RemovedFacts
    <3>. QED
      BY <1>5, <3>1, <3>2, <3>3
  <2>2. conn' = conn
    BY <2>1 DEF Threads
  <2>3. CASE t # s
    BY <2>1, <2>2, <2>3, <1>2 DEF Taking, Subscribers, Stays
  <2>4. CASE t = s
    <3>1. PICK m : m = <<k, b>>
      OBVIOUS
    <3>2. Taking(s, m)
      BY <2>1, <2>4, <3>1
    <3>3. /\ c \in subs'[s] => c \in subs[s] \/ m = <<"attach", c>>
          /\ m = <<"detach", c>> => c \notin subs'[s]
      BY <2>1, <2>4, <3>1
    <3>. QED
      BY <3>2, <3>3, <2>2, <1>1, LeftTaken
  <2>. QED
    BY <2>3, <2>4
<1>6. ASSUME NEW b \in Clients, Close(b) PROVE LeftAt(c, s)'
  <2>1. /\ Linked(b) /\ Sides /\ conn'[b].att = conn[b].att
        /\ s = conn[b].att => Given(s, <<"detach", b>>)
        /\ s # conn[b].att => sq'[s] = sq[s]
    BY <1>6, CloseFacts
  <2>2. CASE b = c /\ s = conn[b].att
    BY <2>1, <2>2, LeftGiven
  <2>3. CASE ~(b = c /\ s = conn[b].att)
    <3>1. subs' = subs /\ (Stays(c, s) => Stays(c, s)')
      BY <2>1, <2>3 DEF Linked, Sides, Stays
    <3>2. CASE s # conn[b].att
      BY <2>1, <3>1, <3>2, <1>2
    <3>3. CASE s = conn[b].att
      <4>1. /\ Len(sq'[s]) \in Nat /\ Len(sq[s]) =< Len(sq'[s])
            /\ \A j \in 1..Len(sq[s]) : sq'[s][j] = sq[s][j]
            /\ \A j \in (Len(sq[s]) + 1)..Len(sq'[s]) : sq'[s][j] = <<"detach", b>>
        <5>1. Given(s, <<"detach", b>>)
          BY <2>1, <3>3
        <5>. QED
          BY <5>1, <1>1 DEF Given
      <4>2. \A j \in (Len(sq[s]) + 1)..Len(sq'[s]) : sq'[s][j] # <<"attach", c>>
        BY <4>1
      <4>. QED
        BY <4>1, <4>2, <3>1, <1>1, LeftKept
    <3>. QED
      BY <3>2, <3>3
  <2>. QED
    BY <2>2, <2>3
<1>7. ASSUME NEW b \in Clients, NEW t \in Sessions, Attach(b, t) PROVE LeftAt(c, s)'
  <2>1. /\ Linked(b) /\ Sides /\ conn'[b].att = t /\ conn[b].open /\ conn'[b].open = conn[b].open
        /\ Given(t, <<"attach", b>>)
        /\ s # t /\ s = conn[b].att => Given(s, <<"detach", b>>)
        /\ s # t /\ s # conn[b].att => sq'[s] = sq[s]
    BY <1>7, SwitchFacts
  <2>2. CASE b = c /\ s # t /\ s = conn[b].att
    BY <2>1, <2>2, LeftGiven
  <2>3. CASE ~(b = c /\ s # t /\ s = conn[b].att)
    <3>1. subs' = subs /\ (Stays(c, s) => Stays(c, s)') /\ (b = c /\ s = t => Stays(c, s)')
      BY <2>1, <2>3 DEF Linked, Sides, Stays
    <3>2. CASE s # t /\ s # conn[b].att
      BY <2>1, <3>1, <3>2, <1>2
    <3>3. ASSUME NEW m, Given(s, m), m = <<"attach", c>> => Stays(c, s)' PROVE LeftAt(c, s)'
      <4>1. /\ Len(sq'[s]) \in Nat /\ Len(sq[s]) =< Len(sq'[s])
            /\ \A j \in 1..Len(sq[s]) : sq'[s][j] = sq[s][j]
            /\ \A j \in (Len(sq[s]) + 1)..Len(sq'[s]) : sq'[s][j] = m
        BY <3>3 DEF Given
      <4>2. \A j \in (Len(sq[s]) + 1)..Len(sq'[s]) : sq'[s][j] = <<"attach", c>> => Stays(c, s)'
        BY <3>3, <4>1
      <4>. QED
        BY <4>1, <4>2, <3>1, <1>1, LeftKept
    <3>4. CASE s = t
      <4>1. PICK m : m = <<"attach", b>>
        OBVIOUS
      <4>2. Given(s, m) /\ (m = <<"attach", c>> => Stays(c, s)')
        BY <4>1, <2>1, <3>1, <3>4
      <4>. QED
        BY <4>2, <3>3
    <3>5. CASE s # t /\ s = conn[b].att
      <4>1. PICK m : m = <<"detach", b>>
        OBVIOUS
      <4>2. Given(s, m) /\ m # <<"attach", c>>
        BY <4>1, <2>1, <3>5
      <4>. QED
        BY <4>2, <3>3
    <3>. QED
      BY <3>2, <3>4, <3>5
  <2>. QED
    BY <2>2, <2>3
<1>8. ASSUME NEW b \in Clients, Linked(b), conn'[b].open = conn[b].open, conn'[b].att = conn[b].att,
             Sides, sq' = sq
      PROVE  LeftAt(c, s)'
  BY <1>8, <1>2 DEF Linked, Sides, Stays
<1>9. ASSUME NEW b \in Clients, GetImage(b) PROVE LeftAt(c, s)'
  BY <1>8, <1>9, ImageFacts
<1>10. ASSUME NEW b \in Clients, NEW k \in {"subscribe", "unsubscribe"}, NEW w \in {"activity", "summary"},
             Subscribe(b, k, w)
      PROVE  LeftAt(c, s)'
  BY <1>8, <1>10, RequestFacts
<1>11. ASSUME NEW b \in Clients, Writer(b) PROVE LeftAt(c, s)'
  <2>1. WriterStep(b)
    BY <1>11, WriteFacts, HangupFacts, DrainFacts, EndFacts DEF Writer
  <2>. QED
    BY <2>1, <1>2 DEF WriterStep, Stays
<1>. QED
  BY <1>3, <1>4, <1>5, <1>6, <1>7, <1>9, <1>10, <1>11 DEF Next

-----------------------------------------------------------------------------
(* Evictions.                                                                *)

\* Whoever is on its way out stays so.
LEMMA DownStep ==
  ASSUME Shapes, CountPart, GonePart, Next, NEW c \in Clients, GoingDown(c)
  PROVE  GoingDown(c)'
<1>1. CASE Daemon
  BY <1>1, DaemonTells
<1>2. CASE NetStep
  BY <1>2, DownByNet
<1>3. ASSUME NEW e \in Events, Emit(e) PROVE NetStep
  BY <1>3, EmitFacts
<1>4. ASSUME NEW s \in Sessions, HandleAttach(s) \/ HandleDetach(s) \/ HandleRemove(s) PROVE NetStep
  BY <1>4, AttachedFacts, DetachedFacts, RemovedFacts
<1>5. ASSUME NEW b \in Clients, Close(b) PROVE NetStep
  BY <1>5, CloseFacts
<1>6. ASSUME NEW b \in Clients, GetImage(b) PROVE NetStep
  BY <1>6, ImageFacts
<1>7. ASSUME NEW b \in Clients, NEW s \in Sessions, Attach(b, s) PROVE NetStep
  BY <1>7, SwitchFacts
<1>8. ASSUME NEW b \in Clients, NEW k \in {"subscribe", "unsubscribe"}, NEW w \in {"activity", "summary"},
             Subscribe(b, k, w)
      PROVE  NetStep
  BY <1>8, RequestFacts
<1>9. ASSUME NEW b \in Clients, Writer(b) PROVE GoingDown(c)'
  <2>1. WriterStep(b)
    BY <1>9, WriteFacts, HangupFacts, DrainFacts, EndFacts DEF Writer
  <2>. QED
    BY <2>1, DownByWriter
<1>. QED
  BY <1>1, <1>2, <1>3, <1>4, <1>5, <1>6, <1>7, <1>8, <1>9 DEF Next

\* Outside the loop entries stay as they are and commands are put behind the
\* queue: a subscription only by a connection that is open.
Posted(c) ==
  /\ clients' = clients /\ (conn'[c].open => conn[c].open)
  /\ Len(dq) \in Nat /\ Len(dq') \in Nat /\ Len(dq) =< Len(dq')
  /\ \A j \in 1..Len(dq) : dq'[j] = dq[j]
  /\ \A j \in (Len(dq) + 1)..Len(dq') : dq'[j][1] = "subscribe" /\ dq'[j][2] = c => conn[c].open

LEMMA OthersPost ==
  ASSUME Shapes, CountPart, Next, ~Daemon, NEW c \in Clients
  PROVE  Posted(c)
<1>1. dq \in Seq(LoopCommands) /\ Len(dq) \in Nat
  BY LenProperties DEF Shapes
<1>2. ASSUME dq' = dq, clients' = clients, conn'[c].open => conn[c].open PROVE Posted(c)
  BY <1>1, <1>2 DEF Posted
<1>3. ASSUME NEW m, Queued(m), clients' = clients, conn'[c].open => conn[c].open,
             m[1] = "subscribe" /\ m[2] = c => conn[c].open
      PROVE  Posted(c)
  <2>1. /\ Len(dq) \in Nat /\ Len(dq') \in Nat /\ Len(dq) =< Len(dq')
        /\ \A j \in 1..Len(dq) : dq'[j] = dq[j]
        /\ \A j \in (Len(dq) + 1)..Len(dq') : j = Len(dq) + 1 /\ dq'[j] = m
    BY <1>3, QueuedLast
  <2>. QED
    BY <2>1, <1>3 DEF Posted
<1>4. ASSUME NEW e \in Events, Emit(e) PROVE Posted(c)
  <2>1. PICK O : Posts(e, O)
    BY <1>4, EmitFacts
  <2>2. clients' = clients /\ conn' = conn
    BY <1>4, EmitFacts
  <2>3. /\ Len(dq) \in Nat /\ Len(dq') \in Nat /\ Len(dq) =< Len(dq')
        /\ \A j \in 1..Len(dq) : dq'[j] = dq[j]
    BY <2>1 DEF Posts
  <2>4. ASSUME NEW j \in (Len(dq) + 1)..Len(dq') PROVE dq'[j][1] # "subscribe"
    <3>1. j = Len(dq) + 1 \/ j \in (Len(dq) + 2)..Len(dq')
      BY <2>3
    <3>2. \/ dq'[j] = <<"activity", e>> \/ dq'[j] = <<"status", e>>
          \/ dq'[j][1] \in {"evict", "largest"}
      BY <3>1, <2>1 DEF Posts
    <3>. QED
      BY <3>2
  <2>. QED
    BY <2>2, <2>3, <2>4 DEF Posted
<1>5. ASSUME NEW s \in Sessions, HandleAttach(s) \/ HandleDetach(s) \/ HandleRemove(s) PROVE Posted(c)
  <2>1. ASSUME NEW b \in Clients, NEW k \in {"track", "untrack"}, Queued(<<k, b, s>>), Threads
        PROVE  Posted(c)
    <3>1. PICK m : m = <<k, b, s>>
      OBVIOUS
    <3>2. m[1] # "subscribe" /\ Queued(m)
      BY <3>1, <2>1
    <3>. QED
      BY <3>2, <2>1, <1>3 DEF Threads
  <2>2. CASE HandleAttach(s)
    BY <2>1, <2>2, AttachedFacts
  <2>3. CASE HandleDetach(s)
    BY <2>1, <2>3, DetachedFacts
  <2>4. CASE HandleRemove(s)
    BY <1>2, <2>4, RemovedFacts DEF Threads
  <2>. QED
    BY <1>5, <2>2, <2>3, <2>4
<1>6. ASSUME NEW b \in Clients, Close(b) PROVE Posted(c)
  <2>1. Linked(b) /\ ~conn'[b].open /\ Queued(<<"disconnected", b>>) /\ Sides
    BY <1>6, CloseFacts
  <2>2. PICK m : m = <<"disconnected", b>>
    OBVIOUS
  <2>3. m[1] # "subscribe" /\ Queued(m)
    BY <2>1, <2>2
  <2>. QED
    BY <2>1, <2>3, <1>3 DEF Linked, Sides
<1>7. ASSUME NEW b \in Clients, NEW k \in {"subscribe", "unsubscribe"}, NEW w \in {"activity", "summary"},
             Subscribe(b, k, w)
      PROVE  Posted(c)
  <2>1. Linked(b) /\ conn'[b].open = conn[b].open /\ conn[b].open /\ Queued(<<k, b, w>>) /\ Sides
    BY <1>7, RequestFacts
  <2>2. PICK m : m = <<k, b, w>>
    OBVIOUS
  <2>3. (m[2] = c => conn[c].open) /\ Queued(m)
    BY <2>1, <2>2
  <2>. QED
    BY <2>1, <2>3, <1>3 DEF Linked, Sides
<1>8. ASSUME NEW b \in Clients, GetImage(b) \/ \E s \in Sessions : Attach(b, s) PROVE Posted(c)
  <2>1. Linked(b) /\ conn'[b].open = conn[b].open /\ dq' = dq /\ Sides
    BY <1>8, ImageFacts, SwitchFacts
  <2>. QED
    BY <2>1, <1>2 DEF Linked, Sides
<1>9. ASSUME NEW b \in Clients, Writer(b) PROVE Posted(c)
  <2>1. WriterStep(b)
    BY <1>9, WriteFacts, HangupFacts, DrainFacts, EndFacts DEF Writer
  <2>. QED
    BY <2>1, <1>2 DEF WriterStep
<1>. QED
  BY <1>4, <1>5, <1>6, <1>7, <1>8, <1>9 DEF Next

LEMMA PartingStep ==
  ASSUME Shapes, CountPart, GonePart, Next, NEW c \in Clients, Parting(c)
  PROVE  Parting(c)'
<1>1. CASE GoingDown(c)
  BY <1>1, DownStep DEF Parting
<1>2. CASE ~clients[c].in /\ ~conn[c].open /\ Asks(c) = {}
  <2>1. CASE Daemon
    <3>1. PICK m : /\ Taken(m) /\ conn' = conn
                   /\ clients'[c].in => clients[c].in \/ (m[1] = "subscribe" /\ m[2] = c)
      BY <2>1, DaemonTakes
    <3>2. /\ Len(dq) \in Nat \ {0} /\ Len(dq') = Len(dq) - 1 /\ dq[1] = m
          /\ \A i \in 1..Len(dq') : dq'[i] = dq[i + 1]
      BY <3>1 DEF Taken, Shifts
    <3>3. ~(m[1] = "subscribe" /\ m[2] = c)
      BY <3>2, <1>2 DEF Asks
    <3>4. ASSUME NEW i \in Asks(c)' PROVE i + 1 \in Asks(c)
      BY <3>4, <3>2 DEF Asks
    <3>. QED
      BY <3>1, <3>3, <3>4, <1>2 DEF Parting
  <2>2. CASE ~Daemon
    <3>1. Posted(c)
      BY <2>2, OthersPost
    <3>2. ASSUME NEW i \in Asks(c)' PROVE i \in Asks(c)
      <4>1. i \in 1..Len(dq') /\ dq'[i][1] = "subscribe" /\ dq'[i][2] = c
        BY <3>2 DEF Asks
      <4>2. i \notin (Len(dq) + 1)..Len(dq')
        BY <4>1, <3>1, <1>2 DEF Posted
      <4>3. i \in 1..Len(dq)
        BY <4>1, <4>2, <3>1 DEF Posted
      <4>. QED
        BY <4>1, <4>3, <3>1 DEF Asks, Posted
    <3>. QED
      BY <3>1, <3>2, <1>2 DEF Parting, Posted
  <2>. QED
    BY <2>1, <2>2
<1>. QED
  BY <1>1, <1>2 DEF Parting

\* Whom the loop finds over the cap goes down at once, and so does whom it is
\* told to evict.
LEMMA DaemonOver ==
  ASSUME Shapes, Daemon, NEW c \in Clients
  PROVE  /\ c \in h'.over => c \in h.over \/ GoingDown(c)'
         /\ dq[1] = <<"evict", c>> /\ clients[c].in => GoingDown(c)'
<1>1. ASSUME NEW D \in SUBSET Clients, LoopStep(D), Loops, c \in D PROVE GoingDown(c)'
  BY <1>1, DownByLoop DEF Loops
<1>2. CASE HandleActivity
  <2>1. PICK e \in Events, D \in SUBSET Clients :
           /\ Taken(<<"activity", e>>)
           /\ FanStep({b \in Clients : clients[b].in /\ clients[b].activity
                                       /\ Origin[e] \notin clients[b].sessions}, e, D)
    BY <1>2, ActivityFacts
  <2>2. LoopStep(D) /\ Loops /\ h'.over \subseteq h.over \cup D
    BY <2>1 DEF FanStep
  <2>3. dq[1] # <<"evict", c>>
    BY <2>1 DEF Taken
  <2>. QED
    BY <2>2, <2>3, <1>1
<1>3. CASE HandleStatus
  <2>1. PICK e \in Events, D \in SUBSET Clients :
           /\ Taken(<<"status", e>>)
           /\ FanStep({b \in Clients : clients[b].in /\ clients[b].summary /\ ~clients[b].activity
                                       /\ Origin[e] \notin clients[b].sessions}, e, D)
    BY <1>3, StatusFacts
  <2>2. LoopStep(D) /\ Loops /\ h'.over \subseteq h.over \cup D
    BY <2>1 DEF FanStep
  <2>3. dq[1] # <<"evict", c>>
    BY <2>1 DEF Taken
  <2>. QED
    BY <2>2, <2>3, <1>1
<1>4. CASE HandleEvict
  <2>1. PICK D \in SUBSET Clients : OustStep(D)
    BY <1>4, EvictFacts
  <2>2. /\ LoopStep(D) /\ Loops /\ h'.over = h.over
        /\ dq[1] = <<"evict", c>> /\ clients[c].in => c \in D
    BY <2>1 DEF OustStep
  <2>. QED
    BY <2>2, <1>1
<1>5. CASE HandleTrack
  <2>1. h' = h /\ \E b, s : Taken(<<"track", b, s>>)
    BY <1>5, TrackFacts
  <2>. QED
    BY <2>1 DEF Taken
<1>6. CASE HandleUntrack
  <2>1. h' = h /\ \E b, s : Taken(<<"untrack", b, s>>)
    BY <1>6, UntrackFacts
  <2>. QED
    BY <2>1 DEF Taken
<1>7. CASE HandleSubscribe
  <2>1. h'.over = h.over /\ \E b, w : Taken(<<"subscribe", b, w>>)
    BY <1>7, SubscribeFacts
  <2>. QED
    BY <2>1 DEF Taken
<1>8. CASE HandleUnsubscribe
  <2>1. h'.over = h.over /\ \E b, w : Taken(<<"unsubscribe", b, w>>)
    BY <1>8, UnsubscribeFacts
  <2>. QED
    BY <2>1 DEF Taken
<1>9. CASE HandleDisconnected
  <2>1. h'.over = h.over /\ \E b : Taken(<<"disconnected", b>>)
    BY <1>9, DisconnectedFacts
  <2>. QED
    BY <2>1 DEF Taken
<1>. QED
  BY <1>2, <1>3, <1>4, <1>5, <1>6, <1>7, <1>8, <1>9 DEF Daemon

\* Whom a session finds over the cap, the loop is told to evict.
LEMMA OthersOver ==
  ASSUME Shapes, CountPart, Next, ~Daemon, NEW c \in Clients, c \in h'.over
  PROVE  c \in h.over \/ \E i \in 1..Len(dq') : dq'[i] = <<"evict", c>>
<1>1. ASSUME NEW e \in Events, Emit(e) PROVE c \in h.over \/ \E i \in 1..Len(dq') : dq'[i] = <<"evict", c>>
  <2>1. PICK O : Posts(e, O) /\ h'.over \subseteq h.over \cup O
    BY <1>1, EmitFacts
  <2>. QED
    BY <2>1 DEF Posts
<1>2. ASSUME NEW s \in Sessions, HandleAttach(s) \/ HandleDetach(s) \/ HandleRemove(s) PROVE h' = h
  BY <1>2, AttachedFacts, DetachedFacts, RemovedFacts DEF Threads
<1>3. ASSUME NEW b \in Clients, Close(b) PROVE h' = h
  BY <1>3, CloseFacts DEF Sides
<1>4. ASSUME NEW b \in Clients, GetImage(b) PROVE h' = h
  BY <1>4, ImageFacts DEF Sides
<1>5. ASSUME NEW b \in Clients, NEW s \in Sessions, Attach(b, s) PROVE h' = h
  BY <1>5, SwitchFacts DEF Sides
<1>6. ASSUME NEW b \in Clients, NEW k \in {"subscribe", "unsubscribe"}, NEW w \in {"activity", "summary"},
             Subscribe(b, k, w)
      PROVE  h' = h
  BY <1>6, RequestFacts DEF Sides
<1>7. ASSUME NEW b \in Clients, Writer(b) PROVE c \in h.over
  <2>1. WriterStep(b)
    BY <1>7, WriteFacts, HangupFacts, DrainFacts, EndFacts DEF Writer
  <2>. QED
    BY <2>1 DEF WriterStep
<1>. QED
  BY <1>1, <1>2, <1>3, <1>4, <1>5, <1>6, <1>7 DEF Next

LEMMA OverStep ==
  ASSUME Shapes, CountPart, GonePart, OverPart, Next
  PROVE  OverPart'
<1>1. Len(dq) \in Nat /\ DOMAIN dq = 1..Len(dq) /\ DOMAIN dq' = 1..Len(dq')
  <2>1. Shapes'
    BY CountsStep
  <2>2. dq \in Seq(LoopCommands) /\ dq' \in Seq(LoopCommands)
    BY <2>1 DEF Shapes
  <2>. QED
    BY <2>2, LenProperties
<1>2. ASSUME NEW c \in Clients, Parting(c) PROVE Parting(c)'
  BY <1>2, PartingStep
<1>3. ASSUME NEW c \in Clients PROVE clients'[c].in \/ Parting(c)'
  <2>1. CASE Parting(c)
    BY <2>1, <1>2
  <2>2. CASE clients[c].in
    <3>1. CASE Daemon
      BY <2>2, <3>1, DaemonTells
    <3>2. CASE ~Daemon
      BY <2>2, <3>2, OthersPost DEF Posted
    <3>. QED
      BY <3>1, <3>2
  <2>. QED
    BY <2>1, <2>2 DEF OverPart
<1>4. ASSUME NEW c \in h'.over PROVE Evicting(c)' \/ GoingDown(c)' \/ ~conn'[c].open
  <2>1. c \in Clients
    <3>1. Shapes'
      BY CountsStep
    <3>. QED
      BY <3>1, <1>4 DEF Shapes, Past
  <2>2. CASE Daemon
    <3>1. PICK m : Taken(m) /\ conn' = conn
      BY <2>1, <2>2, DaemonTakes
    <3>2. /\ Len(dq) \in Nat \ {0} /\ Len(dq') = Len(dq) - 1
          /\ \A i \in 1..Len(dq') : dq'[i] = dq[i + 1]
      BY <3>1 DEF Taken, Shifts
    <3>3. CASE GoingDown(c)'
      BY <3>3
    <3>4. CASE c \in h.over
      <4>1. CASE GoingDown(c)
        BY <4>1, <2>1, DownStep
      <4>2. CASE ~conn[c].open
        BY <4>2, <3>1
      <4>3. CASE Evicting(c)
        <5>1. PICK i \in 1..Len(dq) : dq[i] = <<"evict", c>>
          BY <4>3, <1>1 DEF Evicting
        <5>2. CASE i = 1
          <6>1. dq[1] = <<"evict", c>>
            BY <5>1, <5>2
          <6>2. CASE clients[c].in
            BY <6>1, <6>2, <2>1, <2>2, DaemonOver
          <6>3. CASE Parting(c)
            BY <6>3, <4>1, <4>2 DEF Parting
          <6>. QED
            BY <6>2, <6>3, <2>1 DEF OverPart
        <5>3. CASE i # 1
          <6>1. i - 1 \in 1..Len(dq') /\ dq'[i - 1] = <<"evict", c>>
            BY <5>1, <5>3, <3>2
          <6>. QED
            BY <6>1, <1>1 DEF Evicting
        <5>. QED
          BY <5>2, <5>3
      <4>. QED
        BY <3>4, <4>1, <4>2, <4>3 DEF OverPart
    <3>. QED
      BY <3>3, <3>4, <2>1, <2>2, <1>4, DaemonOver
  <2>3. CASE ~Daemon
    <3>1. Posted(c)
      BY <2>1, <2>3, OthersPost
    <3>2. CASE c \in h.over
      <4>1. CASE GoingDown(c)
        BY <4>1, <2>1, DownStep
      <4>2. CASE ~conn[c].open
        BY <4>2, <3>1 DEF Posted
      <4>3. CASE Evicting(c)
        <5>1. PICK i \in 1..Len(dq) : dq[i] = <<"evict", c>>
          BY <4>3, <1>1 DEF Evicting
        <5>2. i \in 1..Len(dq') /\ dq'[i] = <<"evict", c>>
          BY <5>1, <3>1 DEF Posted
        <5>. QED
          BY <5>2, <1>1 DEF Evicting
      <4>. QED
        BY <3>2, <4>1, <4>2, <4>3 DEF OverPart
    <3>3. CASE \E i \in 1..Len(dq') : dq'[i] = <<"evict", c>>
      BY <3>3, <1>1 DEF Evicting
    <3>. QED
      BY <3>2, <3>3, <2>1, <2>3, <1>4, OthersOver
  <2>. QED
    BY <2>2, <2>3
<1>. QED
  BY <1>3, <1>4 DEF OverPart

\* Only the loop tells a session to drop a client.
LEMMA OthersTell ==
  ASSUME Shapes, CountPart, Next, ~Daemon, NEW c \in Clients, NEW s \in Sessions,
         NEW i \in 1..Len(sq'[s]), sq'[s][i] = <<"remove", c>>
  PROVE  \E j \in 1..Len(sq[s]) : sq[s][j] = <<"remove", c>>
<1>1. sq[s] \in Seq(ThreadCommands) /\ Len(sq[s]) \in Nat
  BY LenProperties DEF Shapes
<1>2. ASSUME sq'[s] = sq[s] PROVE \E j \in 1..Len(sq[s]) : sq[s][j] = <<"remove", c>>
  BY <1>2
<1>3. ASSUME NEW m, Given(s, m), m # <<"remove", c>>
      PROVE  \E j \in 1..Len(sq[s]) : sq[s][j] = <<"remove", c>>
  <2>1. i # Len(sq[s]) + 1
    BY <1>3 DEF Given
  <2>2. i \in 1..Len(sq[s])
    BY <2>1, <1>3 DEF Given
  <2>. QED
    BY <2>2, <1>3 DEF Given
<1>4. ASSUME NEW e \in Events, Emit(e) PROVE \E j \in 1..Len(sq[s]) : sq[s][j] = <<"remove", c>>
  BY <1>2, <1>4, EmitFacts
<1>5. ASSUME NEW t \in Sessions, HandleAttach(t) \/ HandleDetach(t) \/ HandleRemove(t)
      PROVE  \E j \in 1..Len(sq[s]) : sq[s][j] = <<"remove", c>>
  <2>1. PICK m : Taking(t, m)
    BY <1>5, AttachedFacts, DetachedFacts, RemovedFacts
  <2>2. CASE t # s
    BY <1>2, <2>1, <2>2 DEF Taking
  <2>3. CASE t = s
    <3>1. /\ Len(sq[s]) \in Nat \ {0} /\ Len(sq'[s]) = Len(sq[s]) - 1
          /\ \A j \in 1..Len(sq'[s]) : sq'[s][j] = sq[s][j + 1]
      BY <2>1, <2>3 DEF Taking, Shifts
    <3>2. i + 1 \in 1..Len(sq[s])
      BY <3>1
    <3>. QED
      BY <3>1, <3>2
  <2>. QED
    BY <2>2, <2>3
<1>6. ASSUME NEW b \in Clients, Close(b) PROVE \E j \in 1..Len(sq[s]) : sq[s][j] = <<"remove", c>>
  <2>1. Given(s, <<"detach", b>>) \/ sq'[s] = sq[s]
    BY <1>6, CloseFacts
  <2>2. PICK m : m = <<"detach", b>>
    OBVIOUS
  <2>3. m # <<"remove", c>>
    BY <2>2
  <2>. QED
    BY <2>1, <2>2, <2>3, <1>2, <1>3
<1>7. ASSUME NEW b \in Clients, NEW t \in Sessions, Attach(b, t)
      PROVE  \E j \in 1..Len(sq[s]) : sq[s][j] = <<"remove", c>>
  <2>1. Given(s, <<"detach", b>>) \/ Given(s, <<"attach", b>>) \/ sq'[s] = sq[s]
    BY <1>7, SwitchFacts
  <2>2. PICK m, n : m = <<"detach", b>> /\ n = <<"attach", b>>
    OBVIOUS
  <2>3. m # <<"remove", c>> /\ n # <<"remove", c>>
    BY <2>2
  <2>. QED
    BY <2>1, <2>2, <2>3, <1>2, <1>3
<1>8. ASSUME NEW b \in Clients, GetImage(b) PROVE \E j \in 1..Len(sq[s]) : sq[s][j] = <<"remove", c>>
  BY <1>2, <1>8, ImageFacts
<1>9. ASSUME NEW b \in Clients, NEW k \in {"subscribe", "unsubscribe"}, NEW w \in {"activity", "summary"},
             Subscribe(b, k, w)
      PROVE  \E j \in 1..Len(sq[s]) : sq[s][j] = <<"remove", c>>
  BY <1>2, <1>9, RequestFacts
<1>10. ASSUME NEW b \in Clients, Writer(b) PROVE \E j \in 1..Len(sq[s]) : sq[s][j] = <<"remove", c>>
  <2>1. WriterStep(b)
    BY <1>10, WriteFacts, HangupFacts, DrainFacts, EndFacts DEF Writer
  <2>. QED
    BY <2>1, <1>2 DEF WriterStep
<1>. QED
  BY <1>4, <1>5, <1>6, <1>7, <1>8, <1>9, <1>10 DEF Next

LEMMA TellStep ==
  ASSUME Shapes, CountPart, GonePart, TellPart, Next
  PROVE  TellPart'
<1>. SUFFICES ASSUME NEW c \in Clients, NEW s \in Sessions,
                     NEW i \in 1..Len(sq'[s]), sq'[s][i] = <<"remove", c>>
              PROVE  Parting(c)'
  BY DEF TellPart
<1>1. ASSUME NEW j \in 1..Len(sq[s]), sq[s][j] = <<"remove", c>> PROVE Parting(c)'
  BY <1>1, PartingStep DEF TellPart
<1>2. CASE Daemon
  <2>1. PICK D \in SUBSET Clients :
          Extends(sq[s], sq'[s], {"remove"} \X D) /\ \A b \in D : Parting(b)'
    BY <1>2, DaemonTells
  <2>2. Len(sq[s]) \in Nat
    BY LenProperties DEF Shapes
  <2>3. CASE i \in 1..Len(sq[s])
    BY <2>1, <2>3, <1>1 DEF Extends
  <2>4. CASE i \notin 1..Len(sq[s])
    <3>1. i \in (Len(sq[s]) + 1)..Len(sq'[s])
      BY <2>2, <2>4
    <3>2. <<"remove", c>> \in {"remove"} \X D
      BY <2>1, <3>1 DEF Extends
    <3>3. c \in D
      BY <3>2
    <3>. QED
      BY <3>3, <2>1
  <2>. QED
    BY <2>3, <2>4
<1>3. CASE ~Daemon
  BY <1>1, <1>3, OthersTell
<1>. QED
  BY <1>2, <1>3

-----------------------------------------------------------------------------
(* Whom the loop takes for a session's client.                               *)

LEMMA SettledStep ==
  ASSUME Shapes, CountPart, GonePart, OverPart, Next, NEW c \in Clients, Settled(c)'
  PROVE  Settled(c)
<1>1. ~GoingDown(c)
  BY DownStep DEF Settled
<1>2. ~Parting(c)
  BY PartingStep DEF Settled, Parting
<1>. QED
  BY <1>1, <1>2 DEF OverPart, Settled

\* The loop comes one place closer.
LEMMA TracksShift ==
  ASSUME NEW q, NEW r, Len(q) \in Nat, Len(r) \in Nat, Shifts(q, r), NEW c, NEW s,
         NEW n \in 2..(Len(q) + 1), NEW X, NEW Y,
         s \in Y <=> (q[1] = <<"track", c, s>> \/ (s \in X /\ q[1] # <<"untrack", c, s>>))
  PROVE  Tracks(q, c, s, n, s \in X) <=> Tracks(r, c, s, n - 1, s \in Y)
<1>1. /\ Len(q) >= 1 /\ Len(r) = Len(q) - 1 /\ \A i \in 1..(n - 2) : r[i] = q[i + 1]
      /\ n \in Nat /\ n >= 2 /\ (n - 1) - 1 = n - 2
  BY DEF Shifts
<1>2. PICK t, u : t = <<"track", c, s>> /\ u = <<"untrack", c, s>>
  OBVIOUS
<1>3. t # u
  BY <1>2
<1>4. /\ Tracks(q, c, s, n, s \in X) <=>
           \/ s \in X /\ \A i \in 1..(n - 1) : q[i] # u
           \/ \E j \in 1..(n - 1) : q[j] = t /\ \A i \in (j + 1)..(n - 1) : q[i] # u
      /\ Tracks(r, c, s, n - 1, s \in Y) <=>
           \/ s \in Y /\ \A i \in 1..(n - 2) : r[i] # u
           \/ \E j \in 1..(n - 2) : r[j] = t /\ \A i \in (j + 1)..(n - 2) : r[i] # u
  BY <1>1, <1>2 DEF Tracks
<1>5. s \in Y <=> (q[1] = t \/ (s \in X /\ q[1] # u))
  BY <1>2
<1>6. ASSUME NEW i \in 1..(n - 1) PROVE i = 1 \/ (i - 1 \in 1..(n - 2) /\ r[i - 1] = q[i])
  BY <1>1
<1>7. ASSUME s \in X, \A i \in 1..(n - 1) : q[i] # u PROVE s \in Y /\ \A i \in 1..(n - 2) : r[i] # u
  <2>1. 1 \in 1..(n - 1)
    BY <1>1
  <2>2. ASSUME NEW i \in 1..(n - 2) PROVE r[i] # u
    <3>1. i + 1 \in 1..(n - 1)
      BY <1>1
    <3>. QED
      BY <3>1, <1>1, <1>7
  <2>. QED
    BY <2>1, <2>2, <1>5, <1>7
<1>8. ASSUME NEW j \in 1..(n - 1), q[j] = t, \A i \in (j + 1)..(n - 1) : q[i] # u
      PROVE  \/ s \in Y /\ \A i \in 1..(n - 2) : r[i] # u
             \/ \E k \in 1..(n - 2) : r[k] = t /\ \A i \in (k + 1)..(n - 2) : r[i] # u
  <2>1. ASSUME NEW i \in j..(n - 2) PROVE r[i] # u
    <3>1. i + 1 \in (j + 1)..(n - 1) /\ i \in 1..(n - 2)
      BY <1>1
    <3>. QED
      BY <3>1, <1>1, <1>8
  <2>2. CASE j = 1
    BY <2>1, <2>2, <1>5, <1>8
  <2>3. CASE j # 1
    <3>1. j - 1 \in 1..(n - 2) /\ r[j - 1] = t
      BY <2>3, <1>6, <1>8
    <3>2. ASSUME NEW i \in ((j - 1) + 1)..(n - 2) PROVE r[i] # u
      BY <2>1, <1>1
    <3>. QED
      BY <3>1, <3>2
  <2>. QED
    BY <2>2, <2>3
<1>9. ASSUME s \in Y, \A i \in 1..(n - 2) : r[i] # u
      PROVE  \/ s \in X /\ \A i \in 1..(n - 1) : q[i] # u
             \/ \E j \in 1..(n - 1) : q[j] = t /\ \A i \in (j + 1)..(n - 1) : q[i] # u
  <2>1. ASSUME NEW i \in 2..(n - 1) PROVE q[i] # u
    <3>1. i - 1 \in 1..(n - 2) /\ r[i - 1] = q[i]
      BY <1>1, <1>6
    <3>. QED
      BY <3>1, <1>9
  <2>2. CASE q[1] = t
    <3>1. 1 \in 1..(n - 1) /\ 1 + 1 = 2
      BY <1>1
    <3>. QED
      BY <2>1, <2>2, <3>1
  <2>3. CASE s \in X /\ q[1] # u
    <3>1. ASSUME NEW i \in 1..(n - 1) PROVE q[i] # u
      <4>1. i = 1 \/ i \in 2..(n - 1)
        BY <1>1
      <4>. QED
        BY <4>1, <2>1, <2>3
    <3>. QED
      BY <3>1, <2>3
  <2>. QED
    BY <2>2, <2>3, <1>5, <1>9
<1>10. ASSUME NEW k \in 1..(n - 2), r[k] = t, \A i \in (k + 1)..(n - 2) : r[i] # u
       PROVE  \E j \in 1..(n - 1) : q[j] = t /\ \A i \in (j + 1)..(n - 1) : q[i] # u
  <2>1. k + 1 \in 1..(n - 1) /\ q[k + 1] = t
    BY <1>1, <1>10
  <2>2. ASSUME NEW i \in ((k + 1) + 1)..(n - 1) PROVE q[i] # u
    <3>1. i \in 1..(n - 1) /\ i # 1 /\ i - 1 \in (k + 1)..(n - 2)
      BY <1>1
    <3>2. r[i - 1] = q[i]
      BY <3>1, <1>6
    <3>. QED
      BY <3>1, <3>2, <1>10
  <2>. QED
    BY <2>1, <2>2
<1>. QED
  BY <1>4, <1>7, <1>8, <1>9, <1>10

\* Only what comes before a place matters there.
LEMMA TracksKept ==
  ASSUME NEW q, NEW r, NEW c, NEW s, NEW n \in Nat, NEW X, \A i \in 1..(n - 1) : r[i] = q[i]
  PROVE  Tracks(r, c, s, n, s \in X) <=> Tracks(q, c, s, n, s \in X)
<1>1. ASSUME NEW j \in 1..(n - 1), NEW i \in (j + 1)..(n - 1) PROVE i \in 1..(n - 1)
  OBVIOUS
<1>. QED
  BY <1>1 DEF Tracks

\* One place further.
LEMMA TracksOne ==
  ASSUME NEW q, NEW c, NEW s, NEW n \in Nat \ {0}, NEW X
  PROVE  Tracks(q, c, s, n + 1, s \in X) <=>
           \/ q[n] = <<"track", c, s>>
           \/ q[n] # <<"untrack", c, s>> /\ Tracks(q, c, s, n, s \in X)
<1>1. PICK t, u : t = <<"track", c, s>> /\ u = <<"untrack", c, s>>
  OBVIOUS
<1>2. t # u /\ (n + 1) - 1 = n
  BY <1>1
<1>3. /\ Tracks(q, c, s, n + 1, s \in X) <=>
           \/ s \in X /\ \A i \in 1..n : q[i] # u
           \/ \E j \in 1..n : q[j] = t /\ \A i \in (j + 1)..n : q[i] # u
      /\ Tracks(q, c, s, n, s \in X) <=>
           \/ s \in X /\ \A i \in 1..(n - 1) : q[i] # u
           \/ \E j \in 1..(n - 1) : q[j] = t /\ \A i \in (j + 1)..(n - 1) : q[i] # u
  BY <1>1, <1>2 DEF Tracks
<1>4. n \in 1..n /\ \A i \in 1..n : i = n \/ i \in 1..(n - 1)
  OBVIOUS
<1>5. \A i \in 1..(n - 1) : i \in 1..n
  OBVIOUS
<1>6. CASE q[n] = t
  <2>1. \A i \in (n + 1)..n : FALSE
    OBVIOUS
  <2>. QED
    BY <2>1, <1>1, <1>3, <1>4, <1>6
<1>7. CASE q[n] = u
  <2>1. ASSUME NEW j \in 1..n, q[j] = t, \A i \in (j + 1)..n : q[i] # u PROVE FALSE
    <3>1. j # n
      BY <2>1, <1>2, <1>7
    <3>2. n \in (j + 1)..n
      BY <3>1
    <3>. QED
      BY <3>2, <2>1, <1>7
  <2>2. ~Tracks(q, c, s, n + 1, s \in X)
    BY <2>1, <1>3, <1>4, <1>7
  <2>. QED
    BY <2>2, <1>1, <1>2, <1>7
<1>8. CASE q[n] # t /\ q[n] # u
  <2>1. (\A i \in 1..n : q[i] # u) <=> (\A i \in 1..(n - 1) : q[i] # u)
    BY <1>4, <1>5, <1>8
  <2>2. ASSUME NEW j \in 1..(n - 1)
        PROVE  (\A i \in (j + 1)..n : q[i] # u) <=> (\A i \in (j + 1)..(n - 1) : q[i] # u)
    <3>1. \A i \in (j + 1)..n : i = n \/ i \in (j + 1)..(n - 1)
      OBVIOUS
    <3>2. \A i \in (j + 1)..(n - 1) : i \in (j + 1)..n
      OBVIOUS
    <3>. QED
      BY <3>1, <3>2, <1>8
  <2>3. (\E j \in 1..n : q[j] = t /\ \A i \in (j + 1)..n : q[i] # u) <=>
        (\E j \in 1..(n - 1) : q[j] = t /\ \A i \in (j + 1)..(n - 1) : q[i] # u)
    BY <2>2, <1>4, <1>5, <1>8
  <2>. QED
    BY <2>1, <2>3, <1>1, <1>3, <1>8
<1>. QED
  BY <1>6, <1>7, <1>8

\* Other commands do not matter.
LEMMA TracksMore ==
  ASSUME NEW q, NEW r, NEW c, NEW s, NEW l \in Nat, NEW n \in Nat, l < n, NEW X,
         \A i \in 1..l : r[i] = q[i],
         \A i \in (l + 1)..(n - 1) : r[i] # <<"track", c, s>> /\ r[i] # <<"untrack", c, s>>
  PROVE  Tracks(r, c, s, n, s \in X) <=> Tracks(q, c, s, l + 1, s \in X)
<1>1. PICK t, u : t = <<"track", c, s>> /\ u = <<"untrack", c, s>>
  OBVIOUS
<1>2. /\ Tracks(r, c, s, n, s \in X) <=>
           \/ s \in X /\ \A i \in 1..(n - 1) : r[i] # u
           \/ \E j \in 1..(n - 1) : r[j] = t /\ \A i \in (j + 1)..(n - 1) : r[i] # u
      /\ Tracks(q, c, s, l + 1, s \in X) <=>
           \/ s \in X /\ \A i \in 1..l : q[i] # u
           \/ \E j \in 1..l : q[j] = t /\ \A i \in (j + 1)..l : q[i] # u
  BY <1>1 DEF Tracks
<1>3. \A i \in (l + 1)..(n - 1) : r[i] # t /\ r[i] # u
  BY <1>1
<1>4. \A i \in 1..(n - 1) : i \in 1..l \/ i \in (l + 1)..(n - 1)
  OBVIOUS
<1>5. \A i \in 1..l : i \in 1..(n - 1)
  OBVIOUS
<1>6. (\A i \in 1..(n - 1) : r[i] # u) <=> (\A i \in 1..l : q[i] # u)
  BY <1>3, <1>4, <1>5
<1>7. ASSUME NEW j \in 1..l
      PROVE  (\A i \in (j + 1)..(n - 1) : r[i] # u) <=> (\A i \in (j + 1)..l : q[i] # u)
  <2>1. \A i \in (j + 1)..(n - 1) : i \in (j + 1)..l \/ i \in (l + 1)..(n - 1)
    OBVIOUS
  <2>2. \A i \in (j + 1)..l : i \in (j + 1)..(n - 1) /\ i \in 1..l
    OBVIOUS
  <2>. QED
    BY <2>1, <2>2, <1>3
<1>8. (\E j \in 1..(n - 1) : r[j] = t /\ \A i \in (j + 1)..(n - 1) : r[i] # u) <=>
      (\E j \in 1..l : q[j] = t /\ \A i \in (j + 1)..l : q[i] # u)
  BY <1>3, <1>4, <1>5, <1>7
<1>. QED
  BY <1>2, <1>6, <1>8

\* The loop changes the sessions of a client that keeps its entry by the track
\* or the untrack that it takes, and by nothing else.
LEMMA DaemonTracks ==
  ASSUME Shapes, Daemon, NEW c \in Clients, NEW s \in Sessions, clients[c].in, clients'[c].in
  PROVE  \E m : /\ Taken(m)
                /\ s \in clients'[c].sessions <=>
                     (m = <<"track", c, s>> \/ (s \in clients[c].sessions /\ m # <<"untrack", c, s>>))
<1>1. ASSUME NEW D \in SUBSET Clients, LoopStep(D) PROVE clients'[c] = clients[c] /\ c \notin D
  <2>1. clients'[c] = IF c \in D THEN Absent ELSE clients[c]
    BY <1>1, RemovedShape DEF LoopStep, Shapes
  <2>. QED
    BY <2>1 DEF Absent
<1>2. CASE HandleActivity
  <2>1. PICK e \in Events, D \in SUBSET Clients :
           /\ Taken(<<"activity", e>>)
           /\ FanStep({b \in Clients : clients[b].in /\ clients[b].activity
                                       /\ Origin[e] \notin clients[b].sessions}, e, D)
    BY <1>2, ActivityFacts
  <2>2. PICK m : m = <<"activity", e>>
    OBVIOUS
  <2>3. m # <<"track", c, s>> /\ m # <<"untrack", c, s>> /\ Taken(m) /\ clients'[c] = clients[c]
    BY <2>1, <2>2, <1>1 DEF FanStep
  <2>. QED
    BY <2>3
<1>3. CASE HandleStatus
  <2>1. PICK e \in Events, D \in SUBSET Clients :
           /\ Taken(<<"status", e>>)
           /\ FanStep({b \in Clients : clients[b].in /\ clients[b].summary /\ ~clients[b].activity
                                       /\ Origin[e] \notin clients[b].sessions}, e, D)
    BY <1>3, StatusFacts
  <2>2. PICK m : m = <<"status", e>>
    OBVIOUS
  <2>3. m # <<"track", c, s>> /\ m # <<"untrack", c, s>> /\ Taken(m) /\ clients'[c] = clients[c]
    BY <2>1, <2>2, <1>1 DEF FanStep
  <2>. QED
    BY <2>3
<1>4. CASE HandleEvict
  <2>1. PICK m \in LoopCommands, D \in SUBSET Clients :
          Taken(m) /\ m[1] \in {"evict", "largest"} /\ OustStep(D)
    BY <1>4, EvictFacts
  <2>2. m # <<"track", c, s>> /\ m # <<"untrack", c, s>> /\ clients'[c] = clients[c]
    BY <2>1, <1>1 DEF OustStep
  <2>. QED
    BY <2>1, <2>2
<1>5. CASE HandleTrack
  <2>1. PICK b \in Clients, t \in Sessions :
          /\ Taken(<<"track", b, t>>) /\ \A a \in Clients \ {b} : clients'[a] = clients[a]
          /\ clients[b].in => clients'[b].sessions = clients[b].sessions \cup {t}
    BY <1>5, TrackFacts
  <2>2. PICK m : m = <<"track", b, t>>
    OBVIOUS
  <2>3. /\ m # <<"untrack", c, s>> /\ Taken(m)
        /\ m = <<"track", c, s>> <=> (b = c /\ t = s)
    BY <2>1, <2>2
  <2>4. s \in clients'[c].sessions <=> (s \in clients[c].sessions \/ (b = c /\ t = s))
    BY <2>1
  <2>. QED
    BY <2>3, <2>4
<1>6. CASE HandleUntrack
  <2>1. PICK b \in Clients, t \in Sessions :
          /\ Taken(<<"untrack", b, t>>) /\ \A a \in Clients \ {b} : clients'[a] = clients[a]
          /\ clients'[b].sessions = clients[b].sessions \ {t}
    BY <1>6, UntrackFacts
  <2>2. PICK m : m = <<"untrack", b, t>>
    OBVIOUS
  <2>3. /\ m # <<"track", c, s>> /\ Taken(m)
        /\ m = <<"untrack", c, s>> <=> (b = c /\ t = s)
    BY <2>1, <2>2
  <2>4. s \in clients'[c].sessions <=> (s \in clients[c].sessions /\ ~(b = c /\ t = s))
    BY <2>1
  <2>. QED
    BY <2>3, <2>4
<1>7. CASE HandleSubscribe
  <2>1. PICK b \in Clients, w \in {"activity", "summary"} :
          /\ Taken(<<"subscribe", b, w>>) /\ \A a \in Clients \ {b} : clients'[a] = clients[a]
          /\ clients'[b].sessions = clients[b].sessions
    BY <1>7, SubscribeFacts
  <2>2. PICK m : m = <<"subscribe", b, w>>
    OBVIOUS
  <2>3. /\ m # <<"track", c, s>> /\ m # <<"untrack", c, s>> /\ Taken(m)
        /\ clients'[c].sessions = clients[c].sessions
    BY <2>1, <2>2
  <2>. QED
    BY <2>3
<1>8. CASE HandleUnsubscribe
  <2>1. PICK b \in Clients, w \in {"activity", "summary"} :
          /\ Taken(<<"unsubscribe", b, w>>) /\ \A a \in Clients \ {b} : clients'[a] = clients[a]
          /\ clients'[b].sessions = clients[b].sessions
    BY <1>8, UnsubscribeFacts
  <2>2. PICK m : m = <<"unsubscribe", b, w>>
    OBVIOUS
  <2>3. /\ m # <<"track", c, s>> /\ m # <<"untrack", c, s>> /\ Taken(m)
        /\ clients'[c].sessions = clients[c].sessions
    BY <2>1, <2>2
  <2>. QED
    BY <2>3
<1>9. CASE HandleDisconnected
  <2>1. PICK b \in Clients : Taken(<<"disconnected", b>>) /\ clients' = Removed(clients, {b})
    BY <1>9, DisconnectedFacts
  <2>2. {b} \in SUBSET Clients
    BY <2>1
  <2>3. clients'[c] = IF c \in {b} THEN Absent ELSE clients[c]
    <3>1. clients \in [Clients -> Entry]
      BY DEF Shapes
    <3>. QED
      BY <3>1, <2>1, <2>2, RemovedShape
  <2>4. PICK m : m = <<"disconnected", b>>
    OBVIOUS
  <2>5. m # <<"track", c, s>> /\ m # <<"untrack", c, s>> /\ Taken(m) /\ clients'[c] = clients[c]
    BY <2>1, <2>3, <2>4 DEF Absent
  <2>. QED
    BY <2>5
<1>. QED
  BY <1>2, <1>3, <1>4, <1>5, <1>6, <1>7, <1>8, <1>9 DEF Daemon

\* When the loop takes a command, whom it will take for a client of s further
\* down the queue stays what it was.
LEMMA ServedTaken ==
  ASSUME Shapes, Daemon, NEW c \in Clients, NEW s \in Sessions, clients[c].in, clients'[c].in,
         NEW n \in 1..Len(dq)
  PROVE  Served(c, s, n)' <=> Served(c, s, n + 1)
<1>1. PICK m : /\ Taken(m)
               /\ s \in clients'[c].sessions <=>
                    (m = <<"track", c, s>> \/ (s \in clients[c].sessions /\ m # <<"untrack", c, s>>))
  BY DaemonTracks
<1>2. Shifts(dq, dq') /\ dq[1] = m /\ Len(dq) \in Nat /\ Len(dq') \in Nat
  BY <1>1 DEF Taken
<1>3. PICK X, Y : X = clients[c].sessions /\ Y = clients'[c].sessions
  OBVIOUS
<1>4. s \in Y <=> (dq[1] = <<"track", c, s>> \/ (s \in X /\ dq[1] # <<"untrack", c, s>>))
  BY <1>1, <1>2, <1>3
<1>5. n + 1 \in 2..(Len(dq) + 1) /\ (n + 1) - 1 = n
  BY <1>2
<1>6. Tracks(dq, c, s, n + 1, s \in X) <=> Tracks(dq', c, s, (n + 1) - 1, s \in Y)
  BY <1>2, <1>4, <1>5, TracksShift
<1>. QED
  BY <1>3, <1>5, <1>6 DEF Served

\* So it does when commands are put behind the queue; and at its new end when
\* they say nothing about c and s.
LEMMA ServedKept ==
  ASSUME NEW c \in Clients, NEW s \in Sessions, clients' = clients, Len(dq) \in Nat,
         \A i \in 1..Len(dq) : dq'[i] = dq[i], NEW n \in 1..(Len(dq) + 1)
  PROVE  Served(c, s, n)' <=> Served(c, s, n)
<1>1. n \in Nat /\ \A i \in 1..(n - 1) : dq'[i] = dq[i]
  OBVIOUS
<1>2. PICK X : X = clients[c].sessions
  OBVIOUS
<1>3. Tracks(dq', c, s, n, s \in X) <=> Tracks(dq, c, s, n, s \in X)
  BY <1>1, TracksKept
<1>. QED
  BY <1>2, <1>3 DEF Served

LEMMA ServedMore ==
  ASSUME NEW c \in Clients, NEW s \in Sessions, clients' = clients, Len(dq) \in Nat, Len(dq') \in Nat,
         Len(dq) =< Len(dq'), \A i \in 1..Len(dq) : dq'[i] = dq[i],
         \A i \in (Len(dq) + 1)..Len(dq') : dq'[i] # <<"track", c, s>> /\ dq'[i] # <<"untrack", c, s>>
  PROVE  Served(c, s, Len(dq) + 1)' <=> Served(c, s, Len(dq) + 1)
<1>1. PICK X, l, n : X = clients[c].sessions /\ l = Len(dq) /\ n = Len(dq') + 1
  OBVIOUS
<1>2. /\ l \in Nat /\ n \in Nat /\ l < n /\ \A i \in 1..l : dq'[i] = dq[i]
      /\ \A i \in (l + 1)..(n - 1) : dq'[i] # <<"track", c, s>> /\ dq'[i] # <<"untrack", c, s>>
  BY <1>1
<1>3. Tracks(dq', c, s, n, s \in X) <=> Tracks(dq, c, s, l + 1, s \in X)
  BY <1>2, TracksMore
<1>. QED
  BY <1>1, <1>3 DEF Served

LEMMA ServedQueued ==
  ASSUME NEW c \in Clients, NEW s \in Sessions, clients' = clients, NEW m, Queued(m)
  PROVE  Served(c, s, Len(dq) + 1)' <=>
           (m = <<"track", c, s>> \/ (m # <<"untrack", c, s>> /\ Served(c, s, Len(dq) + 1)))
<1>1. /\ Len(dq) \in Nat /\ Len(dq') = Len(dq) + 1 /\ dq'[Len(dq) + 1] = m
      /\ \A i \in 1..Len(dq) : dq'[i] = dq[i]
  BY DEF Queued
<1>2. PICK X, n : X = clients[c].sessions /\ n = Len(dq) + 1
  OBVIOUS
<1>3. n \in Nat \ {0} /\ dq'[n] = m
  BY <1>1, <1>2
<1>4. Tracks(dq', c, s, n + 1, s \in X) <=>
        \/ dq'[n] = <<"track", c, s>>
        \/ dq'[n] # <<"untrack", c, s>> /\ Tracks(dq', c, s, n, s \in X)
  BY <1>3, TracksOne
<1>5. n \in 1..(Len(dq) + 1)
  BY <1>1, <1>2
<1>6. Served(c, s, n)' <=> Served(c, s, n)
  BY <1>1, <1>5, ServedKept
<1>. QED
  BY <1>1, <1>2, <1>3, <1>4, <1>6 DEF Served

\* What the session threads and the loop know of a client agrees once the loop
\* has handled what is queued.
LEMMA TrackStep ==
  ASSUME Shapes, CountPart, GonePart, OverPart, TellPart, TrackPart, Next
  PROVE  TrackPart'
<1>. SUFFICES ASSUME NEW c \in Clients, NEW s \in Sessions, Settled(c)'
              PROVE  c \in subs'[s] <=> Served(c, s, Len(dq) + 1)'
  BY DEF TrackPart
<1>1. Settled(c) /\ clients[c].in /\ clients'[c].in /\ (c \in subs[s] <=> Served(c, s, Len(dq) + 1))
  BY SettledStep DEF Settled, TrackPart
<1>2. dq \in Seq(LoopCommands) /\ Len(dq) \in Nat /\ wr[c] = "runs"
  BY <1>1, LenProperties DEF Shapes, Settled, GoingDown
<1>3. ASSUME clients' = clients, dq' = dq, subs'[s] = subs[s]
      PROVE  c \in subs'[s] <=> Served(c, s, Len(dq) + 1)'
  BY <1>1, <1>3 DEF Served
<1>4. ASSUME NEW m, Queued(m), clients' = clients, subs' = subs, m[1] \notin {"track", "untrack"}
      PROVE  c \in subs'[s] <=> Served(c, s, Len(dq) + 1)'
  <2>1. m # <<"track", c, s>> /\ m # <<"untrack", c, s>>
    BY <1>4
  <2>2. Served(c, s, Len(dq) + 1)' <=>
           (m = <<"track", c, s>> \/ (m # <<"untrack", c, s>> /\ Served(c, s, Len(dq) + 1)))
    BY <1>4, ServedQueued
  <2>. QED
    BY <1>1, <1>4, <2>1, <2>2
<1>5. CASE Daemon
  <2>1. subs' = subs
    BY <1>5, DaemonLoops DEF Loops
  <2>2. PICK m : Taken(m)
    BY <1>5, DaemonTakes
  <2>3. PICK n : n = Len(dq)
    OBVIOUS
  <2>4. n \in 1..Len(dq) /\ Len(dq') + 1 = n
    BY <2>2, <2>3 DEF Taken, Shifts
  <2>5. Served(c, s, n)' <=> Served(c, s, n + 1)
    BY <2>4, <1>1, <1>5, ServedTaken
  <2>6. Served(c, s, Len(dq) + 1)' <=> Served(c, s, n)'
    BY <2>4 DEF Served
  <2>. QED
    BY <2>1, <2>3, <2>5, <2>6, <1>1
<1>6. ASSUME NEW e \in Events, Emit(e) PROVE c \in subs'[s] <=> Served(c, s, Len(dq) + 1)'
  <2>1. PICK O : Posts(e, O)
    BY <1>6, EmitFacts
  <2>2. clients' = clients /\ (c \in subs'[s] <=> c \in subs[s])
    BY <1>2, <1>6, EmitFacts
  <2>3. /\ Len(dq) \in Nat /\ Len(dq') \in Nat /\ Len(dq) =< Len(dq')
        /\ \A j \in 1..Len(dq) : dq'[j] = dq[j]
    BY <2>1 DEF Posts
  <2>4. ASSUME NEW j \in (Len(dq) + 1)..Len(dq')
        PROVE  dq'[j] # <<"track", c, s>> /\ dq'[j] # <<"untrack", c, s>>
    <3>1. j = Len(dq) + 1 \/ j \in (Len(dq) + 2)..Len(dq')
      BY <2>3
    <3>2. \/ dq'[j] = <<"activity", e>> \/ dq'[j] = <<"status", e>>
          \/ dq'[j][1] \in {"evict", "largest"}
      BY <3>1, <2>1 DEF Posts
    <3>. QED
      BY <3>2
  <2>5. Served(c, s, Len(dq) + 1)' <=> Served(c, s, Len(dq) + 1)
    BY <2>2, <2>3, <2>4, ServedMore
  <2>. QED
    BY <2>2, <2>5, <1>1
<1>7. ASSUME NEW t \in Sessions, HandleAttach(t) PROVE c \in subs'[s] <=> Served(c, s, Len(dq) + 1)'
  <2>1. PICK b \in Clients :
          Queued(<<"track", b, t>>) /\ Threads /\ Subscribers(t) /\ subs'[t] = subs[t] \cup {b}
    BY <1>7, AttachedFacts
  <2>2. c \in subs'[s] <=> (c \in subs[s] \/ (b = c /\ t = s))
    BY <2>1 DEF Subscribers
  <2>3. PICK m : m = <<"track", b, t>>
    OBVIOUS
  <2>4. m # <<"untrack", c, s>> /\ (m = <<"track", c, s>> <=> (b = c /\ t = s))
    BY <2>3
  <2>5. Served(c, s, Len(dq) + 1)' <=>
           (m = <<"track", c, s>> \/ (m # <<"untrack", c, s>> /\ Served(c, s, Len(dq) + 1)))
    BY <2>1, <2>3, ServedQueued DEF Threads
  <2>. QED
    BY <2>2, <2>4, <2>5, <1>1
<1>8. ASSUME NEW t \in Sessions, HandleDetach(t) PROVE c \in subs'[s] <=> Served(c, s, Len(dq) + 1)'
  <2>1. PICK b \in Clients :
          Queued(<<"untrack", b, t>>) /\ Threads /\ Subscribers(t) /\ subs'[t] = subs[t] \ {b}
    BY <1>8, DetachedFacts
  <2>2. c \in subs'[s] <=> (c \in subs[s] /\ ~(b = c /\ t = s))
    BY <2>1 DEF Subscribers
  <2>3. PICK m : m = <<"untrack", b, t>>
    OBVIOUS
  <2>4. m # <<"track", c, s>> /\ (m = <<"untrack", c, s>> <=> (b = c /\ t = s))
    BY <2>3
  <2>5. Served(c, s, Len(dq) + 1)' <=>
           (m = <<"track", c, s>> \/ (m # <<"untrack", c, s>> /\ Served(c, s, Len(dq) + 1)))
    BY <2>1, <2>3, ServedQueued DEF Threads
  <2>. QED
    BY <2>2, <2>4, <2>5, <1>1
<1>9. ASSUME NEW t \in Sessions, HandleRemove(t) PROVE c \in subs'[s] <=> Served(c, s, Len(dq) + 1)'
  <2>1. PICK b \in Clients :
          /\ Taking(t, <<"remove", b>>) /\ dq' = dq /\ Threads /\ Subscribers(t)
          /\ subs'[t] = subs[t] \ {b}
    BY <1>9, RemovedFacts
  <2>2. 1 \in 1..Len(sq[t]) /\ sq[t][1] = <<"remove", b>>
    BY <2>1 DEF Taking
  <2>3. Parting(b)
    BY <2>2 DEF TellPart
  <2>4. b # c
    BY <2>3, <1>1 DEF Parting, Settled
  <2>5. (c \in subs'[s] <=> c \in subs[s]) /\ clients' = clients
    BY <2>1, <2>4 DEF Subscribers, Threads
  <2>. QED
    BY <2>1, <2>5, <1>1 DEF Served
<1>10. ASSUME NEW b \in Clients, Close(b) PROVE c \in subs'[s] <=> Served(c, s, Len(dq) + 1)'
  <2>1. Queued(<<"disconnected", b>>) /\ clients' = clients /\ subs' = subs
    BY <1>10, CloseFacts DEF Sides
  <2>2. PICK m : m = <<"disconnected", b>>
    OBVIOUS
  <2>3. m[1] \notin {"track", "untrack"} /\ Queued(m)
    BY <2>1, <2>2
  <2>. QED
    BY <2>1, <2>3, <1>4
<1>11. ASSUME NEW b \in Clients, NEW k \in {"subscribe", "unsubscribe"}, NEW w \in {"activity", "summary"},
              Subscribe(b, k, w)
       PROVE  c \in subs'[s] <=> Served(c, s, Len(dq) + 1)'
  <2>1. Queued(<<k, b, w>>) /\ clients' = clients /\ subs' = subs
    BY <1>11, RequestFacts DEF Sides
  <2>2. PICK m : m = <<k, b, w>>
    OBVIOUS
  <2>3. m[1] \notin {"track", "untrack"} /\ Queued(m)
    BY <2>1, <2>2
  <2>. QED
    BY <2>1, <2>3, <1>4
<1>12. ASSUME NEW b \in Clients, GetImage(b) \/ \E t \in Sessions : Attach(b, t)
       PROVE  c \in subs'[s] <=> Served(c, s, Len(dq) + 1)'
  <2>1. dq' = dq /\ Sides
    BY <1>12, ImageFacts, SwitchFacts
  <2>. QED
    BY <2>1, <1>3 DEF Sides
<1>13. ASSUME NEW b \in Clients, Writer(b) PROVE c \in subs'[s] <=> Served(c, s, Len(dq) + 1)'
  <2>1. WriterStep(b)
    BY <1>13, WriteFacts, HangupFacts, DrainFacts, EndFacts DEF Writer
  <2>. QED
    BY <2>1, <1>3 DEF WriterStep
<1>. QED
  BY <1>5, <1>6, <1>7, <1>8, <1>9, <1>10, <1>11, <1>12, <1>13 DEF Next

-----------------------------------------------------------------------------
(* The order of the posts.                                                   *)

LEMMA OrderTaken ==
  ASSUME OrderPart, NEW m, Taken(m), sent' = sent
  PROVE  OrderPart'
<1>1. /\ Len(dq) \in Nat \ {0} /\ Len(dq') \in Nat /\ Len(dq') = Len(dq) - 1 /\ Shifts(dq, dq')
      /\ \A i \in 1..Len(dq') : i + 1 \in 1..Len(dq) /\ dq'[i] = dq[i + 1]
  BY DEF Taken, Shifts
<1>2. ASSUME NEW i \in 1..Len(dq'), NEW j \in 1..Len(dq'), dq'[i] = dq'[j], dq'[i][1] \in {"activity", "status"}
      PROVE  i = j
  <2>1. i + 1 = j + 1
    BY <1>1, <1>2 DEF OrderPart
  <2>. QED
    BY <2>1
<1>3. ASSUME NEW i \in 1..Len(dq')
      PROVE  /\ dq'[i][1] \in {"activity", "status"} => dq'[i][2] \in sent'
             /\ dq'[i][1] = "status" => dq'[i][2] \in Statuses
  BY <1>1 DEF OrderPart
<1>4. ASSUME NEW i \in 1..Len(dq'), dq'[i][1] = "activity", dq'[i][2] \in Statuses
      PROVE  Follows(dq', i, <<"status", dq'[i][2]>>)
  <2>1. PICK x : x = <<"status", dq'[i][2]>>
    OBVIOUS
  <2>2. Follows(dq, i + 1, x) /\ i + 1 \in 1..Len(dq) /\ (i + 1) - 1 = i
    BY <2>1, <1>1, <1>4 DEF OrderPart
  <2>3. Follows(dq', (i + 1) - 1, x)
    BY <2>2, <1>1, FollowsShifted
  <2>. QED
    BY <2>1, <2>2, <2>3
<1>5. ASSUME NEW j \in 1..Len(dq'), dq'[j][1] = "status", NEW i \in 1..(j - 1)
      PROVE  \/ dq'[i][1] \in {"evict", "largest"}
             \/ \E k \in i..(j - 1) : dq'[k] = <<"activity", dq'[j][2]>>
  <2>1. i \in 1..Len(dq') /\ i + 1 \in 1..((j + 1) - 1)
    BY <1>1
  <2>2. \/ dq[i + 1][1] \in {"evict", "largest"}
        \/ \E k \in (i + 1)..((j + 1) - 1) : dq[k] = <<"activity", dq[j + 1][2]>>
    BY <2>1, <1>1, <1>5 DEF OrderPart
  <2>3. ASSUME NEW k \in (i + 1)..((j + 1) - 1), dq[k] = <<"activity", dq[j + 1][2]>>
        PROVE  k - 1 \in i..(j - 1) /\ dq'[k - 1] = <<"activity", dq'[j][2]>>
    <3>1. k - 1 \in i..(j - 1) /\ k - 1 \in 1..Len(dq') /\ (k - 1) + 1 = k
      BY <1>1
    <3>. QED
      BY <3>1, <2>3, <1>1
  <2>. QED
    BY <2>1, <2>2, <2>3, <1>1
<1>. QED
  BY <1>2, <1>3, <1>4, <1>5 DEF OrderPart

LEMMA OrderQueued ==
  ASSUME OrderPart, NEW m, Queued(m), m[1] \notin {"activity", "status"}, sent' = sent
  PROVE  OrderPart'
<1>1. /\ Len(dq) \in Nat /\ Len(dq') = Len(dq) + 1 /\ Len(dq') \in Nat /\ Len(dq) =< Len(dq')
      /\ dq'[Len(dq) + 1] = m /\ \A i \in 1..Len(dq) : dq'[i] = dq[i]
  BY DEF Queued
<1>2. ASSUME NEW i \in 1..Len(dq'), dq'[i][1] \in {"activity", "status"} PROVE i \in 1..Len(dq) /\ dq'[i] = dq[i]
  <2>1. i # Len(dq) + 1
    BY <1>1, <1>2
  <2>. QED
    BY <2>1, <1>1
<1>3. ASSUME NEW i \in 1..Len(dq'), NEW j \in 1..Len(dq'), dq'[i] = dq'[j], dq'[i][1] \in {"activity", "status"}
      PROVE  i = j
  BY <1>2, <1>3 DEF OrderPart
<1>4. ASSUME NEW i \in 1..Len(dq')
      PROVE  /\ dq'[i][1] \in {"activity", "status"} => dq'[i][2] \in sent'
             /\ dq'[i][1] = "status" => dq'[i][2] \in Statuses
  BY <1>2 DEF OrderPart
<1>5. ASSUME NEW i \in 1..Len(dq'), dq'[i][1] = "activity", dq'[i][2] \in Statuses
      PROVE  Follows(dq', i, <<"status", dq'[i][2]>>)
  <2>1. PICK x : x = <<"status", dq'[i][2]>>
    OBVIOUS
  <2>2. Follows(dq, i, x) /\ i \in Nat
    BY <2>1, <1>2, <1>5 DEF OrderPart
  <2>3. Follows(dq', i, x)
    BY <2>2, <1>1, FollowsKept
  <2>. QED
    BY <2>1, <2>3
<1>6. ASSUME NEW j \in 1..Len(dq'), dq'[j][1] = "status", NEW i \in 1..(j - 1)
      PROVE  \/ dq'[i][1] \in {"evict", "largest"}
             \/ \E k \in i..(j - 1) : dq'[k] = <<"activity", dq'[j][2]>>
  <2>1. j \in 1..Len(dq) /\ dq'[j] = dq[j] /\ \A k \in i..(j - 1) : k \in 1..Len(dq)
    BY <1>1, <1>2, <1>6
  <2>2. \/ dq[i][1] \in {"evict", "largest"}
        \/ \E k \in i..(j - 1) : dq[k] = <<"activity", dq[j][2]>>
    BY <2>1, <1>6 DEF OrderPart
  <2>3. i \in i..(j - 1)
    OBVIOUS
  <2>. QED
    BY <2>1, <2>2, <2>3, <1>1
<1>. QED
  BY <1>3, <1>4, <1>5, <1>6 DEF OrderPart

LEMMA OrderPosted ==
  ASSUME OrderPart, NEW e \in Events, NEW O, Posts(e, O), e \notin sent, sent' = sent \cup {e}
  PROVE  OrderPart'
<1>1. PICK l : l = Len(dq)
  OBVIOUS
<1>2. /\ l \in Nat /\ Len(dq') \in Nat /\ l < Len(dq') /\ \A i \in 1..l : dq'[i] = dq[i]
      /\ dq'[l + 1] = <<"activity", e>> /\ l =< Len(dq')
      /\ \A i \in (l + 2)..Len(dq') :
           \/ dq'[i][1] \in {"evict", "largest"}
           \/ dq'[i] = <<"status", e>> /\ i = Len(dq') /\ e \in Statuses
      /\ e \in Statuses => Len(dq') >= l + 2 /\ dq'[Len(dq')] = <<"status", e>>
  BY <1>1 DEF Posts
<1>3. \A i \in 1..Len(dq') : i \in 1..l \/ i = l + 1 \/ i \in (l + 2)..Len(dq')
  BY <1>2
<1>4. ASSUME NEW i \in 1..Len(dq'), dq'[i][1] \in {"activity", "status"}
      PROVE  \/ i \in 1..l /\ dq'[i] = dq[i] /\ dq'[i][2] \in sent
             \/ i = l + 1 /\ dq'[i] = <<"activity", e>>
             \/ i = Len(dq') /\ dq'[i] = <<"status", e>> /\ e \in Statuses /\ i > l + 1
  <2>1. CASE i \in 1..l
    BY <2>1, <1>1, <1>2, <1>4 DEF OrderPart
  <2>2. CASE i = l + 1
    BY <2>2, <1>2
  <2>3. CASE i \in (l + 2)..Len(dq')
    BY <2>3, <1>2, <1>4
  <2>. QED
    BY <2>1, <2>2, <2>3, <1>3
<1>5. ASSUME NEW i \in 1..Len(dq'), NEW j \in 1..Len(dq'), dq'[i] = dq'[j], dq'[i][1] \in {"activity", "status"}
      PROVE  i = j
  <2>1. CASE i \in 1..l /\ dq'[i] = dq[i] /\ dq'[i][2] \in sent
    <3>1. dq'[j][2] # e
      BY <2>1, <1>5
    <3>2. j \in 1..l /\ dq'[j] = dq[j]
      BY <3>1, <1>4, <1>5
    <3>. QED
      BY <2>1, <3>2, <1>1, <1>5 DEF OrderPart
  <2>2. CASE i = l + 1 /\ dq'[i] = <<"activity", e>>
    BY <2>2, <1>4, <1>5
  <2>3. CASE i = Len(dq') /\ dq'[i] = <<"status", e>>
    BY <2>3, <1>4, <1>5
  <2>. QED
    BY <2>1, <2>2, <2>3, <1>4, <1>5
<1>6. ASSUME NEW i \in 1..Len(dq')
      PROVE  /\ dq'[i][1] \in {"activity", "status"} => dq'[i][2] \in sent'
             /\ dq'[i][1] = "status" => dq'[i][2] \in Statuses
  <2>1. ASSUME dq'[i][1] \in {"activity", "status"} PROVE dq'[i][2] \in sent'
    BY <2>1, <1>4
  <2>2. ASSUME dq'[i][1] = "status" PROVE dq'[i][2] \in Statuses
    BY <2>2, <1>1, <1>4 DEF OrderPart
  <2>. QED
    BY <2>1, <2>2
<1>7. ASSUME NEW i \in 1..Len(dq'), dq'[i][1] = "activity", dq'[i][2] \in Statuses
      PROVE  Follows(dq', i, <<"status", dq'[i][2]>>)
  <2>1. PICK x : x = <<"status", dq'[i][2]>>
    OBVIOUS
  <2>2. CASE i \in 1..l /\ dq'[i] = dq[i]
    <3>1. Follows(dq, i, x) /\ i \in Nat
      BY <2>1, <2>2, <1>1, <1>7 DEF OrderPart
    <3>2. Follows(dq', i, x)
      BY <3>1, <1>1, <1>2, FollowsKept
    <3>. QED
      BY <2>1, <3>2
  <2>3. CASE i = l + 1 /\ dq'[i] = <<"activity", e>>
    <3>1. e \in Statuses /\ x = <<"status", e>>
      BY <2>1, <2>3, <1>7
    <3>2. Len(dq') \in (i + 1)..Len(dq') /\ dq'[Len(dq')] = x
      BY <3>1, <2>3, <1>2
    <3>. QED
      BY <2>1, <3>2 DEF Follows
  <2>. QED
    BY <2>2, <2>3, <1>4, <1>7
<1>8. ASSUME NEW j \in 1..Len(dq'), dq'[j][1] = "status", NEW i \in 1..(j - 1)
      PROVE  \/ dq'[i][1] \in {"evict", "largest"}
             \/ \E k \in i..(j - 1) : dq'[k] = <<"activity", dq'[j][2]>>
  <2>1. CASE j \in 1..l /\ dq'[j] = dq[j]
    <3>1. (\A k \in i..(j - 1) : k \in 1..l) /\ i \in i..(j - 1)
      BY <2>1, <1>2
    <3>2. \/ dq[i][1] \in {"evict", "largest"}
          \/ \E k \in i..(j - 1) : dq[k] = <<"activity", dq[j][2]>>
      BY <2>1, <1>1, <1>8 DEF OrderPart
    <3>. QED
      BY <2>1, <3>1, <3>2, <1>2
  <2>2. CASE j = Len(dq') /\ dq'[j] = <<"status", e>> /\ j > l + 1
    <3>1. CASE i \in 1..(l + 1)
      <4>1. l + 1 \in i..(j - 1) /\ dq'[l + 1] = <<"activity", dq'[j][2]>>
        BY <2>2, <3>1, <1>2
      <4>. QED
        BY <4>1
    <3>2. CASE i \notin 1..(l + 1)
      <4>1. i \in (l + 2)..Len(dq') /\ i # Len(dq')
        BY <2>2, <3>2, <1>2
      <4>. QED
        BY <4>1, <1>2
    <3>. QED
      BY <3>1, <3>2
  <2>. QED
    BY <2>1, <2>2, <1>4, <1>8
<1>. QED
  BY <1>5, <1>6, <1>7, <1>8 DEF OrderPart

\* A step of anyone but the loop and a broadcasting session posts no event.
Quiet ==
  /\ clients' = clients /\ sent' = sent
  /\ dq' = dq \/ \E m : Queued(m) /\ m[1] \notin {"activity", "status"}
  /\ \A c \in Clients :
       \/ (\A f \in Events : h'.copies[c][f] = h.copies[c][f]) /\ (GoingDown(c)' <=> GoingDown(c))
       \/ \A f \in Events : h'.copies[c][f] = Unwatched

LEMMA OthersQuiet ==
  ASSUME Shapes, CountPart, Next, ~Daemon, \A e \in Events : ~Emit(e)
  PROVE  Quiet
<1>1. ASSUME NetStep, h' = h
      PROVE  \A c \in Clients : /\ \A f \in Events : h'.copies[c][f] = h.copies[c][f]
                                 /\ GoingDown(c)' <=> GoingDown(c)
  BY <1>1, DownByNet
<1>2. ASSUME NEW s \in Sessions, HandleAttach(s) \/ HandleDetach(s) \/ HandleRemove(s) PROVE Quiet
  <2>1. ASSUME NEW b \in Clients, NEW k \in {"track", "untrack"}, Queued(<<k, b, s>>), Threads, NetStep
        PROVE  Quiet
    <3>1. PICK m : m = <<k, b, s>>
      OBVIOUS
    <3>2. m[1] \notin {"activity", "status"} /\ Queued(m)
      BY <3>1, <2>1
    <3>. QED
      BY <3>2, <2>1, <1>1 DEF Threads, Quiet
  <2>2. CASE HandleAttach(s)
    BY <2>1, <2>2, AttachedFacts
  <2>3. CASE HandleDetach(s)
    BY <2>1, <2>3, DetachedFacts
  <2>4. CASE HandleRemove(s)
    BY <1>1, <2>4, RemovedFacts DEF Threads, Quiet
  <2>. QED
    BY <1>2, <2>2, <2>3, <2>4
<1>3. ASSUME NEW b \in Clients, Close(b) PROVE Quiet
  <2>1. Queued(<<"disconnected", b>>) /\ Sides /\ NetStep
    BY <1>3, CloseFacts
  <2>2. PICK m : m = <<"disconnected", b>>
    OBVIOUS
  <2>3. m[1] \notin {"activity", "status"} /\ Queued(m)
    BY <2>1, <2>2
  <2>. QED
    BY <2>1, <2>3, <1>1 DEF Sides, Quiet
<1>4. ASSUME NEW b \in Clients, NEW k \in {"subscribe", "unsubscribe"}, NEW w \in {"activity", "summary"},
             Subscribe(b, k, w)
      PROVE  Quiet
  <2>1. Queued(<<k, b, w>>) /\ Sides /\ NetStep
    BY <1>4, RequestFacts
  <2>2. PICK m : m = <<k, b, w>>
    OBVIOUS
  <2>3. m[1] \notin {"activity", "status"} /\ Queued(m)
    BY <2>1, <2>2
  <2>. QED
    BY <2>1, <2>3, <1>1 DEF Sides, Quiet
<1>5. ASSUME NEW b \in Clients, GetImage(b) \/ \E s \in Sessions : Attach(b, s) PROVE Quiet
  <2>1. dq' = dq /\ Sides /\ NetStep
    BY <1>5, ImageFacts, SwitchFacts
  <2>. QED
    BY <2>1, <1>1 DEF Sides, Quiet
<1>6. ASSUME NEW b \in Clients, Writer(b) PROVE Quiet
  <2>1. WriterStep(b)
    BY <1>6, WriteFacts, HangupFacts, DrainFacts, EndFacts DEF Writer
  <2>2. h.copies \in Table
    BY PastFields DEF Shapes
  <2>3. ASSUME NEW c \in Clients
        PROVE  \/ (\A f \in Events : h'.copies[c][f] = h.copies[c][f]) /\ (GoingDown(c)' <=> GoingDown(c))
               \/ \A f \in Events : h'.copies[c][f] = Unwatched
    <3>1. /\ GoingDown(c) => GoingDown(c)'
          /\ GoingDown(c)' => GoingDown(c) \/ (b = c /\ h'.copies = Changed(h.copies, {c}))
          /\ h'.copies = h.copies \/ h'.copies = Changed(h.copies, {b})
      BY <2>1, DownByWriter
    <3>2. \A f \in Events : Changed(h.copies, {b})[c][f] = IF c \in {b} THEN Unwatched ELSE h.copies[c][f]
      BY <2>2, ChangedShape
    <3>. QED
      BY <3>1, <3>2
  <2>. QED
    BY <2>1, <2>3 DEF WriterStep, Quiet
<1>. QED
  BY <1>2, <1>3, <1>4, <1>5, <1>6 DEF Next

LEMMA DaemonTaken ==
  ASSUME Shapes, Daemon
  PROVE  \E m \in LoopCommands : Taken(m)
<1>1. \E kind : Command(kind)
  BY DEF Daemon, HandleActivity, HandleStatus, HandleTrack, HandleUntrack, HandleSubscribe,
         HandleUnsubscribe, HandleEvict, HandleDisconnected
<1>. QED
  BY <1>1, LoopTakes, SMTT(30) DEF Taken

LEMMA OrderStep ==
  ASSUME Shapes, CountPart, OrderPart, Next
  PROVE  OrderPart'
<1>1. CASE Daemon
  BY <1>1, DaemonTaken, DaemonLoops, OrderTaken DEF Loops
<1>2. ASSUME NEW e \in Events, Emit(e) PROVE OrderPart'
  <2>1. \E O : Posts(e, O)
    BY <1>2, EmitFacts
  <2>2. e \notin sent /\ sent' = sent \cup {e}
    BY <1>2, EmitFacts
  <2>. QED
    BY <2>1, <2>2, OrderPosted
<1>3. CASE ~Daemon /\ \A e \in Events : ~Emit(e)
  <2>1. Quiet
    BY <1>3, OthersQuiet
  <2>2. CASE dq' = dq
    BY <2>1, <2>2 DEF Quiet, OrderPart
  <2>3. CASE \E m : Queued(m) /\ m[1] \notin {"activity", "status"}
    BY <2>1, <2>3, OrderQueued DEF Quiet
  <2>. QED
    BY <2>1, <2>2, <2>3 DEF Quiet
<1>. QED
  BY <1>1, <1>2, <1>3

-----------------------------------------------------------------------------
(* The copies of an event.                                                   *)

\* An event is under way while its activity, or its status, is queued.
LEMMA PendingNow ==
  ASSUME Shapes, NEW f \in Events
  PROVE  Pending(f) <=> \E i \in 1..Len(dq) : dq[i] = <<"activity", f>> \/ dq[i] = <<"status", f>>
<1>1. dq \in Seq(LoopCommands) /\ DOMAIN dq = 1..Len(dq)
  BY LenProperties DEF Shapes
<1>2. ASSUME NEW i \in 1..Len(dq)
      PROVE  (dq[i][1] \in {"activity", "status"} /\ dq[i][2] = f) <=>
               (dq[i] = <<"activity", f>> \/ dq[i] = <<"status", f>>)
  <2>1. dq[i] \in LoopCommands
    BY <1>1, ElementOfSeq
  <2>2. dq[i][1] \in {"activity", "status"} => dq[i] = <<dq[i][1], dq[i][2]>>
    BY <2>1, LoopForms
  <2>. QED
    BY <2>2
<1>. QED
  BY <1>1, <1>2 DEF Pending

LEMMA PendingNext ==
  ASSUME dq' \in Seq(LoopCommands), NEW f \in Events
  PROVE  Pending(f)' <=> \E i \in 1..Len(dq') : dq'[i] = <<"activity", f>> \/ dq'[i] = <<"status", f>>
<1>1. DOMAIN dq' = 1..Len(dq')
  BY LenProperties
<1>2. ASSUME NEW i \in 1..Len(dq')
      PROVE  (dq'[i][1] \in {"activity", "status"} /\ dq'[i][2] = f) <=>
               (dq'[i] = <<"activity", f>> \/ dq'[i] = <<"status", f>>)
  <2>1. dq'[i] \in LoopCommands
    BY ElementOfSeq
  <2>2. dq'[i][1] \in {"activity", "status"} => dq'[i] = <<dq'[i][1], dq'[i][2]>>
    BY <2>1, LoopForms
  <2>. QED
    BY <2>2
<1>. QED
  BY <1>1, <1>2 DEF Pending

\* The loop takes a command that is not about the event.
LEMMA CopyShift ==
  ASSUME Shapes, OrderPart, Daemon, NEW c \in Clients, NEW f \in Events, CopyAt(c, f),
         NEW m \in LoopCommands, Taken(m), m # <<"activity", f>>, m # <<"status", f>>,
         Settled(c) => Settled(c)', h'.copies[c][f] = h.copies[c][f],
         clients'[c].activity = clients[c].activity, clients'[c].summary = clients[c].summary,
         clients'[c].sessions = clients[c].sessions \/ m[1] \in {"track", "untrack"}
  PROVE  CopyAt(c, f)'
<1>. SUFFICES ASSUME Watching(c, f)'
     PROVE  /\ Settled(c)' /\ f \in sent' /\ h'.copies[c][f] \in {0, 1}
            /\ \A i \in 1..Len(dq') : dq'[i] = <<"activity", f>> =>
                 (h'.copies[c][f] = 1 <=> Served(c, Origin[f], i)')
            /\ ~Announced(f)' =>
                 IF Pending(f)'
                 THEN h'.copies[c][f] = 1 <=> (clients'[c].activity \/ Origin[f] \in clients'[c].sessions)
                 ELSE h'.copies[c][f] = 0 => ~Wants(c, f)'
  BY DEF CopyAt
<1>1. Watching(c, f) /\ Settled(c) /\ Settled(c)' /\ clients[c].in /\ clients'[c].in
  BY DEF Watching, CopyAt, Settled
<1>2. f \in sent' /\ h'.copies[c][f] \in {0, 1}
  BY <1>1, DaemonLoops DEF CopyAt, Loops
<1>3. /\ Len(dq) \in Nat \ {0} /\ Len(dq') \in Nat /\ Len(dq') = Len(dq) - 1 /\ dq[1] = m
      /\ dq' \in Seq(LoopCommands)
      /\ \A i \in 1..Len(dq') : i + 1 \in 1..Len(dq) /\ i \in 1..Len(dq) /\ dq'[i] = dq[i + 1]
  BY DEF Taken, Shifts
<1>4. Origin[f] \in Sessions
  BY EventsAssumption
<1>5. ASSUME NEW i \in 1..Len(dq'), dq'[i] = <<"activity", f>>
      PROVE  h'.copies[c][f] = 1 <=> Served(c, Origin[f], i)'
  <2>1. h.copies[c][f] = 1 <=> Served(c, Origin[f], i + 1)
    BY <1>1, <1>3, <1>5 DEF CopyAt
  <2>2. PICK s \in Sessions : s = Origin[f]
    BY <1>4
  <2>3. Served(c, s, i)' <=> Served(c, s, i + 1)
    BY <1>1, <1>3, ServedTaken
  <2>. QED
    BY <2>1, <2>2, <2>3
<1>6. ASSUME NEW i \in 1..Len(dq), i # 1 PROVE i - 1 \in 1..Len(dq') /\ dq'[i - 1] = dq[i]
  <2>1. i - 1 \in 1..Len(dq') /\ (i - 1) + 1 = i
    BY <1>3, <1>6
  <2>. QED
    BY <2>1, <1>3
<1>7. Announced(f) => Announced(f)'
  BY <1>3, <1>6, ZenonT(40) DEF Announced
<1>8. Pending(f)' <=> Pending(f)
  <2>1. Pending(f) <=> \E i \in 1..Len(dq) : dq[i] = <<"activity", f>> \/ dq[i] = <<"status", f>>
    BY PendingNow
  <2>2. Pending(f)' <=> \E i \in 1..Len(dq') : dq'[i] = <<"activity", f>> \/ dq'[i] = <<"status", f>>
    BY <1>3, PendingNext
  <2>3. ASSUME NEW i \in 1..Len(dq), dq[i] = <<"activity", f>> \/ dq[i] = <<"status", f>>
        PROVE  Pending(f)'
    <3>1. i # 1
      BY <2>3, <1>3
    <3>2. i - 1 \in 1..Len(dq') /\ dq'[i - 1] = dq[i]
      BY <3>1, <1>6
    <3>. QED
      BY <3>2, <2>2, <2>3
  <2>4. ASSUME NEW i \in 1..Len(dq'), dq'[i] = <<"activity", f>> \/ dq'[i] = <<"status", f>>
        PROVE  Pending(f)
    <3>1. i + 1 \in 1..Len(dq) /\ dq[i + 1] = dq'[i]
      BY <1>3
    <3>. QED
      BY <3>1, <2>1, <2>4
  <2>. QED
    BY <2>1, <2>2, <2>3, <2>4
<1>9. ASSUME ~Announced(f), Pending(f) PROVE clients'[c].sessions = clients[c].sessions
  <2>1. PICK j \in 1..Len(dq) : dq[j] = <<"status", f>>
    BY <1>9, PendingNow DEF Announced
  <2>2. j # 1 /\ 1 \in 1..(j - 1) /\ dq[j][1] = "status" /\ dq[j][2] = f
    <3>1. j # 1
      BY <2>1, <1>3
    <3>2. 1 \in 1..(j - 1)
      BY <3>1, <1>3
    <3>. QED
      BY <3>1, <3>2, <2>1
  <2>3. \/ dq[1][1] \in {"evict", "largest"}
        \/ \E k \in 1..(j - 1) : dq[k] = <<"activity", f>>
    BY <2>1, <2>2 DEF OrderPart
  <2>4. \A k \in 1..(j - 1) : k \in 1..Len(dq)
    BY <1>3
  <2>5. m[1] \in {"evict", "largest"}
    BY <2>3, <2>4, <1>3, <1>9 DEF Announced
  <2>. QED
    BY <2>5
<1>10. Wants(c, f)' <=> Wants(c, f)
  BY DEF Wants
<1>11. ASSUME ~Announced(f)'
       PROVE  IF Pending(f)'
              THEN h'.copies[c][f] = 1 <=> (clients'[c].activity \/ Origin[f] \in clients'[c].sessions)
              ELSE h'.copies[c][f] = 0 => ~Wants(c, f)'
  <2>1. ~Announced(f)
    BY <1>7, <1>11
  <2>2. IF Pending(f) THEN h.copies[c][f] = 1 <=> (clients[c].activity \/ Origin[f] \in clients[c].sessions)
        ELSE h.copies[c][f] = 0 => ~Wants(c, f)
    BY <2>1, <1>1 DEF CopyAt
  <2>. QED
    BY <2>1, <2>2, <1>8, <1>9, <1>10
<1>. QED
  BY <1>1, <1>2, <1>5, <1>11

\* The fan-out of an event: who of the clients that keep their entries gets a copy.
LEMMA FanCopies ==
  ASSUME Shapes, NEW S \in SUBSET Clients, NEW e \in Events, NEW D \in SUBSET Clients, FanStep(S, e, D),
         NEW c \in Clients
  PROVE  /\ \A f \in Events : c \in D => h'.copies[c][f] = Unwatched
         /\ \A f \in Events : c \notin D /\ f # e => h'.copies[c][f] = h.copies[c][f]
         /\ c \notin D /\ Settled(c) /\ h.copies[c][e] # Unwatched =>
              h'.copies[c][e] = IF c \in S THEN h.copies[c][e] + 1 ELSE h.copies[c][e]
         /\ c \notin D /\ h.copies[c][e] = Unwatched => h'.copies[c][e] = Unwatched
         /\ c \notin D => clients'[c] = clients[c] /\ (Settled(c) => Settled(c)')
<1>1. h.copies \in Table /\ clients \in [Clients -> Entry]
  BY PastFields DEF Shapes
<1>2. Copied(h.copies, S, e) \in Table
  BY <1>1, CopiedShape
<1>3. \A f \in Events :
        h'.copies[c][f] = IF c \in D THEN Unwatched ELSE Copied(h.copies, S, e)[c][f]
  BY <1>2, ChangedShape DEF FanStep
<1>4. \A f \in Events : Copied(h.copies, S, e)[c][f] =
        IF c \in Live(S) /\ f = e /\ h.copies[c][e] # Unwatched THEN h.copies[c][e] + 1 ELSE h.copies[c][f]
  BY <1>1, CopiedShape
<1>5. Settled(c) => (c \in Live(S) <=> c \in S)
  BY DEF Settled, GoingDown, Live
<1>6. ASSUME c \notin D PROVE clients'[c] = clients[c] /\ (Settled(c) => Settled(c)')
  <2>1. clients'[c] = clients[c]
    BY <1>1, <1>6, RemovedShape DEF FanStep, LoopStep
  <2>2. GoingDown(c)' <=> (GoingDown(c) \/ c \in D)
    BY DownByLoop DEF FanStep, Loops
  <2>. QED
    BY <1>6, <2>1, <2>2 DEF Settled
<1>. QED
  BY <1>3, <1>4, <1>5, <1>6

\* The loop comes to an event: its activity subscribers that no session serves.
LEMMA CopyActivity ==
  ASSUME Shapes, OrderPart, NEW c \in Clients, NEW e \in Events, CopyAt(c, e), Taken(<<"activity", e>>),
         Watching(c, e), clients'[c] = clients[c], Settled(c)', sent' = sent,
         h'.copies[c][e] = IF clients[c].in /\ clients[c].activity /\ Origin[e] \notin clients[c].sessions
                           THEN h.copies[c][e] + 1 ELSE h.copies[c][e]
  PROVE  CopyAt(c, e)'
<1>1. /\ Len(dq) \in Nat \ {0} /\ Len(dq') \in Nat /\ Len(dq') = Len(dq) - 1 /\ dq[1] = <<"activity", e>>
      /\ dq' \in Seq(LoopCommands) /\ 1 \in 1..Len(dq)
      /\ \A i \in 1..Len(dq') : i + 1 \in 1..Len(dq) /\ i + 1 # 1 /\ dq'[i] = dq[i + 1]
  BY DEF Taken, Shifts
<1>2. Settled(c) /\ e \in sent /\ h.copies[c][e] \in {0, 1} /\ clients[c].in
  BY DEF CopyAt, Settled
<1>3. h.copies[c][e] = 1 <=> Origin[e] \in clients[c].sessions
  <2>1. h.copies[c][e] = 1 <=> Served(c, Origin[e], 1)
    BY <1>1 DEF CopyAt
  <2>2. \A i \in 1..(1 - 1) : FALSE
    OBVIOUS
  <2>3. Served(c, Origin[e], 1) <=> Origin[e] \in clients[c].sessions
    BY <2>2 DEF Served, Tracks
  <2>. QED
    BY <2>1, <2>3
<1>4. /\ h'.copies[c][e] \in {0, 1}
      /\ h'.copies[c][e] = 1 <=> (clients[c].activity \/ Origin[e] \in clients[c].sessions)
  BY <1>2, <1>3
<1>5. ~Announced(e)'
  <2>1. ASSUME NEW i \in 1..Len(dq'), dq'[i] = <<"activity", e>> PROVE FALSE
    <3>1. dq[i + 1] = dq[1] /\ dq[1][1] = "activity"
      BY <2>1, <1>1
    <3>. QED
      BY <3>1, <1>1 DEF OrderPart
  <2>. QED
    BY <2>1 DEF Announced
<1>6. ASSUME ~Pending(e)' PROVE e \notin Statuses
  <2>1. SUFFICES ASSUME e \in Statuses PROVE FALSE
    OBVIOUS
  <2>2. dq[1][1] = "activity" /\ dq[1][2] = e
    BY <1>1
  <2>3. PICK j \in (1 + 1)..Len(dq) : dq[j] = <<"status", e>>
    BY <1>1, <2>1, <2>2 DEF OrderPart, Follows
  <2>4. j - 1 \in 1..Len(dq') /\ (j - 1) + 1 = j
    BY <1>1
  <2>5. dq'[j - 1] = <<"status", e>>
    BY <2>3, <2>4, <1>1
  <2>. QED
    BY <2>4, <2>5, <1>1, <1>6, PendingNext
<1>7. ASSUME ~Pending(e)', h'.copies[c][e] = 0 PROVE ~Wants(c, e)'
  <2>1. ~clients[c].activity
    BY <1>4, <1>7
  <2>. QED
    BY <2>1, <1>6, <1>7 DEF Wants
<1>8. \A i \in 1..Len(dq') : dq'[i] # <<"activity", e>>
  BY <1>5 DEF Announced
<1>. QED
  BY <1>2, <1>4, <1>7, <1>8 DEF CopyAt

\* The loop comes to the status: the session list's subscribers that neither a
\* session nor the activity fan-out serves.
LEMMA CopyStatus ==
  ASSUME Shapes, OrderPart, NEW c \in Clients, NEW e \in Events, CopyAt(c, e), Taken(<<"status", e>>),
         Watching(c, e), clients'[c] = clients[c], Settled(c)', sent' = sent,
         h'.copies[c][e] =
           IF clients[c].in /\ clients[c].summary /\ ~clients[c].activity /\ Origin[e] \notin clients[c].sessions
           THEN h.copies[c][e] + 1 ELSE h.copies[c][e]
  PROVE  CopyAt(c, e)'
<1>1. /\ Len(dq) \in Nat \ {0} /\ Len(dq') \in Nat /\ Len(dq') = Len(dq) - 1 /\ dq[1] = <<"status", e>>
      /\ dq' \in Seq(LoopCommands) /\ 1 \in 1..Len(dq)
      /\ \A i \in 1..Len(dq') : i + 1 \in 1..Len(dq) /\ i + 1 # 1 /\ dq'[i] = dq[i + 1]
  BY DEF Taken, Shifts
<1>2. Settled(c) /\ e \in sent /\ h.copies[c][e] \in {0, 1} /\ clients[c].in
  BY DEF CopyAt, Settled
<1>3. dq[1][1] = "status" /\ dq[1][2] = e /\ e \in Statuses
  <2>1. dq[1][1] = "status" /\ dq[1][2] = e
    BY <1>1
  <2>. QED
    BY <2>1, <1>1 DEF OrderPart
<1>4. ASSUME NEW i \in 1..Len(dq), i # 1 PROVE dq[i] # <<"status", e>>
  BY <1>1, <1>3, <1>4, ZenonT(40) DEF OrderPart
<1>5. ASSUME NEW i \in 1..Len(dq) PROVE dq[i] # <<"activity", e>>
  <2>1. SUFFICES ASSUME dq[i] = <<"activity", e>> PROVE FALSE
    OBVIOUS
  <2>2. dq[i][1] = "activity" /\ dq[i][2] = e
    BY <2>1
  <2>3. PICK j \in (i + 1)..Len(dq) : dq[j] = <<"status", e>>
    BY <2>2, <1>3 DEF OrderPart, Follows
  <2>4. j \in 1..Len(dq) /\ j # 1
    BY <1>1
  <2>. QED
    BY <2>3, <2>4, <1>4
<1>6. ~Announced(e) /\ Pending(e)
  BY <1>1, <1>5, PendingNow DEF Announced
<1>7. h.copies[c][e] = 1 <=> (clients[c].activity \/ Origin[e] \in clients[c].sessions)
  BY <1>6 DEF CopyAt
<1>8. /\ h'.copies[c][e] \in {0, 1}
      /\ h'.copies[c][e] = 0 => ~clients[c].activity /\ ~clients[c].summary
  BY <1>2, <1>7
<1>9. ASSUME NEW i \in 1..Len(dq') PROVE dq'[i] # <<"activity", e>> /\ dq'[i] # <<"status", e>>
  BY <1>1, <1>4, <1>5
<1>10. ~Pending(e)'
  BY <1>1, <1>9, PendingNext
<1>11. h'.copies[c][e] = 0 => ~Wants(c, e)'
  BY <1>8 DEF Wants
<1>. QED
  BY <1>2, <1>8, <1>9, <1>10, <1>11 DEF CopyAt

LEMMA CopyNone ==
  ASSUME NEW c \in Clients, NEW f \in Events, h'.copies[c][f] = Unwatched
  PROVE  CopyAt(c, f)'
BY DEF CopyAt, Watching

LEMMA DaemonCopies ==
  ASSUME Shapes, OrderPart, Daemon, NEW c \in Clients, NEW f \in Events, CopyAt(c, f)
  PROVE  CopyAt(c, f)'
<1>1. h.copies \in Table /\ clients \in [Clients -> Entry] /\ sent' = sent
  BY PastFields, DaemonLoops DEF Shapes, Loops
<1>2. ASSUME NEW e \in Events, NEW m \in LoopCommands, Taken(m), m = <<"activity", e>> \/ m = <<"status", e>>,
             f # e, clients'[c] = clients[c], Settled(c) => Settled(c)', h'.copies[c][f] = h.copies[c][f]
      PROVE  CopyAt(c, f)'
  <2>1. m # <<"activity", f>> /\ m # <<"status", f>>
    BY <1>2
  <2>. QED
    BY <2>1, <1>2, CopyShift
<1>3. ASSUME NEW m \in LoopCommands, Taken(m), m[1] \notin {"activity", "status"},
             clients'[c] = clients[c], Settled(c) => Settled(c)', h'.copies[c][f] = h.copies[c][f]
      PROVE  CopyAt(c, f)'
  <2>1. m # <<"activity", f>> /\ m # <<"status", f>>
    BY <1>3
  <2>. QED
    BY <2>1, <1>3, CopyShift
<1>4. ASSUME NEW D \in SUBSET Clients, h'.copies = Changed(h.copies, D)
      PROVE  h'.copies[c][f] = IF c \in D THEN Unwatched ELSE h.copies[c][f]
  BY <1>1, <1>4, ChangedShape
<1>5. ASSUME NetStep, clients'[c].in = clients[c].in PROVE Settled(c) => Settled(c)'
  BY <1>5, DownByNet DEF Settled
<1>6. CASE HandleActivity
  <2>1. PICK e \in Events, D \in SUBSET Clients :
           /\ Taken(<<"activity", e>>)
           /\ FanStep({b \in Clients : clients[b].in /\ clients[b].activity
                                       /\ Origin[e] \notin clients[b].sessions}, e, D)
    BY <1>6, ActivityFacts
  <2>2. PICK S \in SUBSET Clients :
          S = {b \in Clients : clients[b].in /\ clients[b].activity /\ Origin[e] \notin clients[b].sessions}
    OBVIOUS
  <2>3. /\ \A g \in Events : c \in D => h'.copies[c][g] = Unwatched
        /\ \A g \in Events : c \notin D /\ g # e => h'.copies[c][g] = h.copies[c][g]
        /\ c \notin D /\ Settled(c) /\ h.copies[c][e] # Unwatched =>
             h'.copies[c][e] = IF c \in S THEN h.copies[c][e] + 1 ELSE h.copies[c][e]
        /\ c \notin D /\ h.copies[c][e] = Unwatched => h'.copies[c][e] = Unwatched
        /\ c \notin D => clients'[c] = clients[c] /\ (Settled(c) => Settled(c)')
    BY <2>1, <2>2, FanCopies
  <2>4. CASE h'.copies[c][f] = Unwatched
    BY <2>4, CopyNone
  <2>5. CASE c \notin D /\ f # e
    <3>1. <<"activity", e>> \in LoopCommands
      BY LoopMembers
    <3>. QED
      BY <3>1, <2>1, <2>3, <2>5, <1>2
  <2>6. CASE c \notin D /\ f = e /\ h.copies[c][e] # Unwatched
    <3>1. Watching(c, e) /\ Settled(c)
      BY <2>6 DEF Watching, CopyAt
    <3>2. h'.copies[c][e] = IF clients[c].in /\ clients[c].activity /\ Origin[e] \notin clients[c].sessions
                            THEN h.copies[c][e] + 1 ELSE h.copies[c][e]
      BY <3>1, <2>2, <2>3, <2>6
    <3>. QED
      BY <3>1, <3>2, <2>1, <2>3, <2>6, <1>1, CopyActivity
  <2>. QED
    BY <2>3, <2>4, <2>5, <2>6
<1>7. CASE HandleStatus
  <2>1. PICK e \in Events, D \in SUBSET Clients :
           /\ Taken(<<"status", e>>)
           /\ FanStep({b \in Clients : clients[b].in /\ clients[b].summary /\ ~clients[b].activity
                                       /\ Origin[e] \notin clients[b].sessions}, e, D)
    BY <1>7, StatusFacts
  <2>2. PICK S \in SUBSET Clients :
          S = {b \in Clients : clients[b].in /\ clients[b].summary /\ ~clients[b].activity
                               /\ Origin[e] \notin clients[b].sessions}
    OBVIOUS
  <2>3. /\ \A g \in Events : c \in D => h'.copies[c][g] = Unwatched
        /\ \A g \in Events : c \notin D /\ g # e => h'.copies[c][g] = h.copies[c][g]
        /\ c \notin D /\ Settled(c) /\ h.copies[c][e] # Unwatched =>
             h'.copies[c][e] = IF c \in S THEN h.copies[c][e] + 1 ELSE h.copies[c][e]
        /\ c \notin D /\ h.copies[c][e] = Unwatched => h'.copies[c][e] = Unwatched
        /\ c \notin D => clients'[c] = clients[c] /\ (Settled(c) => Settled(c)')
    BY <2>1, <2>2, FanCopies
  <2>4. CASE h'.copies[c][f] = Unwatched
    BY <2>4, CopyNone
  <2>5. CASE c \notin D /\ f # e
    <3>1. <<"status", e>> \in LoopCommands
      BY LoopMembers
    <3>. QED
      BY <3>1, <2>1, <2>3, <2>5, <1>2
  <2>6. CASE c \notin D /\ f = e /\ h.copies[c][e] # Unwatched
    <3>1. Watching(c, e) /\ Settled(c)
      BY <2>6 DEF Watching, CopyAt
    <3>2. h'.copies[c][e] =
            IF clients[c].in /\ clients[c].summary /\ ~clients[c].activity /\ Origin[e] \notin clients[c].sessions
            THEN h.copies[c][e] + 1 ELSE h.copies[c][e]
      BY <3>1, <2>2, <2>3, <2>6
    <3>. QED
      BY <3>1, <3>2, <2>1, <2>3, <2>6, <1>1, CopyStatus
  <2>. QED
    BY <2>3, <2>4, <2>5, <2>6
<1>8. CASE HandleEvict
  <2>1. PICK m \in LoopCommands, D \in SUBSET Clients :
          Taken(m) /\ m[1] \in {"evict", "largest"} /\ OustStep(D)
    BY <1>8, EvictFacts
  <2>2. h'.copies[c][f] = IF c \in D THEN Unwatched ELSE h.copies[c][f]
    BY <2>1, <1>4 DEF OustStep
  <2>3. CASE c \in D
    BY <2>2, <2>3, CopyNone
  <2>4. CASE c \notin D
    <3>1. clients'[c] = clients[c]
      BY <1>1, <2>1, <2>4, RemovedShape DEF OustStep, LoopStep
    <3>2. GoingDown(c)' <=> (GoingDown(c) \/ c \in D)
      BY <2>1, DownByLoop DEF OustStep, Loops
    <3>3. Settled(c) => Settled(c)'
      BY <2>4, <3>1, <3>2 DEF Settled
    <3>. QED
      BY <2>1, <2>2, <2>4, <3>1, <3>3, <1>3
  <2>. QED
    BY <2>3, <2>4
<1>9. ASSUME NEW b \in Clients, NEW s \in Sessions, NEW k \in {"track", "untrack"}, Taken(<<k, b, s>>),
             NetStep, h' = h, clients'[c].in = clients[c].in,
             clients'[c].activity = clients[c].activity, clients'[c].summary = clients[c].summary
      PROVE  CopyAt(c, f)'
  <2>1. PICK m \in LoopCommands : m = <<k, b, s>>
    BY LoopMembers
  <2>2. m[1] \in {"track", "untrack"} /\ m # <<"activity", f>> /\ m # <<"status", f>> /\ Taken(m)
    BY <2>1, <1>9
  <2>3. (Settled(c) => Settled(c)') /\ h'.copies[c][f] = h.copies[c][f]
    BY <1>5, <1>9
  <2>. QED
    BY <2>2, <2>3, <1>9, CopyShift
<1>10. CASE HandleTrack
  <2>1. PICK b \in Clients, s \in Sessions :
           /\ Taken(<<"track", b, s>>) /\ Loops /\ net' = net /\ h' = h
           /\ \A a \in Clients \ {b} : clients'[a] = clients[a]
           /\ clients'[b].in = clients[b].in /\ clients'[b].activity = clients[b].activity
           /\ clients'[b].summary = clients[b].summary
    BY <1>10, TrackFacts
  <2>2. NetStep
    BY <2>1, StillStep DEF Loops
  <2>3. /\ clients'[c].in = clients[c].in /\ clients'[c].activity = clients[c].activity
        /\ clients'[c].summary = clients[c].summary
    BY <2>1
  <2>. QED
    BY <2>1, <2>2, <2>3, <1>9
<1>11. CASE HandleUntrack
  <2>1. PICK b \in Clients, s \in Sessions :
           /\ Taken(<<"untrack", b, s>>) /\ Loops /\ net' = net /\ h' = h
           /\ \A a \in Clients \ {b} : clients'[a] = clients[a]
           /\ clients'[b].in = clients[b].in /\ clients'[b].activity = clients[b].activity
           /\ clients'[b].summary = clients[b].summary
    BY <1>11, UntrackFacts
  <2>2. NetStep
    BY <2>1, StillStep DEF Loops
  <2>3. /\ clients'[c].in = clients[c].in /\ clients'[c].activity = clients[c].activity
        /\ clients'[c].summary = clients[c].summary
    BY <2>1
  <2>. QED
    BY <2>1, <2>2, <2>3, <1>9
<1>12. ASSUME NEW b \in Clients, NEW m \in LoopCommands, Taken(m), m[1] \notin {"activity", "status"}, NetStep,
              h'.copies = Changed(h.copies, {b}), b # c => clients'[c] = clients[c]
       PROVE  CopyAt(c, f)'
  <2>1. {b} \in SUBSET Clients
    OBVIOUS
  <2>2. h'.copies[c][f] = IF c \in {b} THEN Unwatched ELSE h.copies[c][f]
    BY <2>1, <1>4, <1>12
  <2>3. CASE b = c
    BY <2>2, <2>3, CopyNone
  <2>4. CASE b # c
    BY <2>2, <2>4, <1>3, <1>5, <1>12
  <2>. QED
    BY <2>3, <2>4
<1>13. CASE HandleSubscribe \/ HandleUnsubscribe
  <2>1. PICK b \in Clients, k \in {"subscribe", "unsubscribe"}, w \in {"activity", "summary"} :
          /\ Taken(<<k, b, w>>) /\ NetStep /\ h'.copies = Changed(h.copies, {b})
          /\ \A a \in Clients \ {b} : clients'[a] = clients[a]
    <3>1. CASE HandleSubscribe
      BY <3>1, SubscribeFacts
    <3>2. CASE HandleUnsubscribe
      <4>1. PICK b \in Clients, w \in {"activity", "summary"} :
              /\ Taken(<<"unsubscribe", b, w>>) /\ Loops /\ net' = net /\ h'.copies = Changed(h.copies, {b})
              /\ \A a \in Clients \ {b} : clients'[a] = clients[a]
        BY <3>2, UnsubscribeFacts
      <4>2. NetStep
        BY <4>1, StillStep DEF Loops
      <4>. QED
        BY <4>1, <4>2
    <3>. QED
      BY <1>13, <3>1, <3>2
  <2>2. PICK m \in LoopCommands : m = <<k, b, w>>
    BY LoopMembers
  <2>3. m[1] \notin {"activity", "status"} /\ Taken(m) /\ (b # c => clients'[c] = clients[c])
    BY <2>1, <2>2
  <2>. QED
    BY <2>1, <2>3, <1>12
<1>14. CASE HandleDisconnected
  <2>1. PICK b \in Clients :
          /\ Taken(<<"disconnected", b>>) /\ Loops /\ net' = net /\ clients' = Removed(clients, {b})
          /\ h'.copies = Changed(h.copies, {b})
    BY <1>14, DisconnectedFacts
  <2>2. {b} \in SUBSET Clients
    OBVIOUS
  <2>3. clients'[c] = IF c \in {b} THEN Absent ELSE clients[c]
    BY <2>1, <2>2, <1>1, RemovedShape
  <2>4. PICK m \in LoopCommands : m = <<"disconnected", b>>
    BY LoopMembers
  <2>5. m[1] \notin {"activity", "status"} /\ Taken(m) /\ (b # c => clients'[c] = clients[c]) /\ NetStep
    BY <2>1, <2>3, <2>4, StillStep DEF Loops
  <2>. QED
    BY <2>1, <2>5, <1>12
<1>. QED
  BY <1>6, <1>7, <1>8, <1>10, <1>11, <1>13, <1>14 DEF Daemon

\* Commands that are not about the event are put behind the queue.
LEMMA CopyBehind ==
  ASSUME Shapes, NEW c \in Clients, NEW f \in Events, CopyAt(c, f), clients' = clients,
         Settled(c) => Settled(c)', h'.copies[c][f] = h.copies[c][f], sent \subseteq sent',
         dq' \in Seq(LoopCommands), Len(dq) =< Len(dq'), \A i \in 1..Len(dq) : dq'[i] = dq[i],
         \A i \in (Len(dq) + 1)..Len(dq') : dq'[i] # <<"activity", f>> /\ dq'[i] # <<"status", f>>
  PROVE  CopyAt(c, f)'
<1>. SUFFICES ASSUME Watching(c, f)'
     PROVE  /\ Settled(c)' /\ f \in sent' /\ h'.copies[c][f] \in {0, 1}
            /\ \A i \in 1..Len(dq') : dq'[i] = <<"activity", f>> =>
                 (h'.copies[c][f] = 1 <=> Served(c, Origin[f], i)')
            /\ ~Announced(f)' =>
                 IF Pending(f)'
                 THEN h'.copies[c][f] = 1 <=> (clients'[c].activity \/ Origin[f] \in clients'[c].sessions)
                 ELSE h'.copies[c][f] = 0 => ~Wants(c, f)'
  BY DEF CopyAt
<1>1. Watching(c, f) /\ Settled(c)' /\ f \in sent' /\ h'.copies[c][f] \in {0, 1}
  BY DEF Watching, CopyAt
<1>2. Len(dq) \in Nat /\ Len(dq') \in Nat
  BY LenProperties DEF Shapes
<1>3. ASSUME NEW i \in 1..Len(dq'), dq'[i] = <<"activity", f>> \/ dq'[i] = <<"status", f>>
      PROVE  i \in 1..Len(dq) /\ dq'[i] = dq[i]
  <2>1. i \notin (Len(dq) + 1)..Len(dq')
    BY <1>3
  <2>. QED
    BY <2>1, <1>2
<1>4. \A i \in 1..Len(dq) : i \in 1..Len(dq') /\ dq'[i] = dq[i]
  BY <1>2
<1>5. ASSUME NEW i \in 1..Len(dq'), dq'[i] = <<"activity", f>>
      PROVE  h'.copies[c][f] = 1 <=> Served(c, Origin[f], i)'
  <2>1. i \in 1..Len(dq) /\ dq[i] = <<"activity", f>> /\ i \in 1..(Len(dq) + 1)
    BY <1>2, <1>3, <1>5
  <2>2. h.copies[c][f] = 1 <=> Served(c, Origin[f], i)
    BY <2>1, <1>1 DEF CopyAt
  <2>3. PICK s \in Sessions : s = Origin[f]
    BY EventsAssumption
  <2>4. Served(c, s, i)' <=> Served(c, s, i)
    BY <2>1, <1>2, ServedKept
  <2>. QED
    BY <2>2, <2>3, <2>4
<1>6. (Announced(f)' <=> Announced(f)) /\ (Pending(f)' <=> Pending(f))
  <2>1. Pending(f) <=> \E i \in 1..Len(dq) : dq[i] = <<"activity", f>> \/ dq[i] = <<"status", f>>
    BY PendingNow
  <2>2. Pending(f)' <=> \E i \in 1..Len(dq') : dq'[i] = <<"activity", f>> \/ dq'[i] = <<"status", f>>
    BY PendingNext
  <2>3. Pending(f)' <=> Pending(f)
    BY <2>1, <2>2, <1>3, <1>4
  <2>4. Announced(f)' <=> Announced(f)
    BY <1>3, <1>4 DEF Announced
  <2>. QED
    BY <2>3, <2>4
<1>7. Wants(c, f)' <=> Wants(c, f)
  BY DEF Wants
<1>. QED
  BY <1>1, <1>5, <1>6, <1>7 DEF CopyAt

\* A session broadcasts the event: those attached to it get a copy, and they are
\* the ones whom the loop will leave out when it comes to the event.
LEMMA CopyPosted ==
  ASSUME Shapes, TrackPart, OrderPart, NEW c \in Clients, NEW e \in Events, CopyAt(c, e), Emit(e)
  PROVE  CopyAt(c, e)'
<1>1. /\ e \notin sent /\ sent' = sent \cup {e} /\ NetStep /\ clients' = clients
      /\ h'.copies = Copied(Watched(h.copies, e), subs[Origin[e]], e)
  BY EmitFacts
<1>2. h.copies \in Table
  BY PastFields DEF Shapes
<1>3. PICK k \in Table : k = Watched(h.copies, e)
  BY <1>2, WatchedShape
<1>4. k[c][e] = IF Settled(c) THEN 0 ELSE h.copies[c][e]
  BY <1>2, <1>3, WatchedShape DEF Settled
<1>5. h'.copies[c][e] =
        IF c \in Live(subs[Origin[e]]) /\ k[c][e] # Unwatched THEN k[c][e] + 1 ELSE k[c][e]
  <2>1. \A f \in Events : Copied(k, subs[Origin[e]], e)[c][f] =
          IF c \in Live(subs[Origin[e]]) /\ f = e /\ k[c][e] # Unwatched THEN k[c][e] + 1 ELSE k[c][f]
    BY CopiedShape
  <2>. QED
    BY <2>1, <1>1, <1>3
<1>6. CASE ~Settled(c)
  <2>1. h.copies[c][e] = Unwatched
    BY <1>6 DEF CopyAt, Watching
  <2>. QED
    BY <2>1, <1>4, <1>5, <1>6, CopyNone
<1>7. CASE Settled(c)
  <2>1. Settled(c)' /\ wr[c] = "runs"
    BY <1>1, <1>7, DownByNet DEF Settled, GoingDown
  <2>2. PICK s \in Sessions : s = Origin[e]
    BY EventsAssumption
  <2>3. h'.copies[c][e] = IF c \in subs[s] THEN 1 ELSE 0
    BY <2>1, <2>2, <1>4, <1>5, <1>7 DEF Live, Unwatched
  <2>4. PICK O : Posts(e, O)
    BY EmitFacts
  <2>5. PICK l : l = Len(dq)
    OBVIOUS
  <2>6. /\ l \in Nat /\ Len(dq') \in Nat /\ l < Len(dq') /\ \A i \in 1..l : dq'[i] = dq[i]
        /\ dq'[l + 1] = <<"activity", e>>
        /\ \A i \in (l + 2)..Len(dq') : \/ dq'[i][1] \in {"evict", "largest"}
                                        \/ dq'[i] = <<"status", e>>
    BY <2>4, <2>5 DEF Posts
  <2>7. ASSUME NEW i \in 1..Len(dq'), dq'[i] = <<"activity", e>> PROVE i = l + 1
    <3>1. CASE i \in 1..l
      <4>1. dq[i][1] = "activity" /\ dq[i][2] = e /\ i \in 1..Len(dq)
        BY <3>1, <2>5, <2>6, <2>7
      <4>. QED
        BY <4>1, <1>1 DEF OrderPart
    <3>2. CASE i \in (l + 2)..Len(dq')
      BY <3>2, <2>6, <2>7
    <3>. QED
      BY <3>1, <3>2, <2>6
  <2>8. l + 1 \in 1..Len(dq') /\ l + 1 \in 1..(Len(dq) + 1)
    BY <2>5, <2>6
  <2>9. Announced(e)'
    BY <2>6, <2>8 DEF Announced
  <2>10. PICK n : n = l + 1
    OBVIOUS
  <2>11. Served(c, s, n)' <=> Served(c, s, n)
    BY <2>5, <2>6, <2>8, <2>10, <1>1, ServedKept
  <2>12. c \in subs[s] <=> Served(c, s, n)
    BY <2>5, <2>10, <1>7 DEF TrackPart
  <2>13. \A i \in 1..Len(dq') : dq'[i] = <<"activity", e>> =>
           (h'.copies[c][e] = 1 <=> Served(c, Origin[e], i)')
    BY <2>2, <2>3, <2>7, <2>10, <2>11, <2>12
  <2>. QED
    BY <2>1, <2>3, <2>9, <2>13, <1>1 DEF CopyAt
<1>. QED
  BY <1>6, <1>7

LEMMA CopyStep ==
  ASSUME Shapes, CountPart, TrackPart, OrderPart, CopyPart, Next
  PROVE  CopyPart'
<1>. SUFFICES ASSUME NEW c \in Clients, NEW f \in Events PROVE CopyAt(c, f)'
  BY DEF CopyPart
<1>1. CopyAt(c, f) /\ Len(dq) \in Nat
  BY LenProperties DEF CopyPart, Shapes
<1>2. dq' \in Seq(LoopCommands)
  BY CountsStep DEF Shapes
<1>3. CASE Daemon
  BY <1>1, <1>3, DaemonCopies
<1>4. ASSUME NEW e \in Events, Emit(e) PROVE CopyAt(c, f)'
  <2>1. CASE e = f
    BY <2>1, <1>1, <1>4, CopyPosted
  <2>2. CASE e # f
    <3>1. /\ sent' = sent \cup {e} /\ NetStep /\ clients' = clients
          /\ h'.copies = Copied(Watched(h.copies, e), subs[Origin[e]], e)
      BY <1>4, EmitFacts
    <3>2. h.copies \in Table
      BY PastFields DEF Shapes
    <3>3. PICK k \in Table : k = Watched(h.copies, e)
      BY <3>2, WatchedShape
    <3>4. k[c][f] = h.copies[c][f]
      BY <3>2, <3>3, <2>2, WatchedShape
    <3>5. h'.copies[c][f] = h.copies[c][f]
      <4>1. \A g \in Events : Copied(k, subs[Origin[e]], e)[c][g] =
              IF c \in Live(subs[Origin[e]]) /\ g = e /\ k[c][e] # Unwatched THEN k[c][e] + 1 ELSE k[c][g]
        BY CopiedShape
      <4>. QED
        BY <4>1, <3>1, <3>3, <3>4, <2>2
    <3>6. Settled(c) => Settled(c)'
      BY <3>1, DownByNet DEF Settled
    <3>7. PICK O : Posts(e, O)
      BY <1>4, EmitFacts
    <3>8. Len(dq) =< Len(dq') /\ \A i \in 1..Len(dq) : dq'[i] = dq[i]
      BY <3>7 DEF Posts
    <3>9. ASSUME NEW i \in (Len(dq) + 1)..Len(dq')
          PROVE  dq'[i] # <<"activity", f>> /\ dq'[i] # <<"status", f>>
      <4>1. i = Len(dq) + 1 \/ i \in (Len(dq) + 2)..Len(dq')
        BY <1>1, <1>2, LenProperties
      <4>2. \/ dq'[i] = <<"activity", e>> \/ dq'[i] = <<"status", e>>
            \/ dq'[i][1] \in {"evict", "largest"}
        BY <4>1, <3>7 DEF Posts
      <4>. QED
        BY <4>2, <2>2
    <3>. QED
      BY <3>1, <3>5, <3>6, <3>8, <3>9, <1>1, <1>2, CopyBehind
  <2>. QED
    BY <2>1, <2>2
<1>5. CASE ~Daemon /\ \A e \in Events : ~Emit(e)
  <2>1. Quiet
    BY <1>5, OthersQuiet
  <2>2. clients' = clients /\ sent' = sent
    BY <2>1 DEF Quiet
  <2>3. CASE h'.copies[c][f] = Unwatched
    BY <2>3, CopyNone
  <2>4. CASE h'.copies[c][f] # Unwatched
    <3>1. h'.copies[c][f] = h.copies[c][f] /\ (GoingDown(c)' <=> GoingDown(c))
      BY <2>1, <2>4 DEF Quiet
    <3>2. Settled(c) => Settled(c)'
      BY <3>1, <2>2 DEF Settled
    <3>3. /\ Len(dq) =< Len(dq') /\ \A i \in 1..Len(dq) : dq'[i] = dq[i]
          /\ \A i \in (Len(dq) + 1)..Len(dq') : dq'[i] # <<"activity", f>> /\ dq'[i] # <<"status", f>>
      <4>1. CASE dq' = dq
        BY <4>1, <1>1
      <4>2. ASSUME NEW m, Queued(m), m[1] \notin {"activity", "status"}
            PROVE  /\ Len(dq) =< Len(dq') /\ \A i \in 1..Len(dq) : dq'[i] = dq[i]
                   /\ \A i \in (Len(dq) + 1)..Len(dq') : dq'[i] # <<"activity", f>> /\ dq'[i] # <<"status", f>>
        <5>1. m # <<"activity", f>> /\ m # <<"status", f>>
          BY <4>2
        <5>2. /\ Len(dq) =< Len(dq') /\ \A i \in 1..Len(dq) : dq'[i] = dq[i]
              /\ \A i \in (Len(dq) + 1)..Len(dq') : i = Len(dq) + 1 /\ dq'[i] = m
          BY <4>2, QueuedLast
        <5>. QED
          BY <5>1, <5>2
      <4>. QED
        BY <4>1, <4>2, <2>1 DEF Quiet
    <3>. QED
      BY <3>1, <3>2, <3>3, <2>2, <1>1, <1>2, CopyBehind
  <2>. QED
    BY <2>3, <2>4
<1>. QED
  BY <1>3, <1>4, <1>5

-----------------------------------------------------------------------------
(* The theorems.                                                             *)

LEMMA InitDelivery ==
  ASSUME Init
  PROVE  DelInv
<1>1. /\ net = [q |-> [c \in Clients |-> <<>>], bytes |-> [c \in Clients |-> 0], global |-> 0]
      /\ wr = [c \in Clients |-> "runs"]
      /\ conn \in [Clients -> [open : {TRUE}, att : Sessions \cup {NoSession}, reqs : {0}]]
      /\ clients \in [Clients -> [in : {TRUE}, summary : BOOLEAN, activity : BOOLEAN, sessions : SUBSET Sessions]]
      /\ \A c \in Clients : clients[c].sessions = {conn[c].att} \cap Sessions
      /\ subs = [s \in Sessions |-> {c \in Clients : conn[c].att = s}]
      /\ dq = <<>> /\ sq = [s \in Sessions |-> <<>>] /\ sent = {}
      /\ h = [copies |-> [c \in Clients |-> [e \in Events |-> Unwatched]], over |-> {}, lost |-> 0]
  BY DEF Init
<1>2. Len(dq) = 0 /\ dq \in Seq(LoopCommands) /\ \A i \in 1..Len(dq) : FALSE
  BY <1>1
<1>3. \A s \in Sessions : Len(sq[s]) = 0 /\ \A i \in 1..Len(sq[s]) : FALSE
  BY <1>1
<1>4. net \in Net
  BY <1>1 DEF Net
<1>5. ASSUME NEW c \in Clients
      PROVE  /\ conn[c] \in Link /\ conn[c].open
             /\ clients[c] \in Entry /\ clients[c].in /\ ~GoingDown(c)
  <2>1. conn[c] \in Link /\ conn[c].open
    <3>1. conn[c] \in [open : {TRUE}, att : Sessions \cup {NoSession}, reqs : {0}]
      BY <1>1
    <3>2. 0 \in 0..MaxRequests
      BY LimitsAssumption
    <3>. QED
      BY <3>1, <3>2 DEF Link, Flags
  <2>2. clients[c] \in Entry /\ clients[c].in
    BY <1>1 DEF Entry, Flags
  <2>3. net.q[c] = <<>> /\ DOMAIN (net.q[c]) = {} /\ wr[c] = "runs"
    BY <1>1
  <2>. QED
    BY <2>1, <2>2, <2>3 DEF GoingDown
<1>6. h \in Past
  <2>1. Unwatched \in Copies
    BY DEF Copies
  <2>. QED
    BY <2>1, <1>1 DEF Past
<1>7. Shapes
  <2>1. conn \in [Clients -> Link] /\ clients \in [Clients -> Entry]
    BY <1>1, <1>5
  <2>2. wr \in [Clients -> Writers] /\ subs \in [Sessions -> SUBSET Clients] /\ sent \subseteq Events
    BY <1>1 DEF Writers
  <2>3. sq \in [Sessions -> Seq(ThreadCommands)]
    BY <1>1
  <2>. QED
    BY <2>1, <2>2, <2>3, <1>2, <1>4, <1>6 DEF Shapes
<1>8. CountPart
  <2>1. ASSUME NEW c \in Clients PROVE net.bytes[c] = Weighing(net.q[c])
    <3>1. net.q[c] = <<>> /\ net.bytes[c] = 0 /\ net.q[c] \in Seq(Messages)
      BY <1>1
    <3>2. Weighing(net.q[c]) = 0
      BY <3>1, SomeWeigh
    <3>. QED
      BY <3>1, <3>2
  <2>2. Waiting(net) = {}
    <3>1. ASSUME NEW z \in Waiting(net) PROVE FALSE
      <4>1. z[1] \in Clients /\ z[2] \in 1..Len(net.q[z[1]])
        BY <3>1, WaitingPairs
      <4>2. Len(net.q[z[1]]) = 0
        BY <4>1, <1>1
      <4>. QED
        BY <4>1, <4>2
    <3>. QED
      BY <3>1
  <2>3. net.global = h.lost + Cardinality(Waiting(net))
    BY <2>2, <1>1, FS_EmptySet
  <2>. QED
    BY <2>1, <2>3, <1>7, CountIsHonest DEF Honest
<1>9. GonePart /\ LeftPart /\ TellPart
  <2>1. ASSUME NEW c \in Clients PROVE GoneAt(c)
    BY <1>2, <1>5 DEF GoneAt
  <2>2. ASSUME NEW c \in Clients, NEW s \in Sessions PROVE LeftAt(c, s)
    BY <1>1, <1>3, <1>5 DEF LeftAt, Stays
  <2>. QED
    BY <2>1, <2>2, <1>3 DEF GonePart, LeftPart, TellPart
<1>10. OverPart
  BY <1>1, <1>5 DEF OverPart
<1>11. TrackPart
  <2>1. ASSUME NEW c \in Clients, NEW s \in Sessions PROVE c \in subs[s] <=> Served(c, s, Len(dq) + 1)
    <3>1. c \in subs[s] <=> s \in clients[c].sessions
      BY <1>1
    <3>2. PICK n : n = Len(dq) + 1
      OBVIOUS
    <3>3. \A i \in 1..(n - 1) : FALSE
      BY <3>2, <1>2
    <3>4. Served(c, s, n) <=> s \in clients[c].sessions
      BY <3>3 DEF Served, Tracks
    <3>. QED
      BY <3>1, <3>2, <3>4
  <2>. QED
    BY <2>1 DEF TrackPart
<1>12. OrderPart
  BY <1>2 DEF OrderPart
<1>13. CopyPart
  BY <1>1 DEF CopyPart, CopyAt, Watching
<1>. QED
  BY <1>7, <1>8, <1>9, <1>10, <1>11, <1>12, <1>13 DEF DelInv

\* Every step of the loop, of a session, of a connection and of a writer, and a
\* step that changes nothing, preserves the invariant.
LEMMA NextDelivery ==
  ASSUME DelInv, [Next]_vars
  PROVE  DelInv'
<1>1. CASE Next
  <2>1. Shapes' /\ CountPart'
    BY <1>1, CountsStep DEF DelInv
  <2>2. GonePart' /\ LeftPart'
    BY <1>1, GoneStep, LeftStep DEF DelInv
  <2>3. OverPart' /\ TellPart'
    BY <1>1, OverStep, TellStep DEF DelInv
  <2>4. TrackPart' /\ OrderPart' /\ CopyPart'
    BY <1>1, TrackStep, OrderStep, CopyStep DEF DelInv
  <2>. QED
    BY <2>1, <2>2, <2>3, <2>4 DEF DelInv
<1>2. CASE UNCHANGED vars
  <2>1. /\ net' = net /\ wr' = wr /\ clients' = clients /\ subs' = subs /\ dq' = dq /\ sq' = sq
        /\ conn' = conn /\ sent' = sent /\ h' = h
    BY <1>2 DEF vars
  <2>2. Shapes' /\ CountPart'
    BY <2>1 DEF DelInv, Shapes, CountPart, Unwritten
  <2>3. GonePart' /\ LeftPart'
    BY <2>1 DEF DelInv, GonePart, GoneAt, Asks, LeftPart, LeftAt, Stays
  <2>4. OverPart' /\ TellPart'
    BY <2>1 DEF DelInv, OverPart, TellPart, Parting, GoingDown, Evicting, Asks
  <2>5. TrackPart' /\ OrderPart'
    BY <2>1 DEF DelInv, TrackPart, OrderPart, Settled, GoingDown, Served
  <2>6. ASSUME NEW c \in Clients, NEW f \in Events PROVE CopyAt(c, f)'
    <3>1. Settled(c) => Settled(c)'
      BY <2>1 DEF Settled, GoingDown
    <3>2. /\ dq' \in Seq(LoopCommands) /\ Len(dq) =< Len(dq') /\ \A i \in 1..Len(dq) : dq'[i] = dq[i]
          /\ \A i \in (Len(dq) + 1)..Len(dq') : FALSE
      BY <2>1, LenProperties DEF DelInv, Shapes
    <3>. QED
      BY <2>1, <3>1, <3>2, CopyBehind DEF DelInv, CopyPart
  <2>. QED
    BY <2>2, <2>3, <2>4, <2>5, <2>6 DEF DelInv, CopyPart
<1>. QED
  BY <1>1, <1>2

LEMMA HonestFollows ==
  ASSUME DelInv
  PROVE  CountersAreHonest
<1>1. Shapes /\ CountPart /\ OverPart
  BY DEF DelInv
<1>2. TypeOK
  <2>1. net.q \in [Clients -> Seq(Messages)] /\ net.bytes \in [Clients -> Nat] /\ net.global \in Nat
    BY <1>1 DEF Shapes, Net
  <2>2. /\ wr \in [Clients -> {"runs", "drains", "drained", "gone"}]
        /\ clients \in [Clients -> [in : BOOLEAN, summary : BOOLEAN, activity : BOOLEAN, sessions : SUBSET Sessions]]
        /\ subs \in [Sessions -> SUBSET Clients] /\ sent \subseteq Events
        /\ conn \in [Clients -> [open : BOOLEAN, att : Sessions \cup {NoSession}, reqs : 0..MaxRequests]]
    BY <1>1, Zenon DEF Shapes, Writers, Entry, Link, Flags
  <2>. QED
    BY <2>1, <2>2 DEF TypeOK
<1>. QED
  BY <1>1, <1>2 DEF CountersAreHonest, CountPart, OverPart

LEMMA OnceFollows ==
  ASSUME DelInv
  PROVE  QueuedOnce
<1>. SUFFICES ASSUME NEW c \in Clients, NEW e \in Events
              PROVE  /\ h.copies[c][e] <= 1
                     /\ h.copies[c][e] = 0 /\ ~Pending(e) => ~Wants(c, e)
  BY DEF QueuedOnce
<1>1. CopyAt(c, e) /\ Shapes
  BY DEF DelInv, CopyPart
<1>2. CASE ~Watching(c, e)
  BY <1>2 DEF Watching, Unwatched
<1>3. CASE Watching(c, e)
  <2>1. h.copies[c][e] \in {0, 1}
    BY <1>1, <1>3 DEF CopyAt
  <2>2. ASSUME h.copies[c][e] = 0, ~Pending(e) PROVE ~Wants(c, e)
    <3>1. ~Announced(e)
      BY <1>1, <2>2, PendingNow DEF Announced
    <3>. QED
      BY <3>1, <2>2, <1>1, <1>3 DEF CopyAt
  <2>. QED
    BY <2>1, <2>2
<1>. QED
  BY <1>2, <1>3

LEMMA GhostsFollow ==
  ASSUME DelInv
  PROVE  NoGhosts
<1>. SUFFICES ASSUME NEW c \in Clients, ~conn[c].open, ~About(dq, c), \A s \in Sessions : ~About(sq[s], c)
              PROVE  ~clients[c].in /\ \A s \in Sessions : c \notin subs[s]
  BY DEF NoGhosts
<1>1. ASSUME NEW T, NEW q \in Seq(T), NEW k \in {"disconnected", "detach"}, Follows(q, 0, <<k, c>>)
      PROVE  About(q, c)
  <2>1. DOMAIN q = 1..Len(q)
    BY LenProperties
  <2>2. PICK j \in (0 + 1)..Len(q) : q[j] = <<k, c>>
    BY <1>1 DEF Follows
  <2>3. j \in DOMAIN q /\ Len(q[j]) > 1 /\ q[j][2] = c
    BY <2>1, <2>2
  <2>. QED
    BY <2>3 DEF About
<1>2. dq \in Seq(LoopCommands) /\ sq \in [Sessions -> Seq(ThreadCommands)]
  BY DEF DelInv, Shapes
<1>3. ~clients[c].in
  <2>1. clients[c].in => Follows(dq, 0, <<"disconnected", c>>)
    BY DEF DelInv, GonePart, GoneAt
  <2>. QED
    BY <2>1, <1>1, <1>2
<1>4. ASSUME NEW s \in Sessions PROVE c \notin subs[s]
  <2>1. c \in subs[s] => Follows(sq[s], 0, <<"detach", c>>)
    BY DEF DelInv, LeftPart, LeftAt, Stays
  <2>2. sq[s] \in Seq(ThreadCommands)
    BY <1>2
  <2>. QED
    BY <2>1, <2>2, <1>1
<1>. QED
  BY <1>3, <1>4

\* What a thread is told about a client is in order in every state: a closed
\* connection's disconnect comes behind all it asked for (cleanup_client), a
\* session's detach behind the attach, and the loop's view of who is attached
\* where, once it has handled its queue, is the sessions' own (handle_track_session_subscription
\* and its opposite, daemon/subscriber_handlers.rs).
THEOREM DeliveryInvariant == Spec => []DelInv
<1>1. Init => DelInv
  BY InitDelivery
<1>2. DelInv /\ [Next]_vars => DelInv'
  BY NextDelivery
<1>. QED
  BY <1>1, <1>2, PTL DEF Spec

\* The lag counters of send_accounted and the writer threads add up to what is
\* queued, in every interleaving with failing writers, and a client found over
\* its cap is evicted unless its connection ends first.
THEOREM CountersStayHonest == Spec => []CountersAreHonest
<1>1. DelInv => CountersAreHonest
  BY HonestFollows
<1>. QED
  BY <1>1, DeliveryInvariant, PTL

\* The three fan-outs of a broadcast (the session's, handle_broadcast_activity
\* and handle_broadcast_session_status) queue an event once for a client that
\* stays, however it attaches and switches meanwhile, and once at least if it is
\* subscribed.
THEOREM EventsAreQueuedOnce == Spec => []QueuedOnce
<1>1. DelInv => QueuedOnce
  BY OnceFollows
<1>. QED
  BY <1>1, DeliveryInvariant, PTL

\* When the commands about a closed connection are handled, neither
\* DaemonState::clients nor a session's subscribers hold the client.
THEOREM ClosedClientsAreForgotten == Spec => []NoGhosts
<1>1. DelInv => NoGhosts
  BY GhostsFollow
<1>. QED
  BY <1>1, DeliveryInvariant, PTL
=============================================================================
