-------------------------- MODULE ProviderCallProofs --------------------------
(* Theorems about ProviderCall: every descriptor is closed once and by its     *)
(* owner, and a call sends a bounded number of requests.                       *)
EXTENDS ProviderCall, FiniteSetTheorems, SequenceTheorems, WellFoundedInduction, TLAPS

-----------------------------------------------------------------------------
(* The inductive invariant.                                                  *)

Chans == UNION {[1..n -> Messages] : n \in 0..Room}
WorkerState ==
  [pc : {"idle", "top", "get", "register", "send", "head", "wait", "stream"},
   attempt : 0..MaxAttempts, loop : {"first", "plain", "resend"}, extra : 0..Extra,
   conn : Conns \cup {0}, chan : Chans]

\* What is not about sockets has its type.
Shapes ==
  /\ w \in WorkerState
  /\ call \in 0..MaxCalls /\ compressed \in BOOLEAN /\ token \in BOOLEAN
  /\ mail \in 0..MaxCalls /\ closing \in BOOLEAN /\ controls \in 0..MaxControls
  /\ sends \in Nat /\ late \in Nat

\* The connections, the registry and the descriptor table agree: the table says
\* of every number in use whose it is, and its owner has it.
Table ==
  /\ conn \in [Conns -> [fd : Fds \cup {0}, shut : BOOLEAN]]
  /\ reg \in [Conns -> Fds \cup {0}] /\ fds \in [Fds -> Owners]
  /\ \A c \in Conns :
       /\ conn[c].fd # 0 => fds[conn[c].fd] = <<"stream", c>>
       /\ reg[c] # 0 => fds[reg[c]] = <<"dup", c>> /\ conn[c].fd # 0
  /\ \A f \in Fds : fds[f] # Free => f \in {conn[fds[f][2]].fd, reg[fds[f][2]]}

\* The open connections, and those the worker and the reader threads hold.
Opened == {c \in Conns : conn[c].fd # 0}
Using == IF w.pc \in {"register", "send", "head"} THEN {w.conn} ELSE {}
Reading == {c \in Conns : reader[c] \in {"top", "read", "Event", "Err"}}

\* Every open connection has one holder; a number that was never dialled has
\* none, and a connection that is about to be registered is not yet.
Held ==
  /\ dials \in 0..MaxDials /\ pool \subseteq Conns
  /\ reader \in [Conns -> Messages \cup {"none", "top", "read"}]
  /\ Opened = Using \cup pool \cup Reading
  /\ Using \cap pool = {} /\ Using \cap Reading = {} /\ pool \cap Reading = {}
  /\ Opened \subseteq 1..dials
  /\ w.pc = "register" => w.conn \notin Entries
  /\ w.pc = "stream" => w.conn \in Conns

\* An attempt that is to come is one of those allowed.
Paced == w.pc \in {"top", "wait"} => w.attempt < MaxAttempts

SocketInv == Shapes /\ Table /\ Held /\ Paced

\* The loops a call has been through, at most, when it is in this one.
LoopsDone ==
  CASE w.loop = "first" -> 0 [] w.loop = "plain" -> 1 [] w.loop = "resend" -> w.extra + 1

\* Each loop that is done has sent a request an attempt, and this one one for
\* each attempt but the one it has begun.
SendPart ==
  /\ w.loop # "resend" => w.extra = 0
  /\ w.pc \in {"top", "wait", "head"} => sends <= MaxAttempts * LoopsDone + w.attempt
  /\ w.pc \in {"get", "register", "send"} => sends < MaxAttempts * LoopsDone + w.attempt
  /\ sends <= MaxAttempts * (2 + Extra)

\* A request that was sent after the cancel leaves the cancel in the channel,
\* and nothing between it and the next look at the channel sends another.
LatePart ==
  /\ late <= 1
  /\ w.pc \in {"get", "register", "send"} => late = 0
  /\ w.pc \in {"top", "wait", "head"} /\ late = 1 => token

CallInv == SocketInv /\ SendPart /\ LatePart

-----------------------------------------------------------------------------
(* Numbers.                                                                  *)

\* The least element of a set of natural numbers.
LEMMA LeastElement ==
  ASSUME NEW S \in SUBSET Nat, S # {}
  PROVE  Min(S) \in S /\ \A s \in S : Min(S) =< s
<1>. DEFINE R == OpToRel(<, Nat)
<1>1. IsWellFoundedOn(R, Nat)
  BY NatLessThanWellFounded
<1>2. \A x, y \in Nat : y < x => <<y, x>> \in R
  BY DEF OpToRel
<1>. HIDE DEF R
<1>3. \E x \in S : \A y \in S : <<y, x>> \notin R
  BY <1>1, WFMin
<1>4. PICK x \in S : \A y \in S : ~(y < x)
  BY <1>2, <1>3
<1>5. \A y \in S : x =< y
  BY <1>4
<1>. QED BY <1>5 DEF Min

\* The configuration's counts are natural numbers.
LEMMA Counts ==
  /\ MaxAttempts \in Nat \ {0} /\ Room \in Nat \ {0} /\ MaxDials \in Nat
  /\ MaxCalls \in Nat /\ MaxControls \in Nat /\ Extra \in Nat
<1>1. /\ MaxAttempts \in Nat \ {0} /\ Room \in Nat \ {0} /\ MaxDials \in Nat
      /\ MaxCalls \in Nat /\ MaxControls \in Nat /\ Resends \in Nat
  BY CallAssumption
<1>. DEFINE S == {Resends, MaxAttempts - 1}
<1>2. S \in SUBSET Nat /\ S # {}
  BY <1>1
<1>. HIDE DEF S
<1>3. Min(S) \in Nat
  BY <1>2, LeastElement
<1>. QED BY <1>1, <1>3 DEF Extra, S

\* The reader's channel holds at most Room messages.
LEMMA Channel ==
  ASSUME NEW s
  PROVE  s \in Chans <=> s \in Seq(Messages) /\ Len(s) =< Room
<1>1. Room \in Nat
  BY Counts
<1>2. ASSUME s \in Seq(Messages), Len(s) =< Room
      PROVE  s \in UNION {[1..n -> Messages] : n \in 0..Room}
  <2>1. s \in [1..Len(s) -> Messages] /\ Len(s) \in 0..Room
    BY <1>1, <1>2, LenProperties
  <2>. QED BY <2>1
<1>3. ASSUME s \in UNION {[1..n -> Messages] : n \in 0..Room}
      PROVE  s \in Seq(Messages) /\ Len(s) =< Room
  <2>1. PICK n \in 0..Room : s \in [1..n -> Messages]
    BY <1>3
  <2>2. n \in Nat /\ n =< Room
    BY <1>1
  <2>3. s \in Seq(Messages)
    BY <2>1, <2>2, SeqDef
  <2>4. DOMAIN s = 1..n /\ DOMAIN s = 1..Len(s) /\ Len(s) \in Nat
    BY <2>1, <2>3, LenProperties
  <2>. QED BY <2>2, <2>3, <2>4
<1>. QED BY <1>2, <1>3 DEF Chans

-----------------------------------------------------------------------------
(* Descriptors.                                                              *)

\* There are as many numbers as owners, two for each connection.
LEMMA OwnerCount ==
  /\ IsFiniteSet(Fds) /\ Cardinality(Fds) = 2 * MaxDials
  /\ IsFiniteSet({"stream", "dup"} \X Conns)
  /\ Cardinality({"stream", "dup"} \X Conns) = 2 * MaxDials
<1>1. MaxDials \in Nat /\ 2 * MaxDials \in Nat
  BY Counts
<1>2. IsFiniteSet(Fds) /\ Cardinality(Fds) = 2 * MaxDials
  BY <1>1, FS_Interval DEF Fds
<1>3. IsFiniteSet(Conns) /\ Cardinality(Conns) = MaxDials
  BY <1>1, FS_Interval DEF Conns
<1>4. IsFiniteSet({"stream"} \cup {"dup"}) /\ Cardinality({"stream"} \cup {"dup"}) = 2
  <2>1. IsFiniteSet({"stream"}) /\ Cardinality({"stream"}) = 1 /\ "dup" \notin {"stream"}
    BY FS_Singleton
  <2>. QED BY <2>1, FS_AddElement
<1>5. {"stream", "dup"} = {"stream"} \cup {"dup"}
  OBVIOUS
<1>. QED BY <1>2, <1>3, <1>4, <1>5, FS_Product

\* While some owner has no number, a number is free: two numbers never have
\* the same owner.
LEMMA NumberIsFree ==
  ASSUME Table, NEW o \in {"stream", "dup"} \X Conns, \A f \in Fds : fds[f] # o
  PROVE  NewFd(fds) \in Fds /\ fds[NewFd(fds)] = Free
<1>. DEFINE T == ({"stream", "dup"} \X Conns) \ {o}
            F == {f \in Fds : fds[f] = Free}
<1>1. MaxDials \in Nat
  BY Counts
<1>2. IsFiniteSet(T) /\ Cardinality(T) = 2 * MaxDials - 1
  BY <1>1, OwnerCount, FS_RemoveElement
<1>3. F # {}
  <2>1. SUFFICES ASSUME F = {} PROVE FALSE
    OBVIOUS
  <2>2. \A f \in Fds : fds[f] \in {"stream", "dup"} \X Conns /\ fds[f] # Free
    BY <2>1 DEF Table, Owners
  <2>3. fds \in [Fds -> T]
    BY <2>2 DEF Table
  <2>. HIDE DEF T
  <2>4. PICK f, g \in Fds : f # g /\ fds[f] = fds[g]
    BY <2>3, <1>1, <1>2, OwnerCount, FS_PigeonHole
  <2>5. PICK a \in {"stream", "dup"}, c \in Conns : fds[f] = <<a, c>>
    BY <2>2
  <2>6. f \in {conn[c].fd, reg[c]} /\ g \in {conn[c].fd, reg[c]}
    <3>1. fds[f][2] = c /\ fds[g][2] = c /\ fds[f] # Free /\ fds[g] # Free
      BY <2>2, <2>4, <2>5
    <3>. QED BY <3>1 DEF Table
  <2>7. conn[c].fd # 0 /\ reg[c] # 0
    BY <2>4, <2>6, <1>1 DEF Fds, Table
  <2>8. fds[conn[c].fd] = <<"stream", c>> /\ fds[reg[c]] = <<"dup", c>>
    BY <2>7 DEF Table
  <2>. QED BY <2>4, <2>6, <2>8
<1>4. F \in SUBSET Nat
  BY <1>1 DEF Fds
<1>. HIDE DEF F
<1>5. Min(F) \in F
  BY <1>3, <1>4, LeastElement
<1>. QED BY <1>5 DEF F, NewFd

\* A dropped transport takes its entry and its own stream with it.
LEMMA DropKeeps ==
  ASSUME Table, NEW c \in Conns, Drop(c)
  PROVE  Table' /\ Opened' = Opened \ {c} /\ Entries' = Entries \ {c}
<1>1. MaxDials \in Nat /\ 0 \notin Fds
  BY Counts DEF Fds
<1>2. PICK S : S = Unregistered(c) \cup {conn[c].fd}
  OBVIOUS
<1>3. /\ S = {reg[c], conn[c].fd} \/ (reg[c] = 0 /\ S = {conn[c].fd})
  BY <1>2 DEF Unregistered, Duplicates, Entries
<1>4. /\ fds' = [f \in Fds |-> IF f \in S THEN Free ELSE fds[f]]
      /\ reg' = [reg EXCEPT ![c] = 0] /\ conn' = [conn EXCEPT ![c].fd = 0]
  BY <1>2 DEF Drop, Closed
<1>5. /\ conn' \in [Conns -> [fd : Fds \cup {0}, shut : BOOLEAN]]
      /\ reg' \in [Conns -> Fds \cup {0}] /\ fds' \in [Fds -> Owners]
  BY <1>4 DEF Table, Owners
<1>6. /\ reg'[c] = 0 /\ conn'[c].fd = 0
      /\ \A d \in Conns \ {c} : reg'[d] = reg[d] /\ conn'[d] = conn[d]
  BY <1>4 DEF Table
<1>7. ASSUME NEW d \in Conns
      PROVE  /\ conn'[d].fd # 0 => fds'[conn'[d].fd] = <<"stream", d>>
             /\ reg'[d] # 0 => fds'[reg'[d]] = <<"dup", d>> /\ conn'[d].fd # 0
  <2>1. CASE d = c
    BY <2>1, <1>6
  <2>2. CASE d # c
    BY <2>2, <1>1, <1>3, <1>4, <1>6 DEF Table
  <2>. QED BY <2>1, <2>2
<1>8. ASSUME NEW f \in Fds, fds'[f] # Free
      PROVE  f \in {conn'[fds'[f][2]].fd, reg'[fds'[f][2]]}
  <2>1. f \notin S /\ fds'[f] = fds[f] /\ fds[f] # Free
    BY <1>4, <1>8
  <2>2. PICK a \in {"stream", "dup"}, d \in Conns : fds[f] = <<a, d>>
    BY <2>1 DEF Table, Owners
  <2>3. f \in {conn[d].fd, reg[d]} /\ fds[f][2] = d
    <3>1. fds[f][2] = d
      BY <2>2
    <3>. QED BY <2>1, <3>1 DEF Table
  <2>4. d # c
    BY <2>1, <2>3, <1>1, <1>3
  <2>. QED BY <2>1, <2>2, <2>3, <2>4, <1>6
<1>9. Opened' = Opened \ {c} /\ Entries' = Entries \ {c}
  BY <1>6 DEF Opened, Entries
<1>. QED BY <1>5, <1>7, <1>8, <1>9 DEF Table

\* Entries are taken out and their duplicates closed; sockets may be shut.
LEMMA TakeOutKeeps ==
  ASSUME Table, NEW gone \in SUBSET Entries,
         reg' = Pruned(gone), fds' = Closed(fds, Duplicates(gone)),
         conn' \in [Conns -> [fd : Fds \cup {0}, shut : BOOLEAN]],
         \A c \in Conns : conn'[c].fd = conn[c].fd
  PROVE  Table' /\ Opened' = Opened /\ Entries' = Entries \ gone
<1>1. MaxDials \in Nat /\ 0 \notin Fds /\ gone \subseteq Conns
  BY Counts DEF Fds, Entries
<1>2. PICK S : S = Duplicates(gone)
  OBVIOUS
<1>3. \A f : f \in S <=> \E c \in gone : f = reg[c]
  BY <1>2 DEF Duplicates
<1>4. /\ fds' = [f \in Fds |-> IF f \in S THEN Free ELSE fds[f]]
      /\ reg' = [c \in Conns |-> IF c \in gone THEN 0 ELSE reg[c]]
  BY <1>2 DEF Closed, Pruned
<1>5. \A c \in gone : reg[c] # 0
  BY DEF Entries
<1>6. reg' \in [Conns -> Fds \cup {0}] /\ fds' \in [Fds -> Owners]
  BY <1>4 DEF Table, Owners
<1>7. ASSUME NEW d \in Conns
      PROVE  /\ conn'[d].fd # 0 => fds'[conn'[d].fd] = <<"stream", d>>
             /\ reg'[d] # 0 => fds'[reg'[d]] = <<"dup", d>> /\ conn'[d].fd # 0
  <2>1. conn[d].fd # 0 => conn[d].fd \notin S
    BY <1>1, <1>3, <1>5 DEF Table
  <2>2. reg[d] # 0 /\ d \notin gone => reg[d] \notin S
    BY <1>1, <1>3, <1>5 DEF Table
  <2>. QED BY <1>4, <2>1, <2>2 DEF Table
<1>8. ASSUME NEW f \in Fds, fds'[f] # Free
      PROVE  f \in {conn'[fds'[f][2]].fd, reg'[fds'[f][2]]}
  <2>1. f \notin S /\ fds'[f] = fds[f] /\ fds[f] # Free
    BY <1>4, <1>8
  <2>2. PICK a \in {"stream", "dup"}, d \in Conns : fds[f] = <<a, d>>
    BY <2>1 DEF Table, Owners
  <2>3. f \in {conn[d].fd, reg[d]} /\ fds[f][2] = d
    <3>1. fds[f][2] = d
      BY <2>2
    <3>. QED BY <2>1, <3>1 DEF Table
  <2>4. d \in gone => f # reg[d]
    BY <2>1, <1>3
  <2>. QED BY <2>1, <2>2, <2>3, <2>4, <1>4
<1>9. Opened' = Opened /\ Entries' = Entries \ gone
  BY <1>4 DEF Opened, Entries
<1>. QED BY <1>6, <1>7, <1>8, <1>9 DEF Table

\* shutdown_all takes every entry out.
LEMMA ShutdownKeeps ==
  ASSUME Table, ShutdownAll
  PROVE  Table' /\ Opened' = Opened /\ Entries' = {}
<1>1. /\ conn' \in [Conns -> [fd : Fds \cup {0}, shut : BOOLEAN]]
      /\ \A c \in Conns : conn'[c].fd = conn[c].fd
  BY ZenonT(40) DEF ShutdownAll, Table
<1>2. reg' = Pruned(Entries)
  BY DEF ShutdownAll, Pruned, Entries, Table
<1>3. fds' = Closed(fds, Duplicates(Entries))
  BY DEF ShutdownAll
<1>4. PICK E : E = Entries
  OBVIOUS
<1>5. Table' /\ Opened' = Opened /\ Entries' = Entries \ E
  BY <1>1, <1>2, <1>3, <1>4, TakeOutKeeps
<1>. QED BY <1>4, <1>5

\* A dialled connection takes a free number.
LEMMA DialOpens ==
  ASSUME Table, NEW c \in Conns \ Opened, UNCHANGED reg,
         conn' = [conn EXCEPT ![c].fd = NewFd(fds)], fds' = Open(fds, <<"stream", c>>)
  PROVE  Table' /\ Opened' = Opened \cup {c} /\ Entries' = Entries
<1>1. MaxDials \in Nat /\ 0 \notin Fds
  BY Counts DEF Fds
<1>2. conn[c].fd = 0 /\ reg[c] = 0
  BY DEF Opened, Table
<1>3. PICK o \in {"stream", "dup"} \X Conns : o = <<"stream", c>>
  OBVIOUS
<1>4. \A f \in Fds : fds[f] # o
  <2>1. SUFFICES ASSUME NEW f \in Fds, fds[f] = o PROVE FALSE
    OBVIOUS
  <2>2. fds[f][2] = c /\ fds[f] # Free
    BY <2>1, <1>3 DEF Free
  <2>. QED BY <2>2, <1>1, <1>2 DEF Table
<1>5. PICK n : n = NewFd(fds)
  OBVIOUS
<1>6. n \in Fds /\ fds[n] = Free
  BY <1>3, <1>4, <1>5, NumberIsFree
<1>7. /\ conn' = [conn EXCEPT ![c].fd = n] /\ fds' = [fds EXCEPT ![n] = o]
  BY <1>3, <1>5 DEF Open
<1>8. /\ conn' \in [Conns -> [fd : Fds \cup {0}, shut : BOOLEAN]]
      /\ reg' \in [Conns -> Fds \cup {0}] /\ fds' \in [Fds -> Owners]
  <2>1. o \in Owners
    BY DEF Owners
  <2>2. fds' \in [Fds -> Owners]
    BY <2>1, <1>7 DEF Table
  <2>3. conn' \in [Conns -> [fd : Fds \cup {0}, shut : BOOLEAN]]
    <3>1. [conn[c] EXCEPT !.fd = n] \in [fd : Fds \cup {0}, shut : BOOLEAN]
      BY <1>6 DEF Table
    <3>2. conn' = [conn EXCEPT ![c] = [conn[c] EXCEPT !.fd = n]]
      BY <1>7 DEF Table
    <3>. QED BY <3>1, <3>2 DEF Table
  <2>. QED BY <2>2, <2>3 DEF Table
<1>9. /\ conn'[c].fd = n /\ \A d \in Conns \ {c} : conn'[d] = conn[d]
      /\ fds'[n] = o /\ \A f \in Fds \ {n} : fds'[f] = fds[f]
  BY <1>6, <1>7, SMTT(30) DEF Table
<1>10. ASSUME NEW d \in Conns
       PROVE  /\ conn'[d].fd # 0 => fds'[conn'[d].fd] = <<"stream", d>>
              /\ reg'[d] # 0 => fds'[reg'[d]] = <<"dup", d>> /\ conn'[d].fd # 0
  <2>1. CASE d = c
    BY <2>1, <1>1, <1>2, <1>3, <1>6, <1>9
  <2>2. CASE d # c
    <3>1. conn[d].fd # 0 => conn[d].fd \in Fds \ {n} /\ fds[conn[d].fd] = <<"stream", d>>
      BY <1>6 DEF Table, Free
    <3>2. reg[d] # 0 => reg[d] \in Fds \ {n} /\ fds[reg[d]] = <<"dup", d>> /\ conn[d].fd # 0
      BY <1>6 DEF Table, Free
    <3>. QED BY <2>2, <3>1, <3>2, <1>9
  <2>. QED BY <2>1, <2>2
<1>11. ASSUME NEW f \in Fds, fds'[f] # Free
       PROVE  f \in {conn'[fds'[f][2]].fd, reg'[fds'[f][2]]}
  <2>1. CASE f = n
    <3>1. fds'[f][2] = c
      BY <2>1, <1>3, <1>9
    <3>. QED BY <2>1, <3>1, <1>9
  <2>2. CASE f # n
    <3>1. fds'[f] = fds[f]
      BY <2>2, <1>9
    <3>2. PICK a \in {"stream", "dup"}, d \in Conns : fds[f] = <<a, d>>
      BY <3>1, <1>11 DEF Table, Owners
    <3>3. fds[f][2] = d
      BY <3>2
    <3>4. f \in {conn[d].fd, reg[d]}
      BY <3>1, <3>3, <1>11 DEF Table
    <3>5. d # c
      BY <3>4, <1>1, <1>2
    <3>. QED BY <3>1, <3>3, <3>4, <3>5, <1>9
  <2>. QED BY <2>1, <2>2
<1>12. Opened' = Opened \cup {c} /\ Entries' = Entries
  BY <1>1, <1>6, <1>9 DEF Opened, Entries
<1>. QED BY <1>8, <1>10, <1>11, <1>12 DEF Table

\* The registry takes a duplicate, and may prune what it had.
LEMMA RegisterOpens ==
  ASSUME Table, NEW c \in Opened \ Entries, NEW gone \in SUBSET Entries, UNCHANGED conn,
         reg' = [Pruned(gone) EXCEPT ![c] = NewFd(fds)],
         fds' = Closed(Open(fds, <<"dup", c>>), Duplicates(gone))
  PROVE  Table' /\ Opened' = Opened
<1>1. MaxDials \in Nat /\ 0 \notin Fds /\ gone \subseteq Conns /\ c \in Conns
  BY Counts DEF Fds, Entries, Opened
<1>2. conn[c].fd # 0 /\ reg[c] = 0 /\ c \notin gone
  BY DEF Opened, Entries, Table
<1>3. PICK o \in {"stream", "dup"} \X Conns : o = <<"dup", c>>
  BY <1>1
<1>4. \A f \in Fds : fds[f] # o
  <2>1. SUFFICES ASSUME NEW f \in Fds, fds[f] = o PROVE FALSE
    OBVIOUS
  <2>2. fds[f][2] = c /\ fds[f] # Free
    BY <2>1, <1>3 DEF Free
  <2>3. f = conn[c].fd
    BY <2>2, <1>1, <1>2 DEF Table
  <2>. QED BY <2>1, <2>3, <1>1, <1>2, <1>3 DEF Table
<1>5. PICK n : n = NewFd(fds)
  OBVIOUS
<1>6. n \in Fds /\ fds[n] = Free
  BY <1>3, <1>4, <1>5, NumberIsFree
<1>7. PICK S : S = Duplicates(gone)
  OBVIOUS
<1>8. \A f : f \in S <=> \E d \in gone : f = reg[d]
  BY <1>7 DEF Duplicates
<1>9. \A d \in gone : reg[d] # 0
  BY DEF Entries
<1>10. n \notin S
  BY <1>1, <1>6, <1>8, <1>9 DEF Table, Free
<1>11. /\ \A f \in S : fds'[f] = Free
       /\ fds'[n] = o /\ \A f \in Fds \ (S \cup {n}) : fds'[f] = fds[f]
       /\ fds' \in [Fds -> Owners]
  <2>1. fds' = [f \in Fds |-> IF f \in S THEN Free ELSE [fds EXCEPT ![n] = o][f]]
    BY <1>3, <1>5, <1>7 DEF Closed, Open
  <2>2. S \subseteq Fds
    BY <1>1, <1>8, <1>9 DEF Table
  <2>. QED BY <2>1, <2>2, <1>6, <1>10 DEF Table, Owners
<1>12. /\ reg'[c] = n /\ \A d \in gone : reg'[d] = 0
       /\ \A d \in Conns \ (gone \cup {c}) : reg'[d] = reg[d]
       /\ reg' \in [Conns -> Fds \cup {0}]
  <2>1. reg' = [[d \in Conns |-> IF d \in gone THEN 0 ELSE reg[d]] EXCEPT ![c] = n]
    BY <1>5 DEF Pruned
  <2>2. [d \in Conns |-> IF d \in gone THEN 0 ELSE reg[d]] \in [Conns -> Fds \cup {0}]
    BY DEF Table
  <2>3. reg' \in [Conns -> Fds \cup {0}]
    BY <2>1, <2>2, <1>6
  <2>. QED BY <2>1, <2>3, <1>1, <1>2
<1>13. ASSUME NEW d \in Conns
       PROVE  /\ conn'[d].fd # 0 => fds'[conn'[d].fd] = <<"stream", d>>
              /\ reg'[d] # 0 => fds'[reg'[d]] = <<"dup", d>> /\ conn'[d].fd # 0
  <2>1. conn[d].fd # 0 => conn[d].fd \in Fds \ (S \cup {n})
    BY <1>1, <1>6, <1>8, <1>9 DEF Table, Free
  <2>2. reg[d] # 0 /\ d \notin gone => reg[d] \in Fds \ (S \cup {n})
    BY <1>1, <1>6, <1>8, <1>9 DEF Table, Free
  <2>3. conn'[d].fd # 0 => fds'[conn'[d].fd] = <<"stream", d>>
    BY <2>1, <1>11 DEF Table
  <2>4. CASE d = c
    BY <2>3, <2>4, <1>2, <1>3, <1>11, <1>12
  <2>5. CASE d \in gone
    BY <2>3, <2>5, <1>12
  <2>6. CASE d # c /\ d \notin gone
    <3>1. reg'[d] = reg[d]
      BY <2>6, <1>12
    <3>2. reg[d] # 0 => fds'[reg[d]] = fds[reg[d]]
      BY <2>2, <2>6, <1>11
    <3>. QED BY <2>3, <3>1, <3>2 DEF Table
  <2>. QED BY <2>4, <2>5, <2>6
<1>14. ASSUME NEW f \in Fds, fds'[f] # Free
       PROVE  f \in {conn'[fds'[f][2]].fd, reg'[fds'[f][2]]}
  <2>1. CASE f = n
    <3>1. fds'[f][2] = c
      BY <2>1, <1>3, <1>11
    <3>. QED BY <2>1, <3>1, <1>12
  <2>2. CASE f # n
    <3>1. fds'[f] = fds[f] /\ f \notin S
      BY <2>2, <1>11, <1>14
    <3>2. PICK a \in {"stream", "dup"}, d \in Conns : fds[f] = <<a, d>>
      BY <3>1, <1>14 DEF Table, Owners
    <3>3. fds[f][2] = d
      BY <3>2
    <3>4. f \in {conn[d].fd, reg[d]}
      BY <3>1, <3>3, <1>14 DEF Table
    <3>5. f = reg[d] => d \notin gone /\ d # c
      BY <3>1, <1>1, <1>2, <1>8
    <3>. QED BY <3>1, <3>3, <3>4, <3>5, <1>12
  <2>. QED BY <2>1, <2>2
<1>15. Opened' = Opened
  BY DEF Opened
<1>. QED BY <1>11, <1>12, <1>13, <1>14, <1>15 DEF Table

-----------------------------------------------------------------------------
(* Steps that leave a part alone.                                            *)

\* The registry is not touched.
LEMMA SameTable ==
  ASSUME Table, UNCHANGED registry
  PROVE  Table' /\ Opened' = Opened /\ Entries' = Entries
BY DEF Table, registry, Opened, Entries

\* The readers are not touched.
LEMMA SameReading ==
  ASSUME UNCHANGED reader
  PROVE  Reading' = Reading
BY DEF Reading

\* What the worker may be after an attempt that did not succeed.
LEMMA NextStates ==
  ASSUME Shapes
  PROVE  \A v \in {Ended, Failed, Downgrade, Resend} :
           /\ v \in WorkerState /\ v.pc \in {"idle", "top", "wait"}
           /\ v.pc \in {"top", "wait"} => v.attempt < MaxAttempts
<1>. USE Counts
<1>1. Idle \in WorkerState
  <2>1. PICK e : e = <<>>
    OBVIOUS
  <2>2. e \in Chans
    <3>1. e \in Seq(Messages) /\ Len(e) =< Room
      BY <2>1
    <3>. QED BY <3>1, Channel
  <2>3. 0 \in 0..MaxAttempts /\ 0 \in 0..Extra
    OBVIOUS
  <2>. QED BY <2>1, <2>2, <2>3 DEF Idle, WorkerState
<1>2. Ended \in WorkerState /\ Ended.pc = "idle"
  BY <1>1 DEF Ended, Idle
<1>3. w \in WorkerState /\ 0 \in 0..MaxAttempts
  BY DEF Shapes
<1>4. Failed \in WorkerState /\ Failed.pc \in {"idle", "wait"}
      /\ (Failed.pc = "wait" => Failed.attempt < MaxAttempts)
  BY <1>2, <1>3 DEF Failed, WorkerState
<1>5. Downgrade \in WorkerState /\ Downgrade.pc \in {"idle", "top"}
      /\ (Downgrade.pc = "top" => Downgrade.attempt < MaxAttempts)
  <2>1. CASE compressed /\ w.loop = "first"
    <3>1. Downgrade = [pc |-> "top", attempt |-> 0, loop |-> "plain", extra |-> w.extra,
                       conn |-> 0, chan |-> w.chan]
      BY <2>1, <1>3 DEF Downgrade, WorkerState
    <3>2. Downgrade \in WorkerState
      BY <3>1, <1>3 DEF WorkerState
    <3>. QED BY <3>1, <3>2
  <2>2. CASE ~(compressed /\ w.loop = "first")
    BY <2>2, <1>2 DEF Downgrade
  <2>. QED BY <2>1, <2>2
<1>6. Resend \in WorkerState /\ Resend.pc \in {"idle", "wait"}
      /\ (Resend.pc = "wait" => Resend.attempt < MaxAttempts)
  <2>1. CASE w.extra < Extra
    <3>1. Resend = [pc |-> "wait", attempt |-> 0, loop |-> "resend", extra |-> w.extra + 1,
                    conn |-> 0, chan |-> w.chan]
      BY <2>1, <1>3 DEF Resend, WorkerState
    <3>2. w.extra + 1 \in 0..Extra
      BY <2>1, <1>3 DEF WorkerState
    <3>3. Resend \in WorkerState
      BY <3>1, <3>2, <1>3 DEF WorkerState
    <3>. QED BY <3>1, <3>3
  <2>2. CASE ~(w.extra < Extra)
    BY <2>2, <1>2 DEF Resend
  <2>. QED BY <2>1, <2>2
<1>. QED BY <1>2, <1>4, <1>5, <1>6

\* The connection the worker uses, and those of the pool and of the readers.
LEMMA Holding ==
  ASSUME Held
  PROVE  /\ w.pc \in {"register", "send", "head"} => w.conn \in Conns /\ w.conn \in Opened
         /\ Using \subseteq Conns /\ Reading \subseteq Conns /\ Opened \subseteq Conns
BY DEF Held, Using, Reading, Opened

-----------------------------------------------------------------------------
(* The sockets: the worker's steps.                                          *)

\* No socket is touched and the worker keeps the connection it uses.
LEMMA QuietKeeps ==
  ASSUME SocketInv, Shapes', Paced', UNCHANGED sockets, Using' = Using,
         w'.pc = "register" => w' = w, w'.pc = "stream" => w'.conn \in Conns
  PROVE  SocketInv'
<1>1. Table' /\ Opened' = Opened /\ Entries' = Entries /\ Reading' = Reading
  BY SameTable, SameReading DEF SocketInv, sockets, registry
<1>2. Held'
  BY <1>1 DEF SocketInv, sockets, Held
<1>. QED BY <1>1, <1>2 DEF SocketInv

\* A call begins, or the worker ends or takes up an attempt.
LEMMA TurnsKeep ==
  ASSUME SocketInv, Begin \/ Top \/ DialFails \/ WaitCancel \/ WaitTimer
                    \/ StreamCancel \/ StreamRecv \/ StreamDeadline
  PROVE  SocketInv'
<1>. USE Counts
<1>1. w \in WorkerState /\ Shapes /\ Paced
  BY DEF SocketInv, Shapes
<1>2. Ended \in WorkerState /\ Ended.pc = "idle" /\ Ended.chan = <<>> /\ Ended.attempt = 0
  BY <1>1, NextStates DEF Ended, Idle
<1>3. Using = {} /\ UNCHANGED sockets
  BY DEF Begin, Top, DialFails, WaitCancel, WaitTimer, StreamCancel, StreamRecv,
         StreamDeadline, Using, Running
<1>4. /\ w' \in WorkerState /\ w'.pc \in {"idle", "top", "get", "wait", "stream"}
      /\ w'.pc \in {"top", "wait"} => w'.attempt < MaxAttempts
      /\ w'.pc = "stream" => w.pc = "stream" /\ w'.conn = w.conn
  <2>1. CASE Begin
    <3>1. w' = [Ended EXCEPT !.pc = "top"]
      BY <2>1 DEF Begin, Ended
    <3>. QED BY <3>1, <1>2 DEF WorkerState
  <2>2. CASE Top
    <3>1. CASE token
      BY <2>2, <3>1, <1>2 DEF Top
    <3>2. CASE ~token
      <4>1. w' = [w EXCEPT !.attempt = w.attempt + 1, !.pc = "get"]
        BY <2>2, <3>2 DEF Top
      <4>2. w.attempt + 1 \in 0..MaxAttempts
        BY <2>2, <1>1 DEF Top, Paced, WorkerState
      <4>. QED BY <4>1, <4>2, <1>1 DEF WorkerState
    <3>. QED BY <3>1, <3>2
  <2>3. CASE DialFails
    BY <2>3, <1>1, NextStates DEF DialFails, Failed, Ended, Idle
  <2>4. CASE WaitCancel \/ StreamCancel \/ StreamDeadline
    BY <2>4, <1>2 DEF WaitCancel, StreamCancel, StreamDeadline
  <2>5. CASE WaitTimer
    <3>1. w' = [w EXCEPT !.pc = "top"] /\ w.pc = "wait"
      BY <2>5 DEF WaitTimer
    <3>2. w' \in WorkerState
      BY <3>1, <1>1 DEF WorkerState
    <3>. QED BY <3>1, <3>2, <1>1 DEF Paced, WorkerState
  <2>6. CASE StreamRecv
    <3>1. CASE w' = Ended
      BY <3>1, <1>2
    <3>2. CASE w' = [w EXCEPT !.chan = Tail(@)]
      <4>1. PICK s : s = w.chan
        OBVIOUS
      <4>2. s \in Chans /\ s # <<>>
        BY <4>1, <2>6, <1>1 DEF StreamRecv, WorkerState
      <4>3. s \in Seq(Messages) /\ Len(s) =< Room
        BY <4>2, Channel
      <4>4. PICK z : z = Tail(s)
        OBVIOUS
      <4>5. z \in Seq(Messages) /\ Len(z) =< Room
        BY <4>2, <4>3, <4>4, HeadTailProperties
      <4>6. z \in Chans
        BY <4>5, Channel
      <4>7. w' = [w EXCEPT !.chan = z]
        BY <3>2, <4>1, <4>4
      <4>8. w' \in WorkerState
        BY <4>6, <4>7, <1>1 DEF WorkerState
      <4>. QED BY <2>6, <4>7, <4>8, <1>1 DEF StreamRecv, WorkerState
    <3>. QED BY <2>6, <3>1, <3>2 DEF StreamRecv
  <2>. QED BY <2>1, <2>2, <2>3, <2>4, <2>5, <2>6
<1>5. Shapes'
  <2>1. token' \in BOOLEAN /\ call' \in 0..MaxCalls
    <3>1. token' = FALSE \/ token' = token
      BY DEF Begin, Top, DialFails, WaitCancel, WaitTimer, StreamCancel, StreamRecv,
             StreamDeadline
    <3>2. call' = call \/ (call < MaxCalls /\ call' = call + 1)
      BY DEF Begin, Top, DialFails, WaitCancel, WaitTimer, StreamCancel, StreamRecv,
             StreamDeadline
    <3>3. token' \in BOOLEAN
      BY <3>1, <1>1 DEF Shapes
    <3>4. call' \in 0..MaxCalls
      BY <3>2, <1>1 DEF Shapes
    <3>. QED BY <3>3, <3>4
  <2>2. UNCHANGED <<compressed, mail, closing, controls>> /\ sends' \in Nat /\ late' \in Nat
    BY <1>1 DEF Begin, Top, DialFails, WaitCancel, WaitTimer, StreamCancel, StreamRecv,
         StreamDeadline, Shapes, control, history
  <2>. QED BY <1>1, <1>4, <2>1, <2>2 DEF Shapes
<1>6. Using' = {} /\ Paced'
  BY <1>4 DEF Using, Paced
<1>7. w'.pc = "stream" => w'.conn \in Conns
  BY <1>4 DEF SocketInv, Held
<1>. QED BY <1>3, <1>4, <1>5, <1>6, <1>7, QuietKeeps

\* The worker goes on with the connection it has.
LEMMA OnwardKeeps ==
  ASSUME SocketInv, RegisterNot \/ Send
  PROVE  SocketInv'
<1>1. w \in WorkerState /\ Shapes
  BY DEF SocketInv, Shapes
<1>2. /\ w.pc \in {"register", "send"} /\ (w' = [w EXCEPT !.pc = "send"] \/ w' = [w EXCEPT !.pc = "head"])
      /\ UNCHANGED sockets
  BY DEF RegisterNot, Send
<1>3. w' \in WorkerState /\ w'.pc \in {"send", "head"} /\ w'.conn = w.conn
      /\ w.pc \in {"register", "send"}
  BY <1>1, <1>2 DEF WorkerState, RegisterNot, Send
<1>4. Shapes'
  <2>1. sends' \in Nat /\ late' \in Nat
    BY <1>1 DEF RegisterNot, Send, Sent, Shapes, history
  <2>2. UNCHANGED <<call, compressed, token, mail, closing, controls>>
    BY DEF RegisterNot, Send, control
  <2>. QED BY <1>1, <1>3, <2>1, <2>2 DEF Shapes
<1>5. Using' = Using /\ Paced'
  BY <1>3 DEF Using, Paced
<1>. QED BY <1>2, <1>3, <1>4, <1>5, QuietKeeps

\* A connection of the pool is taken or dropped.
LEMMA PoolKeeps ==
  ASSUME SocketInv, NEW c \in pool, GetPooled(c) \/ GetStale(c)
  PROVE  SocketInv'
<1>1. w \in WorkerState /\ Shapes /\ Held /\ Table /\ c \in Conns
  BY DEF SocketInv, Shapes, Held
<1>2. w.pc = "get" /\ Using = {} /\ pool' = pool \ {c} /\ UNCHANGED <<dials, reader>>
  BY DEF GetPooled, GetStale, Using
<1>3. Reading' = Reading
  BY <1>2, SameReading
<1>4. CASE GetPooled(c)
  <2>1. w' = [w EXCEPT !.conn = c, !.pc = "send"] /\ UNCHANGED registry
    BY <1>4 DEF GetPooled
  <2>2. w' \in WorkerState /\ w'.pc = "send" /\ w'.conn = c
    BY <2>1, <1>1 DEF WorkerState
  <2>3. Shapes'
    BY <1>4, <2>2, <1>1 DEF Shapes, GetPooled, control, history
  <2>4. Using' = {c} /\ Paced'
    BY <2>2 DEF Using, Paced
  <2>5. Table' /\ Opened' = Opened /\ Entries' = Entries
    BY <2>1, <1>1, SameTable
  <2>6. Held'
    BY <2>2, <2>4, <2>5, <1>1, <1>2, <1>3 DEF Held
  <2>. QED BY <2>3, <2>4, <2>5, <2>6 DEF SocketInv
<1>5. CASE GetStale(c)
  <2>1. UNCHANGED w /\ Shapes'
    BY <1>5, <1>1 DEF GetStale, Shapes, control, history
  <2>2. Table' /\ Opened' = Opened \ {c} /\ Entries' = Entries \ {c}
    BY <1>1, <1>5, DropKeeps DEF GetStale
  <2>3. Using' = {} /\ Paced'
    BY <2>1, <1>2 DEF Using, Paced
  <2>4. Held'
    BY <2>1, <2>2, <2>3, <1>1, <1>2, <1>3 DEF Held
  <2>. QED BY <2>1, <2>2, <2>3, <2>4 DEF SocketInv
<1>. QED BY <1>4, <1>5

\* A connection is made.
LEMMA DialKeeps ==
  ASSUME SocketInv, Dial
  PROVE  SocketInv'
<1>1. w \in WorkerState /\ Shapes /\ Held /\ Table /\ MaxDials \in Nat
  BY Counts DEF SocketInv, Shapes
<1>2. PICK c : c = dials + 1
  OBVIOUS
<1>3. /\ w.pc = "get" /\ pool = {} /\ dials < MaxDials /\ dials' = c
      /\ conn' = [conn EXCEPT ![c].fd = NewFd(fds)] /\ fds' = Open(fds, <<"stream", c>>)
      /\ w' = [w EXCEPT !.conn = c, !.pc = "register"]
      /\ UNCHANGED <<call, compressed, token, mail, closing, controls, pool, reader, reg, sends, late>>
  BY <1>2 DEF Dial, control, history
<1>4. dials \in Nat /\ c \in Conns /\ c \notin Opened /\ c \in 0..MaxDials
      /\ 1..dials \subseteq 1..c /\ c \in 1..c
  BY <1>1, <1>2, <1>3 DEF Held, Conns
<1>5. Table' /\ Opened' = Opened \cup {c} /\ Entries' = Entries
  BY <1>1, <1>3, <1>4, DialOpens
<1>6. w' \in WorkerState /\ w'.pc = "register" /\ w'.conn = c
  BY <1>1, <1>3, <1>4 DEF WorkerState
<1>7. Shapes' /\ Paced'
  BY <1>1, <1>3, <1>6 DEF Shapes, Paced
<1>8. Using = {} /\ Using' = {c} /\ Reading' = Reading
  BY <1>3, <1>6, SameReading DEF Using
<1>9. c \notin Entries
  BY <1>1, <1>4 DEF Table, Entries, Opened
<1>10. Held'
  BY <1>1, <1>3, <1>4, <1>5, <1>6, <1>8, <1>9 DEF Held
<1>. QED BY <1>5, <1>7, <1>10 DEF SocketInv

\* A connection is registered.
LEMMA RegisterKeeps ==
  ASSUME SocketInv, Register
  PROVE  SocketInv'
<1>1. w \in WorkerState /\ Shapes /\ Held /\ Table
  BY DEF SocketInv, Shapes
<1>2. PICK c : c = w.conn
  OBVIOUS
<1>3. /\ w.pc = "register" /\ w' = [w EXCEPT !.pc = "send"]
      /\ UNCHANGED <<call, compressed, token, mail, closing, controls, conn, dials, pool, reader, sends, late>>
  BY DEF Register, control, history
<1>4. PICK gone \in SUBSET Entries :
        /\ reg' = [Pruned(gone) EXCEPT ![c] = NewFd(fds)]
        /\ fds' = Closed(Open(fds, <<"dup", c>>), Duplicates(gone))
  BY <1>2 DEF Register
<1>5. c \in Opened \ Entries /\ Using = {c}
  BY <1>1, <1>2, <1>3, Holding DEF Held, Using
<1>6. Table' /\ Opened' = Opened
  BY <1>1, <1>3, <1>4, <1>5, RegisterOpens
<1>7. w' \in WorkerState /\ w'.pc = "send" /\ w'.conn = c
  BY <1>1, <1>2, <1>3 DEF WorkerState
<1>8. Shapes' /\ Paced' /\ Using' = {c} /\ Reading' = Reading
  BY <1>1, <1>3, <1>7, SameReading DEF Shapes, Paced, Using
<1>9. Held'
  BY <1>1, <1>3, <1>5, <1>6, <1>7, <1>8 DEF Held
<1>. QED BY <1>6, <1>8, <1>9 DEF SocketInv

\* The worker is done with its connection, which is dropped or goes to the pool.
LEMMA LetGoKeeps ==
  ASSUME SocketInv, w.pc \in {"send", "head"}, Shapes',
         w'.pc \in {"idle", "top", "wait"}, Paced', UNCHANGED <<dials, reader>>,
         \/ pool' = pool \cup {w.conn} /\ UNCHANGED registry
         \/ UNCHANGED pool /\ Drop(w.conn)
  PROVE  SocketInv'
<1>1. Held /\ Table
  BY DEF SocketInv
<1>2. PICK c : c = w.conn
  OBVIOUS
<1>3. c \in Conns /\ Using = {c} /\ Using' = {} /\ Reading' = Reading
  BY <1>1, <1>2, Holding, SameReading DEF Using
<1>4. CASE pool' = pool \cup {c} /\ UNCHANGED registry
  <2>1. Table' /\ Opened' = Opened /\ Entries' = Entries
    BY <1>1, <1>4, SameTable
  <2>2. Held'
    BY <1>1, <1>3, <1>4, <2>1 DEF Held
  <2>. QED BY <2>1, <2>2 DEF SocketInv
<1>5. CASE UNCHANGED pool /\ Drop(c)
  <2>1. Table' /\ Opened' = Opened \ {c} /\ Entries' = Entries \ {c}
    BY <1>1, <1>3, <1>5, DropKeeps
  <2>2. Held'
    BY <1>1, <1>3, <1>5, <2>1 DEF Held
  <2>. QED BY <2>1, <2>2 DEF SocketInv
<1>. QED BY <1>2, <1>4, <1>5

\* An attempt ends without a response, or with one that is not a success.
LEMMA AttemptEndsKeeps ==
  ASSUME SocketInv, SendFails \/ NoAnswer \/ AnswerTransient \/ AnswerTerminal
                    \/ AnswerUnsupported \/ AnswerFlaky
  PROVE  SocketInv'
<1>1. Shapes
  BY DEF SocketInv
<1>2. w' \in {Ended, Failed, Downgrade, Resend}
  BY DEF SendFails, NoAnswer, AnswerTransient, AnswerTerminal, AnswerUnsupported,
         AnswerFlaky, Answers
<1>3. w' \in WorkerState /\ w'.pc \in {"idle", "top", "wait"} /\ Paced'
  BY <1>1, <1>2, NextStates DEF Paced
<1>4. compressed' \in BOOLEAN
  <2>1. CASE AnswerUnsupported
    BY <2>1 DEF AnswerUnsupported, Answers
  <2>2. CASE ~AnswerUnsupported
    BY <2>2, <1>1 DEF SendFails, NoAnswer, AnswerTransient, AnswerTerminal,
         AnswerFlaky, Answers, Shapes
  <2>. QED BY <2>1, <2>2
<1>5. Shapes'
  <2>1. sends' \in Nat /\ late' \in Nat
    BY <1>1 DEF SendFails, NoAnswer, AnswerTransient, AnswerTerminal, AnswerUnsupported,
         AnswerFlaky, Answers, Sent, Shapes, history
  <2>2. UNCHANGED <<call, token, mail, closing, controls>>
    BY DEF SendFails, NoAnswer, AnswerTransient, AnswerTerminal, AnswerUnsupported,
         AnswerFlaky, Answers, control
  <2>. QED BY <1>1, <1>3, <1>4, <2>1, <2>2 DEF Shapes
<1>6. /\ w.pc \in {"send", "head"} /\ UNCHANGED <<dials, reader>>
      /\ \/ pool' = pool \cup {w.conn} /\ UNCHANGED registry
         \/ UNCHANGED pool /\ Drop(w.conn)
  BY DEF SendFails, NoAnswer, AnswerTransient, AnswerTerminal, AnswerUnsupported,
         AnswerFlaky, Answers, Dispose
<1>. QED BY <1>3, <1>5, <1>6, LetGoKeeps

\* The body of a success goes to a reader.
LEMMA AnswerOkKeeps ==
  ASSUME SocketInv, AnswerOk
  PROVE  SocketInv'
<1>1. w \in WorkerState /\ Shapes /\ Held /\ Table
  BY DEF SocketInv, Shapes
<1>2. PICK c : c = w.conn
  OBVIOUS
<1>3. /\ w.pc = "head" /\ reader' = [reader EXCEPT ![c] = "top"]
      /\ w' = [Ended EXCEPT !.conn = c, !.pc = "stream"] /\ UNCHANGED registry
      /\ UNCHANGED <<call, compressed, token, mail, closing, controls, dials, pool, sends, late>>
  BY <1>2 DEF AnswerOk, control, history, Ended
<1>4. c \in Conns /\ Using = {c}
  BY <1>1, <1>2, <1>3, Holding DEF Using
<1>5. w' \in WorkerState /\ w'.pc = "stream" /\ w'.conn = c
  BY <1>1, <1>3, <1>4, NextStates DEF WorkerState
<1>6. Shapes' /\ Paced' /\ Using' = {}
  BY <1>1, <1>3, <1>5 DEF Shapes, Paced, Using
<1>7. Table' /\ Opened' = Opened /\ Entries' = Entries
  BY <1>1, <1>3, SameTable
<1>8. Reading' = Reading \cup {c}
      /\ reader' \in [Conns -> Messages \cup {"none", "top", "read"}]
  BY <1>1, <1>3, <1>4 DEF Reading, Held
<1>9. Held'
  BY <1>1, <1>3, <1>4, <1>5, <1>6, <1>7, <1>8 DEF Held
<1>. QED BY <1>6, <1>7, <1>9 DEF SocketInv

-----------------------------------------------------------------------------
(* The sockets: the readers, the command loop and the session thread.        *)

\* A reader's step changes the reader and, it may be, its connection and the
\* channel the worker listens to.
LEMMA ReaderKeeps ==
  ASSUME SocketInv, NEW c \in Conns, ReaderTop(c) \/ ReaderRead(c) \/ ReaderSend(c)
  PROVE  SocketInv'
<1>1. w \in WorkerState /\ Shapes /\ Held /\ Table /\ Paced
      /\ reader \in [Conns -> Messages \cup {"none", "top", "read"}]
  BY DEF SocketInv, Shapes, Held
<1>2. UNCHANGED <<call, compressed, token, mail, closing, controls, dials, sends, late>>
  BY DEF ReaderTop, ReaderRead, ReaderSend, control, history
<1>3. w' \in WorkerState /\ w'.pc = w.pc /\ w'.conn = w.conn /\ w'.attempt = w.attempt
  <2>1. CASE UNCHANGED w
    BY <2>1, <1>1
  <2>2. CASE ReaderSend(c) /\ Attended(c)
    <3>1. PICK s, m : s = w.chan /\ m = reader[c]
      OBVIOUS
    <3>2. w' = [w EXCEPT !.chan = Append(s, m)] /\ Len(s) < Room /\ m \in Messages /\ s \in Chans
      BY <2>2, <3>1, <1>1 DEF ReaderSend, WorkerState
    <3>3. s \in Seq(Messages)
      BY <3>2, Channel
    <3>4. PICK z : z = Append(s, m)
      OBVIOUS
    <3>5. z \in Seq(Messages) /\ Len(z) = Len(s) + 1 /\ Len(s) \in Nat
      BY <3>2, <3>3, <3>4, AppendProperties, LenProperties
    <3>6. z \in Chans
      <4>1. Len(z) =< Room
        BY <3>2, <3>5, Counts
      <4>. QED BY <3>5, <4>1, Channel
    <3>7. w' = [w EXCEPT !.chan = z]
      BY <3>2, <3>4
    <3>. QED BY <3>6, <3>7, <1>1 DEF WorkerState
  <2>. QED BY <2>1, <2>2 DEF ReaderTop, ReaderRead, ReaderSend
<1>4. Shapes' /\ Paced' /\ Using' = Using
  BY <1>1, <1>2, <1>3 DEF Shapes, Paced, Using
<1>5. /\ reader' \in [Conns -> Messages \cup {"none", "top", "read"}]
      /\ \A d \in Conns \ {c} : reader'[d] = reader[d]
  BY <1>1 DEF ReaderTop, ReaderRead, ReaderSend, Messages
<1>6. CASE /\ UNCHANGED <<registry, pool>>
           /\ reader'[c] \in {"top", "read", "Event", "Err"} <=>
                reader[c] \in {"top", "read", "Event", "Err"}
  <2>1. Table' /\ Opened' = Opened /\ Entries' = Entries
    BY <1>1, <1>6, SameTable
  <2>2. Reading' = Reading
    BY <1>5, <1>6 DEF Reading
  <2>3. Held'
    BY <1>1, <1>2, <1>3, <1>4, <1>5, <1>6, <2>1, <2>2 DEF Held
  <2>. QED BY <1>4, <2>1, <2>3 DEF SocketInv
<1>7. CASE /\ c \in Reading /\ reader'[c] \in {"none", "End"}
           /\ UNCHANGED pool /\ Drop(c)
  <2>1. Table' /\ Opened' = Opened \ {c} /\ Entries' = Entries \ {c}
    BY <1>1, <1>7, DropKeeps
  <2>2. Reading' = Reading \ {c}
    BY <1>5, <1>7 DEF Reading
  <2>3. Held'
    BY <1>1, <1>2, <1>3, <1>4, <1>5, <1>7, <2>1, <2>2 DEF Held
  <2>. QED BY <1>4, <2>1, <2>3 DEF SocketInv
<1>8. CASE /\ c \in Reading /\ reader'[c] = "End"
           /\ pool' = pool \cup {c} /\ UNCHANGED registry
  <2>1. Table' /\ Opened' = Opened /\ Entries' = Entries
    BY <1>1, <1>8, SameTable
  <2>2. Reading' = Reading \ {c}
    BY <1>5, <1>8 DEF Reading
  <2>3. Held'
    BY <1>1, <1>2, <1>3, <1>4, <1>5, <1>8, <2>1, <2>2 DEF Held
  <2>. QED BY <1>4, <2>1, <2>3 DEF SocketInv
<1>9. CASE ReaderTop(c)
  BY <1>1, <1>6, <1>7, <1>9 DEF ReaderTop, Reading
<1>10. CASE ReaderRead(c)
  <2>1. c \in Reading
    BY <1>10 DEF ReaderRead, Reading
  <2>2. CASE (\E m \in {"Event", "Err"} : reader' = [reader EXCEPT ![c] = m]) /\ UNCHANGED <<registry, pool>>
    <3>1. reader'[c] \in {"Event", "Err"}
      BY <1>1, <2>2
    <3>. QED BY <2>1, <2>2, <3>1, <1>6 DEF Reading
  <2>3. CASE reader' = [reader EXCEPT ![c] = "End"] /\ Dispose(c)
    <3>1. reader'[c] = "End"
      BY <1>1, <2>3
    <3>. QED BY <2>1, <2>3, <3>1, <1>7, <1>8 DEF Dispose
  <2>. QED BY <1>10, <2>2, <2>3 DEF ReaderRead
<1>11. CASE ReaderSend(c)
  <2>1. reader[c] \in Messages /\ UNCHANGED pool
    BY <1>11 DEF ReaderSend
  <2>2. CASE Attended(c) /\ reader[c] = "Event"
    <3>1. reader'[c] = "top" /\ UNCHANGED registry
      BY <1>1, <1>11, <2>2 DEF ReaderSend
    <3>. QED BY <2>1, <2>2, <3>1, <1>6
  <2>3. CASE ~(Attended(c) /\ reader[c] = "Event")
    <3>1. reader'[c] = "none"
      BY <1>1, <1>11, <2>3 DEF ReaderSend
    <3>2. CASE reader[c] = "End"
      BY <1>11, <2>1, <3>1, <3>2, <1>6 DEF ReaderSend
    <3>3. CASE reader[c] # "End"
      <4>1. Drop(c)
        BY <1>11, <3>1, <3>3 DEF ReaderSend
      <4>2. c \in Reading
        BY <2>1, <3>3 DEF Reading, Messages
      <4>. QED BY <2>1, <3>1, <4>1, <4>2, <1>7
    <3>. QED BY <3>2, <3>3
  <2>. QED BY <2>2, <2>3
<1>. QED BY <1>9, <1>10, <1>11

\* A cancel is sent or delivered.
LEMMA CancelKeeps ==
  ASSUME SocketInv, (\E k \in 1..call : Cancel(k)) \/ Deliver
  PROVE  SocketInv'
<1>1. Shapes /\ Held /\ Paced /\ MaxCalls \in Nat
  BY Counts DEF SocketInv
<1>2. UNCHANGED <<w, call, compressed, sockets, sends, late>>
  BY DEF Cancel, Deliver, history
<1>3. token' \in BOOLEAN /\ closing' \in BOOLEAN
  BY <1>1 DEF Cancel, Deliver, Shapes
<1>4. mail' \in 0..MaxCalls
  BY <1>1 DEF Cancel, Deliver, Shapes
<1>5. controls' \in 0..MaxControls
  BY <1>1, Counts DEF Cancel, Deliver, Controls, Shapes
<1>6. Shapes' /\ Paced' /\ Using' = Using
  BY <1>1, <1>2, <1>3, <1>4, <1>5 DEF Shapes, Paced, Using
<1>. QED BY <1>1, <1>2, <1>6, QuietKeeps DEF Held

\* The registry's sockets are shut, or probed after a wake-up.
LEMMA RegistryKeeps ==
  ASSUME SocketInv, ForceClose \/ Sleep \/ Wake
  PROVE  SocketInv'
<1>1. Shapes /\ Held /\ Paced /\ Table
  BY DEF SocketInv
<1>2. UNCHANGED <<w, call, compressed, token, mail, dials, pool, reader, sends, late>>
  BY DEF ForceClose, Sleep, Wake, history
<1>3. closing' \in BOOLEAN
  BY <1>1 DEF ForceClose, Sleep, Wake, Shapes
<1>4. controls' \in 0..MaxControls
  BY <1>1, Counts DEF ForceClose, Sleep, Wake, Controls, Shapes
<1>5. Shapes' /\ Paced' /\ Using' = Using /\ Reading' = Reading
  BY <1>1, <1>2, <1>3, <1>4 DEF Shapes, Paced, Using, Reading
<1>6. Table' /\ Opened' = Opened /\ Entries' \subseteq Entries
  <2>1. CASE ForceClose \/ Sleep
    BY <2>1, <1>1, ShutdownKeeps DEF ForceClose, Sleep
  <2>2. CASE Wake
    <3>1. PICK gone \in SUBSET Entries :
            reg' = Pruned(gone) /\ fds' = Closed(fds, Duplicates(gone))
      BY <2>2 DEF Wake
    <3>2. conn' = conn
      BY <2>2 DEF Wake
    <3>3. /\ conn' \in [Conns -> [fd : Fds \cup {0}, shut : BOOLEAN]]
          /\ \A c \in Conns : conn'[c].fd = conn[c].fd
      BY <3>2, <1>1 DEF Table
    <3>4. Table' /\ Opened' = Opened /\ Entries' = Entries \ gone
      BY <3>1, <3>3, <1>1, TakeOutKeeps
    <3>. QED BY <3>4
  <2>. QED BY <2>1, <2>2
<1>7. Held'
  BY <1>1, <1>2, <1>5, <1>6 DEF Held
<1>. QED BY <1>5, <1>6, <1>7 DEF SocketInv

-----------------------------------------------------------------------------
(* The requests a call sends.                                                *)

\* Products of natural numbers.
LEMMA Products ==
  ASSUME NEW m \in Nat, NEW a \in Nat, NEW b \in Nat
  PROVE  /\ m * a \in Nat /\ m * (a + 1) = m * a + m
         /\ a =< b => m * a =< m * b
<1>1. m * a \in Nat /\ m * (a + 1) = m * a + m
  OBVIOUS
<1>2. ASSUME a =< b PROVE m * a =< m * b
  <2>1. PICK d \in Nat : b = a + d
    <3>1. b - a \in Nat /\ b = a + (b - a)
      BY <1>2
    <3>. QED BY <3>1
  <2>2. m * b = m * a + m * d /\ m * d \in Nat /\ m * a \in Nat
    BY <2>1
  <2>. QED BY <2>2
<1>. QED BY <1>1, <1>2

\* The loops done leave room for this one.
LEMMA LoopsLeft ==
  ASSUME Shapes
  PROVE  /\ LoopsDone \in Nat /\ MaxAttempts * LoopsDone \in Nat
         /\ MaxAttempts * (LoopsDone + 1) = MaxAttempts * LoopsDone + MaxAttempts
         /\ MaxAttempts * LoopsDone + MaxAttempts =< MaxAttempts * (2 + Extra)
         /\ MaxAttempts * (2 + Extra) \in Nat
<1>1. w.loop \in {"first", "plain", "resend"} /\ w.extra \in 0..Extra
  BY DEF Shapes, WorkerState
<1>2. Extra \in Nat /\ MaxAttempts \in Nat
  BY Counts
<1>3. PICK l : l = LoopsDone
  OBVIOUS
<1>4. l \in Nat /\ l + 1 \in Nat /\ l + 1 =< 2 + Extra /\ 2 + Extra \in Nat
  BY <1>1, <1>2, <1>3 DEF LoopsDone
<1>5. /\ MaxAttempts * l \in Nat /\ MaxAttempts * (l + 1) = MaxAttempts * l + MaxAttempts
      /\ MaxAttempts * (l + 1) =< MaxAttempts * (2 + Extra) /\ MaxAttempts * (2 + Extra) \in Nat
  BY <1>2, <1>4, Products
<1>. QED BY <1>3, <1>4, <1>5

\* A step that sends nothing and stays in its attempt.
LEMMA SameAttempt ==
  ASSUME SendPart, LatePart, UNCHANGED history, token => token',
         w'.loop = w.loop, w'.extra = w.extra, w'.attempt = w.attempt,
         w'.pc = w.pc \/ {w.pc, w'.pc} \subseteq {"get", "register", "send"}
  PROVE  SendPart' /\ LatePart'
<1>1. LoopsDone' = LoopsDone /\ sends' = sends /\ late' = late
  BY DEF LoopsDone, history
<1>2. SendPart'
  BY <1>1 DEF SendPart
<1>3. LatePart'
  BY <1>1 DEF LatePart
<1>. QED BY <1>2, <1>3

\* A call that is over, or whose response is being read, sends no more.
LEMMA NoMoreSends ==
  ASSUME SendPart, LatePart, UNCHANGED history,
         w'.pc \in {"idle", "stream"}, w'.loop = "first", w'.extra = 0
  PROVE  SendPart' /\ LatePart'
BY DEF SendPart, LatePart, history

\* The worker's steps inside an attempt, and those of the others.
LEMMA SendsElsewhere ==
  ASSUME Shapes, SendPart, LatePart,
         \/ \E c \in pool : GetPooled(c) \/ GetStale(c)
         \/ Dial \/ Register \/ RegisterNot
         \/ \E c \in Conns : ReaderTop(c) \/ ReaderRead(c) \/ ReaderSend(c)
         \/ (\E k \in 1..call : Cancel(k)) \/ ForceClose \/ Deliver \/ Sleep \/ Wake
         \/ StreamRecv \/ UNCHANGED vars
  PROVE  SendPart' /\ LatePart'
<1>1. w \in WorkerState
  BY DEF Shapes
<1>2. CASE \E c \in pool : GetPooled(c) \/ GetStale(c)
  <2>1. PICK c \in pool : GetPooled(c) \/ GetStale(c)
    BY <1>2
  <2>2. /\ UNCHANGED history /\ token' = token
        /\ w.pc = "get" /\ w'.pc \in {"get", "send"}
        /\ w'.loop = w.loop /\ w'.extra = w.extra /\ w'.attempt = w.attempt
    BY <1>1, <2>1 DEF GetPooled, GetStale, WorkerState
  <2>. QED BY <2>2, SameAttempt
<1>3. CASE Dial \/ Register \/ RegisterNot
  <2>1. /\ UNCHANGED history /\ token' = token
        /\ w.pc \in {"get", "register"} /\ w'.pc \in {"register", "send"}
        /\ w'.loop = w.loop /\ w'.extra = w.extra /\ w'.attempt = w.attempt
    BY <1>1, <1>3 DEF Dial, Register, RegisterNot, WorkerState
  <2>. QED BY <2>1, SameAttempt
<1>4. CASE \E c \in Conns : ReaderTop(c) \/ ReaderRead(c) \/ ReaderSend(c)
  <2>1. PICK c \in Conns : ReaderTop(c) \/ ReaderRead(c) \/ ReaderSend(c)
    BY <1>4
  <2>2. /\ UNCHANGED history /\ token' = token
        /\ w'.pc = w.pc /\ w'.loop = w.loop /\ w'.extra = w.extra /\ w'.attempt = w.attempt
    BY <1>1, <2>1 DEF ReaderTop, ReaderRead, ReaderSend, WorkerState
  <2>. QED BY <2>2, SameAttempt
<1>5. CASE \/ (\E k \in 1..call : Cancel(k)) \/ ForceClose \/ Deliver \/ Sleep \/ Wake
           \/ UNCHANGED vars
  <2>1. w' = w /\ UNCHANGED history /\ (token => token')
    <3>1. w' = w
      BY <1>5 DEF Cancel, ForceClose, Deliver, Sleep, Wake, vars
    <3>2. UNCHANGED history
      BY <1>5 DEF Cancel, ForceClose, Deliver, Sleep, Wake, vars, history
    <3>3. token => token'
      BY <1>5 DEF Cancel, ForceClose, Deliver, Sleep, Wake, vars
    <3>. QED BY <3>1, <3>2, <3>3
  <2>. QED BY <2>1, SameAttempt
<1>6. CASE StreamRecv
  <2>1. UNCHANGED history /\ token' = token
    BY <1>6 DEF StreamRecv
  <2>2. CASE w' = Ended
    BY <2>1, <2>2, NoMoreSends DEF Ended, Idle
  <2>3. CASE w' = [w EXCEPT !.chan = Tail(@)]
    BY <2>1, <2>3, <1>1, SameAttempt DEF WorkerState
  <2>. QED BY <1>6, <2>2, <2>3 DEF StreamRecv
<1>. QED BY <1>2, <1>3, <1>4, <1>5, <1>6

\* A loop is begun: the one before has used no more than its attempts.
LEMMA NextLoop ==
  ASSUME Shapes, SendPart, LatePart, UNCHANGED <<history, token>>, w.pc = "head",
         w'.attempt = 0, w'.pc \in {"top", "wait"},
         \/ w'.loop = "plain" /\ w.loop = "first" /\ w'.extra = w.extra
         \/ w'.loop = "resend" /\ w'.extra = w.extra + 1
  PROVE  SendPart' /\ LatePart'
<1>1. /\ w.loop \in {"first", "plain", "resend"} /\ w.extra \in Nat
      /\ w.attempt \in 0..MaxAttempts /\ sends \in Nat /\ MaxAttempts \in Nat
  BY Counts DEF Shapes, WorkerState
<1>2. PICK l, k : l = LoopsDone /\ k = LoopsDone'
  OBVIOUS
<1>3. l \in Nat /\ k \in Nat /\ l + 1 =< k
  <2>1. w.loop # "resend" => w.extra = 0
    BY DEF SendPart
  <2>2. CASE w'.loop = "plain" /\ w.loop = "first" /\ w'.extra = w.extra
    <3>1. l = 0 /\ k = 1
      BY <2>2, <1>2 DEF LoopsDone
    <3>. QED BY <3>1
  <2>3. CASE w'.loop = "resend" /\ w'.extra = w.extra + 1
    <3>1. k = w.extra + 2
      BY <2>3, <1>1, <1>2 DEF LoopsDone
    <3>2. l \in Nat /\ l =< w.extra + 1
      BY <2>1, <1>1, <1>2 DEF LoopsDone
    <3>. QED BY <3>1, <3>2, <1>1
  <2>. QED BY <2>2, <2>3
<1>4. /\ MaxAttempts * (l + 1) = MaxAttempts * l + MaxAttempts
      /\ MaxAttempts * (l + 1) =< MaxAttempts * k /\ MaxAttempts * l \in Nat
      /\ MaxAttempts * k \in Nat
  <2>1. l + 1 \in Nat
    BY <1>3
  <2>. QED BY <2>1, <1>1, <1>3, Products
<1>5. sends =< MaxAttempts * l + w.attempt
  BY <1>2 DEF SendPart
<1>6. sends =< MaxAttempts * k + 0
  BY <1>1, <1>4, <1>5
<1>7. SendPart'
  BY <1>1, <1>2, <1>6 DEF SendPart, history
<1>8. LatePart'
  BY DEF LatePart, history
<1>. QED BY <1>7, <1>8

\* Beginning, sending, and what an attempt comes to.
LEMMA SendsHere ==
  ASSUME Shapes, SendPart, LatePart, Paced,
         \/ Begin \/ Top \/ DialFails \/ Send \/ SendFails \/ NoAnswer \/ AnswerOk
         \/ AnswerTransient \/ AnswerTerminal \/ AnswerUnsupported \/ AnswerFlaky
         \/ WaitCancel \/ WaitTimer \/ StreamCancel \/ StreamDeadline
  PROVE  SendPart' /\ LatePart'
<1>1. w \in WorkerState /\ token \in BOOLEAN /\ sends \in Nat /\ late \in Nat
      /\ w.attempt \in 0..MaxAttempts /\ MaxAttempts \in Nat
  BY Counts DEF Shapes, WorkerState
<1>2. Ended.pc = "idle" /\ Ended.loop = "first" /\ Ended.extra = 0
  BY DEF Ended, Idle
<1>3. CASE Begin
  <2>1. w'.pc = "top" /\ w'.loop = "first" /\ w'.extra = 0 /\ w'.attempt = 0
        /\ sends' = 0 /\ late' = 0
    BY <1>3 DEF Begin, Idle
  <2>2. LoopsDone' = 0 /\ MaxAttempts * 0 = 0 /\ MaxAttempts * (2 + Extra) \in Nat
    BY <2>1, <1>1, LoopsLeft DEF LoopsDone
  <2>. QED BY <2>1, <2>2 DEF SendPart, LatePart
<1>4. CASE w' = Ended /\ UNCHANGED history
  BY <1>4, <1>2, NoMoreSends
<1>5. CASE AnswerOk
  BY <1>5, NoMoreSends DEF AnswerOk, Idle
<1>6. CASE Top /\ ~token
  <2>1. /\ w.pc = "top" /\ w'.pc = "get" /\ w'.attempt = w.attempt + 1
        /\ w'.loop = w.loop /\ w'.extra = w.extra /\ sends' = sends /\ late' = late
    BY <1>1, <1>6 DEF Top, history, WorkerState
  <2>2. LoopsDone' = LoopsDone
    BY <2>1 DEF LoopsDone
  <2>3. late = 0
    BY <2>1, <1>1, <1>6 DEF LatePart
  <2>4. PICK q : q = MaxAttempts * LoopsDone
    OBVIOUS
  <2>5. q \in Nat
    BY <2>4, LoopsLeft
  <2>. QED BY <1>1, <2>1, <2>2, <2>3, <2>4, <2>5 DEF SendPart, LatePart
<1>7. CASE WaitTimer
  <2>1. /\ w.pc = "wait" /\ w'.pc = "top" /\ w'.attempt = w.attempt
        /\ w'.loop = w.loop /\ w'.extra = w.extra /\ sends' = sends /\ late' = late
        /\ ~token
    BY <1>1, <1>7 DEF WaitTimer, history, WorkerState
  <2>2. LoopsDone' = LoopsDone
    BY <2>1 DEF LoopsDone
  <2>3. late = 0
    BY <2>1, <1>1 DEF LatePart
  <2>. QED BY <2>1, <2>2, <2>3 DEF SendPart, LatePart
<1>8. CASE Send \/ SendFails
  <2>1. /\ w.pc = "send" /\ sends' = sends + 1 /\ token' = token /\ late = 0
        /\ late' = late + (IF token THEN 1 ELSE 0)
    BY <1>8 DEF Send, SendFails, Sent, LatePart
  <2>2. PICK q, b : q = MaxAttempts * LoopsDone /\ b = MaxAttempts * (2 + Extra)
    OBVIOUS
  <2>3. q \in Nat /\ b \in Nat /\ q + MaxAttempts =< b
    BY <2>2, LoopsLeft
  <2>4. sends + 1 =< q + w.attempt /\ sends + 1 =< b
    BY <2>1, <2>2, <2>3, <1>1 DEF SendPart
  <2>5. late' \in {0, 1} /\ (late' = 1 => token')
    BY <2>1, <1>1
  <2>6. CASE w' = Ended
    BY <2>1, <2>2, <2>4, <2>5, <2>6, <1>2 DEF SendPart, LatePart
  <2>7. CASE w' # Ended
    <3>1. /\ w'.pc \in {"head", "wait"} /\ w'.attempt = w.attempt
          /\ w'.loop = w.loop /\ w'.extra = w.extra
      BY <1>1, <1>8, <2>7 DEF Send, SendFails, Failed, WorkerState
    <3>2. LoopsDone' = LoopsDone
      BY <3>1 DEF LoopsDone
    <3>3. SendPart'
      BY <3>1, <3>2, <2>1, <2>2, <2>4 DEF SendPart
    <3>4. LatePart'
      BY <3>1, <2>5 DEF LatePart
    <3>. QED BY <3>3, <3>4
  <2>. QED BY <2>6, <2>7
<1>9. CASE (DialFails \/ NoAnswer \/ AnswerTransient) /\ w' # Ended
  <2>1. /\ w.pc \in {"get", "head"} /\ w'.pc = "wait" /\ w'.attempt = w.attempt
        /\ w'.loop = w.loop /\ w'.extra = w.extra /\ sends' = sends /\ late' = late
        /\ token' = token
    BY <1>1, <1>9 DEF DialFails, NoAnswer, AnswerTransient, Answers, Failed, history, WorkerState
  <2>2. LoopsDone' = LoopsDone
    BY <2>1 DEF LoopsDone
  <2>3. PICK q : q = MaxAttempts * LoopsDone
    OBVIOUS
  <2>4. q \in Nat
    BY <2>3, LoopsLeft
  <2>5. SendPart'
    BY <1>1, <2>1, <2>2, <2>3, <2>4 DEF SendPart
  <2>6. LatePart'
    BY <2>1 DEF LatePart
  <2>. QED BY <2>5, <2>6
<1>10. CASE AnswerUnsupported /\ w' # Ended
  <2>1. /\ w' = [w EXCEPT !.loop = "plain", !.attempt = 0, !.conn = 0, !.pc = "top"]
        /\ w.loop = "first" /\ w.pc = "head" /\ UNCHANGED <<history, token>>
    BY <1>10 DEF AnswerUnsupported, Answers, Downgrade
  <2>2. w'.loop = "plain" /\ w'.attempt = 0 /\ w'.pc = "top" /\ w'.extra = w.extra
    BY <2>1, <1>1 DEF WorkerState
  <2>. QED BY <2>1, <2>2, NextLoop
<1>11. CASE AnswerFlaky /\ w' # Ended
  <2>1. /\ w' = [w EXCEPT !.loop = "resend", !.extra = @ + 1, !.attempt = 0, !.conn = 0, !.pc = "wait"]
        /\ w.pc = "head" /\ UNCHANGED <<history, token>>
    BY <1>11 DEF AnswerFlaky, Answers, Resend
  <2>2. w'.loop = "resend" /\ w'.attempt = 0 /\ w'.pc = "wait" /\ w'.extra = w.extra + 1
    BY <2>1, <1>1 DEF WorkerState
  <2>. QED BY <2>1, <2>2, NextLoop
<1>12. CASE \/ (Top /\ token) \/ AnswerTerminal \/ WaitCancel \/ StreamCancel \/ StreamDeadline
            \/ (DialFails \/ NoAnswer \/ AnswerTransient \/ AnswerUnsupported \/ AnswerFlaky)
               /\ w' = Ended
  <2>1. w' = Ended /\ UNCHANGED history
    BY <1>12 DEF Top, AnswerTerminal, WaitCancel, StreamCancel, StreamDeadline, DialFails,
                 NoAnswer, AnswerTransient, AnswerUnsupported, AnswerFlaky, Answers
  <2>. QED BY <2>1, <1>4
<1>. QED BY <1>3, <1>5, <1>6, <1>7, <1>8, <1>9, <1>10, <1>11, <1>12

-----------------------------------------------------------------------------
(* The theorems.                                                             *)

\* Nothing is open and nothing was sent when the session begins.
LEMMA InitCall ==
  ASSUME Init
  PROVE  CallInv
<1>. USE Counts
<1>1. w = Ended /\ Ended.pc = "idle" /\ Ended.loop = "first" /\ Ended.extra = 0
  BY DEF Init, Ended, Idle
<1>2. Ended \in WorkerState
  <2>1. PICK e : e = <<>>
    OBVIOUS
  <2>2. e \in Chans
    <3>1. e \in Seq(Messages) /\ Len(e) =< Room
      BY <2>1
    <3>. QED BY <3>1, Channel
  <2>3. 0 \in 0..MaxAttempts /\ 0 \in 0..Extra
    OBVIOUS
  <2>. QED BY <2>1, <2>2, <2>3 DEF Ended, Idle, WorkerState
<1>3. Shapes
  <2>1. compressed \in BOOLEAN /\ token \in BOOLEAN /\ closing \in BOOLEAN
    BY DEF Init
  <2>2. call \in 0..MaxCalls /\ mail \in 0..MaxCalls /\ controls \in 0..MaxControls
        /\ sends \in Nat /\ late \in Nat
    BY DEF Init
  <2>. QED BY <1>1, <1>2, <2>1, <2>2 DEF Shapes
<1>4. Table
  <2>1. Free \in Owners
    BY DEF Owners
  <2>. QED BY <2>1 DEF Init, Table
<1>5. Opened = {} /\ Using = {} /\ Reading = {} /\ Paced
  BY <1>1 DEF Init, Opened, Using, Reading, Paced
<1>6. Held
  BY <1>1, <1>5 DEF Init, Held
<1>7. MaxAttempts * (2 + Extra) \in Nat
  BY <1>3, LoopsLeft
<1>8. SendPart /\ LatePart
  BY <1>1, <1>7 DEF Init, SendPart, LatePart
<1>. QED BY <1>3, <1>4, <1>5, <1>6, <1>8 DEF CallInv, SocketInv

\* The invariant is inductive.
LEMMA NextCall ==
  ASSUME CallInv, [Next]_vars
  PROVE  CallInv'
<1>1. SocketInv /\ SendPart /\ LatePart /\ Shapes /\ Paced
  BY DEF CallInv, SocketInv
<1>2. CASE UNCHANGED vars
  <2>1. SendPart' /\ LatePart'
    BY <1>1, <1>2, SendsElsewhere
  <2>2. Shapes' /\ Paced' /\ Using' = Using /\ UNCHANGED sockets /\ w' = w
    BY <1>1, <1>2 DEF vars, Shapes, Paced, Using, sockets
  <2>3. w'.pc = "stream" => w'.conn \in Conns
    BY <2>2, <1>1 DEF SocketInv, Held
  <2>4. SocketInv'
    BY <2>2, <2>3, <1>1, QuietKeeps
  <2>. QED BY <2>1, <2>4 DEF CallInv
<1>3. CASE Next
  <2>1. SocketInv'
    BY <1>1, <1>3, TurnsKeep, OnwardKeeps, PoolKeeps, DialKeeps, RegisterKeeps,
       AttemptEndsKeeps, AnswerOkKeeps, ReaderKeeps, CancelKeeps, RegistryKeeps
       DEF Next, WorkerStep
  <2>2. SendPart' /\ LatePart'
    BY <1>1, <1>3, SendsElsewhere, SendsHere DEF Next, WorkerStep
  <2>. QED BY <2>1, <2>2 DEF CallInv
<1>. QED BY <1>2, <1>3

\* The invariant holds in every reachable state of the calls of a session.
THEOREM CallInvariant == Spec => []CallInv
<1>1. Init => CallInv
  BY InitCall
<1>2. CallInv /\ [Next]_vars => CallInv'
  BY NextCall
<1>. QED BY <1>1, <1>2, PTL DEF Spec

\* The holders of a connection: one while it is open, none otherwise.
LEMMA OneHolder ==
  ASSUME Held, NEW c \in Conns
  PROVE  Cardinality(Holders(c)) = IF conn[c].fd # 0 THEN 1 ELSE 0
<1>1. /\ "worker" \in Holders(c) <=> c \in Using
      /\ "pool" \in Holders(c) <=> c \in pool
      /\ "reader" \in Holders(c) <=> c \in Reading
      /\ Holders(c) \subseteq {"worker", "pool", "reader"}
  BY DEF Holders, Using, Reading
<1>2. c \in Opened <=> conn[c].fd # 0
  BY DEF Opened
<1>3. CASE c \in Opened
  <2>1. Holders(c) = {"worker"} \/ Holders(c) = {"pool"} \/ Holders(c) = {"reader"}
    BY <1>1, <1>3 DEF Held
  <2>. QED BY <2>1, <1>2, <1>3, FS_Singleton
<1>4. CASE c \notin Opened
  <2>1. Holders(c) = {}
    BY <1>1, <1>4 DEF Held
  <2>. QED BY <2>1, <1>2, <1>4, FS_EmptySet
<1>. QED BY <1>3, <1>4

\* Every descriptor is closed once and by its owner, and every open connection
\* has one holder that will drop it (socket_registry.rs: register, unregister,
\* shutdown_all, prune; the transports' drops), whatever the numbers of dials,
\* calls and controls, the cap and the channel's room.
THEOREM DescriptorsStayOwned == Spec => []DescriptorsOwned
<1>1. CallInv => DescriptorsOwned
  <2>1. SUFFICES ASSUME CallInv PROVE DescriptorsOwned
    OBVIOUS
  <2>2. Shapes /\ Table /\ Held
    BY <2>1 DEF CallInv, SocketInv
  <2>3. TypeOK
    BY <2>2 DEF Shapes, Table, Held, WorkerState, Chans, TypeOK
  <2>4. \A c \in Conns : Cardinality(Holders(c)) = IF conn[c].fd # 0 THEN 1 ELSE 0
    BY <2>2, OneHolder
  <2>. QED BY <2>2, <2>3, <2>4 DEF Table, DescriptorsOwned
<1>. QED BY <1>1, CallInvariant, PTL

\* A call sends at most a request for each attempt of a first loop, a downgraded
\* one and the resends, and after its cancel at most one (retry_loop_impl and the
\* provider policies around it), for every retry configuration.
THEOREM CallsSendBoundedly == Spec => []SendsAreBounded
<1>1. CallInv => SendsAreBounded
  BY DEF CallInv, SendPart, LatePart, SendsAreBounded
<1>. QED BY <1>1, CallInvariant, PTL
=============================================================================
