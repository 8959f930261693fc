--------------------------- MODULE McpServerProofs ---------------------------
(* Theorems about McpServer: the gate's counters are exact, rebuilds are        *)
(* bounded, and calls start in order on the engine in use.                      *)
EXTENDS McpServer, FiniteSetTheorems, SequenceTheorems, WellFoundedInduction, TLAPS

-----------------------------------------------------------------------------
(* The inductive invariant.                                                  *)

Ats == {"new", "sent", "queued", "running", "answered", "cancelled"}
Flags == BOOLEAN
OpState == [at : Ats, eng : 0..MaxEngines, cancel : Flags, late : Flags]
Own == [pc : {"top", "select", "closing", "gone"}, engine : Engines, inflight : SUBSET Calls,
        queued : Seq(Calls), active : Nat, waiting : Nat, failures : Nat, rebuilding : Flags]
Notices == [op : Ops, outcome : {"Completed", "TransportFailed", "Inconclusive"},
            engine : Engines]
Commands == ({"op"} \X Ops) \cup ({"cancel"} \X Sessions) \cup {<<"shutdown">>}

\* Every variable has its type, and no more calls hold a slot than there are.
Shapes == TypeOK /\ IsFiniteSet(d.inflight)

\* Where an operation can be seen: once in the command channel while it is sent,
\* in a notice when it was answered, on an engine that was in use while it runs.
Channel ==
  /\ \A i \in DOMAIN cmds : cmds[i][1] = "op" => op[cmds[i][2]].at = "sent"
  /\ \A i, j \in DOMAIN cmds : cmds[i][1] = "op" /\ cmds[i] = cmds[j] => i = j
Seen ==
  /\ Channel
  /\ \A n \in done : op[n.op].at \in {"answered", "cancelled"} /\ n.engine =< d.engine
  /\ \A o \in Ops : op[o].at = "running" => op[o].eng \in 1..d.engine
  /\ d.pc = "gone" => cmds = <<>> /\ done = {}

\* The gate: its counters, and whose slots and places they are.
Counting(r) ==
  /\ r.active = Cardinality(r.inflight) /\ r.active =< Cap /\ r.waiting = Len(r.queued)
  /\ \A i, j \in DOMAIN r.queued : r.queued[i] = r.queued[j] => i = j
Parked == {c \in Calls : op[c].at = "queued"}
Slots == {c \in Calls : op[c].at = "running" \/ Noticed(c)}
Gate ==
  d.pc # "gone" => Counting(d) /\ Range(d.queued) = Parked /\ d.inflight = Slots

\* Whoever is parked when the dispatcher selects has no slot to go to.
Full == d.pc = "select" => d.queued = <<>> \/ d.rebuilding \/ d.active = Cap

\* The rebuilds: what starts one was a fault, and what is noted was tried.
Awake == d.pc \in {"top", "select"}
Failed == \E n \in Current : n.outcome = "TransportFailed"
Worked == \E n \in Current : n.outcome = "Completed"
Rebuilds ==
  /\ d.rebuilding <=> worker.at # "none"
  /\ worker.at = "built" => worker.eng = d.engine + 1
  /\ worker.at = "failed" => credit >= 1
  /\ Awake /\ ~d.rebuilding /\ (d.engine \notin up \/ Failed) => credit >= 1
  /\ credit >= 0
  /\ tries =< MaxRestarts /\ tries =< d.failures /\ (Worked => tries = 0)

McpInv == Shapes /\ Seen /\ Gate /\ Full /\ Rebuilds
-----------------------------------------------------------------------------
(* Numbers and queues.                                                       *)

\* Induction on the naturals, said of sets.
LEMMA SetInduction ==
  ASSUME NEW X, X \subseteq Nat, 0 \in X, \A n \in X : n + 1 \in X
  PROVE  X = Nat
<1>1. SUFFICES ASSUME NEW m \in Nat, m \notin X PROVE FALSE
  OBVIOUS
<1>2. PICK R : R = StrictSubsetOrdering(0..m)
  OBVIOUS
<1>3. PICK F : F = FiniteSubsetsOf(0..m)
  OBVIOUS
<1>4. IsWellFoundedOn(R, F)
  BY <1>2, <1>3, FS_StrictSubsetOrderingWellFounded
<1>5. PICK T : T = {0..n : n \in {n \in 0..m : n \notin X}}
  OBVIOUS
<1>6. T \subseteq F
  <2>1. \A n \in 0..m : 0..n \subseteq 0..m /\ IsFiniteSet(0..n)
    BY FS_Interval
  <2>. QED BY <1>3, <1>5, <2>1 DEF FiniteSubsetsOf
<1>7. T # {}
  BY <1>1, <1>5
<1>8. PICK x \in T : \A y \in T : <<y, x>> \notin R
  BY <1>4, <1>6, <1>7, WFMin
<1>9. PICK n \in 0..m : n \notin X /\ x = 0..n
  BY <1>8, <1>5
<1>10. n # 0 /\ n - 1 \in 0..m /\ n - 1 \notin X
  BY <1>9
<1>11. 0..(n - 1) \in T
  BY <1>10, <1>5
<1>12. <<0..(n-1), 0..n>> \in R
  BY <1>2, <1>9, <1>10 DEF StrictSubsetOrdering
<1>. QED BY <1>8, <1>9, <1>11, <1>12

\* The larger and the smaller of two numbers.
LEMMA TwoNumbers ==
  ASSUME NEW a \in Int, NEW b \in Int
  PROVE  /\ Max({a, b}) = IF a >= b THEN a ELSE b
         /\ Min({a, b}) = IF a =< b THEN a ELSE b
<1>1. \E x \in {a, b} : \A y \in {a, b} : x >= y
  OBVIOUS
<1>2. Max({a, b}) \in {a, b} /\ \A y \in {a, b} : Max({a, b}) >= y
  BY <1>1 DEF Max
<1>3. \E x \in {a, b} : \A y \in {a, b} : x =< y
  OBVIOUS
<1>4. Min({a, b}) \in {a, b} /\ \A y \in {a, b} : Min({a, b}) =< y
  BY <1>3 DEF Min
<1>. QED BY <1>2, <1>4

\* A set of places has an ascending enumeration.
LEMMA AscendingExists ==
  ASSUME NEW m \in Nat, NEW I, I \subseteq 1..m
  PROVE  \E f \in [1..Cardinality(I) -> I] : Ascending(f)
<1>1. PICK X : X = {n \in Nat : \A J \in SUBSET (1..n) :
                       \E f \in [1..Cardinality(J) -> J] : Ascending(f)}
  OBVIOUS
<1>2. 0 \in X
  <2>1. SUFFICES ASSUME NEW J \in SUBSET (1..0)
                 PROVE  \E f \in [1..Cardinality(J) -> J] : Ascending(f)
    BY <1>1
  <2>2. J = {}
    BY <2>1
  <2>6. Cardinality(J) = 0
    BY <2>2, FS_EmptySet
  <2>3. PICK f : f = [x \in 1..0 |-> 0]
    OBVIOUS
  <2>4. f \in [1..Cardinality(J) -> J]
    BY <2>2, <2>6, <2>3
  <2>5. Ascending(f)
    BY <2>3 DEF Ascending
  <2>. QED BY <2>4, <2>5
<1>3. ASSUME NEW n \in X PROVE n + 1 \in X
  <2>1. n \in Nat
    BY <1>1
  <2>2. SUFFICES ASSUME NEW J \in SUBSET (1..(n + 1))
                 PROVE  \E f \in [1..Cardinality(J) -> J] : Ascending(f)
    <3>1. n + 1 \in Nat
      BY <2>1
    <3>. QED BY <1>1, <3>1
  <2>3. CASE n + 1 \notin J
    <3>1. J \in SUBSET (1..n)
      BY <2>1, <2>2, <2>3
    <3>. QED BY <3>1, <1>1, <1>3
  <2>4. CASE n + 1 \in J
    <3>1. PICK K : K = J \ {n + 1}
      OBVIOUS
    <3>2. K \in SUBSET (1..n) /\ J = K \cup {n + 1} /\ n + 1 \notin K
      BY <2>1, <2>2, <2>4, <3>1
    <3>3. PICK g \in [1..Cardinality(K) -> K] : Ascending(g)
      BY <3>2, <1>1, <1>3
    <3>4. IsFiniteSet(K)
      <4>1. IsFiniteSet(1..n)
        BY <2>1, FS_Interval
      <4>. QED BY <3>2, <4>1, FS_Subset
    <3>5. PICK k \in Nat : k = Cardinality(K)
      BY <3>4, FS_CardinalityType
    <3>6. Cardinality(J) = k + 1
      BY <3>2, <3>4, <3>5, FS_AddElement
    <3>7. PICK f : f = [x \in 1..(k + 1) |-> IF x = k + 1 THEN n + 1 ELSE g[x]]
      OBVIOUS
    <3>8. \A x \in 1..k : x \in 1..(k + 1) /\ x # k + 1 /\ f[x] = g[x] /\ g[x] \in K
      BY <3>3, <3>5, <3>7
    <3>9. f[k + 1] = n + 1
      BY <3>5, <3>7
    <3>10. f \in [1..Cardinality(J) -> J]
      <4>1. \A x \in 1..(k + 1) : x \in 1..k \/ x = k + 1
        BY <3>5
      <4>2. \A x \in 1..(k + 1) : f[x] \in J
        BY <4>1, <3>2, <3>8, <3>9
      <4>. QED BY <4>2, <3>6, <3>7
    <3>11. Ascending(f)
      <4>1. SUFFICES ASSUME NEW a \in 1..(k + 1), NEW b \in 1..(k + 1), a < b
                     PROVE  f[a] < f[b]
        BY <3>7 DEF Ascending
      <4>2. a \in 1..k
        BY <3>5, <4>1
      <4>3. CASE b = k + 1
        <5>1. f[a] \in 1..n
          BY <3>2, <3>8, <4>2
        <5>. QED BY <2>1, <3>9, <4>3, <5>1
      <4>4. CASE b # k + 1
        <5>1. b \in 1..k
          BY <3>5, <4>4
        <5>2. g[a] < g[b]
          BY <3>3, <3>5, <4>1, <4>2, <5>1 DEF Ascending
        <5>. QED BY <3>8, <4>2, <5>1, <5>2
      <4>. QED BY <4>3, <4>4
    <3>. QED BY <3>10, <3>11
  <2>. QED BY <2>3, <2>4
<1>4. X = Nat
  BY <1>1, <1>2, <1>3, SetInduction
<1>. QED BY <1>1, <1>4

\* Its enumeration reaches every place.
LEMMA EnumerationFacts ==
  ASSUME NEW m \in Nat, NEW I, I \subseteq 1..m
  PROVE  /\ Cardinality(I) \in Nat /\ IsFiniteSet(I)
         /\ Enumeration(I) \in [1..Cardinality(I) -> I] /\ Ascending(Enumeration(I))
         /\ \A i \in I : \E a \in 1..Cardinality(I) : Enumeration(I)[a] = i
<1>1. PICK f : f = Enumeration(I)
  OBVIOUS
<1>2. f \in [1..Cardinality(I) -> I] /\ Ascending(f)
  BY <1>1, AscendingExists DEF Enumeration
<1>3. IsFiniteSet(I)
  <2>1. IsFiniteSet(1..m)
    BY FS_Interval
  <2>. QED BY <2>1, FS_Subset
<1>4. PICK k \in Nat : k = Cardinality(I)
  BY <1>3, FS_CardinalityType
<1>5. \A a, b \in 1..k : f[a] = f[b] => a = b
  <2>1. \A a, b \in 1..k : a < b => f[a] < f[b]
    BY <1>2, <1>4 DEF Ascending
  <2>2. \A a \in 1..k : f[a] \in 1..m
    BY <1>2, <1>4
  <2>3. \A x \in 1..m : x \in Int
    OBVIOUS
  <2>. QED BY <2>1, <2>2, <2>3
<1>6. PICK J : J = {f[a] : a \in 1..k}
  OBVIOUS
<1>7. J \subseteq I
  BY <1>2, <1>4, <1>6
<1>8. ExistsBijection(1..k, J)
  <2>1. f \in [1..k -> J]
    BY <1>2, <1>4, <1>6
  <2>2. f \in Bijection(1..k, J)
    BY <2>1, <1>5, <1>6 DEF Bijection, Injection, Surjection, IsInjective
  <2>. QED BY <2>2 DEF ExistsBijection
<1>9. Cardinality(J) = k
  <2>1. IsFiniteSet(1..k) /\ Cardinality(1..k) = k
    BY <1>4, FS_Interval
  <2>. QED BY <2>1, <1>8, FS_Bijection
<1>10. J = I
  BY <1>3, <1>4, <1>7, <1>9, FS_Subset
<1>. QED BY <1>1, <1>2, <1>3, <1>4, <1>6, <1>10

\* What is left of a queue without some of its calls: the others, in their order.
LEMMA WithoutFacts ==
  ASSUME NEW q \in Seq(Calls), \A i, j \in DOMAIN q : q[i] = q[j] => i = j,
         NEW S, S \subseteq Range(q), NEW r, r = Without(q, S)
  PROVE  /\ r \in Seq(Calls) /\ \A i, j \in DOMAIN r : r[i] = r[j] => i = j
         /\ Range(r) = Range(q) \ S
         /\ IsFiniteSet(S) /\ Len(r) = Len(q) - Cardinality(S)
         /\ \A i, j \in DOMAIN q : \A a \in DOMAIN r :
              i =< j /\ q[j] = r[a] /\ q[i] \notin S => \E b \in 1..a : r[b] = q[i]
<1>1. PICK m \in Nat : m = Len(q)
  BY LenProperties
<1>2. DOMAIN q = 1..m /\ \A i \in 1..m : q[i] \in Calls
  BY <1>1, LenProperties, ElementOfSeq
<1>3. PICK I : I = Places(q, S)
  OBVIOUS
<1>4. I = {i \in 1..m : q[i] \notin S}
  BY <1>2, <1>3 DEF Places
<1>5. PICK f : f = Enumeration(I)
  OBVIOUS
<1>6. I \subseteq 1..m
  BY <1>4
<1>7. /\ Cardinality(I) \in Nat /\ IsFiniteSet(I)
      /\ f \in [1..Cardinality(I) -> I] /\ Ascending(f)
      /\ \A i \in I : \E a \in 1..Cardinality(I) : f[a] = i
  BY <1>5, <1>6, EnumerationFacts
<1>8. PICK k \in Nat : k = Cardinality(I)
  BY <1>7
<1>9. r = [n \in 1..k |-> q[f[n]]]
  BY <1>3, <1>5, <1>8 DEF Without
<1>10. \A a \in 1..k : f[a] \in 1..m /\ f[a] \in I /\ r[a] = q[f[a]]
  BY <1>6, <1>7, <1>8, <1>9
<1>11. r \in Seq(Calls) /\ Len(r) = k /\ DOMAIN r = 1..k
  <2>1. \A a \in 1..k : r[a] \in Calls
    BY <1>2, <1>10
  <2>2. r \in [1..k -> Calls]
    BY <1>9, <2>1
  <2>. QED BY <2>2, <1>8, IsASeq, LenProperties
<1>12. \A a, b \in 1..k : a < b => f[a] < f[b]
  BY <1>7, <1>8 DEF Ascending
<1>13. \A a, b \in 1..k : r[a] = r[b] => a = b
  <2>1. SUFFICES ASSUME NEW a \in 1..k, NEW b \in 1..k, r[a] = r[b] PROVE a = b
    OBVIOUS
  <2>2. f[a] = f[b]
    BY <2>1, <1>2, <1>10
  <2>3. ~(a < b) /\ ~(b < a)
    BY <2>2, <1>10, <1>12
  <2>. QED BY <2>3
<1>14. Range(r) = Range(q) \ S
  <2>1. \A x \in Range(r) : x \in Range(q) /\ x \notin S
    BY <1>2, <1>4, <1>10, <1>11 DEF Range
  <2>2. ASSUME NEW x \in Range(q), x \notin S PROVE x \in Range(r)
    <3>1. PICK i \in 1..m : x = q[i]
      BY <1>2, <2>2 DEF Range
    <3>2. i \in I
      BY <3>1, <2>2, <1>4
    <3>3. PICK a \in 1..k : f[a] = i
      BY <3>2, <1>7, <1>8
    <3>. QED BY <3>1, <3>3, <1>10, <1>11 DEF Range
  <2>. QED BY <2>1, <2>2
<1>15. IsFiniteSet(S) /\ k = m - Cardinality(S)
  <2>1. PICK J : J = {i \in 1..m : q[i] \in S}
    OBVIOUS
  <2>2. IsFiniteSet(1..m) /\ Cardinality(1..m) = m
    BY FS_Interval
  <2>3. J \in SUBSET (1..m) /\ I \in SUBSET (1..m) /\ J \cap I = {} /\ J \cup I = 1..m
    BY <2>1, <1>4
  <2>4. IsFiniteSet(J)
    BY <2>2, <2>3, FS_Subset
  <2>5. PICK n \in Nat : n = Cardinality(J)
    BY <2>4, FS_CardinalityType
  <2>6. PICK z : z = Cardinality(J \cap I)
    OBVIOUS
  <2>7. z = 0
    BY <2>3, <2>6, FS_EmptySet
  <2>8. m = n + k
    <3>1. Cardinality(J \cup I) = n + k - z
      BY <2>4, <2>5, <2>6, <1>7, <1>8, FS_Union
    <3>2. Cardinality(J \cup I) = m
      BY <2>2, <2>3
    <3>. QED BY <3>1, <3>2, <2>5, <2>7, <1>8
  <2>9. PICK g : g = [i \in J |-> q[i]]
    OBVIOUS
  <2>10. g \in [J -> S] /\ \A i, j \in J : g[i] = g[j] => i = j
    BY <2>1, <2>9, <1>2
  <2>11. \A x \in S : \E i \in J : g[i] = x
    <3>1. SUFFICES ASSUME NEW x \in S PROVE \E i \in J : g[i] = x
      OBVIOUS
    <3>2. PICK i \in 1..m : x = q[i]
      BY <3>1, <1>2 DEF Range
    <3>. QED BY <3>2, <2>1, <2>9
  <2>12. ExistsBijection(J, S)
    <3>1. g \in Bijection(J, S)
      BY <2>10, <2>11 DEF Bijection, Injection, Surjection, IsInjective
    <3>. QED BY <3>1 DEF ExistsBijection
  <2>13. IsFiniteSet(S) /\ Cardinality(S) = n
    BY <2>4, <2>5, <2>12, FS_Bijection
  <2>. QED BY <2>8, <2>13
<1>16. ASSUME NEW i \in 1..m, NEW j \in 1..m, NEW a \in 1..k,
              i =< j, q[j] = r[a], q[i] \notin S
       PROVE  \E b \in 1..a : r[b] = q[i]
  <2>1. i \in I
    BY <1>16, <1>4
  <2>2. PICK b \in 1..k : f[b] = i
    BY <2>1, <1>7, <1>8
  <2>3. f[a] = j
    BY <1>2, <1>10, <1>16, SMTT(30)
  <2>4. ~(a < b)
    BY <2>2, <2>3, <1>12, <1>16
  <2>5. b \in 1..a
    BY <2>2, <2>4, <1>16
  <2>. QED BY <2>2, <2>5, <1>10
<1>. QED BY <1>1, <1>2, <1>11, <1>13, <1>14, <1>15, <1>16

-----------------------------------------------------------------------------
(* States.                                                                   *)

\* What the constants are.
LEMMA Bounds ==
  /\ Cap \in Nat \ {0} /\ MaxRestarts \in Nat /\ MaxEngines \in Nat \ {0}
  /\ Calls \cap Listings = {} /\ \A c \in Calls : c \in Ops
BY CapAssumption, BoundsAssumption, CallsAssumption DEF Ops

\* The types of the state, by name.
LEMMA ShapesFacts ==
  ASSUME Shapes
  PROVE  /\ cmds \in Seq(Commands) /\ op \in [Ops -> OpState] /\ d \in Own
         /\ done \subseteq Notices /\ IsFiniteSet(d.inflight)
         /\ up \subseteq Engines /\ doomed \subseteq Calls /\ tries \in Nat /\ credit \in Int
         /\ worker \in [at : {"none", "builds", "built", "failed"}, eng : 0..MaxEngines]
BY DEF Shapes, TypeOK, Commands, Ats, OpState, Flags, Own, Notices

\* And the other way round, of the next state.
LEMMA ShapesNext ==
  ASSUME cmds' \in Seq(Commands), op' \in [Ops -> OpState], d' \in Own,
         done' \subseteq Notices, IsFiniteSet(d'.inflight),
         up' \subseteq Engines, doomed' \subseteq Calls, tries' \in Nat, credit' \in Int,
         worker' \in [at : {"none", "builds", "built", "failed"}, eng : 0..MaxEngines]
  PROVE  Shapes'
BY DEF Shapes, TypeOK, Commands, Ats, OpState, Flags, Own, Notices

\* One operation moves.
LEMMA OpMoves ==
  ASSUME op \in [Ops -> OpState], NEW o \in Ops, NEW x \in OpState, op' = [op EXCEPT ![o] = x]
  PROVE  /\ op' \in [Ops -> OpState] /\ op'[o] = x
         /\ \A p \in Ops : p # o => op'[p] = op[p]
OBVIOUS

\* The commands of the channel.
LEMMA CommandFacts ==
  /\ \A o \in Ops : <<"op", o>> \in Commands /\ <<"op", o>>[1] = "op" /\ <<"op", o>>[2] = o
  /\ \A s \in Sessions : <<"cancel", s>> \in Commands /\ <<"cancel", s>>[1] # "op"
  /\ <<"shutdown">> \in Commands /\ <<"shutdown">>[1] # "op"
  /\ \A c \in Commands : c[1] = "op" => c[2] \in Ops /\ c = <<"op", c[2]>>
BY DEF Commands

\* Nothing is sent, and what was sent stays sent.
LEMMA ChannelKept ==
  ASSUME Shapes, Channel, cmds' = cmds, \A o \in Ops : op[o].at = "sent" => op'[o].at = "sent"
  PROVE  Channel'
<1>1. \A i \in DOMAIN cmds : cmds[i] \in Commands
  BY ShapesFacts, LenProperties, ElementOfSeq
<1>2. \A i \in DOMAIN cmds : cmds[i][1] = "op" => cmds[i][2] \in Ops
  BY <1>1, CommandFacts
<1>. QED BY <1>2 DEF Channel

\* A command is sent.
LEMMA ChannelGrows ==
  ASSUME Shapes, Channel, NEW c \in Commands, cmds' = Append(cmds, c),
         c[1] = "op" => op'[c[2]].at = "sent" /\ op[c[2]].at # "sent",
         \A o \in Ops : op[o].at = "sent" => op'[o].at = "sent"
  PROVE  Channel' /\ cmds' \in Seq(Commands)
<1>1. cmds \in Seq(Commands)
  BY ShapesFacts
<1>2. PICK m \in Nat : m = Len(cmds)
  BY <1>1, LenProperties
<1>3. DOMAIN cmds = 1..m /\ \A i \in 1..m : cmds[i] \in Commands
  BY <1>1, <1>2, LenProperties, ElementOfSeq
<1>4. /\ cmds' \in Seq(Commands) /\ Len(cmds') = m + 1 /\ cmds'[m + 1] = c
      /\ \A i \in 1..m : cmds'[i] = cmds[i]
  BY <1>1, <1>2, AppendProperties
<1>5. DOMAIN cmds' = 1..(m + 1)
  BY <1>4, LenProperties
<1>6. \A i \in 1..(m + 1) : i \in 1..m \/ i = m + 1
  BY <1>2
<1>7. \A i \in 1..m : cmds[i][1] = "op" => op[cmds[i][2]].at = "sent" /\ op'[cmds[i][2]].at = "sent"
  <2>1. \A i \in 1..m : cmds[i][1] = "op" => cmds[i][2] \in Ops
    BY <1>3, CommandFacts
  <2>. QED BY <2>1, <1>3 DEF Channel
<1>8. \A i \in 1..(m + 1) : cmds'[i][1] = "op" => op'[cmds'[i][2]].at = "sent"
  BY <1>4, <1>6, <1>7
<1>9. \A i \in 1..m : cmds'[i][1] = "op" => cmds'[i] # c
  BY <1>4, <1>7
<1>10. \A i, j \in 1..m : cmds'[i][1] = "op" /\ cmds'[i] = cmds'[j] => i = j
  BY <1>3, <1>4 DEF Channel
<1>11. \A i, j \in 1..(m + 1) : cmds'[i][1] = "op" /\ cmds'[i] = cmds'[j] => i = j
  BY <1>4, <1>6, <1>9, <1>10
<1>. QED BY <1>4, <1>5, <1>8, <1>11 DEF Channel

\* A command is taken.
LEMMA ChannelTaken ==
  ASSUME Shapes, Channel, NEW c, Takes(c),
         \A o \in Ops : op[o].at = "sent" /\ c # <<"op", o>> => op'[o].at = "sent"
  PROVE  /\ Channel' /\ cmds' \in Seq(Commands)
         /\ \A o \in Ops : c = <<"op", o>> => op[o].at = "sent"
<1>1. cmds \in Seq(Commands) /\ cmds # <<>> /\ Head(cmds) = c /\ cmds' = Tail(cmds)
  BY ShapesFacts DEF Takes
<1>2. PICK m \in Nat : m = Len(cmds)
  BY <1>1, LenProperties
<1>3. DOMAIN cmds = 1..m /\ \A i \in 1..m : cmds[i] \in Commands
  BY <1>1, <1>2, LenProperties, ElementOfSeq
<1>4. m # 0
  BY <1>1, <1>2, EmptySeq
<1>5. /\ cmds' \in Seq(Commands) /\ Len(cmds') = m - 1
      /\ \A i \in 1..(m - 1) : cmds'[i] = cmds[i + 1]
  BY <1>1, <1>2, HeadTailProperties
<1>6. DOMAIN cmds' = 1..(m - 1)
  BY <1>5, LenProperties
<1>7. 1 \in 1..m /\ cmds[1] = c
  BY <1>1, <1>2, <1>4
<1>8. \A i \in 1..(m - 1) : i + 1 \in 1..m /\ i + 1 # 1
  BY <1>2, <1>4
<1>9. \A o \in Ops : c = <<"op", o>> => op[o].at = "sent"
  BY <1>3, <1>7, CommandFacts DEF Channel
<1>10. \A i \in 1..(m - 1) : cmds'[i][1] = "op" => op'[cmds'[i][2]].at = "sent"
  <2>1. SUFFICES ASSUME NEW i \in 1..(m - 1), cmds'[i][1] = "op" PROVE op'[cmds'[i][2]].at = "sent"
    OBVIOUS
  <2>2. PICK j \in 1..m : j = i + 1 /\ j # 1
    BY <1>8
  <2>3. cmds'[i] = cmds[j]
    BY <1>5, <2>2
  <2>4. cmds[j] \in Commands /\ cmds[j][1] = "op"
    BY <1>3, <2>1, <2>3
  <2>5. PICK o \in Ops : cmds[j] = <<"op", o>> /\ cmds[j][2] = o
    BY <2>4, CommandFacts
  <2>6. op[o].at = "sent"
    BY <1>3, <2>4, <2>5 DEF Channel
  <2>7. cmds[j] # cmds[1]
    BY <1>3, <1>7, <2>2, <2>4 DEF Channel
  <2>. QED BY <1>7, <2>3, <2>5, <2>6, <2>7
<1>11. \A i, j \in 1..(m - 1) : cmds'[i][1] = "op" /\ cmds'[i] = cmds'[j] => i = j
  <2>1. SUFFICES ASSUME NEW i \in 1..(m - 1), NEW j \in 1..(m - 1), cmds'[i][1] = "op",
                        cmds'[i] = cmds'[j]
                 PROVE  i = j
    OBVIOUS
  <2>2. PICK a \in 1..m : a = i + 1
    BY <1>8
  <2>3. PICK b \in 1..m : b = j + 1
    BY <1>8
  <2>4. cmds[a][1] = "op" /\ cmds[a] = cmds[b]
    BY <1>5, <2>1, <2>2, <2>3
  <2>5. a = b
    BY <1>3, <2>4 DEF Channel
  <2>. QED BY <2>2, <2>3, <2>5
<1>. QED BY <1>5, <1>6, <1>9, <1>10, <1>11 DEF Channel

\* The fields of the dispatcher's state, and its place alone set.
LEMMA PlaceSet ==
  ASSUME NEW r \in Own, NEW p \in {"top", "select", "closing", "gone"}, NEW x,
         x = [r EXCEPT !.pc = p]
  PROVE  /\ x \in Own /\ x.pc = p /\ x.engine = r.engine /\ x.inflight = r.inflight
         /\ x.queued = r.queued /\ x.active = r.active /\ x.waiting = r.waiting
         /\ x.failures = r.failures /\ x.rebuilding = r.rebuilding
BY DEF Own

\* The gate and the queue's rule do not notice what happens elsewhere.
LEMMA GateKept ==
  ASSUME Gate, Full, d' = d, d.pc # "gone" => Parked' = Parked /\ Slots' = Slots
  PROVE  Gate' /\ Full'
BY DEF Gate, Full

\* Neither do the rebuilds.
LEMMA RebuildsKept ==
  ASSUME Rebuilds, UNCHANGED <<d, done, worker, up, tries, credit>>
  PROVE  Rebuilds'
BY DEF Rebuilds, Awake, Failed, Worked, Current

-----------------------------------------------------------------------------
(* Callers, tasks, transports and the reconnect worker.                      *)

\* A caller sends.
LEMMA SendKeeps ==
  ASSUME McpInv, NEW o \in Ops, Send(o)
  PROVE  McpInv'
<1>1. Shapes /\ Seen /\ Gate /\ Full /\ Rebuilds /\ Channel
  BY DEF McpInv, Seen
<1>2. /\ op[o].at = "new" /\ UNCHANGED <<d, done, worker, up, doomed, tries, credit>>
  BY DEF Send
<1>3. op \in [Ops -> OpState] /\ op[o] \in OpState
  BY <1>1, ShapesFacts
<1>4. PICK x \in OpState : /\ op' = [op EXCEPT ![o] = x] /\ x.at \in {"sent", "answered"}
                           /\ IF d.pc # "gone" THEN x.at = "sent" /\ cmds' = Append(cmds, <<"op", o>>)
                              ELSE x.at = "answered" /\ cmds' = cmds
  <2>1. CASE d.pc # "gone"
    <3>1. PICK x : x = [op[o] EXCEPT !.at = "sent"]
      OBVIOUS
    <3>2. x \in OpState /\ x.at = "sent"
      BY <3>1, <1>3 DEF OpState, Ats
    <3>3. op' = [op EXCEPT ![o] = x] /\ cmds' = Append(cmds, <<"op", o>>)
      BY <2>1, <3>1, <1>3 DEF Send
    <3>. QED BY <2>1, <3>2, <3>3
  <2>2. CASE d.pc = "gone"
    <3>1. PICK x : x = Answer("answered")
      OBVIOUS
    <3>2. x \in OpState /\ x.at = "answered"
      BY <3>1, Bounds DEF OpState, Ats, Answer, Flags
    <3>3. op' = [op EXCEPT ![o] = x] /\ cmds' = cmds
      BY <2>2, <3>1, <1>3 DEF Send, Answered
    <3>. QED BY <2>2, <3>2, <3>3
  <2>. QED BY <2>1, <2>2
<1>5. op' \in [Ops -> OpState] /\ op'[o] = x /\ \A p \in Ops : p # o => op'[p] = op[p]
  BY <1>3, <1>4, OpMoves
<1>6. Channel' /\ cmds' \in Seq(Commands)
  <2>1. \A p \in Ops : op[p].at = "sent" => op'[p].at = "sent"
    BY <1>2, <1>5
  <2>2. CASE d.pc # "gone"
    <3>1. PICK c \in Commands : c = <<"op", o>> /\ c[1] = "op" /\ c[2] = o
      BY CommandFacts
    <3>2. op'[c[2]].at = "sent" /\ op[c[2]].at # "sent" /\ cmds' = Append(cmds, c)
      BY <3>1, <2>2, <1>2, <1>4, <1>5
    <3>. QED BY <3>2, <2>1, <1>1, ChannelGrows
  <2>3. CASE d.pc = "gone"
    BY <2>1, <2>3, <1>1, <1>4, ChannelKept, ShapesFacts
  <2>. QED BY <2>2, <2>3
<1>7. Seen'
  <2>1. \A n \in done : n.op \in Ops
    BY <1>1, ShapesFacts DEF Notices
  <2>2. \A n \in done' : op'[n.op].at \in {"answered", "cancelled"} /\ n.engine =< d'.engine
    BY <2>1, <1>1, <1>2, <1>5 DEF Seen
  <2>3. \A p \in Ops : op'[p].at = "running" => op'[p].eng \in 1..d'.engine
    BY <1>1, <1>2, <1>4, <1>5 DEF Seen
  <2>4. d'.pc = "gone" => cmds' = <<>> /\ done' = {}
    BY <1>1, <1>2, <1>4 DEF Seen
  <2>. QED BY <2>2, <2>3, <2>4, <1>6 DEF Seen
<1>8. Gate' /\ Full'
  <2>1. Parked' = Parked
    BY <1>2, <1>4, <1>5, Bounds DEF Parked
  <2>2. Slots' = Slots
    BY <1>2, <1>4, <1>5, Bounds DEF Slots, Noticed
  <2>. QED BY <2>1, <2>2, <1>1, <1>2, GateKept
<1>9. Rebuilds'
  BY <1>1, <1>2, RebuildsKept
<1>10. Shapes'
  BY <1>1, <1>2, <1>5, <1>6, ShapesFacts, ShapesNext
<1>. QED BY <1>7, <1>8, <1>9, <1>10 DEF McpInv

\* A session cancel or a shutdown is sent, or time passes for a parked call.
LEMMA OutsideKeeps ==
  ASSUME McpInv,
         \/ \E s \in Sessions : CancelSession(s)
         \/ DropServer
         \/ \E c \in Calls : Tick(c)
  PROVE  McpInv'
<1>1. Shapes /\ Seen /\ Gate /\ Full /\ Rebuilds /\ Channel
  BY DEF McpInv, Seen
<1>2. UNCHANGED <<d, done, worker, up, tries, credit>>
  BY DEF CancelSession, DropServer, Tick
<1>3. op \in [Ops -> OpState]
  BY <1>1, ShapesFacts
<1>4. /\ op' \in [Ops -> OpState]
      /\ \A p \in Ops : op'[p].at = op[p].at /\ op'[p].eng = op[p].eng
  <2>1. CASE op' = op
    BY <2>1, <1>3
  <2>2. CASE \E c \in Calls : Tick(c)
    <3>1. PICK c \in Calls : op' = [op EXCEPT ![c].late = TRUE]
      BY <2>2 DEF Tick
    <3>2. c \in Ops /\ op[c] \in OpState
      BY <1>3, Bounds
    <3>3. PICK b \in Flags : b = TRUE
      BY DEF Flags
    <3>4. PICK x : x = [op[c] EXCEPT !.late = b]
      OBVIOUS
    <3>5. x \in OpState /\ x.at = op[c].at /\ x.eng = op[c].eng
      BY <3>2, <3>4 DEF OpState
    <3>6. op' = [op EXCEPT ![c] = x]
      BY <3>1, <3>2, <3>3, <3>4, <1>3
    <3>. QED BY <1>3, <3>2, <3>5, <3>6, OpMoves
  <2>. QED BY <2>1, <2>2 DEF CancelSession, DropServer
<1>5. doomed' \subseteq Calls
  BY <1>1, ShapesFacts DEF CancelSession, DropServer, Tick
<1>6. Channel' /\ cmds' \in Seq(Commands) /\ (d.pc = "gone" => cmds' = cmds)
  <2>1. \A p \in Ops : op[p].at = "sent" => op'[p].at = "sent"
    BY <1>4
  <2>2. CASE \E c \in Commands : cmds' = Append(cmds, c) /\ c[1] # "op" /\ d.pc # "gone"
    BY <2>1, <2>2, <1>1, ChannelGrows
  <2>3. CASE cmds' = cmds
    BY <2>1, <2>3, <1>1, ChannelKept, ShapesFacts
  <2>4. \/ cmds' = cmds
        \/ \E c \in Commands : cmds' = Append(cmds, c) /\ c[1] # "op" /\ d.pc # "gone"
    BY CommandFacts DEF CancelSession, DropServer, Tick, Dropped
  <2>. QED BY <2>2, <2>3, <2>4
<1>7. Seen'
  <2>1. \A n \in done : n.op \in Ops
    BY <1>1, ShapesFacts DEF Notices
  <2>2. \A n \in done' : op'[n.op].at \in {"answered", "cancelled"} /\ n.engine =< d'.engine
    BY <2>1, <1>1, <1>2, <1>4 DEF Seen
  <2>3. \A p \in Ops : op'[p].at = "running" => op'[p].eng \in 1..d'.engine
    BY <1>1, <1>2, <1>4 DEF Seen
  <2>4. d'.pc = "gone" => cmds' = <<>> /\ done' = {}
    BY <1>1, <1>2, <1>6 DEF Seen
  <2>. QED BY <2>2, <2>3, <2>4, <1>6 DEF Seen
<1>8. Gate' /\ Full'
  <2>1. Parked' = Parked
    BY <1>2, <1>4, Bounds DEF Parked
  <2>2. Slots' = Slots
    BY <1>2, <1>4, Bounds DEF Slots, Noticed
  <2>. QED BY <2>1, <2>2, <1>1, <1>2, GateKept
<1>9. Rebuilds'
  BY <1>1, <1>2, RebuildsKept
<1>10. Shapes'
  BY <1>1, <1>2, <1>4, <1>5, <1>6, ShapesFacts, ShapesNext
<1>. QED BY <1>7, <1>8, <1>9, <1>10 DEF McpInv

\* A task ends with its notice and its reply.
LEMMA EndKeeps ==
  ASSUME McpInv, NEW o \in Ops, NEW outcome \in {"Completed", "TransportFailed", "Inconclusive"},
         NEW a \in {"answered", "cancelled"}, Ends(o, outcome, a),
         outcome = "TransportFailed" => op[o].eng \notin up,
         tries' = IF outcome = "Completed" /\ op[o].eng = d.engine THEN 0 ELSE tries
  PROVE  McpInv'
<1>1. Shapes /\ Seen /\ Gate /\ Full /\ Rebuilds /\ Channel
  BY DEF McpInv, Seen
<1>2. op[o].at = "running" /\ UNCHANGED <<cmds, d, worker, up, doomed, credit>>
  BY DEF Ends
<1>3. op \in [Ops -> OpState] /\ op[o] \in OpState /\ d \in Own /\ done \subseteq Notices
      /\ tries \in Nat
  BY <1>1, ShapesFacts
<1>4. op[o].eng \in 1..d.engine /\ d.engine \in Engines /\ op[o].eng \in Engines
  <2>1. op[o].eng \in 1..d.engine
    BY <1>1, <1>2 DEF Seen
  <2>2. d.engine \in Engines
    BY <1>3 DEF Own
  <2>. QED BY <2>1, <2>2, Bounds DEF Engines
<1>5. PICK x : x = Answer(a)
  OBVIOUS
<1>6. x \in OpState /\ x.at = a
  BY <1>5, Bounds DEF OpState, Ats, Answer, Flags
<1>7. op' = [op EXCEPT ![o] = x]
  BY <1>5 DEF Ends
<1>8. op' \in [Ops -> OpState] /\ op'[o] = x /\ \A p \in Ops : p # o => op'[p] = op[p]
  BY <1>3, <1>6, <1>7, OpMoves
<1>9. PICK n : n = Notice(o, outcome, op[o].eng)
  OBVIOUS
<1>10. n \in Notices /\ n.op = o /\ n.outcome = outcome /\ n.engine = op[o].eng
  BY <1>9, <1>4 DEF Notices, Notice
<1>11. done' = IF d.pc = "gone" THEN done ELSE done \cup {n}
  BY <1>9 DEF Ends
<1>12. Channel'
  <2>1. \A p \in Ops : op[p].at = "sent" => op'[p].at = "sent"
    BY <1>2, <1>8
  <2>. QED BY <2>1, <1>1, <1>2, ChannelKept
<1>13. Seen'
  <2>1. \A p \in done : p.op \in Ops
    BY <1>3 DEF Notices
  <2>2. \A p \in done' : op'[p.op].at \in {"answered", "cancelled"} /\ p.engine =< d'.engine
    <3>1. ASSUME NEW p \in done
          PROVE  op'[p.op].at \in {"answered", "cancelled"} /\ p.engine =< d'.engine
      BY <3>1, <2>1, <1>1, <1>2, <1>6, <1>8 DEF Seen
    <3>2. op'[n.op].at \in {"answered", "cancelled"} /\ n.engine =< d'.engine
      BY <1>2, <1>3, <1>4, <1>6, <1>8, <1>10 DEF Own, Engines
    <3>. QED BY <3>1, <3>2, <1>11
  <2>3. \A p \in Ops : op'[p].at = "running" => op'[p].eng \in 1..d'.engine
    BY <1>1, <1>2, <1>6, <1>8 DEF Seen
  <2>4. d'.pc = "gone" => cmds' = <<>> /\ done' = {}
    BY <1>1, <1>2, <1>11 DEF Seen
  <2>. QED BY <2>2, <2>3, <2>4, <1>12 DEF Seen
<1>14. Gate' /\ Full'
  <2>1. Parked' = Parked
    BY <1>2, <1>6, <1>8, Bounds DEF Parked
  <2>2. ASSUME d.pc # "gone" PROVE Slots' = Slots
    <3>1. \A c \in Calls : Noticed(c)' <=> (Noticed(c) \/ c = o)
      BY <2>2, <1>10, <1>11 DEF Noticed
    <3>2. \A c \in Calls : c # o => op'[c] = op[c]
      BY <1>8, Bounds
    <3>. QED BY <3>1, <3>2, <1>2, <1>6, <1>8 DEF Slots
  <2>. QED BY <2>1, <2>2, <1>1, <1>2, GateKept
<1>15. Rebuilds'
  <2>1. Failed' => Failed \/ (outcome = "TransportFailed" /\ op[o].eng = d.engine)
    BY <1>2, <1>10, <1>11 DEF Failed, Current
  <2>2. Worked' => Worked \/ (outcome = "Completed" /\ op[o].eng = d.engine)
    BY <1>2, <1>10, <1>11 DEF Worked, Current
  <2>3. Worked' => tries' = 0
    BY <2>2, <1>1 DEF Rebuilds
  <2>4. tries' =< MaxRestarts /\ tries' =< d'.failures
    BY <1>1, <1>2, <1>3, Bounds DEF Rebuilds, Own
  <2>5. Awake' /\ ~d'.rebuilding /\ (d'.engine \notin up' \/ Failed') => credit' >= 1
    BY <2>1, <1>1, <1>2 DEF Rebuilds, Awake
  <2>. QED BY <2>3, <2>4, <2>5, <1>1, <1>2 DEF Rebuilds
<1>16. Shapes'
  <2>1. done' \subseteq Notices
    BY <1>3, <1>10, <1>11
  <2>2. tries' \in Nat
    BY <1>3
  <2>. QED BY <2>1, <2>2, <1>1, <1>2, <1>8, ShapesFacts, ShapesNext
<1>. QED BY <1>13, <1>14, <1>15, <1>16 DEF McpInv

\* Whichever way it ends.
LEMMA TaskKeeps ==
  ASSUME McpInv, NEW o \in Ops,
         TaskCompletes(o) \/ TaskFails(o) \/ TaskTimesOut(o) \/ TaskCancelled(o)
  PROVE  McpInv'
<1>1. CASE TaskCompletes(o)
  BY <1>1, EndKeeps DEF TaskCompletes
<1>2. CASE TaskFails(o)
  BY <1>2, EndKeeps DEF TaskFails
<1>3. CASE TaskTimesOut(o)
  BY <1>3, EndKeeps DEF TaskTimesOut
<1>4. CASE TaskCancelled(o)
  BY <1>4, EndKeeps DEF TaskCancelled
<1>. QED BY <1>1, <1>2, <1>3, <1>4

\* An engine breaks, or works again.
LEMMA TransportKeeps ==
  ASSUME McpInv, NEW e \in Engines, Break(e) \/ Recover(e)
  PROVE  McpInv'
<1>1. Shapes /\ Seen /\ Gate /\ Full /\ Rebuilds
  BY DEF McpInv
<1>2. UNCHANGED <<cmds, op, d, done, worker, doomed, tries>>
  BY DEF Break, Recover
<1>3. up \subseteq Engines /\ credit \in Int /\ d \in Own
  BY <1>1, ShapesFacts
<1>4. up' \subseteq Engines /\ credit' \in Int /\ credit' >= credit
  BY <1>3 DEF Break, Recover
<1>5. Seen' /\ Gate' /\ Full'
  <2>1. Parked' = Parked /\ Slots' = Slots
    BY <1>2 DEF Parked, Slots, Noticed
  <2>2. Seen'
    BY <1>1, <1>2 DEF Seen, Channel
  <2>. QED BY <2>1, <2>2, <1>1, <1>2, GateKept
<1>6. Rebuilds'
  <2>1. (Failed' <=> Failed) /\ (Worked' <=> Worked)
    BY <1>2 DEF Failed, Worked, Current
  <2>2. credit \in Int /\ credit >= 0
    BY <1>1, <1>3 DEF Rebuilds
  <2>3. d.engine \notin up' => d.engine \notin up \/ credit' >= 1
    <3>1. CASE Break(e)
      <4>1. e # d.engine \/ credit' = credit + 1
        BY <3>1, <1>3 DEF Break, Own, Engines
      <4>. QED BY <3>1, <4>1, <2>2 DEF Break
    <3>2. CASE Recover(e)
      BY <3>2 DEF Recover
    <3>. QED BY <3>1, <3>2
  <2>4. Awake' /\ ~d'.rebuilding /\ (d'.engine \notin up' \/ Failed') => credit' >= 1
    BY <2>1, <2>2, <2>3, <1>1, <1>2, <1>4 DEF Rebuilds, Awake
  <2>5. credit' >= 0 /\ (worker'.at = "failed" => credit' >= 1)
    BY <2>2, <1>1, <1>2, <1>4 DEF Rebuilds
  <2>. QED BY <2>1, <2>4, <2>5, <1>1, <1>2 DEF Rebuilds
<1>7. Shapes'
  BY <1>1, <1>2, <1>4, ShapesFacts, ShapesNext
<1>. QED BY <1>5, <1>6, <1>7 DEF McpInv

\* The reconnect worker is done.
LEMMA WorkerKeeps ==
  ASSUME McpInv, WorkerBuilds
  PROVE  McpInv'
<1>1. Shapes /\ Seen /\ Gate /\ Full /\ Rebuilds
  BY DEF McpInv
<1>2. UNCHANGED <<cmds, op, d, done, doomed, tries>> /\ worker.at = "builds"
  BY DEF WorkerBuilds
<1>3. up \subseteq Engines /\ credit \in Int /\ d \in Own /\ d.engine \in Engines
  BY <1>1, ShapesFacts DEF Own
<1>4. d.rebuilding /\ credit >= 0
  BY <1>1, <1>2 DEF Rebuilds
<1>5. Seen' /\ Gate' /\ Full'
  <2>1. Parked' = Parked /\ Slots' = Slots
    BY <1>2 DEF Parked, Slots, Noticed
  <2>2. Seen'
    BY <1>1, <1>2 DEF Seen, Channel
  <2>. QED BY <2>1, <2>2, <1>1, <1>2, GateKept
<1>6. \/ /\ worker' = [at |-> "built", eng |-> d.engine + 1] /\ d.engine + 1 \in Engines
         /\ up' = up \cup {d.engine + 1} /\ credit' = credit
      \/ worker' = [at |-> "failed", eng |-> 0] /\ credit' = credit + 1 /\ up' = up
  BY <1>3, Bounds DEF WorkerBuilds, Engines
<1>7. /\ worker' \in [at : {"none", "builds", "built", "failed"}, eng : 0..MaxEngines]
      /\ up' \subseteq Engines /\ credit' \in Int
  <2>1. CASE worker'.at = "built"
    <3>1. PICK e \in Engines : e = d.engine + 1 /\ worker' = [at |-> "built", eng |-> e]
                               /\ up' = up \cup {e} /\ credit' = credit
      BY <2>1, <1>6
    <3>2. e \in 0..MaxEngines
      BY <3>1, Bounds DEF Engines
    <3>. QED BY <3>1, <3>2, <1>3
  <2>2. CASE worker'.at # "built"
    <3>1. worker' = [at |-> "failed", eng |-> 0] /\ credit' = credit + 1 /\ up' = up
      BY <2>2, <1>6
    <3>. QED BY <3>1, <1>3, Bounds
  <2>. QED BY <2>1, <2>2
<1>8. Rebuilds'
  <2>1. (Failed' <=> Failed) /\ (Worked' <=> Worked)
    BY <1>2 DEF Failed, Worked, Current
  <2>2. /\ worker'.at # "none" /\ (worker'.at = "built" => worker'.eng = d.engine + 1)
        /\ (worker'.at = "failed" => credit' >= 1) /\ credit' >= 0
    BY <1>3, <1>4, <1>6
  <2>. QED BY <2>1, <2>2, <1>1, <1>2, <1>4 DEF Rebuilds
<1>9. Shapes'
  BY <1>1, <1>2, <1>7, ShapesFacts, ShapesNext
<1>. QED BY <1>5, <1>8, <1>9 DEF McpInv

-----------------------------------------------------------------------------
(* The dispatcher.                                                           *)

\* What the notices leave: the slots of the calls that run, and a rebuild only
\* after a fault and within the budget.
LEMMA DrainedFacts ==
  ASSUME McpInv, Awake, NEW r, r = Drained
  PROVE  /\ r \in Own /\ r.pc = d.pc /\ r.engine = d.engine /\ r.queued = d.queued
         /\ Counting(r) /\ IsFiniteSet(r.inflight)
         /\ r.inflight = {c \in Calls : op[c].at = "running"}
         /\ d.rebuilding => r.rebuilding
         /\ ~d.rebuilding /\ r.rebuilding =>
              credit >= 1 /\ tries + 1 =< MaxRestarts /\ tries + 1 =< r.failures
         /\ tries =< r.failures
<1>1. Shapes /\ Seen /\ Gate /\ Rebuilds
  BY DEF McpInv
<1>2. /\ d \in Own /\ done \subseteq Notices /\ IsFiniteSet(d.inflight) /\ tries \in Nat
      /\ credit \in Int /\ d.pc # "gone"
  BY <1>1, ShapesFacts DEF Awake
<1>3. Counting(d) /\ d.inflight = Slots
  BY <1>1, <1>2 DEF Gate
<1>4. PICK S : S = {n.op : n \in done} \cap Calls
  OBVIOUS
<1>5. S = {c \in Calls : Noticed(c)}
  BY <1>4 DEF Noticed
<1>6. S \in SUBSET d.inflight /\ d.inflight \ S = {c \in Calls : op[c].at = "running"}
  <2>1. \A c \in S : op[c].at # "running"
    BY <1>1, <1>4 DEF Seen
  <2>. QED BY <2>1, <1>3, <1>5 DEF Slots
<1>7. IsFiniteSet(S) /\ Cardinality(S) \in Nat /\ IsFiniteSet(d.inflight \ S)
      /\ Cardinality(d.inflight \ S) = Cardinality(d.inflight) - Cardinality(S)
  <2>1. IsFiniteSet(S)
    BY <1>2, <1>6, FS_Subset
  <2>2. d.inflight \cap S = S
    BY <1>6
  <2>. QED BY <2>1, <2>2, <1>2, FS_CardinalityType, FS_Difference
<1>8. PICK a : a = Max({0, d.active - Cardinality(S)})
  OBVIOUS
<1>9. a \in Nat /\ a = Cardinality(d.inflight \ S) /\ a =< Cap
  <2>1. d.active \in Nat /\ d.active = Cardinality(d.inflight) /\ d.active =< Cap
    BY <1>2, <1>3 DEF Own, Counting
  <2>2. PICK s \in Nat : s = Cardinality(S)
    BY <1>7
  <2>3. PICK k \in Nat : k = Cardinality(d.inflight \ S)
    BY <1>7, FS_CardinalityType
  <2>4. d.active - s = k
    BY <1>7, <2>1, <2>2, <2>3
  <2>5. a = k
    BY <1>8, <2>2, <2>4, TwoNumbers
  <2>. QED BY <2>1, <2>2, <2>3, <2>4, <2>5, Bounds
<1>10. PICK f \in Nat : f = IF Worked THEN 0 ELSE d.failures
  BY <1>2 DEF Own
<1>11. tries =< f
  BY <1>1, <1>2, <1>10 DEF Rebuilds
<1>12. PICK u : u = [d EXCEPT !.inflight = d.inflight \ S, !.active = a, !.failures = f]
  OBVIOUS
<1>13. /\ u \in Own /\ u.pc = d.pc /\ u.engine = d.engine /\ u.queued = d.queued
       /\ u.waiting = d.waiting /\ u.active = a /\ u.inflight = d.inflight \ S
       /\ u.failures = f /\ u.rebuilding = d.rebuilding
  <2>1. u = [pc |-> d.pc, engine |-> d.engine, inflight |-> d.inflight \ S, queued |-> d.queued,
             active |-> a, waiting |-> d.waiting, failures |-> f, rebuilding |-> d.rebuilding]
    BY <1>2, <1>12 DEF Own
  <2>2. d.inflight \ S \subseteq Calls
    BY <1>2 DEF Own
  <2>. QED BY <2>1, <2>2, <1>2, <1>9 DEF Own
<1>14. r = IF Failed THEN NoteFailure(u) ELSE u
  BY <1>4, <1>8, <1>10, <1>12 DEF Drained, Failed, Worked
<1>15. Counting(u)
  BY <1>3, <1>9, <1>13 DEF Counting
<1>16. CASE ~Failed \/ d.rebuilding
  <2>1. r = u
    BY <1>13, <1>14, <1>16 DEF NoteFailure
  <2>. QED BY <2>1, <1>6, <1>7, <1>11, <1>13, <1>15
<1>17. CASE Failed /\ ~d.rebuilding
  <2>1. PICK b \in Flags : b = (f < MaxRestarts)
    <3>1. (f < MaxRestarts) \in BOOLEAN
      BY Bounds
    <3>. QED BY <3>1, Zenon DEF Flags
  <2>2. r = [u EXCEPT !.failures = f + 1, !.rebuilding = b]
    BY <1>13, <1>14, <1>17, <2>1 DEF NoteFailure
  <2>3. r = [pc |-> u.pc, engine |-> u.engine, inflight |-> u.inflight, queued |-> u.queued,
             active |-> u.active, waiting |-> u.waiting, failures |-> f + 1, rebuilding |-> b]
    BY <2>2, <1>13 DEF Own
  <2>4. /\ r \in Own /\ r.pc = u.pc /\ r.engine = u.engine /\ r.inflight = u.inflight
        /\ r.queued = u.queued /\ r.active = u.active /\ r.waiting = u.waiting
        /\ r.failures = f + 1 /\ r.rebuilding = b
    BY <2>3, <1>13, <1>10, <2>1 DEF Own
  <2>5. credit >= 1
    BY <1>1, <1>17 DEF Rebuilds
  <2>6. b => tries + 1 =< MaxRestarts
    <3>1. b => f < MaxRestarts
      BY <2>1
    <3>. QED BY <3>1, <1>2, <1>10, <1>11, Bounds
  <2>7. tries + 1 =< r.failures /\ tries =< r.failures
    BY <2>4, <1>2, <1>10, <1>11
  <2>8. Counting(r)
    BY <2>4, <1>15 DEF Counting
  <2>. QED BY <2>4, <2>5, <2>6, <2>7, <2>8, <1>6, <1>7, <1>13, <1>17
<1>. QED BY <1>16, <1>17

\* The elements of the front of a sequence and of the rest of it.
LEMMA PartsOfSeq ==
  ASSUME NEW V, NEW q, NEW m \in Nat, NEW k \in Nat, k =< m, \A i \in 1..m : q[i] \in V
  PROVE  /\ SubSeq(q, 1, k) \in Seq(V) /\ Len(SubSeq(q, 1, k)) = k
         /\ \A i \in 1..k : SubSeq(q, 1, k)[i] = q[i]
         /\ SubSeq(q, k + 1, m) \in Seq(V) /\ Len(SubSeq(q, k + 1, m)) = m - k
         /\ \A i \in 1..(m - k) : SubSeq(q, k + 1, m)[i] = q[k + i] /\ k + i \in 1..m
<1>1. SubSeq(q, 1, k) \in Seq(V) /\ Len(SubSeq(q, 1, k)) = k
      /\ \A i \in 1..k : SubSeq(q, 1, k)[i] = q[i]
  OBVIOUS
<1>2. SubSeq(q, k + 1, m) \in Seq(V)
  OBVIOUS
<1>3. Len(SubSeq(q, k + 1, m)) = m - k
  OBVIOUS
<1>4. \A i \in 1..(m - k) : SubSeq(q, k + 1, m)[i] = q[k + i]
  OBVIOUS
<1>5. \A i \in 1..(m - k) : k + i \in 1..m
  OBVIOUS
<1>. QED BY <1>1, <1>2, <1>3, <1>4, <1>5

\* The front of a queue and the rest of it.
FrontOf(q, k) == SubSeq(q, 1, k)
RestOf(q, k) == SubSeq(q, k + 1, Len(q))

\* They are what their names say.
LEMMA SplitFacts ==
  ASSUME NEW q \in Seq(Calls), \A i, j \in DOMAIN q : q[i] = q[j] => i = j,
         NEW k \in 0..Len(q), NEW p, p = FrontOf(q, k), NEW t, t = RestOf(q, k)
  PROVE  /\ p \in Seq(Calls) /\ Len(p) = k /\ \A i \in 1..k : p[i] = q[i]
         /\ t \in Seq(Calls) /\ Len(t) = Len(q) - k
         /\ \A i, j \in DOMAIN t : t[i] = t[j] => i = j
         /\ Range(t) = Range(q) \ Range(p) /\ Range(p) \subseteq Range(q)
         /\ IsFiniteSet(Range(p)) /\ Cardinality(Range(p)) = k
<1>1. PICK m \in Nat : m = Len(q)
  BY LenProperties
<1>2. DOMAIN q = 1..m /\ k \in Nat /\ k =< m /\ \A i \in 1..m : q[i] \in Calls
  BY <1>1, LenProperties, ElementOfSeq
<1>3. p \in Seq(Calls) /\ Len(p) = k /\ \A i \in 1..k : p[i] = q[i]
  BY <1>2, PartsOfSeq DEF FrontOf
<1>4. DOMAIN p = 1..k
  BY <1>3, LenProperties
<1>5. Range(p) = {q[i] : i \in 1..k}
  BY <1>3, <1>4 DEF Range
<1>6. /\ t \in Seq(Calls) /\ Len(t) = m - k
      /\ \A i \in 1..(m - k) : t[i] = q[k + i] /\ k + i \in 1..m
  BY <1>1, <1>2, PartsOfSeq DEF RestOf
<1>7. DOMAIN t = 1..(m - k)
  BY <1>6, LenProperties
<1>8. \A i, j \in DOMAIN t : t[i] = t[j] => i = j
  <2>1. SUFFICES ASSUME NEW i \in 1..(m - k), NEW j \in 1..(m - k), t[i] = t[j] PROVE i = j
    BY <1>7
  <2>2. PICK a \in 1..m : a = k + i /\ t[i] = q[a]
    BY <1>6
  <2>3. PICK b \in 1..m : b = k + j /\ t[j] = q[b]
    BY <1>6
  <2>4. a = b
    BY <2>1, <2>2, <2>3, <1>2
  <2>. QED BY <2>2, <2>3, <2>4, <1>2
<1>9. Range(t) = Range(q) \ Range(p)
  <2>1. ASSUME NEW x \in Range(t) PROVE x \in Range(q) /\ x \notin Range(p)
    <3>1. PICK i \in 1..(m - k) : x = q[k + i] /\ k + i \in 1..m
      BY <1>6, <1>7 DEF Range
    <3>2. \A j \in 1..k : j \in 1..m /\ j # k + i
      BY <3>1, <1>2
    <3>3. \A j \in 1..k : q[j] # x
      BY <3>1, <3>2, <1>2
    <3>. QED BY <3>1, <3>3, <1>2, <1>5 DEF Range
  <2>2. ASSUME NEW x \in Range(q), x \notin Range(p) PROVE x \in Range(t)
    <3>1. PICK i \in 1..m : x = q[i]
      BY <1>2 DEF Range
    <3>2. i \notin 1..k
      BY <3>1, <2>2, <1>5
    <3>3. i - k \in 1..(m - k) /\ k + (i - k) = i
      BY <3>1, <3>2, <1>2
    <3>4. t[i - k] = x
      BY <3>1, <3>3, <1>6
    <3>. QED BY <3>3, <3>4, <1>7 DEF Range
  <2>. QED BY <2>1, <2>2
<1>10. Range(p) \subseteq Range(q)
  BY <1>2, <1>5, SMTT(30) DEF Range
<1>11. IsFiniteSet(Range(p)) /\ Cardinality(Range(p)) = k
  <2>1. p \in [1..k -> Range(p)]
    BY <1>3, <1>4, LenProperties DEF Range
  <2>2. \A i, j \in 1..k : p[i] = p[j] => i = j
    BY <1>2, <1>3
  <2>3. p \in Bijection(1..k, Range(p))
    BY <2>1, <2>2, <1>4 DEF Bijection, Injection, Surjection, IsInjective, Range
  <2>4. ExistsBijection(1..k, Range(p))
    BY <2>3 DEF ExistsBijection
  <2>5. IsFiniteSet(1..k) /\ Cardinality(1..k) = k
    BY <1>2, FS_Interval
  <2>. QED BY <2>4, <2>5, FS_Bijection
<1>. QED BY <1>1, <1>3, <1>5, <1>6, <1>8, <1>9, <1>10, <1>11

\* expire_queued counts down what it removes.
LEMMA ExpiredFacts ==
  ASSUME NEW r \in Own, Counting(r), NEW x, x = Expired(r)
  PROVE  /\ x \in Own /\ Counting(x) /\ x.pc = r.pc /\ x.engine = r.engine
         /\ x.inflight = r.inflight /\ x.failures = r.failures /\ x.rebuilding = r.rebuilding
         /\ x.queued = Without(r.queued, Late(r)) /\ Late(r) \subseteq Range(r.queued)
         /\ Range(x.queued) = Range(r.queued) \ Late(r)
<1>1. PICK S : S = Late(r)
  OBVIOUS
<1>2. S \subseteq Range(r.queued)
  BY <1>1 DEF Late
<1>3. PICK q : q = Without(r.queued, S)
  OBVIOUS
<1>4. /\ r.queued \in Seq(Calls) /\ r.waiting = Len(r.queued) /\ r.waiting \in Nat
      /\ \A i, j \in DOMAIN r.queued : r.queued[i] = r.queued[j] => i = j
  BY DEF Own, Counting
<1>5. /\ q \in Seq(Calls) /\ \A i, j \in DOMAIN q : q[i] = q[j] => i = j
      /\ Range(q) = Range(r.queued) \ S
      /\ IsFiniteSet(S) /\ Len(q) = Len(r.queued) - Cardinality(S)
  BY <1>2, <1>3, <1>4, WithoutFacts
<1>6. PICK w : w = Max({0, r.waiting - Cardinality(S)})
  OBVIOUS
<1>7. w \in Nat /\ w = Len(q)
  <2>1. PICK n \in Nat : n = Len(q)
    BY <1>5, LenProperties
  <2>2. r.waiting - Cardinality(S) = n
    BY <1>4, <1>5, <2>1
  <2>. QED BY <2>1, <2>2, <1>6, TwoNumbers
<1>8. x = [r EXCEPT !.queued = q, !.waiting = w]
  BY <1>1, <1>3, <1>6 DEF Expired
<1>9. x = [pc |-> r.pc, engine |-> r.engine, inflight |-> r.inflight, queued |-> q,
           active |-> r.active, waiting |-> w, failures |-> r.failures, rebuilding |-> r.rebuilding]
  BY <1>8 DEF Own
<1>10. /\ x \in Own /\ x.pc = r.pc /\ x.engine = r.engine /\ x.inflight = r.inflight
       /\ x.queued = q /\ x.active = r.active /\ x.waiting = w /\ x.failures = r.failures
       /\ x.rebuilding = r.rebuilding
  BY <1>5, <1>7, <1>9 DEF Own
<1>11. Counting(x)
  BY <1>5, <1>7, <1>10 DEF Counting
<1>. QED BY <1>1, <1>2, <1>3, <1>5, <1>10, <1>11

\* pump_queued gives the free slots to the front of the queue.
LEMMA PumpedFacts ==
  ASSUME NEW r \in Own, Counting(r), IsFiniteSet(r.inflight),
         Range(r.queued) \cap r.inflight = {}, NEW x, x = Pumped(r),
         NEW S, S = Range(Promoted(r))
  PROVE  /\ x \in Own /\ Counting(x) /\ IsFiniteSet(x.inflight) /\ x.pc = r.pc
         /\ x.engine = r.engine /\ x.failures = r.failures /\ x.rebuilding = r.rebuilding
         /\ x.inflight = r.inflight \cup S /\ S \subseteq Range(r.queued)
         /\ Range(x.queued) = Range(r.queued) \ S
         /\ r.rebuilding => S = {}
         /\ x.queued = <<>> \/ x.rebuilding \/ x.active = Cap
         /\ \E k \in 0..Len(r.queued) : S = {r.queued[i] : i \in 1..k}
<1>1. PICK q : q = r.queued
  OBVIOUS
<1>2. /\ q \in Seq(Calls) /\ r.waiting = Len(q) /\ r.active \in Nat /\ r.active =< Cap
      /\ r.active = Cardinality(r.inflight)
      /\ \A i, j \in DOMAIN q : q[i] = q[j] => i = j
  BY <1>1 DEF Own, Counting
<1>3. PICK m \in Nat : m = Len(q)
  BY <1>2, LenProperties
<1>4. PICK a \in Nat : a = Cap - r.active
  BY <1>2, Bounds
<1>5. PICK k \in 0..Len(q) : /\ Promoted(r) = SubSeq(q, 1, k)
                             /\ k = IF r.rebuilding THEN 0 ELSE IF a =< m THEN a ELSE m
  <2>1. CASE r.rebuilding
    <3>1. Promoted(r) = <<>> /\ SubSeq(q, 1, 0) = <<>>
      BY <2>1, SubSeqEmpty DEF Promoted
    <3>2. 0 \in 0..Len(q)
      BY <1>3
    <3>. QED BY <2>1, <3>1, <3>2
  <2>2. CASE ~r.rebuilding
    <3>1. PICK k : k = Min({a, m})
      OBVIOUS
    <3>2. k = IF a =< m THEN a ELSE m
      BY <3>1, TwoNumbers, SMTT(30)
    <3>3. Promoted(r) = SubSeq(q, 1, k)
      BY <2>2, <3>1, <1>1, <1>3, <1>4 DEF Promoted
    <3>4. k \in 0..Len(q)
      BY <3>2, <1>3
    <3>. QED BY <2>2, <3>2, <3>3, <3>4
  <2>. QED BY <2>1, <2>2
<1>6. PICK p : p = FrontOf(q, k)
  OBVIOUS
<1>7. PICK t : t = RestOf(q, k)
  OBVIOUS
<1>8. /\ p \in Seq(Calls) /\ Len(p) = k /\ Range(p) = {q[i] : i \in 1..k}
      /\ t \in Seq(Calls) /\ Len(t) = m - k
      /\ \A i, j \in DOMAIN t : t[i] = t[j] => i = j
      /\ Range(t) = Range(q) \ Range(p) /\ Range(p) \subseteq Range(q)
      /\ IsFiniteSet(Range(p)) /\ Cardinality(Range(p)) = k
  <2>1. /\ p \in Seq(Calls) /\ Len(p) = k /\ \A i \in 1..k : p[i] = q[i]
        /\ t \in Seq(Calls) /\ Len(t) = Len(q) - k
        /\ \A i, j \in DOMAIN t : t[i] = t[j] => i = j
        /\ Range(t) = Range(q) \ Range(p) /\ Range(p) \subseteq Range(q)
        /\ IsFiniteSet(Range(p)) /\ Cardinality(Range(p)) = k
    <3>1. k \in 0..Len(q)
      BY <1>5
    <3>2. q \in Seq(Calls) /\ \A i, j \in DOMAIN q : q[i] = q[j] => i = j
      BY <1>2
    <3>. QED BY <3>1, <3>2, <1>6, <1>7, SplitFacts
  <2>2. DOMAIN p = 1..k
    BY <2>1, LenProperties
  <2>3. Range(p) = {q[i] : i \in 1..k}
    BY <2>1, <2>2 DEF Range
  <2>. QED BY <2>1, <2>3, <1>3
<1>9. S = Range(p)
  BY <1>5, <1>6 DEF FrontOf
<1>10. PICK w : w = Max({0, r.waiting - k})
  OBVIOUS
<1>11. k \in Nat /\ k =< m /\ w = m - k /\ w \in Nat
  <2>1. k \in Nat /\ k =< m /\ m - k \in Nat /\ r.waiting - k = m - k
    BY <1>2, <1>3, <1>5
  <2>. QED BY <2>1, <1>10, TwoNumbers
<1>12. PICK I : I = r.inflight \cup S
  OBVIOUS
<1>13. IsFiniteSet(I) /\ Cardinality(I) = r.active + k /\ I \subseteq Calls
  <2>1. r.inflight \cap S = {}
    BY <1>1, <1>8, <1>9
  <2>2. PICK z : z = Cardinality(r.inflight \cap S)
    OBVIOUS
  <2>3. z = 0
    BY <2>1, <2>2, FS_EmptySet
  <2>4. IsFiniteSet(I) /\ Cardinality(I) = Cardinality(r.inflight) + Cardinality(S) - z
    BY <1>8, <1>9, <1>12, <2>2, FS_Union
  <2>5. Cardinality(S) = k /\ Cardinality(r.inflight) = r.active
    BY <1>2, <1>8, <1>9
  <2>6. \A c \in S : c \in Calls
    <3>1. \A i \in 1..k : q[i] \in Calls
      BY <1>2, <1>3, <1>11, ElementOfSeq
    <3>. QED BY <3>1, <1>8, <1>9
  <2>7. r.inflight \subseteq Calls
    BY DEF Own
  <2>. QED BY <2>3, <2>4, <2>5, <2>6, <2>7, <1>2, <1>11, <1>12
<1>14. PICK b \in Nat : b = r.active + k
  BY <1>2, <1>11
<1>15. x = [r EXCEPT !.queued = t, !.inflight = I, !.active = b, !.waiting = w]
  BY <1>1, <1>5, <1>6, <1>7, <1>8, <1>9, <1>10, <1>12, <1>14 DEF Pumped, FrontOf, RestOf
<1>16. x = [pc |-> r.pc, engine |-> r.engine, inflight |-> I, queued |-> t, active |-> b,
            waiting |-> w, failures |-> r.failures, rebuilding |-> r.rebuilding]
  BY <1>15 DEF Own
<1>17. /\ x \in Own /\ x.pc = r.pc /\ x.engine = r.engine /\ x.inflight = I /\ x.queued = t
       /\ x.active = b /\ x.waiting = w /\ x.failures = r.failures /\ x.rebuilding = r.rebuilding
  BY <1>8, <1>11, <1>13, <1>14, <1>16 DEF Own
<1>18. Counting(x)
  <2>1. b =< Cap
    BY <1>2, <1>3, <1>4, <1>5, <1>11, <1>14, Bounds
  <2>. QED BY <2>1, <1>8, <1>11, <1>13, <1>14, <1>17 DEF Counting
<1>19. x.queued = <<>> \/ x.rebuilding \/ x.active = Cap
  <2>1. ASSUME ~r.rebuilding, b # Cap PROVE t = <<>>
    <3>1. k = m
      BY <2>1, <1>2, <1>3, <1>4, <1>5, <1>11, <1>14, Bounds, SMTT(30)
    <3>. QED BY <3>1, <1>3, <1>7, SubSeqEmpty DEF RestOf
  <2>. QED BY <2>1, <1>17
<1>20. r.rebuilding => S = {}
  <2>1. ASSUME r.rebuilding PROVE S = {}
    <3>1. k = 0
      BY <2>1, <1>5
    <3>. QED BY <3>1, <1>8, <1>9
  <2>. QED BY <2>1
<1>21. \E n \in 0..Len(r.queued) : S = {r.queued[i] : i \in 1..n}
  BY <1>1, <1>8, <1>9
<1>. QED BY <1>1, <1>8, <1>9, <1>12, <1>13, <1>17, <1>18, <1>19, <1>20, <1>21

\* What answering some operations and spawning others makes of them.
LEMMA AnsweredFacts ==
  ASSUME NEW f \in [Ops -> OpState], NEW S, NEW a \in {"answered", "cancelled"},
         NEW g, g = Answered(f, S, a)
  PROVE  /\ g \in [Ops -> OpState]
         /\ \A o \in Ops : IF o \in S THEN g[o].at = a ELSE g[o] = f[o]
<1>1. PICK x : x = Answer(a)
  OBVIOUS
<1>2. x \in OpState /\ x.at = a
  BY <1>1, Bounds DEF OpState, Ats, Answer, Flags
<1>3. g = [o \in Ops |-> IF o \in S THEN x ELSE f[o]]
  BY <1>1 DEF Answered
<1>. QED BY <1>2, <1>3

\* spawn_call, with those that turn out too late.
LEMMA SpawnedFacts ==
  ASSUME NEW f \in [Ops -> OpState], NEW S \in SUBSET Calls, NEW L \in SUBSET S,
         NEW e \in Engines, NEW g, g = Spawned(f, S, L, e)
  PROVE  /\ g \in [Ops -> OpState]
         /\ \A o \in Ops : /\ o \in L => g[o].at = "answered"
                           /\ o \in S /\ o \notin L => g[o].at = "running" /\ g[o].eng = e
                           /\ o \notin S => g[o] = f[o]
<1>1. PICK x : x = Answer("answered")
  OBVIOUS
<1>2. x \in OpState /\ x.at = "answered"
  BY <1>1, Bounds DEF OpState, Ats, Answer, Flags
<1>3. PICK y : y = [Answer("running") EXCEPT !.eng = e]
  OBVIOUS
<1>4. PICK no \in Flags : no = FALSE
  BY DEF Flags
<1>5. y = [at |-> "running", eng |-> e, cancel |-> no, late |-> no]
  BY <1>3, <1>4 DEF Answer
<1>6. y \in OpState /\ y.at = "running" /\ y.eng = e
  <2>1. e \in 0..MaxEngines
    BY Bounds DEF Engines
  <2>. QED BY <2>1, <1>4, <1>5 DEF OpState, Ats
<1>7. g = [o \in Ops |-> IF o \in L THEN x ELSE IF o \in S THEN y ELSE f[o]]
  BY <1>1, <1>3 DEF Spawned
<1>8. g \in [Ops -> OpState]
  BY <1>2, <1>6, <1>7
<1>9. \A o \in Ops : /\ o \in L => g[o].at = "answered"
                     /\ o \in S /\ o \notin L => g[o].at = "running" /\ g[o].eng = e
                     /\ o \notin S => g[o] = f[o]
  BY <1>2, <1>6, <1>7
<1>. QED BY <1>8, <1>9

\* Their notices.
LEMMA TooLateFacts ==
  ASSUME NEW L, L \subseteq Calls, NEW e \in Engines
  PROVE  /\ \A n \in TooLate(L, e) : /\ n \in Notices /\ n.op \in L /\ n.engine = e
                                     /\ n.outcome = "Inconclusive"
         /\ \A c \in L : \E n \in TooLate(L, e) : n.op = c
<1>1. \A c \in L : c \in Ops
  BY Bounds
<1>2. \A n \in TooLate(L, e) : /\ n \in Notices /\ n.op \in L /\ n.engine = e
                               /\ n.outcome = "Inconclusive"
  BY <1>1 DEF TooLate, Notice, Notices
<1>3. \A c \in L : \E n \in TooLate(L, e) : n.op = c
  <2>1. SUFFICES ASSUME NEW c \in L PROVE \E n \in TooLate(L, e) : n.op = c
    OBVIOUS
  <2>2. PICK n : n = Notice(c, "Inconclusive", e)
    OBVIOUS
  <2>3. n \in TooLate(L, e)
    BY <2>2 DEF TooLate
  <2>4. n.op = c
    BY <2>2 DEF Notice
  <2>. QED BY <2>3, <2>4
<1>. QED BY <1>2, <1>3

\* A step of the dispatcher, where the operations can be seen.
LEMMA SeenKept ==
  ASSUME Shapes, Seen, Channel', op' \in [Ops -> OpState], d' \in Own,
         d'.engine >= d.engine, d.pc # "gone", d'.pc # "gone",
         \A o \in Ops : op[o].at \in {"answered", "cancelled"} => op'[o] = op[o],
         \A o \in Ops : op'[o].at = "running" =>
                          (op[o].at = "running" /\ op'[o].eng = op[o].eng) \/ op'[o].eng = d.engine,
         \A n \in done' : \/ n \in done
                          \/ n.engine = d.engine /\ op'[n.op].at \in {"answered", "cancelled"}
  PROVE  Seen'
<1>1. done \subseteq Notices /\ d \in Own
  BY ShapesFacts
<1>2. PICK e \in Engines : e = d.engine
  BY <1>1 DEF Own
<1>3. PICK f \in Engines : f = d'.engine
  BY DEF Own
<1>4. e \in Nat \ {0} /\ f \in Nat \ {0} /\ f >= e
  BY <1>2, <1>3, Bounds DEF Engines
<1>5. ASSUME NEW n \in done'
      PROVE  op'[n.op].at \in {"answered", "cancelled"} /\ n.engine =< d'.engine
  <2>1. CASE n \in done
    <3>1. n.op \in Ops /\ n.engine \in Engines
      BY <2>1, <1>1 DEF Notices
    <3>2. op[n.op].at \in {"answered", "cancelled"} /\ n.engine =< d.engine
      BY <2>1 DEF Seen
    <3>3. n.engine \in Nat
      BY <3>1, Bounds DEF Engines
    <3>. QED BY <3>1, <3>2, <3>3, <1>2, <1>3, <1>4
  <2>2. CASE n \notin done
    BY <2>2, <1>2, <1>3, <1>4
  <2>. QED BY <2>1, <2>2
<1>6. ASSUME NEW o \in Ops, op'[o].at = "running" PROVE op'[o].eng \in 1..d'.engine
  <2>1. op'[o].eng \in 1..e
    <3>1. op[o].at = "running" => op[o].eng \in 1..e
      BY <1>2 DEF Seen
    <3>. QED BY <1>2, <1>4, <1>6, <3>1
  <2>. QED BY <2>1, <1>3, <1>4
<1>. QED BY <1>5, <1>6 DEF Seen

\* The notices are taken, and it may be a worker started.
LEMMA RebuildsNoted ==
  ASSUME McpInv, Awake, NEW r, r = Drained, StartsWorker(r), d'.engine = d.engine,
         d'.failures = r.failures, d'.rebuilding = r.rebuilding, up' = up,
         \A n \in done' : n.outcome = "Inconclusive"
  PROVE  /\ Rebuilds' /\ tries' \in Nat /\ credit' \in Int
         /\ worker' \in [at : {"none", "builds", "built", "failed"}, eng : 0..MaxEngines]
<1>1. Shapes /\ Rebuilds
  BY DEF McpInv
<1>2. /\ tries \in Nat /\ credit \in Int /\ d \in Own
      /\ worker \in [at : {"none", "builds", "built", "failed"}, eng : 0..MaxEngines]
  BY <1>1, ShapesFacts
<1>3. /\ r \in Own
      /\ d.rebuilding => r.rebuilding
      /\ ~d.rebuilding /\ r.rebuilding =>
              credit >= 1 /\ tries + 1 =< MaxRestarts /\ tries + 1 =< r.failures
      /\ tries =< r.failures
  BY DrainedFacts
<1>4. ~Failed' /\ ~Worked'
  BY DEF Failed, Worked, Current
<1>5. CASE Started(r)
  <2>1. r.rebuilding /\ ~d.rebuilding
    BY <1>5 DEF Started
  <2>2. /\ worker' = [at |-> "builds", eng |-> 0] /\ tries' = tries + 1 /\ credit' = credit - 1
    BY <1>5 DEF StartsWorker
  <2>3. worker' \in [at : {"none", "builds", "built", "failed"}, eng : 0..MaxEngines]
    BY <2>2, Bounds
  <2>4. tries' \in Nat /\ credit' \in Int /\ credit' >= 0 /\ tries' =< MaxRestarts /\ tries' =< d'.failures
    BY <2>1, <2>2, <1>2, <1>3
  <2>. QED BY <2>1, <2>2, <2>3, <2>4, <1>4 DEF Rebuilds
<1>6. CASE ~Started(r)
  <2>1. worker' = worker /\ tries' = tries /\ credit' = credit
    BY <1>6 DEF StartsWorker
  <2>2. r.rebuilding <=> d.rebuilding
    BY <1>3, <1>6 DEF Started
  <2>3. Awake' /\ ~d'.rebuilding /\ (d'.engine \notin up' \/ Failed') => credit' >= 1
    BY <2>1, <2>2, <1>1, <1>4 DEF Rebuilds, Awake
  <2>. QED BY <2>1, <2>2, <2>3, <1>1, <1>2, <1>3, <1>4 DEF Rebuilds
<1>. QED BY <1>5, <1>6

\* recv(done_rx).
LEMMA SelectDoneKeeps ==
  ASSUME McpInv, SelectDone
  PROVE  McpInv'
<1>1. Shapes /\ Seen /\ Gate /\ Full /\ Rebuilds /\ Channel /\ Awake
  BY DEF McpInv, Seen, SelectDone, Awake
<1>2. PICK r : r = Drained /\ StartsWorker(r) /\ d' = [r EXCEPT !.pc = "top"]
  BY DEF SelectDone
<1>3. done' = {} /\ UNCHANGED <<cmds, op, up, doomed>> /\ d.pc = "select"
  BY DEF SelectDone
<1>4. /\ r \in Own /\ r.engine = d.engine /\ r.queued = d.queued /\ Counting(r)
      /\ IsFiniteSet(r.inflight) /\ r.inflight = {c \in Calls : op[c].at = "running"}
  BY <1>1, <1>2, DrainedFacts
<1>5. /\ d' \in Own /\ d'.pc = "top" /\ d'.engine = r.engine /\ d'.inflight = r.inflight
      /\ d'.queued = r.queued /\ d'.active = r.active /\ d'.waiting = r.waiting
      /\ d'.failures = r.failures /\ d'.rebuilding = r.rebuilding
  BY <1>2, <1>4, PlaceSet
<1>6. /\ Rebuilds' /\ tries' \in Nat /\ credit' \in Int
      /\ worker' \in [at : {"none", "builds", "built", "failed"}, eng : 0..MaxEngines]
  BY <1>1, <1>2, <1>3, <1>4, <1>5, RebuildsNoted
<1>7. Seen'
  <2>1. Channel'
    BY <1>1, <1>3, ChannelKept
  <2>2. d'.engine >= d.engine
    BY <1>1, <1>4, <1>5, ShapesFacts DEF Own, Engines
  <2>. QED BY <2>1, <2>2, <1>1, <1>3, <1>5, ShapesFacts, SeenKept
<1>8. Gate' /\ Full'
  <2>1. Slots' = {c \in Calls : op[c].at = "running"} /\ Parked' = Parked
    BY <1>3 DEF Slots, Noticed, Parked
  <2>2. Range(d.queued) = Parked
    BY <1>1, <1>3 DEF Gate
  <2>3. Counting(d')
    BY <1>4, <1>5 DEF Counting
  <2>. QED BY <2>1, <2>2, <2>3, <1>4, <1>5 DEF Gate, Full
<1>9. Shapes'
  BY <1>1, <1>3, <1>4, <1>5, <1>6, ShapesFacts, ShapesNext
<1>. QED BY <1>6, <1>7, <1>8, <1>9 DEF McpInv

\* recv(reconnect_rx) and recv(queue_timer).
LEMMA SelectReconnectKeeps ==
  ASSUME McpInv, SelectReconnect
  PROVE  McpInv'
<1>1. Shapes /\ Seen /\ Gate /\ Full /\ Rebuilds /\ Channel
  BY DEF McpInv, Seen
<1>2. /\ d.pc = "select" /\ worker.at \in {"built", "failed"}
      /\ UNCHANGED <<cmds, op, done, up, doomed, tries>>
      /\ worker' = [at |-> "none", eng |-> 0]
  BY DEF SelectReconnect
<1>3. d \in Own /\ credit \in Int /\ credit >= 0 /\ done \subseteq Notices
  BY <1>1, ShapesFacts DEF Rebuilds
<1>4. PICK e \in Engines : e = IF worker.at = "built" THEN worker.eng ELSE d.engine
  <2>1. CASE worker.at = "built"
    <3>1. worker.eng = d.engine + 1 /\ worker.eng \in 0..MaxEngines /\ d.engine \in Engines
      BY <2>1, <1>1, <1>3, ShapesFacts DEF Rebuilds, Own
    <3>2. worker.eng \in Engines
      BY <3>1, Bounds DEF Engines
    <3>. QED BY <2>1, <3>2
  <2>2. CASE worker.at # "built"
    BY <2>2, <1>3 DEF Own
  <2>. QED BY <2>1, <2>2
<1>5. PICK no \in Flags : no = FALSE
  BY DEF Flags
<1>6. d' = [d EXCEPT !.rebuilding = no, !.pc = "top", !.engine = e]
  BY <1>4, <1>5 DEF SelectReconnect
<1>7. d' = [pc |-> "top", engine |-> e, inflight |-> d.inflight, queued |-> d.queued,
            active |-> d.active, waiting |-> d.waiting, failures |-> d.failures, rebuilding |-> no]
  BY <1>3, <1>6 DEF Own
<1>8. /\ d' \in Own /\ d'.pc = "top" /\ d'.engine = e /\ d'.inflight = d.inflight
      /\ d'.queued = d.queued /\ d'.active = d.active /\ d'.waiting = d.waiting
      /\ d'.failures = d.failures /\ d'.rebuilding = no
  BY <1>3, <1>4, <1>5, <1>7 DEF Own
<1>9. worker.at = "built" => e = d.engine + 1
  BY <1>1, <1>4 DEF Rebuilds
<1>10. worker.at = "failed" => e = d.engine /\ credit' = credit /\ credit >= 1
  BY <1>1, <1>4 DEF Rebuilds, SelectReconnect
<1>11. worker.at = "built" => credit' = IF e \in up THEN 0 ELSE 1
  BY <1>4 DEF SelectReconnect
<1>12. d.engine \in Nat /\ e \in Nat /\ e >= d.engine
  <2>1. d.engine \in Nat /\ e \in Nat
    BY <1>3, <1>4, Bounds DEF Own, Engines
  <2>. QED BY <2>1, <1>2, <1>9, <1>10
<1>13. Seen'
  <2>1. Channel'
    BY <1>1, <1>2, ChannelKept
  <2>. QED BY <2>1, <1>1, <1>2, <1>8, <1>12, ShapesFacts, SeenKept
<1>14. Gate' /\ Full'
  <2>1. Slots' = Slots /\ Parked' = Parked
    BY <1>2 DEF Slots, Noticed, Parked
  <2>2. Counting(d')
    BY <1>1, <1>2, <1>8 DEF Gate, Counting
  <2>. QED BY <2>1, <2>2, <1>1, <1>2, <1>8 DEF Gate, Full
<1>15. Rebuilds'
  <2>1. CASE worker.at = "failed"
    <3>1. credit' >= 1
      BY <2>1, <1>3, <1>10
    <3>2. Worked' <=> Worked
      BY <2>1, <1>2, <1>8, <1>10 DEF Worked, Current
    <3>3. d'.rebuilding = FALSE /\ worker'.at = "none" /\ credit' >= 0
      BY <3>1, <1>2, <1>3, <1>5, <1>8, <1>10, <2>1
    <3>. QED BY <3>1, <3>2, <3>3, <1>1, <1>2, <1>8 DEF Rebuilds
  <2>2. CASE worker.at = "built"
    <3>1. \A n \in done : n.engine # e
      <4>1. \A n \in done : n.engine =< d.engine /\ n.engine \in Nat
        BY <1>1, <1>3, Bounds DEF Seen, Notices, Engines
      <4>. QED BY <4>1, <2>2, <1>9, <1>12
    <3>2. ~Failed' /\ ~Worked'
      BY <3>1, <1>2, <1>8 DEF Failed, Worked, Current
    <3>3. d'.rebuilding = FALSE /\ worker'.at = "none" /\ credit' >= 0
      BY <2>2, <1>2, <1>5, <1>8, <1>11
    <3>4. e \notin up' => credit' >= 1
      BY <2>2, <1>2, <1>11
    <3>. QED BY <3>2, <3>3, <3>4, <1>1, <1>2, <1>8 DEF Rebuilds
  <2>. QED BY <2>1, <2>2, <1>2
<1>16. Shapes'
  <2>1. credit' \in Int
    BY <1>2, <1>3, <1>10, <1>11
  <2>2. worker' \in [at : {"none", "builds", "built", "failed"}, eng : 0..MaxEngines]
    BY <1>2, Bounds
  <2>3. IsFiniteSet(d'.inflight)
    BY <1>1, <1>8, ShapesFacts
  <2>. QED BY <2>1, <2>2, <2>3, <1>1, <1>2, <1>8, ShapesFacts, ShapesNext
<1>. QED BY <1>13, <1>14, <1>15, <1>16 DEF McpInv

\* The dispatcher turns to its loop top with what the gate counts as it was.
LEMMA SelectTimerKeeps ==
  ASSUME McpInv, SelectTimer
  PROVE  McpInv'
<1>1. Shapes /\ Seen /\ Gate /\ Full /\ Rebuilds /\ Channel
  BY DEF McpInv, Seen
<1>2. /\ d.pc = "select" /\ d' = [d EXCEPT !.pc = "top"]
      /\ UNCHANGED <<cmds, op, done, worker, up, doomed, tries, credit>>
  BY DEF SelectTimer
<1>3. d \in Own
  BY <1>1, ShapesFacts
<1>4. /\ d' \in Own /\ d'.pc = "top" /\ d'.engine = d.engine /\ d'.inflight = d.inflight
      /\ d'.queued = d.queued /\ d'.active = d.active /\ d'.waiting = d.waiting
      /\ d'.failures = d.failures /\ d'.rebuilding = d.rebuilding
  BY <1>2, <1>3, PlaceSet
<1>5. Seen'
  BY <1>1, <1>2, <1>4 DEF Seen, Channel
<1>6. Gate' /\ Full'
  <2>1. Slots' = Slots /\ Parked' = Parked
    BY <1>2 DEF Slots, Noticed, Parked
  <2>2. Counting(d')
    BY <1>1, <1>2, <1>4 DEF Gate, Counting
  <2>. QED BY <2>1, <2>2, <1>1, <1>2, <1>4 DEF Gate, Full
<1>7. Rebuilds'
  BY <1>1, <1>2, <1>4 DEF Rebuilds, Awake, Failed, Worked, Current
<1>8. Shapes'
  BY <1>1, <1>2, <1>4, ShapesFacts, ShapesNext
<1>. QED BY <1>5, <1>6, <1>7, <1>8 DEF McpInv

\* A command is taken: what every command has in common.
LEMMA RebuildsTurned ==
  ASSUME Rebuilds, d.pc = "select", d'.engine = d.engine, d'.failures = d.failures,
         d'.rebuilding = d.rebuilding, UNCHANGED <<worker, up, tries, credit>>,
         \A n \in done' : n \in done \/ n.outcome = "Inconclusive"
  PROVE  Rebuilds'
<1>1. Failed' => Failed
  BY DEF Failed, Current
<1>2. Worked' => Worked
  BY DEF Worked, Current
<1>. QED BY <1>1, <1>2 DEF Rebuilds, Awake

\* A call is admitted into a free slot.
LEMMA AdmitKeeps ==
  ASSUME McpInv, NEW c \in Calls, AdmitCall(c)
  PROVE  McpInv'
<1>1. Shapes /\ Seen /\ Gate /\ Full /\ Rebuilds /\ Channel
  BY DEF McpInv, Seen
<1>2. /\ Takes(<<"op", c>>) /\ d.pc = "select" /\ d.active < Cap
      /\ UNCHANGED <<worker, up, doomed, tries, credit>>
  BY DEF AdmitCall, Takes, Admits
<1>3. op \in [Ops -> OpState] /\ d \in Own /\ done \subseteq Notices /\ IsFiniteSet(d.inflight)
  BY <1>1, ShapesFacts
<1>4. c \in Ops /\ d.engine \in Engines /\ d.active \in Nat /\ d.inflight \subseteq Calls
  BY <1>3, Bounds DEF Own
<1>5. PICK L \in SUBSET {c} : /\ op' = Spawned(op, {c}, L, d.engine)
                              /\ done' = done \cup TooLate(L, d.engine)
  BY DEF AdmitCall
<1>6. /\ op' \in [Ops -> OpState]
      /\ \A o \in Ops : /\ o \in L => op'[o].at = "answered"
                        /\ o \in {c} /\ o \notin L => op'[o].at = "running" /\ op'[o].eng = d.engine
                        /\ o \notin {c} => op'[o] = op[o]
      /\ \A n \in TooLate(L, d.engine) : /\ n \in Notices /\ n.op \in L /\ n.engine = d.engine
                                         /\ n.outcome = "Inconclusive"
      /\ \A b \in L : \E n \in TooLate(L, d.engine) : n.op = b
  <2>1. PICK S : S = {c}
    OBVIOUS
  <2>2. S \in SUBSET Calls /\ L \in SUBSET S /\ op' = Spawned(op, S, L, d.engine)
    BY <2>1, <1>5
  <2>3. PICK e \in Engines : e = d.engine
    BY <1>4
  <2>4. op' = Spawned(op, S, L, e)
    BY <2>2, <2>3
  <2>5. /\ op' \in [Ops -> OpState]
        /\ \A o \in Ops : /\ o \in L => op'[o].at = "answered"
                          /\ o \in S /\ o \notin L => op'[o].at = "running" /\ op'[o].eng = e
                          /\ o \notin S => op'[o] = op[o]
    BY <2>2, <2>3, <2>4, <1>3, SpawnedFacts
  <2>6. /\ \A n \in TooLate(L, e) : /\ n \in Notices /\ n.op \in L /\ n.engine = e
                                    /\ n.outcome = "Inconclusive"
        /\ \A b \in L : \E n \in TooLate(L, e) : n.op = b
    BY <2>2, <2>3, TooLateFacts
  <2>. QED BY <2>1, <2>3, <2>5, <2>6
<1>7. op[c].at = "sent" /\ Channel' /\ cmds' \in Seq(Commands)
  <2>1. \A o \in Ops : op[o].at = "sent" /\ <<"op", c>> # <<"op", o>> => op'[o].at = "sent"
    BY <1>6
  <2>. QED BY <2>1, <1>1, <1>2, <1>4, ChannelTaken
<1>8. PICK I : I = d.inflight \cup {c}
  OBVIOUS
<1>9. PICK a \in Nat : a = d.active + 1
  BY <1>4
<1>10. d' = [pc |-> "top", engine |-> d.engine, inflight |-> I, queued |-> d.queued,
             active |-> a, waiting |-> d.waiting, failures |-> d.failures,
             rebuilding |-> d.rebuilding]
  <2>1. d' = [[d EXCEPT !.active = a, !.inflight = I] EXCEPT !.pc = "top"]
    BY <1>8, <1>9 DEF AdmitCall, Turns
  <2>. QED BY <2>1, <1>3 DEF Own
<1>11. /\ d' \in Own /\ d'.pc = "top" /\ d'.engine = d.engine /\ d'.inflight = I
       /\ d'.queued = d.queued /\ d'.active = a /\ d'.waiting = d.waiting
       /\ d'.failures = d.failures /\ d'.rebuilding = d.rebuilding
  <2>1. I \subseteq Calls
    BY <1>4, <1>8
  <2>. QED BY <2>1, <1>3, <1>9, <1>10 DEF Own
<1>12. ~Noticed(c) /\ c \notin d.inflight
  <2>1. ~Noticed(c)
    BY <1>1, <1>7 DEF Seen, Noticed
  <2>. QED BY <2>1, <1>1, <1>2, <1>7 DEF Gate, Slots
<1>13. Seen'
  <2>1. \A o \in Ops : op[o].at \in {"answered", "cancelled"} => op'[o] = op[o]
    BY <1>6, <1>7
  <2>2. \A o \in Ops : op'[o].at = "running" =>
          (op[o].at = "running" /\ op'[o].eng = op[o].eng) \/ op'[o].eng = d.engine
    BY <1>6
  <2>3. \A n \in done' : \/ n \in done
                         \/ n.engine = d.engine /\ op'[n.op].at \in {"answered", "cancelled"}
    BY <1>4, <1>5, <1>6, ZenonT(40)
  <2>4. d'.engine >= d.engine
    BY <1>4, <1>11, Bounds DEF Engines
  <2>. QED BY <2>1, <2>2, <2>3, <2>4, <1>1, <1>2, <1>6, <1>7, <1>11, SeenKept
<1>14. Gate' /\ Full'
  <2>1. Parked' = Parked
    BY <1>6, <1>7, Bounds DEF Parked
  <2>2. \A b \in Calls : b # c => (Noticed(b)' <=> Noticed(b)) /\ op'[b] = op[b]
    <3>1. \A n \in TooLate(L, d.engine) : n.op = c
      BY <1>6
    <3>2. \A b \in Calls : b # c => (Noticed(b)' <=> Noticed(b))
      BY <3>1, <1>5 DEF Noticed
    <3>3. \A b \in Calls : b # c => op'[b] = op[b]
      BY <1>6, Bounds
    <3>. QED BY <3>2, <3>3
  <2>3. op'[c].at = "running" \/ Noticed(c)'
    BY <1>4, <1>5, <1>6 DEF Noticed
  <2>4. Slots' = Slots \cup {c}
    BY <2>2, <2>3 DEF Slots
  <2>5. Counting(d) /\ Range(d.queued) = Parked /\ d.inflight = Slots
    BY <1>1, <1>2 DEF Gate
  <2>6. Cardinality(I) = a
    BY <1>3, <1>8, <1>9, <1>12, <2>5, FS_AddElement, ZenonT(40) DEF Counting
  <2>7. a =< Cap
    BY <1>2, <1>4, <1>9, Bounds
  <2>8. Counting(d')
    BY <2>5, <2>6, <2>7, <1>11 DEF Counting
  <2>. QED BY <2>1, <2>4, <2>5, <2>8, <1>8, <1>11 DEF Gate, Full
<1>15. Rebuilds'
  BY <1>1, <1>2, <1>5, <1>6, <1>11, RebuildsTurned
<1>16. Shapes'
  <2>1. done' \subseteq Notices
    BY <1>3, <1>5, <1>6
  <2>2. IsFiniteSet(d'.inflight)
    BY <1>3, <1>8, <1>11, FS_AddElement
  <2>. QED BY <2>1, <2>2, <1>1, <1>2, <1>6, <1>7, <1>11, ShapesFacts, ShapesNext
<1>. QED BY <1>13, <1>14, <1>15, <1>16 DEF McpInv

\* A call is parked at the end of the queue.
LEMMA ParkKeeps ==
  ASSUME McpInv, NEW c \in Calls, ParkCall(c)
  PROVE  McpInv'
<1>1. Shapes /\ Seen /\ Gate /\ Full /\ Rebuilds /\ Channel
  BY DEF McpInv, Seen
<1>2. /\ Takes(<<"op", c>>) /\ d.pc = "select"
      /\ UNCHANGED <<done, worker, up, doomed, tries, credit>>
  BY DEF ParkCall, Takes
<1>3. op \in [Ops -> OpState] /\ d \in Own /\ done \subseteq Notices /\ IsFiniteSet(d.inflight)
  BY <1>1, ShapesFacts
<1>4. c \in Ops /\ d.engine \in Engines /\ d.waiting \in Nat /\ d.queued \in Seq(Calls) /\ op[c] \in OpState
  BY <1>3, Bounds DEF Own
<1>5. PICK x : x = [op[c] EXCEPT !.at = "queued"]
  OBVIOUS
<1>6. x \in OpState /\ x.at = "queued"
  BY <1>4, <1>5 DEF OpState, Ats
<1>7. op' = [op EXCEPT ![c] = x]
  BY <1>3, <1>4, <1>5 DEF ParkCall
<1>8. op' \in [Ops -> OpState] /\ op'[c] = x /\ \A p \in Ops : p # c => op'[p] = op[p]
  BY <1>3, <1>4, <1>6, <1>7, OpMoves
<1>9. op[c].at = "sent" /\ Channel' /\ cmds' \in Seq(Commands)
  <2>1. \A o \in Ops : op[o].at = "sent" /\ <<"op", c>> # <<"op", o>> => op'[o].at = "sent"
    BY <1>8
  <2>. QED BY <2>1, <1>1, <1>2, <1>4, ChannelTaken
<1>10. PICK w \in Nat : w = d.waiting + 1
  BY <1>4
<1>11. PICK q : q = Append(d.queued, c)
  OBVIOUS
<1>12. PICK m \in Nat : m = Len(d.queued)
  BY <1>4, LenProperties
<1>13. /\ q \in Seq(Calls) /\ Len(q) = m + 1 /\ q[m + 1] = c
       /\ \A i \in 1..m : q[i] = d.queued[i]
  BY <1>4, <1>11, <1>12, AppendProperties
<1>14. DOMAIN d.queued = 1..m /\ DOMAIN q = 1..(m + 1)
  BY <1>4, <1>12, <1>13, LenProperties
<1>15. d' = [pc |-> "top", engine |-> d.engine, inflight |-> d.inflight, queued |-> q,
             active |-> d.active, waiting |-> w, failures |-> d.failures,
             rebuilding |-> d.rebuilding]
  <2>1. d' = [[d EXCEPT !.waiting = w, !.queued = q] EXCEPT !.pc = "top"]
    BY <1>10, <1>11 DEF ParkCall, Turns
  <2>. QED BY <2>1, <1>3 DEF Own
<1>16. /\ d' \in Own /\ d'.pc = "top" /\ d'.engine = d.engine /\ d'.inflight = d.inflight
       /\ d'.queued = q /\ d'.active = d.active /\ d'.waiting = w
       /\ d'.failures = d.failures /\ d'.rebuilding = d.rebuilding
  BY <1>3, <1>10, <1>13, <1>15 DEF Own
<1>17. Seen'
  <2>1. \A o \in Ops : op[o].at \in {"answered", "cancelled"} => op'[o] = op[o]
    BY <1>8, <1>9
  <2>2. \A o \in Ops : op'[o].at = "running" => op[o].at = "running" /\ op'[o].eng = op[o].eng
    BY <1>6, <1>8
  <2>3. d'.engine >= d.engine
    BY <1>4, <1>16, Bounds DEF Engines
  <2>. QED BY <2>1, <2>2, <2>3, <1>1, <1>2, <1>8, <1>9, <1>16, SeenKept
<1>18. Gate' /\ Full'
  <2>1. Counting(d) /\ Range(d.queued) = Parked /\ d.inflight = Slots
    BY <1>1, <1>2 DEF Gate
  <2>2. Parked' = Parked \cup {c}
    BY <1>6, <1>8, <1>9, Bounds DEF Parked
  <2>3. Slots' = Slots
    BY <1>2, <1>6, <1>8, <1>9, Bounds DEF Slots, Noticed
  <2>4. \A i \in 1..(m + 1) : i \in 1..m \/ i = m + 1
    BY <1>12
  <2>5. Range(d.queued) = {d.queued[i] : i \in 1..m} /\ Range(q) = {q[i] : i \in 1..(m + 1)}
    BY <1>14 DEF Range
  <2>6. Range(q) = Range(d.queued) \cup {c}
    <3>1. ASSUME NEW y \in Range(q) PROVE y \in Range(d.queued) \cup {c}
      <4>1. PICK i \in 1..(m + 1) : y = q[i]
        BY <2>5, <3>1
      <4>. QED BY <4>1, <2>4, <2>5, <1>13
    <3>2. ASSUME NEW y \in Range(d.queued) PROVE y \in Range(q)
      <4>1. PICK i \in 1..m : y = d.queued[i]
        BY <2>5, <3>2
      <4>2. i \in 1..(m + 1) /\ q[i] = y
        BY <4>1, <1>13
      <4>. QED BY <4>2, <2>5
    <3>3. c \in Range(q)
      <4>1. m + 1 \in 1..(m + 1)
        BY <1>12
      <4>. QED BY <4>1, <2>5, <1>13
    <3>. QED BY <3>1, <3>2, <3>3
  <2>7. \A i \in 1..m : q[i] # c
    <3>1. c \notin Range(d.queued)
      BY <2>1, <1>9 DEF Parked
    <3>. QED BY <3>1, <2>5, <1>13
  <2>8. \A i, j \in 1..m : q[i] = q[j] => i = j
    BY <2>1, <1>13, <1>14 DEF Counting
  <2>9. \A i, j \in 1..(m + 1) : q[i] = q[j] => i = j
    BY <2>4, <2>7, <2>8, <1>13
  <2>10. Counting(d')
    <3>1. w = Len(q)
      BY <2>1, <1>10, <1>12, <1>13 DEF Counting
    <3>. QED BY <2>1, <2>9, <3>1, <1>14, <1>16 DEF Counting
  <2>. QED BY <2>1, <2>2, <2>3, <2>6, <2>10, <1>16 DEF Gate, Full
<1>19. Rebuilds'
  BY <1>1, <1>2, <1>16, RebuildsTurned
<1>20. Shapes'
  BY <1>1, <1>2, <1>3, <1>8, <1>9, <1>16, ShapesFacts, ShapesNext
<1>. QED BY <1>17, <1>18, <1>19, <1>20 DEF McpInv

\* A listing starts, whatever the gate says.
LEMMA ListingKeeps ==
  ASSUME McpInv, NEW l \in Listings, StartListing(l)
  PROVE  McpInv'
<1>1. Shapes /\ Seen /\ Gate /\ Full /\ Rebuilds /\ Channel
  BY DEF McpInv, Seen
<1>2. /\ Takes(<<"op", l>>) /\ d.pc = "select" /\ d' = [d EXCEPT !.pc = "top"]
      /\ UNCHANGED <<done, worker, up, doomed, tries, credit>>
  BY DEF StartListing, Takes, Turns
<1>3. op \in [Ops -> OpState] /\ d \in Own /\ done \subseteq Notices /\ IsFiniteSet(d.inflight)
  BY <1>1, ShapesFacts
<1>4. l \in Ops /\ l \notin Calls /\ d.engine \in Engines /\ op[l] \in OpState
  BY <1>3, Bounds DEF Own, Ops
<1>5. PICK x : x = [op[l] EXCEPT !.at = "running", !.eng = d.engine]
  OBVIOUS
<1>6. x \in OpState /\ x.at = "running" /\ x.eng = d.engine
  <2>1. d.engine \in 0..MaxEngines
    BY <1>4, Bounds DEF Engines
  <2>. QED BY <2>1, <1>4, <1>5 DEF OpState, Ats
<1>7. op' = [op EXCEPT ![l] = x]
  BY <1>3, <1>4, <1>5 DEF StartListing
<1>8. op' \in [Ops -> OpState] /\ op'[l] = x /\ \A p \in Ops : p # l => op'[p] = op[p]
  BY <1>3, <1>4, <1>6, <1>7, OpMoves
<1>9. op[l].at = "sent" /\ Channel' /\ cmds' \in Seq(Commands)
  <2>1. \A o \in Ops : op[o].at = "sent" /\ <<"op", l>> # <<"op", o>> => op'[o].at = "sent"
    BY <1>8
  <2>. QED BY <2>1, <1>1, <1>2, <1>4, ChannelTaken
<1>10. /\ d' \in Own /\ d'.pc = "top" /\ d'.engine = d.engine /\ d'.inflight = d.inflight
       /\ d'.queued = d.queued /\ d'.active = d.active /\ d'.waiting = d.waiting
       /\ d'.failures = d.failures /\ d'.rebuilding = d.rebuilding
  BY <1>2, <1>3, PlaceSet
<1>11. Seen'
  <2>1. \A o \in Ops : op[o].at \in {"answered", "cancelled"} => op'[o] = op[o]
    BY <1>8, <1>9
  <2>2. \A o \in Ops : op'[o].at = "running" =>
          (op[o].at = "running" /\ op'[o].eng = op[o].eng) \/ op'[o].eng = d.engine
    BY <1>6, <1>8
  <2>3. d'.engine >= d.engine
    BY <1>4, <1>10, Bounds DEF Engines
  <2>. QED BY <2>1, <2>2, <2>3, <1>1, <1>2, <1>8, <1>9, <1>10, SeenKept
<1>12. Gate' /\ Full'
  <2>1. \A b \in Calls : op'[b] = op[b]
    BY <1>4, <1>8, Bounds
  <2>2. Parked' = Parked /\ Slots' = Slots
    BY <2>1, <1>2 DEF Parked, Slots, Noticed
  <2>3. Counting(d')
    BY <1>1, <1>2, <1>10 DEF Gate, Counting
  <2>. QED BY <2>2, <2>3, <1>1, <1>2, <1>10 DEF Gate, Full
<1>13. Rebuilds'
  BY <1>1, <1>2, <1>10, RebuildsTurned
<1>14. Shapes'
  BY <1>1, <1>2, <1>3, <1>8, <1>9, <1>10, ShapesFacts, ShapesNext
<1>. QED BY <1>11, <1>12, <1>13, <1>14 DEF McpInv

\* A session cancel: running calls get their token, parked ones are answered.
LEMMA CancelKeeps ==
  ASSUME McpInv, NEW s \in Sessions, ApplyCancel(s)
  PROVE  McpInv'
<1>1. Shapes /\ Seen /\ Gate /\ Full /\ Rebuilds /\ Channel
  BY DEF McpInv, Seen
<1>2. /\ Takes(<<"cancel", s>>) /\ d.pc = "select"
      /\ UNCHANGED <<done, worker, up, doomed, tries, credit>>
  BY DEF ApplyCancel, Takes
<1>3. op \in [Ops -> OpState] /\ d \in Own /\ done \subseteq Notices /\ IsFiniteSet(d.inflight)
  BY <1>1, ShapesFacts
<1>4. d.engine \in Engines /\ d.waiting \in Nat /\ d.queued \in Seq(Calls)
  BY <1>3 DEF Own
<1>5. Counting(d) /\ Range(d.queued) = Parked /\ d.inflight = Slots
  BY <1>1, <1>2 DEF Gate
<1>6. PICK S : S = {c \in Range(d.queued) : SessionOf[c] = s}
  OBVIOUS
<1>7. S \subseteq Range(d.queued)
  BY <1>6
<1>8. PICK yes \in Flags : yes = TRUE
  BY DEF Flags
<1>9. PICK f : f = [o \in Ops |-> IF o \in d.inflight /\ SessionOf[o] = s /\ op[o].at = "running"
                                  THEN [op[o] EXCEPT !.cancel = yes] ELSE op[o]]
  OBVIOUS
<1>10. /\ f \in [Ops -> OpState]
       /\ \A o \in Ops : /\ f[o].at = op[o].at /\ f[o].eng = op[o].eng
                         /\ op[o].at # "running" => f[o] = op[o]
  <2>1. \A o \in Ops : op[o] \in OpState
    BY <1>3
  <2>2. \A x \in OpState : /\ [x EXCEPT !.cancel = yes] \in OpState
                           /\ [x EXCEPT !.cancel = yes].at = x.at
                           /\ [x EXCEPT !.cancel = yes].eng = x.eng
    BY DEF OpState
  <2>. QED BY <2>1, <2>2, <1>9
<1>11. op' = Answered(f, S, "cancelled")
  BY <1>6, <1>8, <1>9 DEF ApplyCancel
<1>12. /\ op' \in [Ops -> OpState]
       /\ \A o \in Ops : IF o \in S THEN op'[o].at = "cancelled" ELSE op'[o] = f[o]
  BY <1>10, <1>11, AnsweredFacts
<1>13. \A o \in Ops : o \in S => op[o].at = "queued"
  BY <1>5, <1>7 DEF Parked
<1>14. \A o \in Ops : o \notin S => op'[o].at = op[o].at /\ op'[o].eng = op[o].eng
  BY <1>10, <1>12
<1>15. Channel' /\ cmds' \in Seq(Commands)
  <2>1. \A o \in Ops : op[o].at = "sent" => op'[o].at = "sent"
    BY <1>13, <1>14
  <2>. QED BY <2>1, <1>1, <1>2, ChannelTaken
<1>16. PICK q : q = Without(d.queued, S)
  OBVIOUS
<1>17. \A i, j \in DOMAIN d.queued : d.queued[i] = d.queued[j] => i = j
  BY <1>5 DEF Counting
<1>18. /\ q \in Seq(Calls) /\ \A i, j \in DOMAIN q : q[i] = q[j] => i = j
       /\ Range(q) = Range(d.queued) \ S
       /\ IsFiniteSet(S) /\ Len(q) = Len(d.queued) - Cardinality(S)
  BY <1>4, <1>7, <1>16, <1>17, WithoutFacts
<1>19. PICK w : w = Max({0, d.waiting - Cardinality(S)})
  OBVIOUS
<1>20. w \in Nat /\ w = Len(q)
  <2>1. PICK n \in Nat : n = Len(q)
    BY <1>18, LenProperties
  <2>2. d.waiting - Cardinality(S) = n
    BY <1>5, <1>18, <2>1 DEF Counting
  <2>. QED BY <2>1, <2>2, <1>19, TwoNumbers
<1>21. d' = [pc |-> "top", engine |-> d.engine, inflight |-> d.inflight, queued |-> q,
             active |-> d.active, waiting |-> w, failures |-> d.failures,
             rebuilding |-> d.rebuilding]
  <2>1. d' = [[d EXCEPT !.queued = q, !.waiting = w] EXCEPT !.pc = "top"]
    BY <1>6, <1>16, <1>19 DEF ApplyCancel, Turns
  <2>. QED BY <2>1, <1>3 DEF Own
<1>22. /\ d' \in Own /\ d'.pc = "top" /\ d'.engine = d.engine /\ d'.inflight = d.inflight
       /\ d'.queued = q /\ d'.active = d.active /\ d'.waiting = w
       /\ d'.failures = d.failures /\ d'.rebuilding = d.rebuilding
  BY <1>3, <1>18, <1>20, <1>21 DEF Own
<1>23. Seen'
  <2>1. \A o \in Ops : op[o].at \in {"answered", "cancelled"} => op'[o] = op[o]
    BY <1>10, <1>12, <1>13
  <2>2. \A o \in Ops : op'[o].at = "running" => op[o].at = "running" /\ op'[o].eng = op[o].eng
    BY <1>12, <1>14
  <2>3. d'.engine >= d.engine
    BY <1>4, <1>22, Bounds DEF Engines
  <2>. QED BY <2>1, <2>2, <2>3, <1>1, <1>2, <1>12, <1>15, <1>22, SeenKept
<1>24. Gate' /\ Full'
  <2>1. Parked' = Parked \ S
    BY <1>12, <1>14, Bounds DEF Parked
  <2>2. Slots' = Slots
    BY <1>2, <1>12, <1>13, <1>14, Bounds DEF Slots, Noticed
  <2>3. Counting(d')
    BY <1>5, <1>18, <1>20, <1>22 DEF Counting
  <2>. QED BY <2>1, <2>2, <2>3, <1>5, <1>18, <1>22 DEF Gate, Full
<1>25. Rebuilds'
  BY <1>1, <1>2, <1>22, RebuildsTurned
<1>26. Shapes'
  BY <1>1, <1>2, <1>3, <1>12, <1>15, <1>22, ShapesFacts, ShapesNext
<1>. QED BY <1>23, <1>24, <1>25, <1>26 DEF McpInv

\* The engine is closed.
LEMMA ShutdownKeeps ==
  ASSUME McpInv, Shutdown
  PROVE  McpInv'
<1>1. Shapes /\ Seen /\ Gate /\ Full /\ Rebuilds /\ Channel
  BY DEF McpInv, Seen
<1>2. /\ Takes(<<"shutdown">>) /\ d.pc = "select" /\ d' = [d EXCEPT !.pc = "closing"]
      /\ UNCHANGED <<op, done, worker, doomed, tries, credit>> /\ up' \subseteq up
  BY DEF Shutdown, Takes
<1>3. op \in [Ops -> OpState] /\ d \in Own /\ done \subseteq Notices /\ IsFiniteSet(d.inflight)
  BY <1>1, ShapesFacts
<1>4. /\ d' \in Own /\ d'.pc = "closing" /\ d'.engine = d.engine /\ d'.inflight = d.inflight
      /\ d'.queued = d.queued /\ d'.active = d.active /\ d'.waiting = d.waiting
      /\ d'.failures = d.failures /\ d'.rebuilding = d.rebuilding
  BY <1>2, <1>3, PlaceSet
<1>5. Channel' /\ cmds' \in Seq(Commands)
  <2>1. \A o \in Ops : op[o].at = "sent" => op'[o].at = "sent"
    BY <1>2
  <2>. QED BY <2>1, <1>1, <1>2, ChannelTaken
<1>6. Seen'
  BY <1>1, <1>2, <1>4, <1>5 DEF Seen
<1>7. Gate' /\ Full'
  <2>1. Slots' = Slots /\ Parked' = Parked
    BY <1>2 DEF Slots, Noticed, Parked
  <2>2. Counting(d')
    BY <1>1, <1>2, <1>4 DEF Gate, Counting
  <2>. QED BY <2>1, <2>2, <1>1, <1>2, <1>4 DEF Gate, Full
<1>8. Rebuilds'
  <2>1. (Worked' <=> Worked) /\ ~Awake'
    BY <1>2, <1>4 DEF Worked, Current, Awake
  <2>. QED BY <2>1, <1>1, <1>2, <1>4 DEF Rebuilds
<1>9. Shapes'
  <2>1. up' \subseteq Engines
    BY <1>1, <1>2, ShapesFacts
  <2>. QED BY <2>1, <1>1, <1>2, <1>3, <1>4, <1>5, ShapesFacts, ShapesNext
<1>. QED BY <1>6, <1>7, <1>8, <1>9 DEF McpInv

\* The dispatcher returns, and everything it held is dropped.
LEMMA ExitKeeps ==
  ASSUME McpInv, Exit
  PROVE  McpInv'
<1>1. Shapes /\ Seen /\ Gate /\ Full /\ Rebuilds /\ Channel
  BY DEF McpInv, Seen
<1>2. /\ op' = Answered(op, Unstarted, "answered") /\ cmds' = <<>> /\ done' = {}
      /\ UNCHANGED <<worker, up, doomed, tries, credit>>
  BY DEF Exit
<1>3. op \in [Ops -> OpState] /\ d \in Own
  BY <1>1, ShapesFacts
<1>4. /\ op' \in [Ops -> OpState]
      /\ \A o \in Ops : IF o \in Unstarted THEN op'[o].at = "answered" ELSE op'[o] = op[o]
  BY <1>2, <1>3, AnsweredFacts
<1>5. PICK q : q = <<>>
  OBVIOUS
<1>6. PICK I : I = {}
  OBVIOUS
<1>7. d' = [pc |-> "gone", engine |-> d.engine, inflight |-> I, queued |-> q,
            active |-> 0, waiting |-> 0, failures |-> d.failures, rebuilding |-> d.rebuilding]
  <2>1. d' = [d EXCEPT !.pc = "gone", !.queued = q, !.inflight = I, !.active = 0, !.waiting = 0]
    BY <1>5, <1>6 DEF Exit
  <2>. QED BY <2>1, <1>3 DEF Own
<1>8. /\ d' \in Own /\ d'.pc = "gone" /\ d'.engine = d.engine /\ d'.inflight = I
      /\ d'.failures = d.failures /\ d'.rebuilding = d.rebuilding
  <2>1. q \in Seq(Calls) /\ I \in SUBSET Calls
    BY <1>5, <1>6
  <2>. QED BY <2>1, <1>3, <1>7 DEF Own
<1>9. Seen'
  <2>1. Channel'
    BY <1>2 DEF Channel
  <2>2. \A o \in Ops : op'[o].at = "running" => op'[o].eng \in 1..d'.engine
    BY <1>1, <1>4, <1>8 DEF Seen
  <2>. QED BY <2>1, <2>2, <1>2, <1>8 DEF Seen
<1>10. Gate' /\ Full'
  BY <1>8 DEF Gate, Full
<1>11. Rebuilds'
  <2>1. ~Failed' /\ ~Worked' /\ ~Awake'
    BY <1>2, <1>8 DEF Failed, Worked, Current, Awake
  <2>. QED BY <2>1, <1>1, <1>2, <1>8 DEF Rebuilds
<1>12. Shapes'
  <2>1. cmds' \in Seq(Commands) /\ IsFiniteSet(d'.inflight) /\ done' \subseteq Notices
    BY <1>2, <1>6, <1>8, FS_EmptySet, SMTT(30)
  <2>. QED BY <2>1, <1>1, <1>2, <1>4, <1>8, ShapesFacts, ShapesNext
<1>. QED BY <1>9, <1>10, <1>11, <1>12 DEF McpInv

\* The operations with a notice in the channel.
Notified == {n.op : n \in done}

\* The loop top: what it leaves of the queue and of the operations.
LEMMA TopFacts ==
  ASSUME McpInv, Top
  PROVE  \A r, x, S, L : r = Drained /\ x = Expired(r) /\ S = Range(Promoted(x)) /\ L = Notified' =>
           /\ StartsWorker(r) /\ r \in Own /\ Counting(r)
           /\ x \in Own /\ Counting(x) /\ x.rebuilding = r.rebuilding
           /\ r.queued = d.queued /\ x.queued = Without(d.queued, Late(r))
           /\ Late(r) \subseteq Range(d.queued)
           /\ S \subseteq Range(x.queued) /\ Range(x.queued) = Range(d.queued) \ Late(r)
           /\ x.rebuilding => S = {}
           /\ \E k \in 0..Len(x.queued) : S = {x.queued[i] : i \in 1..k}
           /\ d' \in Own /\ Counting(d') /\ d'.pc = "select" /\ d'.engine = d.engine
           /\ d'.failures = r.failures /\ d'.rebuilding = r.rebuilding
           /\ d'.queued = <<>> \/ d'.rebuilding \/ d'.active = Cap
           /\ Range(d'.queued) = Range(x.queued) \ S /\ IsFiniteSet(d'.inflight)
           /\ d'.inflight = {c \in Calls : op[c].at = "running"} \cup S
           /\ L \subseteq S /\ op' \in [Ops -> OpState]
           /\ \A o \in Ops : /\ o \in L => op'[o].at = "answered"
                             /\ o \in S /\ o \notin L => op'[o].at = "running" /\ op'[o].eng = d.engine
                             /\ o \in Late(r) => op'[o].at = "answered"
                             /\ o \notin S /\ o \notin Late(r) => op'[o] = op[o]
           /\ \A n \in done' : /\ n \in Notices /\ n.op \in L /\ n.engine = d.engine
                               /\ n.outcome = "Inconclusive"
           /\ \A c \in L : \E n \in done' : n.op = c
<1>1. SUFFICES ASSUME NEW r, NEW x, NEW S, NEW L, r = Drained, x = Expired(r),
                      S = Range(Promoted(x)), L = Notified'
               PROVE  /\ StartsWorker(r) /\ r \in Own /\ Counting(r)
                      /\ x \in Own /\ Counting(x) /\ x.rebuilding = r.rebuilding
                      /\ r.queued = d.queued /\ x.queued = Without(d.queued, Late(r))
                      /\ Late(r) \subseteq Range(d.queued)
                      /\ S \subseteq Range(x.queued) /\ Range(x.queued) = Range(d.queued) \ Late(r)
                      /\ x.rebuilding => S = {}
                      /\ \E k \in 0..Len(x.queued) : S = {x.queued[i] : i \in 1..k}
                      /\ d' \in Own /\ Counting(d') /\ d'.pc = "select" /\ d'.engine = d.engine
                      /\ d'.failures = r.failures /\ d'.rebuilding = r.rebuilding
                      /\ d'.queued = <<>> \/ d'.rebuilding \/ d'.active = Cap
                      /\ Range(d'.queued) = Range(x.queued) \ S /\ IsFiniteSet(d'.inflight)
                      /\ d'.inflight = {c \in Calls : op[c].at = "running"} \cup S
                      /\ L \subseteq S /\ op' \in [Ops -> OpState]
                      /\ \A o \in Ops : /\ o \in L => op'[o].at = "answered"
                                        /\ o \in S /\ o \notin L => op'[o].at = "running" /\ op'[o].eng = d.engine
                                        /\ o \in Late(r) => op'[o].at = "answered"
                                        /\ o \notin S /\ o \notin Late(r) => op'[o] = op[o]
                      /\ \A n \in done' : /\ n \in Notices /\ n.op \in L /\ n.engine = d.engine
                                          /\ n.outcome = "Inconclusive"
                      /\ \A c \in L : \E n \in done' : n.op = c
  OBVIOUS
<1>2. Shapes /\ Gate /\ Awake /\ d.pc = "top"
  BY DEF McpInv, Top, Awake
<1>3. op \in [Ops -> OpState] /\ d \in Own
  BY <1>2, ShapesFacts
<1>4. /\ StartsWorker(r) /\ d' = [Pumped(x) EXCEPT !.pc = "select"]
      /\ \E M \in SUBSET S :
           /\ op' = Spawned(Answered(op, Late(r), "answered"), S, M, d.engine)
           /\ done' = TooLate(M, d.engine)
  BY <1>1 DEF Top
<1>5. d' = [Pumped(x) EXCEPT !.pc = "select"]
  BY <1>4
<1>6. PICK M : /\ M \subseteq S /\ done' = TooLate(M, d.engine)
               /\ op' = Spawned(Answered(op, Late(r), "answered"), S, M, d.engine)
  BY <1>4
<1>7. L = M
  <2>1. \A c \in M : Notice(c, "Inconclusive", d.engine) \in done'
    BY <1>6 DEF TooLate
  <2>2. \A n \in done' : \E c \in M : n = Notice(c, "Inconclusive", d.engine)
    BY <1>6 DEF TooLate
  <2>3. \A c \in M : Notice(c, "Inconclusive", d.engine).op = c
    BY DEF Notice
  <2>4. \A c \in M : c \in L
    BY <2>1, <2>3, <1>1 DEF Notified
  <2>5. \A c \in L : c \in M
    BY <2>2, <2>3, <1>1 DEF Notified
  <2>. QED BY <2>4, <2>5
<1>8. /\ r \in Own /\ r.pc = d.pc /\ r.engine = d.engine /\ r.queued = d.queued
      /\ Counting(r) /\ IsFiniteSet(r.inflight)
      /\ r.inflight = {c \in Calls : op[c].at = "running"}
  BY <1>1, <1>2, DrainedFacts
<1>9. /\ x \in Own /\ Counting(x) /\ x.engine = r.engine
      /\ x.inflight = r.inflight /\ x.failures = r.failures /\ x.rebuilding = r.rebuilding
      /\ x.queued = Without(r.queued, Late(r)) /\ Late(r) \subseteq Range(r.queued)
      /\ Range(x.queued) = Range(r.queued) \ Late(r)
  BY <1>1, <1>8, ExpiredFacts
<1>10. Range(d.queued) = Parked
  BY <1>2 DEF Gate
<1>11. Range(x.queued) \cap x.inflight = {}
  BY <1>8, <1>9, <1>10 DEF Parked
<1>12. PICK y : y = Pumped(x)
  OBVIOUS
<1>13. /\ y \in Own /\ Counting(y) /\ IsFiniteSet(y.inflight)
       /\ y.engine = x.engine /\ y.failures = x.failures /\ y.rebuilding = x.rebuilding
       /\ y.inflight = x.inflight \cup S /\ S \subseteq Range(x.queued)
       /\ Range(y.queued) = Range(x.queued) \ S
       /\ x.rebuilding => S = {}
       /\ y.queued = <<>> \/ y.rebuilding \/ y.active = Cap
       /\ \E k \in 0..Len(x.queued) : S = {x.queued[i] : i \in 1..k}
  <2>1. IsFiniteSet(x.inflight)
    BY <1>8, <1>9
  <2>2. S = Range(Promoted(x))
    BY <1>1
  <2>3. x \in Own /\ Counting(x)
    BY <1>9
  <2>4. /\ y \in Own /\ Counting(y) /\ IsFiniteSet(y.inflight)
        /\ y.engine = x.engine /\ y.failures = x.failures /\ y.rebuilding = x.rebuilding
    BY <2>1, <2>2, <2>3, <1>11, <1>12, PumpedFacts
  <2>5. /\ y.inflight = x.inflight \cup S /\ S \subseteq Range(x.queued)
        /\ Range(y.queued) = Range(x.queued) \ S
        /\ x.rebuilding => S = {}
        /\ y.queued = <<>> \/ y.rebuilding \/ y.active = Cap
    BY <2>1, <2>2, <2>3, <1>11, <1>12, PumpedFacts
  <2>6. \E k \in 0..Len(x.queued) : S = {x.queued[i] : i \in 1..k}
    BY <2>1, <2>2, <2>3, <1>11, <1>12, PumpedFacts
  <2>. QED BY <2>4, <2>5, <2>6
<1>14. /\ d' \in Own /\ d'.pc = "select" /\ d'.engine = y.engine /\ d'.inflight = y.inflight
       /\ d'.queued = y.queued /\ d'.active = y.active /\ d'.waiting = y.waiting
       /\ d'.failures = y.failures /\ d'.rebuilding = y.rebuilding
  BY <1>5, <1>12, <1>13, PlaceSet
<1>15. Counting(d')
  BY <1>13, <1>14 DEF Counting
<1>16. PICK e \in Engines : e = d.engine
  BY <1>3 DEF Own
<1>17. PICK f : f = Answered(op, Late(r), "answered")
  OBVIOUS
<1>18. /\ f \in [Ops -> OpState]
       /\ \A o \in Ops : IF o \in Late(r) THEN f[o].at = "answered" ELSE f[o] = op[o]
  BY <1>3, <1>17, AnsweredFacts
<1>19. S \in SUBSET Calls /\ L \in SUBSET S
  <2>1. Parked \subseteq Calls
    BY DEF Parked
  <2>. QED BY <2>1, <1>6, <1>7, <1>8, <1>9, <1>10, <1>13
<1>20. op' = Spawned(f, S, L, e)
  BY <1>6, <1>7, <1>16, <1>17
<1>21. /\ op' \in [Ops -> OpState]
       /\ \A o \in Ops : /\ o \in L => op'[o].at = "answered"
                         /\ o \in S /\ o \notin L => op'[o].at = "running" /\ op'[o].eng = e
                         /\ o \notin S => op'[o] = f[o]
  <2>1. f \in [Ops -> OpState]
    BY <1>18
  <2>2. e \in Engines
    BY <1>16
  <2>3. op' \in [Ops -> OpState]
    <3>1. PICK g : g = Spawned(f, S, L, e)
      OBVIOUS
    <3>2. g \in [Ops -> OpState]
      BY <3>1, <2>1, <2>2, <1>19, SpawnedFacts
    <3>. QED BY <3>1, <3>2, <1>20
  <2>4. \A o \in Ops : /\ o \in L => op'[o].at = "answered"
                       /\ o \in S /\ o \notin L => op'[o].at = "running" /\ op'[o].eng = e
                       /\ o \notin S => op'[o] = f[o]
    BY <2>1, <2>2, <1>19, <1>20, SpawnedFacts
  <2>. QED BY <2>3, <2>4
<1>22. S \cap Late(r) = {}
  BY <1>9, <1>13
<1>23. \A o \in Ops : /\ o \in L => op'[o].at = "answered"
                      /\ o \in S /\ o \notin L => op'[o].at = "running" /\ op'[o].eng = d.engine
                      /\ o \in Late(r) => op'[o].at = "answered"
                      /\ o \notin S /\ o \notin Late(r) => op'[o] = op[o]
  BY <1>16, <1>18, <1>21, <1>22
<1>24. /\ \A n \in TooLate(L, e) : /\ n \in Notices /\ n.op \in L /\ n.engine = e
                                   /\ n.outcome = "Inconclusive"
       /\ \A c \in L : \E n \in TooLate(L, e) : n.op = c
  <2>1. L \subseteq Calls
    BY <1>19
  <2>. QED BY <2>1, <1>16, TooLateFacts
<1>25. /\ \A n \in done' : /\ n \in Notices /\ n.op \in L /\ n.engine = d.engine
                           /\ n.outcome = "Inconclusive"
       /\ \A c \in L : \E n \in done' : n.op = c
  BY <1>6, <1>7, <1>16, <1>24
<1>26. /\ d'.engine = d.engine /\ d'.failures = r.failures /\ d'.rebuilding = r.rebuilding
       /\ d'.queued = <<>> \/ d'.rebuilding \/ d'.active = Cap
       /\ Range(d'.queued) = Range(x.queued) \ S /\ IsFiniteSet(d'.inflight)
       /\ d'.inflight = {c \in Calls : op[c].at = "running"} \cup S
  BY <1>8, <1>9, <1>13, <1>14
<1>27. /\ x.queued = Without(d.queued, Late(r)) /\ Late(r) \subseteq Range(d.queued)
       /\ Range(x.queued) = Range(d.queued) \ Late(r)
  BY <1>8, <1>9
<1>28. /\ S \subseteq Range(x.queued)
       /\ x.rebuilding => S = {}
       /\ \E k \in 0..Len(x.queued) : S = {x.queued[i] : i \in 1..k}
  BY <1>13
<1>. QED BY <1>4, <1>8, <1>9, <1>14, <1>15, <1>19, <1>21, <1>23, <1>25, <1>26, <1>27, <1>28

\* The loop top keeps the invariant.
LEMMA TopKeeps ==
  ASSUME McpInv, Top
  PROVE  McpInv'
<1>1. Shapes /\ Seen /\ Gate /\ Full /\ Rebuilds /\ Channel /\ Awake /\ d.pc = "top"
  BY DEF McpInv, Seen, Top, Awake
<1>2. UNCHANGED <<cmds, up, doomed>>
  BY DEF Top
<1>3. PICK r : r = Drained
  OBVIOUS
<1>4. PICK x : x = Expired(r)
  OBVIOUS
<1>5. PICK S : S = Range(Promoted(x))
  OBVIOUS
<1>6. PICK L : L = Notified'
  OBVIOUS
<1>7. /\ StartsWorker(r)
      /\ Late(r) \subseteq Range(d.queued)
      /\ S \subseteq Range(x.queued) /\ Range(x.queued) = Range(d.queued) \ Late(r)
      /\ d' \in Own /\ Counting(d') /\ d'.pc = "select" /\ d'.engine = d.engine
      /\ d'.failures = r.failures /\ d'.rebuilding = r.rebuilding
      /\ d'.queued = <<>> \/ d'.rebuilding \/ d'.active = Cap
      /\ Range(d'.queued) = Range(x.queued) \ S /\ IsFiniteSet(d'.inflight)
      /\ d'.inflight = {c \in Calls : op[c].at = "running"} \cup S
      /\ L \subseteq S /\ op' \in [Ops -> OpState]
      /\ \A o \in Ops : /\ o \in L => op'[o].at = "answered"
                        /\ o \in S /\ o \notin L => op'[o].at = "running" /\ op'[o].eng = d.engine
                        /\ o \in Late(r) => op'[o].at = "answered"
                        /\ o \notin S /\ o \notin Late(r) => op'[o] = op[o]
      /\ \A n \in done' : /\ n \in Notices /\ n.op \in L /\ n.engine = d.engine
                          /\ n.outcome = "Inconclusive"
      /\ \A c \in L : \E n \in done' : n.op = c
  BY <1>3, <1>4, <1>5, <1>6, TopFacts
<1>8. Range(d.queued) = Parked
  BY <1>1 DEF Gate
<1>9. PICK T : T = Late(r)
  OBVIOUS
<1>10. \A o \in Ops : o \in S \/ o \in T => op[o].at = "queued"
  BY <1>7, <1>8, <1>9 DEF Parked
<1>11. Seen'
  <2>1. \A o \in Ops : op[o].at = "sent" => op'[o].at = "sent"
    BY <1>7, <1>9, <1>10
  <2>2. Channel'
    BY <2>1, <1>1, <1>2, ChannelKept
  <2>3. \A o \in Ops : op[o].at \in {"answered", "cancelled"} => op'[o] = op[o]
    BY <1>7, <1>9, <1>10
  <2>4. \A o \in Ops : op'[o].at = "running" =>
          (op[o].at = "running" /\ op'[o].eng = op[o].eng) \/ op'[o].eng = d.engine
    BY <1>7, <1>9
  <2>5. \A n \in done' : n.engine = d.engine /\ op'[n.op].at \in {"answered", "cancelled"}
    BY <1>7 DEF Notices
  <2>6. d'.engine >= d.engine
    BY <1>7, Bounds DEF Own, Engines
  <2>. QED BY <2>2, <2>3, <2>4, <2>5, <2>6, <1>1, <1>7, SeenKept
<1>12. Gate' /\ Full'
  <2>1. Parked' = (Parked \ T) \ S
    BY <1>7, <1>9, Bounds DEF Parked
  <2>2. \A c \in Calls : Noticed(c)' <=> c \in L
    BY <1>7 DEF Noticed
  <2>3. Slots' = {c \in Calls : op[c].at = "running"} \cup S
    <3>1. S \subseteq Calls
      BY <1>7, <1>8 DEF Parked
    <3>2. \A c \in Calls : c \in S => c \in L \/ op'[c].at = "running"
      BY <1>7, Bounds
    <3>3. \A c \in Calls : c \notin S => (op'[c].at = "running" <=> op[c].at = "running") /\ c \notin L
      BY <1>7, <1>9, <1>10, Bounds
    <3>4. \A c \in Calls : op[c].at = "running" => c \notin S
      BY <1>10, Bounds
    <3>. QED BY <2>2, <3>1, <3>2, <3>3, <3>4 DEF Slots
  <2>. QED BY <2>1, <2>3, <1>7, <1>8, <1>9 DEF Gate, Full
<1>13. /\ Rebuilds' /\ tries' \in Nat /\ credit' \in Int
      /\ worker' \in [at : {"none", "builds", "built", "failed"}, eng : 0..MaxEngines]
  BY <1>1, <1>2, <1>7, <1>3, RebuildsNoted
<1>14. Shapes'
  <2>1. done' \subseteq Notices
    BY <1>7
  <2>. QED BY <2>1, <1>1, <1>2, <1>7, <1>13, ShapesFacts, ShapesNext
<1>. QED BY <1>11, <1>12, <1>13, <1>14 DEF McpInv

-----------------------------------------------------------------------------
(* The theorems.                                                             *)

\* The dispatcher starts with one engine and nothing to do.
LEMMA InitMcp ==
  ASSUME Init
  PROVE  McpInv
<1>1. PICK q : q = <<>>
  OBVIOUS
<1>2. PICK I : I = {}
  OBVIOUS
<1>3. PICK no \in Flags : no = FALSE
  BY DEF Flags
<1>4. PICK x : x = [at |-> "new", eng |-> 0, cancel |-> no, late |-> no]
  OBVIOUS
<1>5. x \in OpState /\ x.at = "new"
  BY <1>3, <1>4, Bounds DEF OpState, Ats
<1>6. op = [o \in Ops |-> x]
  BY <1>3, <1>4 DEF Init
<1>7. d = [pc |-> "top", engine |-> 1, inflight |-> I, queued |-> q, active |-> 0,
           waiting |-> 0, failures |-> 0, rebuilding |-> no]
  BY <1>1, <1>2, <1>3 DEF Init
<1>8. /\ d \in Own /\ d.pc = "top" /\ d.engine = 1 /\ d.inflight = I /\ d.queued = q
      /\ d.active = 0 /\ d.waiting = 0 /\ d.failures = 0 /\ d.rebuilding = no
  <2>1. q \in Seq(Calls) /\ I \in SUBSET Calls /\ 1 \in Engines
    BY <1>1, <1>2, Bounds DEF Engines
  <2>. QED BY <2>1, <1>3, <1>7 DEF Own
<1>9. /\ cmds = <<>> /\ done = {} /\ worker = [at |-> "none", eng |-> 0] /\ up = {1}
      /\ doomed = {} /\ tries = 0 /\ credit = 0
  BY DEF Init
<1>10. Shapes
  <2>1. op \in [Ops -> OpState] /\ cmds \in Seq(Commands) /\ up \subseteq Engines
    BY <1>5, <1>6, <1>9, Bounds DEF Engines
  <2>2. worker \in [at : {"none", "builds", "built", "failed"}, eng : 0..MaxEngines]
    BY <1>9, Bounds
  <2>3. IsFiniteSet(d.inflight)
    BY <1>2, <1>8, FS_EmptySet
  <2>. QED BY <2>1, <2>2, <2>3, <1>8, <1>9
           DEF Shapes, TypeOK, Commands, Ats, OpState, Flags, Own, Notices
<1>11. \A o \in Ops : op[o].at = "new"
  BY <1>5, <1>6
<1>12. Seen
  BY <1>9, <1>11 DEF Seen, Channel
<1>13. Gate /\ Full
  <2>1. Parked = {} /\ Slots = {}
    BY <1>9, <1>11, Bounds DEF Parked, Slots, Noticed
  <2>2. Range(d.queued) = {}
    BY <1>1, <1>8 DEF Range
  <2>3. Counting(d)
    <3>1. Cardinality(I) = 0 /\ Len(q) = 0 /\ 0 =< Cap
      BY <1>1, <1>2, FS_EmptySet, Bounds
    <3>2. \A i, j \in DOMAIN q : q[i] = q[j] => i = j
      BY <1>1
    <3>. QED BY <3>1, <3>2, <1>8 DEF Counting
  <2>. QED BY <2>1, <2>2, <2>3, <1>2, <1>8 DEF Gate, Full
<1>14. Rebuilds
  <2>1. ~Failed /\ ~Worked
    BY <1>9 DEF Failed, Worked, Current
  <2>. QED BY <2>1, <1>3, <1>8, <1>9, Bounds DEF Rebuilds
<1>. QED BY <1>10, <1>12, <1>13, <1>14 DEF McpInv

\* Every step keeps the invariant.
LEMMA StepKeeps ==
  ASSUME McpInv, [Next]_vars
  PROVE  McpInv'
<1>1. CASE UNCHANGED vars
  BY <1>1 DEF vars, McpInv, Shapes, TypeOK, Seen, Channel, Gate, Counting, Parked, Slots,
              Noticed, Full, Rebuilds, Awake, Failed, Worked, Current
<1>2. CASE Next
  <2>1. CASE Dispatcher
    <3>1. \A o \in Ops : /\ (AdmitCall(o) \/ ParkCall(o) => o \in Calls)
                         /\ (StartListing(o) => o \in Listings)
      BY DEF AdmitCall, ParkCall, StartListing
    <3>. QED BY <2>1, <3>1, TopKeeps, SelectDoneKeeps, SelectReconnectKeeps, SelectTimerKeeps,
                ShutdownKeeps, ExitKeeps, AdmitKeeps, ParkKeeps, ListingKeeps, CancelKeeps
             DEF Dispatcher
  <2>2. CASE WorkerBuilds
    BY <2>2, WorkerKeeps
  <2>3. CASE \/ \E s \in Sessions : CancelSession(s)
             \/ DropServer
             \/ \E c \in Calls : Tick(c)
    BY <2>3, OutsideKeeps
  <2>4. CASE \E o \in Ops : Send(o)
    BY <2>4, SendKeeps
  <2>5. CASE \/ \E o \in Ops : TaskCompletes(o) \/ TaskFails(o) \/ TaskTimesOut(o)
             \/ \E c \in Calls : TaskCancelled(c)
    BY <2>5, TaskKeeps, Bounds
  <2>6. CASE \E e \in Engines : Break(e) \/ Recover(e)
    BY <2>6, TransportKeeps
  <2>. QED BY <1>2, <2>1, <2>2, <2>3, <2>4, <2>5, <2>6 DEF Next
<1>. QED BY <1>1, <1>2

\* The call gate, the command channel, the notices in flight and the state of
\* the reconnects agree in every reachable state, whatever the numbers of calls,
\* sessions, slots and engines.
THEOREM McpInvariant == Spec => []McpInv
<1>1. Init => McpInv
  BY InitMcp
<1>2. McpInv /\ [Next]_vars => McpInv'
  BY StepKeeps
<1>. QED BY <1>1, <1>2, PTL DEF Spec

\* In every reachable state the gate's counters are what they count: a call
\* holds one of the slots from its admission until its notice is applied, and
\* the waiting count is the length of the queue (gate.rs, dispatch.rs).
THEOREM GateStaysExact == Spec => []GateIsExact
<1>1. McpInv => GateIsExact
  <2>1. SUFFICES ASSUME McpInv PROVE GateIsExact
    OBVIOUS
  <2>2. Shapes /\ Gate /\ TypeOK /\ d \in Own
    BY <2>1, ShapesFacts DEF McpInv, Shapes
  <2>3. ASSUME d.pc # "gone"
        PROVE  /\ d.active = Cardinality(d.inflight) /\ d.active <= Cap
               /\ d.waiting = Len(d.queued) /\ Cardinality(Range(d.queued)) = Len(d.queued)
               /\ \A c \in Calls : /\ c \in Range(d.queued) <=> op[c].at = "queued"
                                   /\ (op[c].at = "running" \/ Noticed(c)) <=> c \in d.inflight
    <3>1. Counting(d) /\ Range(d.queued) = Parked /\ d.inflight = Slots
      BY <2>2, <2>3 DEF Gate
    <3>2. PICK q : q = d.queued
      OBVIOUS
    <3>3. q \in Seq(Calls) /\ \A i, j \in DOMAIN q : q[i] = q[j] => i = j
      BY <2>2, <3>1, <3>2 DEF Own, Counting
    <3>4. PICK m \in Nat : m = Len(q)
      BY <3>3, LenProperties
    <3>5. PICK p : p = FrontOf(q, m)
      OBVIOUS
    <3>6. m \in 0..Len(q)
      BY <3>4
    <3>7. /\ p \in Seq(Calls) /\ Len(p) = m /\ \A i \in 1..m : p[i] = q[i]
          /\ Cardinality(Range(p)) = m
      BY <3>3, <3>5, <3>6, SplitFacts
    <3>8. Range(p) = Range(q)
      <4>1. DOMAIN p = 1..m /\ DOMAIN q = 1..m
        BY <3>3, <3>4, <3>7, LenProperties
      <4>. QED BY <4>1, <3>7 DEF Range
    <3>9. Cardinality(Range(d.queued)) = Len(d.queued)
      BY <3>2, <3>4, <3>7, <3>8
    <3>. QED BY <3>1, <3>9 DEF Counting, Parked, Slots
  <2>. QED BY <2>2, <2>3 DEF GateIsExact
<1>. QED BY <1>1, McpInvariant, PTL

\* However many operations die with a connection, and however late their notices
\* come, a rebuild is started only after a fault, and no more than max_restarts
\* of them without an exchange that completed (apply_completions, note_failure).
THEOREM RebuildsStayBounded == Spec => []RebuildsAreBounded
<1>1. McpInv => RebuildsAreBounded
  BY DEF McpInv, Rebuilds, RebuildsAreBounded
<1>. QED BY <1>1, McpInvariant, PTL

\* Only the loop top and the admission of a call start one.
LEMMA NoneStarts ==
  ASSUME McpInv, [Next]_vars, ~Top, ~\E c \in Calls : AdmitCall(c)
  PROVE  \A c \in Calls : op'[c].at = "running" => op[c].at = "running"
<1>1. op \in [Ops -> OpState]
  BY ShapesFacts DEF McpInv
<1>2. CASE op' = op
  BY <1>2
<1>3. CASE \E o \in Ops : Send(o)
  <2>1. PICK o \in Ops : Send(o)
    BY <1>3
  <2>2. \A c \in Ops : op'[c].at = "running" => op[c].at = "running"
    BY <2>1, <1>1, SMTT(30) DEF Send, Answered, Answer, OpState
  <2>. QED BY <2>2, Bounds
<1>4. CASE \E o \in Ops : \E a \in {"answered", "cancelled"} : op' = [op EXCEPT ![o] = Answer(a)]
  <2>1. PICK o \in Ops, a \in {"answered", "cancelled"} : op' = [op EXCEPT ![o] = Answer(a)]
    BY <1>4
  <2>2. \A c \in Ops : op'[c].at = "running" => op[c].at = "running"
    BY <2>1, <1>1 DEF Answer
  <2>. QED BY <2>2, Bounds
<1>5. CASE \E c \in Calls : Tick(c) \/ ParkCall(c)
  <2>1. PICK o \in Ops : op' = [op EXCEPT ![o].late = TRUE] \/ op' = [op EXCEPT ![o].at = "queued"]
    BY <1>5, Bounds DEF Tick, ParkCall
  <2>2. \A c \in Ops : op'[c].at = "running" => op[c].at = "running"
    BY <2>1, <1>1 DEF OpState
  <2>. QED BY <2>2, Bounds
<1>6. CASE \E l \in Listings : StartListing(l)
  <2>1. PICK l \in Listings : op' = [op EXCEPT ![l].at = "running", ![l].eng = d.engine]
    BY <1>6 DEF StartListing
  <2>2. \A c \in Calls : c \in Ops /\ c # l
    BY Bounds
  <2>3. \A c \in Calls : op'[c] = op[c]
    BY <2>1, <2>2, <1>1
  <2>. QED BY <2>3
<1>7. CASE \E s \in Sessions : ApplyCancel(s)
  <2>1. \A c \in Ops : op'[c].at = "running" => op[c].at = "running"
    BY <1>1, <1>7 DEF ApplyCancel, Answered, Answer, OpState
  <2>. QED BY <2>1, Bounds
<1>8. CASE Exit
  <2>1. \A c \in Ops : op'[c].at = "running" => op[c].at = "running"
    BY <1>1, <1>8 DEF Exit, Answered, Answer
  <2>. QED BY <2>1, Bounds
<1>9. \A o \in Ops : TaskCompletes(o) \/ TaskFails(o) \/ TaskTimesOut(o) \/ TaskCancelled(o)
        => op' = [op EXCEPT ![o] = Answer("answered")] \/ op' = [op EXCEPT ![o] = Answer("cancelled")]
  BY DEF TaskCompletes, TaskFails, TaskTimesOut, TaskCancelled, Ends
<1>10. CASE UNCHANGED vars
  BY <1>2, <1>10 DEF vars
<1>11. CASE Next
  <2>1. CASE Dispatcher
    <3>1. CASE SelectDone \/ SelectReconnect \/ SelectTimer \/ Shutdown
      BY <1>2, <3>1 DEF SelectDone, SelectReconnect, SelectTimer, Shutdown
    <3>2. \A o \in Ops : /\ (AdmitCall(o) \/ ParkCall(o) => o \in Calls)
                         /\ (StartListing(o) => o \in Listings)
      BY DEF AdmitCall, ParkCall, StartListing
    <3>. QED BY <2>1, <3>1, <3>2, <1>5, <1>6, <1>7, <1>8 DEF Dispatcher
  <2>2. CASE \/ WorkerBuilds \/ DropServer
             \/ \E s \in Sessions : CancelSession(s)
             \/ \E e \in Engines : Break(e) \/ Recover(e)
    BY <1>2, <2>2 DEF WorkerBuilds, DropServer, CancelSession, Break, Recover
  <2>3. CASE \/ \E o \in Ops : TaskCompletes(o) \/ TaskFails(o) \/ TaskTimesOut(o)
             \/ \E c \in Calls : TaskCancelled(c)
    BY <2>3, <1>4, <1>9, Bounds
  <2>. QED BY <1>3, <1>5, <1>11, <2>1, <2>2, <2>3 DEF Next
<1>. QED BY <1>10, <1>11

\* A call the loop top starts: whoever was parked before it leaves the queue too.
LEMMA TopStartsInOrder ==
  ASSUME McpInv, Top, NEW c \in Calls, op[c].at \in {"sent", "queued"}, op'[c].at = "running"
  PROVE  /\ ~d.rebuilding /\ ~d'.rebuilding /\ op'[c].eng = d'.engine
         /\ \A b \in Range(Before(c)) : op'[b].at # "queued"
<1>1. Shapes /\ Gate /\ Awake /\ d \in Own /\ d.pc # "gone"
  BY ShapesFacts DEF McpInv, Top, Awake
<1>2. PICK r : r = Drained
  OBVIOUS
<1>3. PICK x : x = Expired(r)
  OBVIOUS
<1>4. PICK S : S = Range(Promoted(x))
  OBVIOUS
<1>5. PICK L : L = Notified'
  OBVIOUS
<1>6. /\ x.rebuilding = r.rebuilding /\ x.queued = Without(d.queued, Late(r))
      /\ Late(r) \subseteq Range(d.queued) /\ S \subseteq Range(x.queued)
      /\ Range(x.queued) = Range(d.queued) \ Late(r)
      /\ x.rebuilding => S = {}
      /\ d'.engine = d.engine /\ d'.rebuilding = r.rebuilding
  BY <1>2, <1>3, <1>4, <1>5, TopFacts
<1>7. \E k \in 0..Len(x.queued) : S = {x.queued[i] : i \in 1..k}
  BY <1>2, <1>3, <1>4, <1>5, TopFacts
<1>8. \A o \in Ops : /\ o \in L => op'[o].at = "answered"
                     /\ o \in S /\ o \notin L => op'[o].at = "running" /\ op'[o].eng = d.engine
                     /\ o \in Late(r) => op'[o].at = "answered"
                     /\ o \notin S /\ o \notin Late(r) => op'[o] = op[o]
  BY <1>2, <1>3, <1>4, <1>5, TopFacts
<1>9. c \in S /\ c \notin L
  BY <1>8, Bounds
<1>10. d.rebuilding => r.rebuilding
  BY <1>1, <1>2, DrainedFacts
<1>11. ~d.rebuilding /\ ~d'.rebuilding /\ op'[c].eng = d'.engine
  BY <1>6, <1>8, <1>9, <1>10, Bounds
<1>12. PICK q : q = d.queued
  OBVIOUS
<1>13. /\ q \in Seq(Calls) /\ Range(q) = Parked
       /\ \A i, j \in DOMAIN q : q[i] = q[j] => i = j
  BY <1>1, <1>12 DEF Gate, Own, Counting
<1>14. PICK m \in Nat : m = Len(q) /\ DOMAIN q = 1..m /\ \A i \in 1..m : q[i] \in Calls
  BY <1>13, LenProperties, ElementOfSeq
<1>15. c \in Range(q) /\ op[c].at = "queued"
  BY <1>6, <1>9, <1>12, <1>13 DEF Parked
<1>16. PICK j : j = CHOOSE i \in DOMAIN q : q[i] = c
  OBVIOUS
<1>17. j \in 1..m /\ q[j] = c
  BY <1>14, <1>15, <1>16 DEF Range
<1>18. Before(c) = FrontOf(q, j)
  BY <1>12, <1>15, <1>16 DEF Before, FrontOf
<1>19. \A b \in Range(Before(c)) : \E i \in 1..m : i =< j /\ q[i] = b
  <2>1. PICK p : p = FrontOf(q, j)
    OBVIOUS
  <2>2. p \in Seq(Calls) /\ Len(p) = j /\ \A i \in 1..j : p[i] = q[i]
    <3>1. j \in 0..Len(q)
      BY <1>14, <1>17
    <3>. QED BY <2>1, <3>1, <1>13, SplitFacts
  <2>3. DOMAIN p = 1..j
    BY <2>2, LenProperties
  <2>4. \A b \in Range(p) : \E i \in 1..j : q[i] = b
    BY <2>2, <2>3 DEF Range
  <2>5. \A i \in 1..j : i \in 1..m /\ i =< j
    BY <1>14, <1>17
  <2>. QED BY <2>1, <2>4, <2>5, <1>18
<1>20. PICK T : T = Late(r)
  OBVIOUS
<1>21. PICK t : t = x.queued
  OBVIOUS
<1>22. /\ t \in Seq(Calls)
       /\ \A i, k \in DOMAIN q : \A a \in DOMAIN t :
            i =< k /\ q[k] = t[a] /\ q[i] \notin T => \E b \in 1..a : t[b] = q[i]
  <2>1. T \subseteq Range(q) /\ t = Without(q, T)
    BY <1>6, <1>12, <1>20, <1>21
  <2>2. t \in Seq(Calls)
    BY <2>1, <1>13, WithoutFacts
  <2>3. \A i, k \in DOMAIN q : \A a \in DOMAIN t :
            i =< k /\ q[k] = t[a] /\ q[i] \notin T => \E b \in 1..a : t[b] = q[i]
    BY <2>1, <1>13, WithoutFacts
  <2>. QED BY <2>2, <2>3
<1>23. PICK k \in 0..Len(t) : S = {t[i] : i \in 1..k}
  BY <1>7, <1>21
<1>24. PICK n \in Nat : n = Len(t) /\ DOMAIN t = 1..n
  BY <1>22, LenProperties
<1>25. PICK a \in 1..k : t[a] = c
  BY <1>9, <1>23
<1>26. a \in DOMAIN t /\ \A b \in 1..a : b \in 1..k
  BY <1>23, <1>24, <1>25
<1>27. ASSUME NEW b \in Range(Before(c)) PROVE op'[b].at # "queued"
  <2>1. PICK i \in 1..m : i =< j /\ q[i] = b
    BY <1>19, <1>27
  <2>2. b \in Ops
    BY <2>1, <1>14, Bounds
  <2>3. CASE b \in T
    BY <2>2, <2>3, <1>8, <1>20
  <2>4. CASE b \notin T
    <3>1. \E e \in 1..a : t[e] = q[i]
      BY <2>1, <2>4, <1>14, <1>17, <1>22, <1>25, <1>26
    <3>2. b \in S
      BY <3>1, <2>1, <1>23, <1>26
    <3>. QED BY <3>2, <2>2, <1>8
  <2>. QED BY <2>3, <2>4
<1>. QED BY <1>11, <1>27

\* A call that is admitted finds the queue empty.
LEMMA AdmitStartsInOrder ==
  ASSUME McpInv, NEW a \in Calls, AdmitCall(a),
         NEW c \in Calls, op[c].at \in {"sent", "queued"}, op'[c].at = "running"
  PROVE  /\ ~d.rebuilding /\ ~d'.rebuilding /\ op'[c].eng = d'.engine
         /\ \A b \in Range(Before(c)) : op'[b].at # "queued"
<1>1. Shapes /\ Gate /\ Full /\ Channel /\ d \in Own /\ op \in [Ops -> OpState]
  BY ShapesFacts DEF McpInv, Seen
<1>2. /\ Takes(<<"op", a>>) /\ d.pc = "select" /\ ~d.rebuilding /\ d.active < Cap
  BY DEF AdmitCall, Takes, Admits
<1>3. PICK L \in SUBSET {a} : op' = Spawned(op, {a}, L, d.engine)
  BY DEF AdmitCall
<1>4. c = a /\ op'[c].eng = d.engine
  <2>1. \A o \in Ops : op'[o] = IF o \in L THEN Answer("answered")
                                ELSE IF o \in {a} THEN [Answer("running") EXCEPT !.eng = d.engine] ELSE op[o]
    BY <1>3 DEF Spawned
  <2>2. c \notin L
    BY <2>1, Bounds DEF Answer
  <2>3. c = a
    BY <2>1, <2>2, Bounds
  <2>4. op'[c] = [Answer("running") EXCEPT !.eng = d.engine]
    BY <2>1, <2>2, <2>3, Bounds
  <2>. QED BY <2>3, <2>4 DEF Answer
<1>5. d'.engine = d.engine /\ d'.rebuilding = d.rebuilding
  BY <1>1 DEF AdmitCall, Turns, Own
<1>6. op[c].at = "sent"
  <2>1. Range(d.queued) = Parked /\ d.active # Cap
    BY <1>1, <1>2, Bounds DEF Gate, Own
  <2>2. d.queued = <<>>
    BY <2>1, <1>1, <1>2 DEF Full
  <2>3. Range(d.queued) = {}
    BY <2>2 DEF Range
  <2>. QED BY <2>1, <2>3 DEF Parked
<1>7. Range(Before(c)) = {}
  <2>1. d.active # Cap
    BY <1>1, <1>2, Bounds DEF Own
  <2>2. Before(c) = <<>>
    BY <2>1, <1>1, <1>2, <1>6 DEF Full, Before
  <2>. QED BY <2>2 DEF Range
<1>. QED BY <1>2, <1>4, <1>5, <1>7

\* Calls start in order and on the engine in use: none while a rebuild is under
\* way, and none while a call that reached the dispatcher before it still waits
\* (admit, pump_queued).
THEOREM CallsStartInOrder == Spec => StartsInOrder
<1>1. ASSUME McpInv, [Next]_vars, NEW c \in Calls, op[c].at \in {"sent", "queued"},
             op'[c].at = "running"
      PROVE  /\ ~d.rebuilding /\ ~d'.rebuilding /\ op'[c].eng = d'.engine
             /\ \A b \in Range(Before(c)) : op'[b].at # "queued"
  BY <1>1, NoneStarts, TopStartsInOrder, AdmitStartsInOrder
<1>2. McpInv /\ [Next]_vars =>
        [\A c \in Calls : (op[c].at \in {"sent", "queued"} /\ op'[c].at = "running") =>
                        /\ ~d.rebuilding /\ ~d'.rebuilding /\ op'[c].eng = d'.engine
                        /\ \A b \in Range(Before(c)) : op'[b].at # "queued"]_vars
  BY <1>1
<1>. QED BY <1>2, McpInvariant, PTL DEF Spec, StartsInOrder
=============================================================================
