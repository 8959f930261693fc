------------------------------ MODULE OAuthProofs ------------------------------
(* Theorems about OAuth: one refresh of a credential at a time, every waiting  *)
(* refresh is answered, sign-ins that stand, a grant at rest that the server   *)
(* honours, tokens presented once, and a sound read view.                      *)
EXTENDS OAuth, FiniteSetTheorems, SequenceTheorems, TLAPS

-----------------------------------------------------------------------------
(* The inductive invariant, first part: the locks and the answers.           *)

Outs == {<<>>} \cup {<<c>> : c \in Commands}
WorkerState ==
  [key : Keys, pc : Pcs, handle : Locks \cup {0}, token : Tokens, seed : Tokens,
   cache : Tokens, out : Outs]
Flags == BOOLEAN
Counts == 0..MaxGrants
Record ==
  [cred : Tokens, blob : Tokens, access : Counts, dead : Flags, view : Tokens,
   ahead : Flags]

\* Every variable has its type.
Shapes ==
  /\ locked \in BOOLEAN /\ store \in [Keys -> Record]
  /\ queue \in Seq(Commands) /\ wk \in [Workers -> WorkerState]
  /\ registry \in [Keys -> Locks \cup {0}] /\ free \subseteq Locks
  /\ live \in [Keys -> SUBSET Tokens] /\ lost \in [Keys -> SUBSET Tokens]
  /\ grants \in [Keys -> 1..MaxGrants] /\ exchanges \in 0..MaxExchanges
  /\ \A k \in Keys : \A t \in live[k] : t.n =< exchanges

\* The workers' keys and handles, and the workers that hold a lock.
KeyOf == [w \in Workers |-> wk[w].key]
Handles == [w \in Workers |-> wk[w].handle]
Held == {w \in Workers : Holder(w)}

\* The registry knows the lock of every worker that has a handle, no two keys
\* share a lock, and a lock's token is in its channel or with its one holder.
LockPart ==
  /\ \A w \in Workers : Handles[w] # 0 => registry[KeyOf[w]] = Handles[w]
  /\ \A j, k \in Keys : registry[j] = registry[k] /\ registry[j] # 0 => j = k
  /\ \A w \in Held : Handles[w] # 0 /\ Handles[w] \notin free
  /\ \A v, w \in Held : Handles[v] = Handles[w] => v = w

\* What a worker has at each place of its refresh.
Waiting == {"loading", "saving"}
Place(u) ==
  /\ u.pc \in {"idle", "prune"} => u.handle = 0
  /\ u.pc \in {"wait", "load", "loading", "exchange", "saving", "release"} => u.handle # 0
  /\ u.pc \in Waiting \cup {"prune"} => u.key \in ProviderKeys
  /\ u.pc \in {"load", "publish", "send"} => u.key \in McpKeys
  /\ IF u.pc \in {"publish", "send"}
     THEN /\ u.out # <<>> /\ u.out[1].key = u.key
          /\ u.out[1].type \in {"OAuthSave", "OAuthClear", "AuthRejected"}
          /\ u.handle = 0 => u.out[1].type = "OAuthClear"
     ELSE u.out = <<>>
PlacePart == \A w \in Workers : Place(wk[w])

\* A worker's question is in the channel while, and only while, it waits, and
\* every command is about a key of its kind.
Asks(c) == c.type \in {"Load", "Save"}
Asked(c, u) ==
  /\ c.key = u.key /\ u.pc = IF c.type = "Load" THEN "loading" ELSE "saving"
  /\ c.type = "Save" => c.expected = u.token /\ c.token.g = c.expected.g
OfItsKind(c) ==
  IF c.type \in {"Load", "Save", "MarkDead"} THEN c.key \in ProviderKeys ELSE c.key \in McpKeys
AnswerPart ==
  /\ \A i \in DOMAIN queue : OfItsKind(queue[i]) /\ (Asks(queue[i]) => Asked(queue[i], wk[queue[i].w]))
  /\ \A i, j \in DOMAIN queue :
       Asks(queue[i]) /\ Asks(queue[j]) /\ queue[i].w = queue[j].w => i = j
  /\ \A w \in Workers : wk[w].pc \in Waiting => \E i \in DOMAIN queue : Asks(queue[i]) /\ queue[i].w = w

LockInv == Shapes /\ LockPart /\ PlacePart /\ AnswerPart

-----------------------------------------------------------------------------
(* Second part: the grants.                                                  *)

\* Memory, disk and the access-token cache.
StorePart ==
  \A k \in Keys : LET r == store[k] IN
    /\ IF locked THEN r.cred = None /\ r.access = 0 ELSE r.cred = r.blob
    /\ r.access # 0 => r.access = r.cred.g /\ ~r.dead /\ k \in ProviderKeys
    /\ k \in ProviderKeys => r.view = None

\* The tokens a key has had so far: none is ahead of the server's.
Minted ==
  [k \in Keys |-> {x \in Tokens : /\ x.g =< grants[k]
                                  /\ \A t \in live[k] : x.g = t.g => x.n =< t.n}]

Mentioned(c) ==
  CASE c.type = "Save" -> {c.token, c.expected}
    [] c.type = "OAuthSave" -> {c.token, c.expected, c.spent}
    [] OTHER -> {}

MintPart ==
  /\ \A k \in Keys : /\ live[k] \subseteq Minted[k]
                     /\ {store[k].cred, store[k].blob, store[k].view} \subseteq Minted[k]
  /\ \A i \in DOMAIN queue : Mentioned(queue[i]) \subseteq Minted[queue[i].key]
  /\ \A w \in Workers :
       /\ {wk[w].token, wk[w].seed, wk[w].cache} \subseteq Minted[KeyOf[w]]
       /\ wk[w].out # <<>> => Mentioned(wk[w].out[1]) \subseteq Minted[KeyOf[w]]

\* The commands that save a rotation.
Save(c) == c.type \in {"Save", "OAuthSave"}

-----------------------------------------------------------------------------
(* Types.                                                                    *)

\* What the bounds are.
LEMMA Bounds ==
  /\ MaxGrants \in Nat \ {0} /\ MaxExchanges \in Nat /\ None \in Tokens /\ First \in Tokens
  /\ ProviderKeys \cap McpKeys = {} /\ Keys = ProviderKeys \cup McpKeys
<1>1. MaxGrants \in Nat \ {0} /\ MaxExchanges \in Nat
  BY BoundsAssumption
<1>2. 0 \in 0..MaxGrants /\ 0 \in 0..MaxExchanges /\ 1 \in 0..MaxGrants
  BY <1>1
<1>. QED BY <1>1, <1>2, KeysAssumption DEF None, First, Tokens, Keys

\* The fields of a command.
LEMMA CommandFields ==
  ASSUME NEW c \in Commands
  PROVE  /\ c.type \in {"Load", "Save", "MarkDead", "OAuthClear", "AuthRejected", "OAuthSave"}
         /\ c.key \in Keys
         /\ Asks(c) => c.w \in Workers
         /\ Save(c) => c.token \in Tokens /\ c.expected \in Tokens
         /\ c.type = "OAuthSave" => c.spent \in Tokens /\ c.alone \in BOOLEAN
BY DEF Commands, Asks, Save

\* The commands the workers make.
LEMMA CommandTypes ==
  /\ \A k \in Keys, w \in Workers : [type |-> "Load", key |-> k, w |-> w] \in Commands
  /\ \A k \in Keys, w \in Workers, t, e \in Tokens :
       [type |-> "Save", key |-> k, w |-> w, token |-> t, expected |-> e] \in Commands
  /\ \A k \in Keys : /\ [type |-> "MarkDead", key |-> k] \in Commands
                     /\ [type |-> "OAuthClear", key |-> k] \in Commands
                     /\ [type |-> "AuthRejected", key |-> k] \in Commands
  /\ \A k \in Keys, t, e, s \in Tokens, b \in BOOLEAN :
       [type |-> "OAuthSave", key |-> k, token |-> t, expected |-> e, spent |-> s,
        alone |-> b] \in Commands
BY DEF Commands

\* The queue is a list of commands.
LEMMA QueueFacts ==
  ASSUME Shapes
  PROVE  /\ Len(queue) \in Nat /\ DOMAIN queue = 1..Len(queue)
         /\ \A i \in DOMAIN queue : queue[i] \in Commands
<1>1. queue \in Seq(Commands)
  BY DEF Shapes
<1>. QED BY <1>1, LenProperties, ElementOfSeq

\* A command is put at the end of it.
LEMMA Appended ==
  ASSUME Shapes, NEW c \in Commands, queue' = Append(queue, c)
  PROVE  /\ queue' \in Seq(Commands) /\ Len(queue') = Len(queue) + 1
         /\ DOMAIN queue' = 1..(Len(queue) + 1) /\ queue'[Len(queue) + 1] = c
         /\ \A i \in DOMAIN queue : queue'[i] = queue[i]
<1>1. queue \in Seq(Commands)
  BY DEF Shapes
<1>2. /\ Append(queue, c) \in Seq(Commands) /\ Len(Append(queue, c)) = Len(queue) + 1
      /\ \A i \in 1..Len(queue) : Append(queue, c)[i] = queue[i]
      /\ Append(queue, c)[Len(queue) + 1] = c
  BY <1>1, AppendProperties
<1>3. DOMAIN queue' = 1..Len(queue')
  BY <1>2, LenProperties
<1>. QED BY <1>2, <1>3, QueueFacts

\* The command loop takes the first.
LEMMA FirstTaken ==
  ASSUME Shapes, queue # <<>>, queue' = Tail(queue), NEW c, c = Head(queue)
  PROVE  /\ queue' \in Seq(Commands) /\ Len(queue) \in Nat \ {0} /\ Len(queue') = Len(queue) - 1
         /\ DOMAIN queue' = 1..(Len(queue) - 1)
         /\ \A i \in DOMAIN queue' : i \in Nat \ {0} /\ i + 1 \in DOMAIN queue /\ queue'[i] = queue[i + 1]
         /\ \A i \in DOMAIN queue : i # 1 => i - 1 \in DOMAIN queue'
         /\ 1 \in DOMAIN queue /\ c = queue[1] /\ c \in Commands
<1>1. queue \in Seq(Commands) /\ Len(queue) \in Nat /\ DOMAIN queue = 1..Len(queue)
  BY QueueFacts DEF Shapes
<1>2. Len(queue) # 0
  BY <1>1, EmptySeq
<1>3. /\ Tail(queue) \in Seq(Commands) /\ Len(Tail(queue)) = Len(queue) - 1
      /\ \A i \in 1..Len(Tail(queue)) : Tail(queue)[i] = queue[i + 1]
  BY <1>1, HeadTailProperties
<1>4. DOMAIN queue' = 1..Len(queue')
  BY <1>3, LenProperties
<1>5. c = queue[1] /\ c \in Commands
  BY <1>1, <1>2, ElementOfSeq
<1>6. Len(queue) \in Nat \ {0} /\ DOMAIN queue' = 1..(Len(queue) - 1) /\ 1 \in DOMAIN queue
  BY <1>1, <1>2, <1>3, <1>4
<1>7. \A i \in DOMAIN queue' : i \in Nat \ {0} /\ i + 1 \in DOMAIN queue
  BY <1>1, <1>6
<1>8. \A i \in DOMAIN queue' : queue'[i] = queue[i + 1]
  BY <1>3, <1>4
<1>9. \A i \in DOMAIN queue : i # 1 => i - 1 \in DOMAIN queue'
  BY <1>1, <1>6
<1>10. queue' \in Seq(Commands) /\ Len(queue') = Len(queue) - 1
  BY <1>3
<1>11. \A i \in DOMAIN queue' : i \in Nat \ {0} /\ i + 1 \in DOMAIN queue /\ queue'[i] = queue[i + 1]
  BY <1>7, <1>8
<1>. QED BY <1>5, <1>6, <1>9, <1>10, <1>11

\* One worker changes.
LEMMA Becomes ==
  ASSUME Shapes, NEW w \in Workers, NEW u \in WorkerState, u.key = wk[w].key,
         wk' = [wk EXCEPT ![w] = u]
  PROVE  /\ wk' \in [Workers -> WorkerState] /\ wk'[w] = u
         /\ \A v \in Workers \ {w} : wk'[v] = wk[v]
         /\ KeyOf' = KeyOf /\ Handles' = [Handles EXCEPT ![w] = u.handle]
         /\ \A v \in Workers : KeyOf[v] = wk[v].key /\ Handles[v] = wk[v].handle /\ KeyOf[v] \in Keys
         /\ Held' = IF u.handle # 0 /\ u.pc \in Holding THEN Held \cup {w} ELSE Held \ {w}
<1>1. wk \in [Workers -> WorkerState]
  BY DEF Shapes
<1>2. wk' \in [Workers -> WorkerState] /\ wk'[w] = u /\ \A v \in Workers \ {w} : wk'[v] = wk[v]
  BY <1>1
<1>3. KeyOf' = KeyOf
  BY <1>2 DEF KeyOf
<1>4. Handles' = [Handles EXCEPT ![w] = u.handle]
  BY <1>2 DEF Handles
<1>5. \A v \in Workers : KeyOf[v] = wk[v].key /\ Handles[v] = wk[v].handle /\ KeyOf[v] \in Keys
  BY <1>1 DEF KeyOf, Handles, WorkerState
<1>6. Held' = IF u.handle # 0 /\ u.pc \in Holding THEN Held \cup {w} ELSE Held \ {w}
  BY <1>2 DEF Held, Holder
<1>. QED BY <1>2, <1>3, <1>4, <1>5, <1>6

\* Only its place changes.
LEMMA PlaceChanges ==
  ASSUME Shapes, NEW w \in Workers, NEW q \in Pcs, wk' = [wk EXCEPT ![w].pc = q]
  PROVE  \E u \in WorkerState :
           /\ wk' = [wk EXCEPT ![w] = u] /\ u.pc = q
           /\ u.key = wk[w].key /\ u.handle = wk[w].handle /\ u.token = wk[w].token
           /\ u.seed = wk[w].seed /\ u.cache = wk[w].cache /\ u.out = wk[w].out
<1>1. wk \in [Workers -> WorkerState] /\ wk[w] \in WorkerState
  BY DEF Shapes
<1>2. PICK u : u = [wk[w] EXCEPT !.pc = q]
  OBVIOUS
<1>3. u \in WorkerState
  BY <1>1, <1>2 DEF WorkerState
<1>4. wk' = [wk EXCEPT ![w] = u]
  BY <1>1, <1>2
<1>. QED BY <1>1, <1>2, <1>3, <1>4 DEF WorkerState

-----------------------------------------------------------------------------
(* The locks and the answers: what kinds of steps keep.                      *)

\* prune_map drops no lock that somebody has a handle of.
LEMMA LocksKept ==
  ASSUME Shapes, LockPart, KeyOf' = KeyOf, Handles' = Handles, Held' \subseteq Held,
         registry' = registry \/ registry' = Retained, free' = free
  PROVE  LockPart' /\ registry' \in [Keys -> Locks \cup {0}]
<1>1. CASE registry' = registry
  BY <1>1 DEF LockPart, Shapes
<1>2. CASE registry' = Retained
  <2>1. \A k \in Keys : registry'[k] \in {0, registry[k]}
    BY <1>2 DEF Retained
  <2>2. \A w \in Workers : Handles[w] # 0 => registry'[KeyOf[w]] = Handles[w]
    <3>1. SUFFICES ASSUME NEW w \in Workers, Handles[w] # 0
                   PROVE  registry'[KeyOf[w]] = Handles[w]
      OBVIOUS
    <3>2. registry[KeyOf[w]] = Handles[w] /\ KeyOf[w] \in Keys
      BY <3>1 DEF LockPart, KeyOf, Shapes, WorkerState
    <3>3. Strong(registry[KeyOf[w]])
      BY <3>2 DEF Strong, Handles
    <3>. QED BY <1>2, <3>1, <3>2, <3>3 DEF Retained
  <2>3. registry' \in [Keys -> Locks \cup {0}]
    <3>1. \A k \in Keys : registry[k] \in Locks \cup {0}
      BY DEF Shapes
    <3>. QED BY <1>2, <3>1 DEF Retained
  <2>. QED BY <2>1, <2>2, <2>3 DEF LockPart
<1>. QED BY <1>1, <1>2

\* The queue and those that wait are left alone.
LEMMA AnswersKept ==
  ASSUME Shapes, AnswerPart, queue' = queue,
         \A v \in Workers : wk'[v].pc \in Waiting => wk[v].pc \in Waiting,
         \A v \in Workers : wk[v].pc \in Waiting => wk'[v] = wk[v]
  PROVE  AnswerPart'
<1>1. ASSUME NEW i \in DOMAIN queue, Asks(queue[i])
      PROVE  Asked(queue[i], wk'[queue[i].w])
  <2>1. queue[i].w \in Workers
    BY <1>1, QueueFacts, CommandFields
  <2>2. Asked(queue[i], wk[queue[i].w])
    BY <1>1 DEF AnswerPart
  <2>3. wk'[queue[i].w] = wk[queue[i].w]
    BY <2>1, <2>2 DEF Asked, Waiting
  <2>. QED BY <2>2, <2>3
<1>2. \A i \in DOMAIN queue : OfItsKind(queue[i])
  BY DEF AnswerPart
<1>3. \A i \in DOMAIN queue' : OfItsKind(queue'[i]) /\ (Asks(queue'[i]) => Asked(queue'[i], wk'[queue'[i].w]))
  BY <1>1, <1>2
<1>4. \A v \in Workers : wk'[v].pc \in Waiting => \E i \in DOMAIN queue' : Asks(queue'[i]) /\ queue'[i].w = v
  BY DEF AnswerPart
<1>5. \A i, j \in DOMAIN queue' :
       Asks(queue'[i]) /\ Asks(queue'[j]) /\ queue'[i].w = queue'[j].w => i = j
  BY DEF AnswerPart
<1>. QED BY <1>3, <1>4, <1>5 DEF AnswerPart

\* A worker that waits for no answer moves on, and it may be posts a command
\* that needs none.
LEMMA WorkerMoves ==
  ASSUME LockInv, NEW w \in Workers, NEW u \in WorkerState, wk' = [wk EXCEPT ![w] = u],
         u.key = wk[w].key, u.handle = wk[w].handle, Place(u),
         wk[w].pc \notin Waiting, u.pc \notin Waiting,
         u.handle # 0 /\ u.pc \in Holding => wk[w].pc \in Holding,
         registry' = registry \/ registry' = Retained, free' = free,
         \/ queue' = queue
         \/ \E c \in Commands : queue' = Append(queue, c) /\ ~Asks(c) /\ OfItsKind(c)
  PROVE  LockPart' /\ PlacePart' /\ AnswerPart' /\ queue' \in Seq(Commands)
         /\ wk' \in [Workers -> WorkerState] /\ registry' \in [Keys -> Locks \cup {0}]
<1>1. Shapes /\ LockPart /\ PlacePart /\ AnswerPart
  BY DEF LockInv
<1>2. /\ wk' \in [Workers -> WorkerState] /\ wk'[w] = u
      /\ \A v \in Workers \ {w} : wk'[v] = wk[v]
      /\ KeyOf' = KeyOf /\ Handles' = [Handles EXCEPT ![w] = u.handle]
      /\ Handles[w] = wk[w].handle
      /\ Held' = IF u.handle # 0 /\ u.pc \in Holding THEN Held \cup {w} ELSE Held \ {w}
  BY <1>1, Becomes
<1>3. Handles' = Handles /\ Held' \subseteq Held
  <2>1. Handles' = Handles
    BY <1>2 DEF Handles
  <2>2. u.handle # 0 /\ u.pc \in Holding => w \in Held
    BY DEF Held, Holder
  <2>. QED BY <2>1, <2>2, <1>2
<1>4. LockPart' /\ registry' \in [Keys -> Locks \cup {0}]
  BY <1>1, <1>2, <1>3, LocksKept
<1>5. PlacePart'
  BY <1>1, <1>2 DEF PlacePart
<1>6. /\ queue' \in Seq(Commands) /\ \A i \in DOMAIN queue : i \in DOMAIN queue' /\ queue'[i] = queue[i]
      /\ \A i \in DOMAIN queue' : i \in DOMAIN queue \/ (~Asks(queue'[i]) /\ OfItsKind(queue'[i]))
  <2>1. CASE queue' = queue
    BY <2>1, <1>1 DEF Shapes
  <2>2. CASE \E c \in Commands : queue' = Append(queue, c) /\ ~Asks(c) /\ OfItsKind(c)
    <3>1. PICK c \in Commands : queue' = Append(queue, c) /\ ~Asks(c) /\ OfItsKind(c)
      BY <2>2
    <3>2. /\ queue' \in Seq(Commands) /\ DOMAIN queue' = 1..(Len(queue) + 1)
          /\ queue'[Len(queue) + 1] = c /\ \A i \in DOMAIN queue : queue'[i] = queue[i]
      BY <1>1, <3>1, Appended
    <3>3. Len(queue) \in Nat /\ DOMAIN queue = 1..Len(queue)
      BY <1>1, QueueFacts
    <3>4. \A i \in DOMAIN queue' : i \in DOMAIN queue \/ i = Len(queue) + 1
      BY <3>2, <3>3
    <3>5. \A i \in DOMAIN queue : i \in DOMAIN queue'
      BY <3>2, <3>3
    <3>. QED BY <3>1, <3>2, <3>4, <3>5
  <2>. QED BY <2>1, <2>2
<1>7. \A i \in DOMAIN queue : Asks(queue[i]) => wk'[queue[i].w] = wk[queue[i].w]
  <2>1. SUFFICES ASSUME NEW i \in DOMAIN queue, Asks(queue[i]) PROVE wk'[queue[i].w] = wk[queue[i].w]
    OBVIOUS
  <2>2. queue[i].w \in Workers
    BY <2>1, <1>1, QueueFacts, CommandFields
  <2>3. wk[queue[i].w].pc \in Waiting
    BY <2>1, <1>1 DEF AnswerPart, Asked, Waiting
  <2>. QED BY <2>2, <2>3, <1>2
<1>8. AnswerPart'
  <2>1. \A i \in DOMAIN queue' : OfItsKind(queue'[i]) /\ (Asks(queue'[i]) => Asked(queue'[i], wk'[queue'[i].w]))
    <3>1. SUFFICES ASSUME NEW i \in DOMAIN queue'
                   PROVE  OfItsKind(queue'[i]) /\ (Asks(queue'[i]) => Asked(queue'[i], wk'[queue'[i].w]))
      OBVIOUS
    <3>2. CASE i \in DOMAIN queue
      <4>1. queue'[i] = queue[i] /\ (Asks(queue[i]) => wk'[queue[i].w] = wk[queue[i].w])
        BY <3>2, <1>6, <1>7
      <4>2. OfItsKind(queue[i]) /\ (Asks(queue[i]) => Asked(queue[i], wk[queue[i].w]))
        BY <3>2, <1>1 DEF AnswerPart
      <4>. QED BY <4>1, <4>2
    <3>. QED BY <3>2, <1>6
  <2>2. \A i, j \in DOMAIN queue' :
          Asks(queue'[i]) /\ Asks(queue'[j]) /\ queue'[i].w = queue'[j].w => i = j
    BY <1>1, <1>6 DEF AnswerPart
  <2>3. ASSUME NEW v \in Workers, wk'[v].pc \in Waiting
        PROVE  \E i \in DOMAIN queue' : Asks(queue'[i]) /\ queue'[i].w = v
    <3>1. wk[v].pc \in Waiting
      BY <2>3, <1>2
    <3>. QED BY <3>1, <1>1, <1>6 DEF AnswerPart
  <2>. QED BY <2>1, <2>2, <2>3 DEF AnswerPart
<1>. QED BY <1>2, <1>4, <1>5, <1>6, <1>8

\* A worker asks the command loop and waits.
LEMMA WorkerAsks ==
  ASSUME LockInv, NEW w \in Workers, NEW u \in WorkerState, wk' = [wk EXCEPT ![w] = u],
         u.key = wk[w].key, Place(u), wk[w].pc \notin Waiting, u.pc \in Waiting,
         NEW c \in Commands, queue' = Append(queue, c),
         Asks(c), OfItsKind(c), c.w = w, Asked(c, u)
  PROVE  PlacePart' /\ AnswerPart' /\ queue' \in Seq(Commands)
<1>1. Shapes /\ LockPart /\ PlacePart /\ AnswerPart
  BY DEF LockInv
<1>2. /\ wk'[w] = u /\ \A v \in Workers \ {w} : wk'[v] = wk[v]
  BY <1>1, Becomes
<1>3. PlacePart'
  BY <1>1, <1>2 DEF PlacePart
<1>4. PICK n : n = Len(queue) + 1
  OBVIOUS
<1>5. /\ queue' \in Seq(Commands) /\ DOMAIN queue' = 1..n
      /\ queue'[n] = c /\ \A i \in DOMAIN queue : queue'[i] = queue[i]
  BY <1>1, <1>4, Appended
<1>6. Len(queue) \in Nat /\ DOMAIN queue = 1..Len(queue)
  BY <1>1, QueueFacts
<1>7. /\ \A i \in DOMAIN queue' : i \in DOMAIN queue \/ i = n
      /\ n \in DOMAIN queue' /\ n \notin DOMAIN queue /\ \A i \in DOMAIN queue : i \in DOMAIN queue'
  BY <1>4, <1>5, <1>6
<1>8. \A i \in DOMAIN queue : Asks(queue[i]) => queue[i].w # w /\ wk'[queue[i].w] = wk[queue[i].w]
  <2>1. SUFFICES ASSUME NEW i \in DOMAIN queue, Asks(queue[i])
                 PROVE  queue[i].w # w /\ wk'[queue[i].w] = wk[queue[i].w]
    OBVIOUS
  <2>2. queue[i].w \in Workers
    BY <2>1, <1>1, QueueFacts, CommandFields
  <2>3. wk[queue[i].w].pc \in Waiting
    BY <2>1, <1>1 DEF AnswerPart, Asked, Waiting
  <2>. QED BY <2>2, <2>3, <1>2
<1>9. ASSUME NEW i \in DOMAIN queue'
      PROVE  OfItsKind(queue'[i]) /\ (Asks(queue'[i]) => Asked(queue'[i], wk'[queue'[i].w]))
  <2>1. CASE i = n
    BY <2>1, <1>2, <1>5
  <2>2. CASE i \in DOMAIN queue
    <3>1. queue'[i] = queue[i] /\ (Asks(queue[i]) => wk'[queue[i].w] = wk[queue[i].w])
      BY <2>2, <1>5, <1>8
    <3>2. OfItsKind(queue[i]) /\ (Asks(queue[i]) => Asked(queue[i], wk[queue[i].w]))
      BY <2>2, <1>1 DEF AnswerPart
    <3>. QED BY <3>1, <3>2
  <2>. QED BY <2>1, <2>2, <1>7
<1>10. \A i, j \in DOMAIN queue' :
         Asks(queue'[i]) /\ Asks(queue'[j]) /\ queue'[i].w = queue'[j].w => i = j
  BY <1>1, <1>5, <1>7, <1>8 DEF AnswerPart
<1>11. ASSUME NEW v \in Workers, wk'[v].pc \in Waiting
       PROVE  \E i \in DOMAIN queue' : Asks(queue'[i]) /\ queue'[i].w = v
  <2>1. CASE v = w
    BY <2>1, <1>5, <1>7
  <2>2. CASE v # w
    BY <2>2, <1>1, <1>2, <1>5, <1>7, <1>11 DEF AnswerPart
  <2>. QED BY <2>1, <2>2
<1>12. AnswerPart'
  BY <1>9, <1>10, <1>11 DEF AnswerPart
<1>. QED BY <1>3, <1>5, <1>12

\* The command loop answers a question: the worker goes on.
LEMMA Answered ==
  ASSUME LockInv, queue # <<>>, queue' = Tail(queue), NEW c, c = Head(queue), Asks(c),
         NEW u \in WorkerState, wk' = [wk EXCEPT ![c.w] = u], u.key = wk[c.w].key,
         u.handle = wk[c.w].handle, u.out = wk[c.w].out, u.pc \in {"release", "exchange"},
         registry' = registry, free' = free
  PROVE  /\ LockPart' /\ PlacePart' /\ AnswerPart' /\ queue' \in Seq(Commands)
         /\ wk' \in [Workers -> WorkerState] /\ c.w \in Workers
<1>1. Shapes /\ LockPart /\ PlacePart /\ AnswerPart
  BY DEF LockInv
<1>2. /\ queue' \in Seq(Commands) /\ 1 \in DOMAIN queue /\ c = queue[1] /\ c \in Commands
      /\ \A i \in DOMAIN queue' : i \in Nat \ {0} /\ i + 1 \in DOMAIN queue /\ queue'[i] = queue[i + 1]
      /\ \A i \in DOMAIN queue : i # 1 => i - 1 \in DOMAIN queue'
  BY <1>1, FirstTaken
<1>3. PICK w \in Workers : w = c.w
  BY <1>2, CommandFields
<1>4. wk[w].pc \in Waiting /\ Place(wk[w])
  BY <1>1, <1>2, <1>3 DEF AnswerPart, Asked, Waiting, PlacePart
<1>5. /\ wk' \in [Workers -> WorkerState] /\ wk'[w] = u
      /\ \A v \in Workers \ {w} : wk'[v] = wk[v]
      /\ KeyOf' = KeyOf /\ Handles' = [Handles EXCEPT ![w] = u.handle]
      /\ Handles[w] = wk[w].handle
      /\ Held' = IF u.handle # 0 /\ u.pc \in Holding THEN Held \cup {w} ELSE Held \ {w}
  BY <1>1, <1>3, Becomes, ZenonT(40)
<1>6. wk[w].handle # 0 /\ wk[w].out = <<>>
  BY <1>4 DEF Place, Waiting
<1>7. w \in Held
  BY <1>4, <1>6 DEF Held, Holder, Holding, Waiting
<1>8. Handles' = Handles /\ Held' \subseteq Held
  BY <1>5, <1>7, <1>3 DEF Handles
<1>9. LockPart'
  BY <1>1, <1>5, <1>8, LocksKept
<1>10. Place(u)
  BY <1>3, <1>6 DEF Place, Waiting
<1>11. PlacePart'
  BY <1>1, <1>5, <1>10 DEF PlacePart
<1>12. \A i \in DOMAIN queue : i # 1 /\ Asks(queue[i]) =>
         queue[i].w # w /\ queue[i].w \in Workers /\ wk'[queue[i].w] = wk[queue[i].w]
  <2>1. SUFFICES ASSUME NEW i \in DOMAIN queue, i # 1, Asks(queue[i])
                 PROVE  queue[i].w # w /\ queue[i].w \in Workers
    BY <1>5
  <2>2. queue[i].w # w
    BY <2>1, <1>1, <1>2, <1>3 DEF AnswerPart
  <2>3. queue[i].w \in Workers
    BY <2>1, <1>1, QueueFacts, CommandFields
  <2>. QED BY <2>2, <2>3
<1>13. ASSUME NEW i \in DOMAIN queue'
       PROVE  OfItsKind(queue'[i]) /\ (Asks(queue'[i]) => Asked(queue'[i], wk'[queue'[i].w]))
  <2>1. PICK j \in DOMAIN queue : j = i + 1 /\ j # 1 /\ queue'[i] = queue[j]
    BY <1>2
  <2>2. OfItsKind(queue[j]) /\ (Asks(queue[j]) => Asked(queue[j], wk[queue[j].w]))
    BY <1>1 DEF AnswerPart
  <2>. QED BY <2>1, <2>2, <1>12
<1>14. ASSUME NEW i \in DOMAIN queue', NEW j \in DOMAIN queue',
              Asks(queue'[i]), Asks(queue'[j]), queue'[i].w = queue'[j].w
       PROVE  i = j
  <2>1. i + 1 = j + 1
    BY <1>1, <1>2, <1>14 DEF AnswerPart
  <2>. QED BY <2>1, <1>2
<1>15. ASSUME NEW v \in Workers, wk'[v].pc \in Waiting
       PROVE  \E i \in DOMAIN queue' : Asks(queue'[i]) /\ queue'[i].w = v
  <2>1. v # w
    BY <1>5, <1>15 DEF Waiting
  <2>2. PICK i \in DOMAIN queue : Asks(queue[i]) /\ queue[i].w = v
    BY <2>1, <1>1, <1>5, <1>15 DEF AnswerPart
  <2>3. i # 1
    BY <2>1, <2>2, <1>2, <1>3
  <2>4. i - 1 \in DOMAIN queue' /\ (i - 1) + 1 = i
    BY <2>3, <1>2, <1>1, QueueFacts
  <2>5. queue'[i - 1] = queue[i]
    BY <2>4, <1>2
  <2>. QED BY <2>2, <2>4, <2>5
<1>16. AnswerPart'
  BY <1>13, <1>14, <1>15 DEF AnswerPart
<1>. QED BY <1>2, <1>3, <1>5, <1>9, <1>11, <1>16

\* The command loop serves a command that nobody waits for.
LEMMA Unasked ==
  ASSUME LockInv, queue # <<>>, queue' = Tail(queue), NEW c, c = Head(queue), ~Asks(c), wk' = wk,
         registry' = registry \/ registry' = Retained, free' = free
  PROVE  /\ LockPart' /\ PlacePart' /\ AnswerPart' /\ queue' \in Seq(Commands)
         /\ registry' \in [Keys -> Locks \cup {0}]
<1>1. Shapes /\ LockPart /\ PlacePart /\ AnswerPart
  BY DEF LockInv
<1>2. /\ queue' \in Seq(Commands) /\ 1 \in DOMAIN queue /\ c = queue[1]
      /\ \A i \in DOMAIN queue' : i \in Nat \ {0} /\ i + 1 \in DOMAIN queue /\ queue'[i] = queue[i + 1]
      /\ \A i \in DOMAIN queue : i # 1 => i - 1 \in DOMAIN queue'
  BY <1>1, FirstTaken
<1>3. KeyOf' = KeyOf /\ Handles' = Handles /\ Held' = Held
  BY DEF KeyOf, Handles, Held, Holder
<1>4. LockPart' /\ registry' \in [Keys -> Locks \cup {0}]
  BY <1>1, <1>3, LocksKept
<1>5. PlacePart'
  BY <1>1 DEF PlacePart
<1>6. ASSUME NEW i \in DOMAIN queue'
      PROVE  OfItsKind(queue'[i]) /\ (Asks(queue'[i]) => Asked(queue'[i], wk'[queue'[i].w]))
  <2>1. PICK j \in DOMAIN queue : j = i + 1 /\ queue'[i] = queue[j]
    BY <1>2
  <2>2. OfItsKind(queue[j]) /\ (Asks(queue[j]) => Asked(queue[j], wk[queue[j].w]))
    BY <1>1 DEF AnswerPart
  <2>. QED BY <2>1, <2>2
<1>7. ASSUME NEW i \in DOMAIN queue', NEW j \in DOMAIN queue',
             Asks(queue'[i]), Asks(queue'[j]), queue'[i].w = queue'[j].w
      PROVE  i = j
  <2>1. i + 1 = j + 1
    BY <1>1, <1>2, <1>7 DEF AnswerPart
  <2>. QED BY <2>1, <1>2
<1>8. ASSUME NEW v \in Workers, wk'[v].pc \in Waiting
      PROVE  \E i \in DOMAIN queue' : Asks(queue'[i]) /\ queue'[i].w = v
  <2>1. PICK i \in DOMAIN queue : Asks(queue[i]) /\ queue[i].w = v
    BY <1>1, <1>8 DEF AnswerPart
  <2>2. i # 1
    BY <2>1, <1>2
  <2>3. i - 1 \in DOMAIN queue' /\ (i - 1) + 1 = i
    BY <2>2, <1>2, <1>1, QueueFacts
  <2>4. queue'[i - 1] = queue[i]
    BY <2>3, <1>2
  <2>. QED BY <2>1, <2>3, <2>4
<1>9. AnswerPart'
  BY <1>6, <1>7, <1>8 DEF AnswerPart
<1>. QED BY <1>2, <1>4, <1>5, <1>9

-----------------------------------------------------------------------------
(* The locks and the answers: the workers' steps.                            *)

\* There is a lock that nobody has and no key: fewer are in use than there are
\* threads and keys.
LEMMA NewLockIsNew ==
  ASSUME Shapes, NEW w \in Workers, wk[w].handle = 0, registry[wk[w].key] = 0
  PROVE  NewLock \in Locks /\ NewLock # 0 /\ ~Strong(NewLock) /\ \A k \in Keys : registry[k] # NewLock
<1>. DEFINE V == Workers \ {w}
            J == Keys \ {wk[w].key}
            f == [v \in V |-> wk[v].handle]
            g == [k \in J |-> registry[k]]
            H == {f[v] : v \in V}
            R == {g[k] : k \in J}
<1>1. wk[w].key \in Keys /\ IsFiniteSet(Workers) /\ IsFiniteSet(Keys)
  BY FinitelyMany DEF Shapes, WorkerState
<1>2. /\ IsFiniteSet(V) /\ Cardinality(V) = Cardinality(Workers) - 1
      /\ IsFiniteSet(J) /\ Cardinality(J) = Cardinality(Keys) - 1
  BY <1>1, FS_RemoveElement
<1>3. Cardinality(V) \in Nat /\ Cardinality(J) \in Nat
  BY <1>2, FS_CardinalityType
<1>4. f \in Surjection(V, H) /\ g \in Surjection(J, R)
  BY DEF Surjection
<1>. HIDE DEF f, g
<1>5. /\ IsFiniteSet(H) /\ Cardinality(H) =< Cardinality(V)
      /\ IsFiniteSet(R) /\ Cardinality(R) =< Cardinality(J)
  BY <1>2, <1>4, FS_Surjection
<1>. HIDE DEF H, R
<1>6. Cardinality(H) \in Nat /\ Cardinality(R) \in Nat /\ IsFiniteSet(H \cap R)
      /\ Cardinality(H \cap R) \in Nat
  BY <1>5, FS_CardinalityType, FS_Intersection
<1>7. IsFiniteSet(H \cup R) /\ Cardinality(H \cup R) = Cardinality(H) + Cardinality(R) - Cardinality(H \cap R)
  BY <1>5, FS_Union
<1>8. PICK n \in Nat : n = Cardinality(Workers) + Cardinality(Keys) /\ Cardinality(H \cup R) < n
  <2>1. Cardinality(Workers) + Cardinality(Keys) = Cardinality(V) + Cardinality(J) + 2
    BY <1>1, <1>2, <1>3, FS_CardinalityType
  <2>2. Cardinality(H \cup R) =< Cardinality(V) + Cardinality(J)
    BY <1>3, <1>5, <1>6, <1>7
  <2>3. Cardinality(H \cup R) \in Nat
    BY <1>7, FS_CardinalityType
  <2>. QED BY <2>1, <2>2, <2>3, <1>3
<1>9. IsFiniteSet(1..n) /\ Cardinality(1..n) = n
  BY FS_Interval
<1>10. ~(1..n \subseteq H \cup R)
  <2>1. SUFFICES ASSUME 1..n \subseteq H \cup R PROVE FALSE
    OBVIOUS
  <2>2. Cardinality(1..n) =< Cardinality(H \cup R)
    BY <2>1, <1>7, FS_Subset
  <2>3. Cardinality(H \cup R) \in Nat
    BY <1>7, FS_CardinalityType
  <2>. QED BY <2>2, <2>3, <1>8, <1>9
<1>11. PICK l \in 1..n : l \notin H /\ l \notin R
  BY <1>10
<1>12. l \in Locks /\ l # 0
  BY <1>8, <1>11 DEF Locks
<1>13. ~Strong(l)
  <2>1. \A v \in V : f[v] = wk[v].handle
    BY DEF f
  <2>2. \A v \in V : wk[v].handle \in H
    BY <2>1 DEF H
  <2>3. \A v \in Workers : wk[v].handle # l
    BY <2>2, <1>11, <1>12
  <2>. QED BY <2>3 DEF Strong
<1>14. \A k \in Keys : registry[k] # l
  <2>1. \A k \in J : g[k] = registry[k]
    BY DEF g
  <2>2. \A k \in J : registry[k] \in R
    BY <2>1 DEF R
  <2>. QED BY <2>2, <1>11, <1>12
<1>15. \E m \in Locks : ~Strong(m) /\ \A k \in Keys : registry[k] # m
  BY <1>12, <1>13, <1>14
<1>16. NewLock \in Locks /\ ~Strong(NewLock) /\ \A k \in Keys : registry[k] # NewLock
  BY <1>15 DEF NewLock
<1>17. 0 \notin Locks
  BY <1>8 DEF Locks
<1>. QED BY <1>16, <1>17

\* A refresh takes up its key's lock.
LEMMA AcquireLocks ==
  ASSUME LockInv, NEW w \in Workers, Acquire(w)
  PROVE  LockInv'
<1>1. Shapes /\ LockPart /\ PlacePart /\ AnswerPart
  BY DEF LockInv
<1>2. PICK k, l : k = wk[w].key /\ l = IF registry[k] # 0 THEN registry[k] ELSE NewLock
  OBVIOUS
<1>3. /\ wk[w].pc = "idle" /\ registry' = [registry EXCEPT ![k] = l]
      /\ free' = IF registry[k] # 0 THEN free ELSE free \cup {l}
      /\ wk' = [wk EXCEPT ![w].pc = "wait", ![w].handle = l]
      /\ UNCHANGED <<locked, store, queue, live, lost, grants, exchanges>>
  BY <1>2 DEF Acquire, daemon, server
<1>4. Place(wk[w]) /\ wk[w] \in WorkerState /\ k \in Keys
  BY <1>1, <1>2 DEF PlacePart, Shapes, WorkerState
<1>5. wk[w].handle = 0 /\ wk[w].out = <<>>
  BY <1>3, <1>4 DEF Place
<1>6. /\ l \in Locks /\ l # 0 /\ (registry[k] = 0 => ~Strong(l) /\ \A j \in Keys : registry[j] # l)
  <2>1. CASE registry[k] = 0
    BY <2>1, <1>1, <1>2, <1>5, NewLockIsNew
  <2>2. CASE registry[k] # 0
    BY <2>2, <1>1, <1>2, <1>4 DEF Shapes
  <2>. QED BY <2>1, <2>2
<1>7. PICK u : u = [wk[w] EXCEPT !.pc = "wait", !.handle = l]
  OBVIOUS
<1>8. /\ u \in WorkerState /\ u.key = k /\ u.handle = l /\ u.pc = "wait" /\ u.out = <<>>
      /\ wk' = [wk EXCEPT ![w] = u]
  <2>1. u \in WorkerState /\ u.key = k /\ u.handle = l /\ u.pc = "wait" /\ u.out = <<>>
    BY <1>2, <1>4, <1>5, <1>6, <1>7 DEF WorkerState, Pcs
  <2>2. wk' = [wk EXCEPT ![w] = u]
    BY <1>1, <1>3, <1>7 DEF Shapes
  <2>. QED BY <2>1, <2>2
<1>9. Place(u)
  BY <1>6, <1>8 DEF Place, Waiting
<1>10. /\ wk' \in [Workers -> WorkerState] /\ wk'[w] = u
       /\ \A v \in Workers \ {w} : wk'[v] = wk[v]
       /\ KeyOf' = KeyOf /\ Handles' = [Handles EXCEPT ![w] = l]
       /\ \A v \in Workers : KeyOf[v] = wk[v].key /\ Handles[v] = wk[v].handle /\ KeyOf[v] \in Keys
       /\ Held' = Held \ {w}
  <2>1. u.key = wk[w].key /\ u.pc \notin Holding
    BY <1>2, <1>8 DEF Holding
  <2>. QED BY <2>1, <1>1, <1>8, Becomes
<1>11. LockPart'
  <2>1. \A v \in Workers : Handles'[v] # 0 => registry'[KeyOf'[v]] = Handles'[v]
    <3>1. SUFFICES ASSUME NEW v \in Workers, Handles'[v] # 0 PROVE registry'[KeyOf[v]] = Handles'[v]
      BY <1>10
    <3>2. CASE v = w
      BY <3>2, <1>1, <1>2, <1>3, <1>4, <1>10 DEF Shapes, Handles
    <3>3. CASE v # w
      <4>1. Handles'[v] = Handles[v] /\ registry[KeyOf[v]] = Handles[v] /\ KeyOf[v] \in Keys
        BY <3>1, <3>3, <1>1, <1>10 DEF LockPart, Handles
      <4>. QED BY <4>1, <3>1, <1>1, <1>2, <1>3, <1>10 DEF Shapes
    <3>. QED BY <3>2, <3>3
  <2>2. \A i, j \in Keys : registry'[i] = registry'[j] /\ registry'[i] # 0 => i = j
    BY <1>1, <1>2, <1>3, <1>4, <1>6 DEF LockPart, Shapes
  <2>3. ASSUME NEW v \in Held' PROVE Handles'[v] # 0 /\ Handles'[v] \notin free'
    <3>1. v \in Held /\ v \in Workers /\ v # w /\ Handles'[v] = Handles[v]
      BY <1>10 DEF Held, Handles
    <3>2. Handles[v] # 0 /\ Handles[v] \notin free
      BY <3>1, <1>1 DEF LockPart
    <3>3. registry[k] = 0 => Handles[v] # l
      BY <3>1, <1>6, <1>10 DEF Strong
    <3>. QED BY <3>1, <3>2, <3>3, <1>3
  <2>4. \A v, x \in Held' : Handles'[v] = Handles'[x] => v = x
    <3>1. \A v \in Held' : v \in Held /\ Handles'[v] = Handles[v]
      BY <1>10 DEF Held, Handles
    <3>. QED BY <3>1, <1>1 DEF LockPart
  <2>. QED BY <2>1, <2>2, <2>3, <2>4 DEF LockPart
<1>12. PlacePart'
  BY <1>1, <1>9, <1>10 DEF PlacePart
<1>13. AnswerPart'
  <2>1. \A v \in Workers : wk'[v].pc \in Waiting => wk[v].pc \in Waiting
    BY <1>8, <1>10 DEF Waiting
  <2>2. \A v \in Workers : wk[v].pc \in Waiting => wk'[v] = wk[v]
    BY <1>3, <1>10 DEF Waiting
  <2>. QED BY <2>1, <2>2, <1>1, <1>3, AnswersKept
<1>14. Shapes'
  <2>1. registry' \in [Keys -> Locks \cup {0}] /\ free' \subseteq Locks
    BY <1>1, <1>3, <1>6 DEF Shapes
  <2>. QED BY <2>1, <1>1, <1>3, <1>10 DEF Shapes
<1>. QED BY <1>11, <1>12, <1>13, <1>14 DEF LockInv

\* The lock's token is taken.
LEMMA TakeLockLocks ==
  ASSUME LockInv, NEW w \in Workers, TakeLock(w)
  PROVE  LockInv'
<1>1. Shapes /\ LockPart /\ PlacePart /\ AnswerPart
  BY DEF LockInv
<1>2. /\ wk[w].pc = "wait" /\ wk[w].handle \in free /\ free' = free \ {wk[w].handle}
      /\ UNCHANGED <<locked, store, registry, live, lost, grants, exchanges>>
  BY DEF TakeLock, server
<1>3. Place(wk[w]) /\ wk[w].key \in Keys /\ wk[w].handle # 0 /\ wk[w].out = <<>>
  BY <1>1, <1>2 DEF PlacePart, Shapes, WorkerState, Place
<1>4. PICK q \in {"loading", "load"} : wk' = [wk EXCEPT ![w].pc = q]
        /\ \/ q = "loading" /\ wk[w].key \in ProviderKeys
              /\ queue' = Append(queue, [type |-> "Load", key |-> wk[w].key, w |-> w])
           \/ q = "load" /\ wk[w].key \in McpKeys /\ queue' = queue
  BY DEF TakeLock, Post
<1>5. q \in Pcs
  BY DEF Pcs
<1>6. PICK u \in WorkerState :
        /\ wk' = [wk EXCEPT ![w] = u] /\ u.pc = q /\ u.key = wk[w].key /\ u.handle = wk[w].handle
        /\ u.token = wk[w].token /\ u.out = wk[w].out
  <2>1. wk' = [wk EXCEPT ![w].pc = q]
    BY <1>4
  <2>2. \E u \in WorkerState :
          /\ wk' = [wk EXCEPT ![w] = u] /\ u.pc = q
          /\ u.key = wk[w].key /\ u.handle = wk[w].handle /\ u.token = wk[w].token
          /\ u.seed = wk[w].seed /\ u.cache = wk[w].cache /\ u.out = wk[w].out
    BY <2>1, <1>1, <1>5, PlaceChanges
  <2>. QED BY <2>2
<1>7. Place(u)
  BY <1>3, <1>4, <1>6 DEF Place, Waiting
<1>8. /\ wk' \in [Workers -> WorkerState] /\ wk'[w] = u
      /\ \A v \in Workers \ {w} : wk'[v] = wk[v]
      /\ KeyOf' = KeyOf /\ Handles' = [Handles EXCEPT ![w] = u.handle]
      /\ \A v \in Workers : KeyOf[v] = wk[v].key /\ Handles[v] = wk[v].handle /\ KeyOf[v] \in Keys
      /\ Held' = Held \cup {w}
  <2>1. u.handle # 0 /\ u.pc \in Holding
    BY <1>3, <1>6 DEF Holding
  <2>2. /\ wk' \in [Workers -> WorkerState] /\ wk'[w] = u
        /\ \A v \in Workers \ {w} : wk'[v] = wk[v]
        /\ KeyOf' = KeyOf /\ Handles' = [Handles EXCEPT ![w] = u.handle]
        /\ \A v \in Workers : KeyOf[v] = wk[v].key /\ Handles[v] = wk[v].handle /\ KeyOf[v] \in Keys
        /\ Held' = IF u.handle # 0 /\ u.pc \in Holding THEN Held \cup {w} ELSE Held \ {w}
    BY <1>1, <1>6, Becomes, ZenonT(40)
  <2>. QED BY <2>1, <2>2
<1>9. Handles' = Handles /\ Held \subseteq Workers
  BY <1>6, <1>8 DEF Handles, Held
<1>10. LockPart'
  <2>1. \A v \in Held : Handles[v] # Handles[w] /\ Handles[v] # 0 /\ Handles[v] \notin free
    BY <1>1, <1>2, <1>8 DEF LockPart
  <2>2. Handles[w] = wk[w].handle
    BY <1>8
  <2>. QED BY <2>1, <2>2, <1>1, <1>2, <1>3, <1>8, <1>9 DEF LockPart
<1>11. PlacePart' /\ AnswerPart' /\ queue' \in Seq(Commands)
  <2>1. CASE q = "loading"
    <3>1. PICK c \in Commands : c = [type |-> "Load", key |-> wk[w].key, w |-> w]
      BY <1>3, CommandTypes
    <3>2. queue' = Append(queue, c) /\ Asks(c) /\ OfItsKind(c) /\ c.w = w /\ Asked(c, u)
      BY <2>1, <3>1, <1>4, <1>6 DEF Asks, OfItsKind, Asked
    <3>3. wk[w].pc \notin Waiting /\ u.pc \in Waiting
      BY <2>1, <1>2, <1>6 DEF Waiting
    <3>. QED BY <3>1, <3>2, <3>3, <1>6, <1>7, WorkerAsks
  <2>2. CASE q = "load"
    <3>1. PlacePart'
      BY <1>1, <1>7, <1>8 DEF PlacePart
    <3>2. \A v \in Workers : wk'[v].pc \in Waiting => wk[v].pc \in Waiting
      BY <2>2, <1>6, <1>8 DEF Waiting
    <3>3. \A v \in Workers : wk[v].pc \in Waiting => wk'[v] = wk[v]
      BY <1>2, <1>8 DEF Waiting
    <3>4. queue' = queue
      BY <2>2, <1>4
    <3>5. AnswerPart'
      BY <3>2, <3>3, <3>4, <1>1, AnswersKept
    <3>. QED BY <3>1, <3>4, <3>5, <1>1 DEF Shapes
  <2>. QED BY <2>1, <2>2
<1>12. Shapes'
  BY <1>1, <1>2, <1>8, <1>11 DEF Shapes
<1>. QED BY <1>10, <1>11, <1>12 DEF LockInv

\* The guard goes, and gives the lock's token back.
LEMMA ReleaseLocks ==
  ASSUME LockInv, NEW w \in Workers, Release(w)
  PROVE  LockInv'
<1>1. Shapes /\ LockPart /\ PlacePart /\ AnswerPart
  BY DEF LockInv
<1>2. PICK q, l : q = (IF wk[w].key \in McpKeys THEN "idle" ELSE "prune") /\ l = wk[w].handle
  OBVIOUS
<1>3. /\ wk[w].pc = "release" /\ free' = free \cup {l}
      /\ wk' = [wk EXCEPT ![w].handle = 0, ![w].token = None, ![w].seed = None, ![w].pc = q]
      /\ UNCHANGED <<locked, store, queue, registry, live, lost, grants, exchanges>>
  BY <1>2 DEF Release, daemon, server
<1>4. Place(wk[w]) /\ wk[w] \in WorkerState /\ wk[w].key \in Keys
  BY <1>1 DEF PlacePart, Shapes, WorkerState
<1>5. l # 0 /\ l \in Locks /\ wk[w].out = <<>> /\ wk[w].key \in ProviderKeys \cup McpKeys
  BY <1>2, <1>3, <1>4, Bounds DEF Place, WorkerState
<1>6. PICK u : u = [wk[w] EXCEPT !.handle = 0, !.token = None, !.seed = None, !.pc = q]
  OBVIOUS
<1>7. /\ u \in WorkerState /\ u.key = wk[w].key /\ u.handle = 0 /\ u.pc = q /\ u.out = <<>>
      /\ wk' = [wk EXCEPT ![w] = u]
  <2>1. u = [key |-> wk[w].key, pc |-> q, handle |-> 0, token |-> None, seed |-> None,
             cache |-> wk[w].cache, out |-> wk[w].out]
    BY <1>4, <1>6 DEF WorkerState
  <2>2. q \in Pcs
    BY <1>2 DEF Pcs
  <2>3. u \in WorkerState /\ u.key = wk[w].key /\ u.handle = 0 /\ u.pc = q /\ u.out = <<>>
    BY <2>1, <2>2, <1>4, <1>5, Bounds DEF WorkerState
  <2>4. wk' = [wk EXCEPT ![w] = u]
    BY <1>1, <1>3, <1>6 DEF Shapes
  <2>. QED BY <2>3, <2>4
<1>8. Place(u)
  BY <1>2, <1>5, <1>7 DEF Place, Waiting
<1>9. /\ wk' \in [Workers -> WorkerState] /\ wk'[w] = u
      /\ \A v \in Workers \ {w} : wk'[v] = wk[v]
      /\ KeyOf' = KeyOf /\ Handles' = [Handles EXCEPT ![w] = 0]
      /\ \A v \in Workers : KeyOf[v] = wk[v].key /\ Handles[v] = wk[v].handle /\ KeyOf[v] \in Keys
      /\ Held' = Held \ {w}
  BY <1>1, <1>7, Becomes
<1>10. LockPart'
  <2>1. w \in Held /\ Handles[w] = l /\ Held \subseteq Workers
    BY <1>2, <1>3, <1>5, <1>9 DEF Held, Holder, Holding
  <2>2. \A v \in Held : v # w => Handles[v] # l /\ Handles[v] # 0 /\ Handles[v] \notin free
    BY <2>1, <1>1 DEF LockPart
  <2>3. Handles'[w] = 0 /\ \A v \in Workers : v # w => Handles'[v] = Handles[v]
    BY <1>9 DEF Handles
  <2>. QED BY <2>1, <2>2, <2>3, <1>1, <1>3, <1>9 DEF LockPart
<1>11. PlacePart'
  BY <1>1, <1>8, <1>9 DEF PlacePart
<1>12. AnswerPart'
  <2>1. \A v \in Workers : wk'[v].pc \in Waiting => wk[v].pc \in Waiting
    BY <1>2, <1>7, <1>9 DEF Waiting
  <2>2. \A v \in Workers : wk[v].pc \in Waiting => wk'[v] = wk[v]
    BY <1>3, <1>9 DEF Waiting
  <2>. QED BY <2>1, <2>2, <1>1, <1>3, AnswersKept
<1>13. Shapes'
  BY <1>1, <1>3, <1>5, <1>9 DEF Shapes
<1>. QED BY <1>10, <1>11, <1>12, <1>13 DEF LockInv

\* What an exchange the server grants does there, and what it answers.
LEMMA AcceptFacts ==
  ASSUME Shapes, NEW k \in Keys, NEW t \in Tokens, Accepts(k, t), NEW a, a = Answer(k, t)
  PROVE  /\ live' \in [Keys -> SUBSET Tokens] /\ exchanges' \in 0..MaxExchanges
         /\ \A j \in Keys : \A x \in live'[j] : x.n =< exchanges'
         /\ a \in Tokens /\ a.g = t.g /\ t \in live[k]
         /\ \A j \in Keys \ {k} : live'[j] = live[j]
         /\ \/ a = t /\ live' = live
            \/ /\ a # t /\ a.n = t.n + 1
               /\ live'[k] = (live[k] \ {t}) \cup {a}
<1>1. MaxExchanges \in Nat /\ t.n \in Nat /\ t.g \in 0..MaxGrants /\ exchanges \in Nat
  BY Bounds DEF Tokens, Shapes
<1>2. t \in live[k] /\ exchanges < MaxExchanges /\ exchanges' = exchanges + 1
  BY DEF Accepts, Keeps, Rotates
<1>3. t.n =< exchanges
  BY <1>2 DEF Shapes
<1>4. exchanges' \in 0..MaxExchanges
  BY <1>1, <1>2
<1>5. CASE Keeps(k, t)
  <2>1. live' = live /\ a = t
    BY <1>2, <1>5 DEF Keeps, Answer
  <2>2. \A j \in Keys : \A x \in live'[j] : x.n =< exchanges'
    <3>1. SUFFICES ASSUME NEW j \in Keys, NEW x \in live[j] PROVE x.n =< exchanges + 1
      BY <2>1, <1>2
    <3>2. x.n =< exchanges /\ x \in Tokens
      BY <3>1 DEF Shapes
    <3>3. x.n \in Nat
      BY <3>2, <1>1 DEF Tokens
    <3>. QED BY <3>2, <3>3, <1>1
  <2>. QED BY <2>1, <2>2, <1>2, <1>4 DEF Shapes
<1>6. CASE Rotates(k, t)
  <2>1. PICK s : s = Successor(t)
    OBVIOUS
  <2>2. s = [g |-> t.g, n |-> t.n + 1] /\ s \in Tokens /\ s # t /\ s.g = t.g /\ s.n = t.n + 1
    <3>1. s = [g |-> t.g, n |-> t.n + 1]
      BY <2>1 DEF Successor, Tokens
    <3>2. t.n + 1 \in 0..MaxExchanges
      BY <1>1, <1>2, <1>3
    <3>. QED BY <3>1, <3>2, <1>1 DEF Tokens
  <2>3. live' = [live EXCEPT ![k] = (live[k] \ {t}) \cup {s}]
    BY <1>6, <2>1 DEF Rotates
  <2>4. live'[k] = (live[k] \ {t}) \cup {s} /\ \A j \in Keys \ {k} : live'[j] = live[j]
    BY <2>3 DEF Shapes
  <2>5. a = s
    BY <2>1, <2>2, <2>4 DEF Answer
  <2>6. live' \in [Keys -> SUBSET Tokens]
    BY <2>2, <2>3 DEF Shapes
  <2>7. \A j \in Keys : \A x \in live'[j] : x.n =< exchanges'
    <3>1. SUFFICES ASSUME NEW j \in Keys, NEW x \in live'[j] PROVE x.n =< exchanges + 1
      BY <1>2
    <3>2. CASE x = s
      BY <3>2, <2>2, <1>1, <1>3
    <3>3. CASE x # s
      <4>1. x \in live[j]
        BY <3>1, <3>3, <2>4
      <4>2. x.n =< exchanges /\ x \in Tokens
        BY <4>1 DEF Shapes
      <4>3. x.n \in Nat
        BY <4>2, <1>1 DEF Tokens
      <4>. QED BY <4>2, <4>3, <1>1
    <3>. QED BY <3>2, <3>3
  <2>. QED BY <2>2, <2>4, <2>5, <2>6, <2>7, <1>2, <1>4
<1>. QED BY <1>5, <1>6 DEF Accepts

\* The registry is pruned after a provider's refresh.
LEMMA PruneLocks ==
  ASSUME LockInv, NEW w \in Workers, Prune(w)
  PROVE  LockInv'
<1>1. Shapes /\ LockPart /\ PlacePart /\ AnswerPart
  BY DEF LockInv
<1>2. PICK q \in Pcs : q = "idle"
  BY DEF Pcs
<1>3. /\ wk[w].pc = "prune" /\ registry' = Retained /\ wk' = [wk EXCEPT ![w].pc = q]
      /\ UNCHANGED <<locked, store, queue, free, live, lost, grants, exchanges>>
  BY <1>2 DEF Prune, daemon, server
<1>4. PICK u \in WorkerState :
        /\ wk' = [wk EXCEPT ![w] = u] /\ u.pc = q
        /\ u.key = wk[w].key /\ u.handle = wk[w].handle /\ u.token = wk[w].token
        /\ u.seed = wk[w].seed /\ u.cache = wk[w].cache /\ u.out = wk[w].out
  BY <1>1, <1>3, PlaceChanges
<1>5. Place(wk[w])
  BY <1>1 DEF PlacePart
<1>6. Place(u) /\ wk[w].pc \notin Waiting /\ u.pc \notin Waiting /\ u.pc \notin Holding
  BY <1>2, <1>3, <1>4, <1>5 DEF Place, Waiting, Holding
<1>7. LockPart' /\ PlacePart' /\ AnswerPart' /\ queue' \in Seq(Commands)
      /\ wk' \in [Workers -> WorkerState] /\ registry' \in [Keys -> Locks \cup {0}]
  BY <1>3, <1>4, <1>6, WorkerMoves
<1>8. Shapes'
  BY <1>1, <1>3, <1>7 DEF Shapes
<1>. QED BY <1>7, <1>8 DEF LockInv

\* A worker that holds its lock goes on and changes nothing of the daemon.
LEMMA HolderMoves ==
  ASSUME LockInv, NEW w \in Workers, NEW u \in WorkerState, wk' = [wk EXCEPT ![w] = u],
         u.key = wk[w].key, u.handle = wk[w].handle, Place(u),
         wk[w].pc \in {"load", "exchange"}, u.pc \in {"release", "exchange", "publish"},
         UNCHANGED <<daemon, single, grants>>,
         lost' \in [Keys -> SUBSET Tokens], live' \in [Keys -> SUBSET Tokens],
         exchanges' \in 0..MaxExchanges, \A k \in Keys : \A t \in live'[k] : t.n =< exchanges'
  PROVE  LockInv'
<1>1. UNCHANGED <<locked, store, queue, registry, free>>
  BY DEF daemon, single
<1>2. wk[w].pc \notin Waiting /\ u.pc \notin Waiting /\ wk[w].pc \in Holding
  BY DEF Waiting, Holding
<1>3. LockPart' /\ PlacePart' /\ AnswerPart' /\ queue' \in Seq(Commands)
      /\ wk' \in [Workers -> WorkerState] /\ registry' \in [Keys -> Locks \cup {0}]
  BY <1>1, <1>2, WorkerMoves
<1>4. Shapes'
  BY <1>1, <1>3 DEF LockInv, Shapes
<1>. QED BY <1>3, <1>4 DEF LockInv

\* The exchange fails.
LEMMA ExchangeFailsLocks ==
  ASSUME LockInv, NEW w \in Workers, ExchangeFails(w)
  PROVE  LockInv'
<1>1. Shapes /\ PlacePart
  BY DEF LockInv
<1>2. PICK q \in Pcs : q = "release"
  BY DEF Pcs
<1>3. /\ wk[w].pc = "exchange" /\ wk' = [wk EXCEPT ![w].pc = q] /\ UNCHANGED <<daemon, single, grants>>
  BY <1>2 DEF ExchangeFails
<1>4. PICK u \in WorkerState :
        /\ wk' = [wk EXCEPT ![w] = u] /\ u.pc = q
        /\ u.key = wk[w].key /\ u.handle = wk[w].handle /\ u.token = wk[w].token
        /\ u.seed = wk[w].seed /\ u.cache = wk[w].cache /\ u.out = wk[w].out
  BY <1>1, <1>3, PlaceChanges
<1>5. Place(wk[w])
  BY <1>1 DEF PlacePart
<1>6. Place(u)
  BY <1>2, <1>3, <1>4, <1>5 DEF Place, Waiting
<1>7. PICK k \in Keys, t \in Tokens : k = wk[w].key /\ t = wk[w].token
  BY <1>1 DEF Shapes, WorkerState
<1>8. /\ lost' \in [Keys -> SUBSET Tokens] /\ live' \in [Keys -> SUBSET Tokens]
      /\ exchanges' \in 0..MaxExchanges /\ \A j \in Keys : \A x \in live'[j] : x.n =< exchanges'
  <2>1. CASE UNCHANGED <<live, lost, exchanges>>
    BY <2>1, <1>1 DEF Shapes
  <2>2. CASE Rotates(k, t) /\ lost' = [lost EXCEPT ![k] = @ \cup {t}]
    <3>1. Accepts(k, t)
      BY <2>2 DEF Accepts
    <3>2. PICK a : a = Answer(k, t)
      OBVIOUS
    <3>3. /\ live' \in [Keys -> SUBSET Tokens] /\ exchanges' \in 0..MaxExchanges
          /\ \A j \in Keys : \A x \in live'[j] : x.n =< exchanges'
      BY <3>1, <3>2, <1>1, AcceptFacts
    <3>. QED BY <2>2, <3>3, <1>1 DEF Shapes
  <2>. QED BY <2>1, <2>2, <1>7 DEF ExchangeFails
<1>. QED BY <1>2, <1>3, <1>4, <1>6, <1>8, HolderMoves

\* The server grants a provider's exchange: the save is posted.
LEMMA ProviderRefreshedLocks ==
  ASSUME LockInv, NEW w \in Workers, ProviderRefreshed(w)
  PROVE  LockInv'
<1>1. Shapes /\ LockPart /\ PlacePart /\ AnswerPart
  BY DEF LockInv
<1>2. PICK q \in Pcs : q = "saving"
  BY DEF Pcs
<1>3. PICK k \in Keys, t \in Tokens : k = wk[w].key /\ t = wk[w].token
  BY <1>1 DEF Shapes, WorkerState
<1>4. PICK a : a = Answer(k, t)
  OBVIOUS
<1>5. /\ wk[w].pc = "exchange" /\ k \in ProviderKeys /\ Accepts(k, t)
      /\ queue' = Append(queue, [type |-> "Save", key |-> k, w |-> w, token |-> a, expected |-> t])
      /\ wk' = [wk EXCEPT ![w].pc = q]
      /\ UNCHANGED <<locked, store, registry, free, lost, grants>>
  BY <1>2, <1>3, <1>4 DEF ProviderRefreshed, Post, single
<1>6. PICK u \in WorkerState :
        /\ wk' = [wk EXCEPT ![w] = u] /\ u.pc = q
        /\ u.key = wk[w].key /\ u.handle = wk[w].handle /\ u.token = wk[w].token
        /\ u.seed = wk[w].seed /\ u.cache = wk[w].cache /\ u.out = wk[w].out
  BY <1>1, <1>5, PlaceChanges
<1>7. Place(wk[w])
  BY <1>1 DEF PlacePart
<1>8. Place(u) /\ wk[w].pc \notin Waiting /\ u.pc \in Waiting /\ u.handle # 0
  BY <1>2, <1>3, <1>5, <1>6, <1>7 DEF Place, Waiting
<1>9. /\ live' \in [Keys -> SUBSET Tokens] /\ exchanges' \in 0..MaxExchanges
      /\ \A j \in Keys : \A x \in live'[j] : x.n =< exchanges'
      /\ a \in Tokens /\ a.g = t.g
  BY <1>1, <1>4, <1>5, AcceptFacts
<1>10. PICK c \in Commands : c = [type |-> "Save", key |-> k, w |-> w, token |-> a, expected |-> t]
  BY <1>9, CommandTypes
<1>11. queue' = Append(queue, c) /\ Asks(c) /\ OfItsKind(c) /\ c.w = w /\ Asked(c, u)
  BY <1>2, <1>3, <1>5, <1>6, <1>9, <1>10 DEF Asks, OfItsKind, Asked
<1>12. PlacePart' /\ AnswerPart' /\ queue' \in Seq(Commands)
  BY <1>6, <1>8, <1>10, <1>11, WorkerAsks
<1>13. /\ wk' \in [Workers -> WorkerState] /\ KeyOf' = KeyOf
       /\ Handles' = [Handles EXCEPT ![w] = u.handle] /\ Handles[w] = wk[w].handle
       /\ Held' = IF u.handle # 0 /\ u.pc \in Holding THEN Held \cup {w} ELSE Held \ {w}
  BY <1>1, <1>6, Becomes
<1>14. w \in Held /\ Handles' = Handles
  <2>1. w \in Held
    BY <1>5, <1>6, <1>8 DEF Held, Holder, Holding
  <2>2. Handles' = Handles
    BY <1>6, <1>13 DEF Handles
  <2>. QED BY <2>1, <2>2
<1>15. LockPart'
  BY <1>1, <1>5, <1>13, <1>14, LocksKept
<1>16. Shapes'
  BY <1>1, <1>5, <1>9, <1>12, <1>13 DEF Shapes
<1>. QED BY <1>12, <1>15, <1>16 DEF LockInv

\* The server refuses a provider's token: the grant is to be marked dead.
LEMMA ProviderRejectedLocks ==
  ASSUME LockInv, NEW w \in Workers, ProviderRejected(w)
  PROVE  LockInv'
<1>1. Shapes /\ LockPart /\ PlacePart /\ AnswerPart
  BY DEF LockInv
<1>2. PICK q \in Pcs : q = "release"
  BY DEF Pcs
<1>3. PICK k \in Keys : k = wk[w].key
  BY <1>1 DEF Shapes, WorkerState
<1>4. PICK c \in Commands : c = [type |-> "MarkDead", key |-> k]
  BY CommandTypes
<1>5. /\ wk[w].pc = "exchange" /\ k \in ProviderKeys /\ queue' = Append(queue, c)
      /\ wk' = [wk EXCEPT ![w].pc = q]
      /\ UNCHANGED <<locked, store, registry, free, live, lost, grants, exchanges>>
  BY <1>2, <1>3, <1>4 DEF ProviderRejected, Post, single, server
<1>6. PICK u \in WorkerState :
        /\ wk' = [wk EXCEPT ![w] = u] /\ u.pc = q
        /\ u.key = wk[w].key /\ u.handle = wk[w].handle /\ u.token = wk[w].token
        /\ u.seed = wk[w].seed /\ u.cache = wk[w].cache /\ u.out = wk[w].out
  BY <1>1, <1>5, PlaceChanges
<1>7. Place(wk[w])
  BY <1>1 DEF PlacePart
<1>8. Place(u) /\ wk[w].pc \notin Waiting /\ u.pc \notin Waiting /\ wk[w].pc \in Holding
  BY <1>2, <1>5, <1>6, <1>7 DEF Place, Waiting, Holding
<1>9. ~Asks(c) /\ OfItsKind(c)
  BY <1>4, <1>5 DEF Asks, OfItsKind
<1>10. LockPart' /\ PlacePart' /\ AnswerPart' /\ queue' \in Seq(Commands)
       /\ wk' \in [Workers -> WorkerState] /\ registry' \in [Keys -> Locks \cup {0}]
  BY <1>5, <1>6, <1>8, <1>9, WorkerMoves
<1>11. Shapes'
  BY <1>1, <1>5, <1>10 DEF Shapes
<1>. QED BY <1>10, <1>11 DEF LockInv

\* The command an adapter is about to send.
LEMMA OutFacts ==
  ASSUME NEW o \in Outs, o # <<>>
  PROVE  \E c \in Commands : o = <<c>> /\ o[1] = c /\ Head(o) = c
<1>1. PICK c \in Commands : o = <<c>>
  BY DEF Outs
<1>. QED BY <1>1

\* The history mark changes nothing else of it.
LEMMA MarkedFacts ==
  ASSUME NEW k, NEW c \in Commands
  PROVE  /\ Marked(k, c) \in Commands
         /\ Marked(k, c).type = c.type /\ Marked(k, c).key = c.key
         /\ c.type # "OAuthSave" => Marked(k, c) = c
         /\ c.type = "OAuthSave" =>
              /\ Marked(k, c).token = c.token /\ Marked(k, c).expected = c.expected
              /\ Marked(k, c).spent = c.spent
              /\ Marked(k, c).alone => Saves(k) = {} /\ store[k].view = c.token
<1>1. CASE c.type # "OAuthSave"
  BY <1>1 DEF Marked
<1>2. CASE c.type = "OAuthSave"
  <2>1. PICK b \in BOOLEAN : b = (Saves(k) = {} /\ store[k].view = c.token)
    OBVIOUS
  <2>2. Marked(k, c) = [c EXCEPT !.alone = b]
    BY <1>2, <2>1 DEF Marked
  <2>3. c \in [type : {"OAuthSave"}, key : Keys, token : Tokens, expected : Tokens,
               spent : Tokens, alone : BOOLEAN]
    BY <1>2 DEF Commands
  <2>4. [c EXCEPT !.alone = b] = [type |-> "OAuthSave", key |-> c.key, token |-> c.token,
           expected |-> c.expected, spent |-> c.spent, alone |-> b]
    BY <1>2, <2>3
  <2>5. Marked(k, c) \in Commands
    BY <2>2, <2>3, <2>4, CommandTypes
  <2>. QED BY <1>2, <2>1, <2>2, <2>4, <2>5
<1>. QED BY <1>1, <1>2

\* The adapter's full load.
LEMMA AdapterLoadsLocks ==
  ASSUME LockInv, NEW w \in Workers, AdapterLoads(w)
  PROVE  LockInv'
<1>1. Shapes /\ PlacePart
  BY DEF LockInv
<1>2. Place(wk[w]) /\ wk[w] \in WorkerState /\ wk[w].pc = "load" /\ wk[w].key \in McpKeys
  BY <1>1 DEF AdapterLoads, PlacePart, Shapes
<1>3. PICK v, c : v = store[wk[w].key].view /\ c = wk[w].cache
  OBVIOUS
<1>4. v \in Tokens /\ c \in Tokens
  BY <1>1, <1>2, <1>3 DEF Shapes, Record, WorkerState
<1>5. PICK t \in Tokens : t = IF c = None THEN v ELSE c
  BY <1>4
<1>6. \E u \in WorkerState :
        /\ wk' = [wk EXCEPT ![w] = u] /\ u.key = wk[w].key /\ u.handle = wk[w].handle
        /\ u.pc \in {"release", "exchange"} /\ u.out = wk[w].out
  <2>1. CASE wk' = [wk EXCEPT ![w].pc = "release"]
    <3>1. PICK q \in Pcs : q = "release"
      BY DEF Pcs
    <3>2. \E u \in WorkerState :
            /\ wk' = [wk EXCEPT ![w] = u] /\ u.pc = q
            /\ u.key = wk[w].key /\ u.handle = wk[w].handle /\ u.token = wk[w].token
            /\ u.seed = wk[w].seed /\ u.cache = wk[w].cache /\ u.out = wk[w].out
      BY <2>1, <3>1, <1>1, PlaceChanges
    <3>. QED BY <3>1, <3>2
  <2>2. CASE wk' = [wk EXCEPT ![w].pc = "exchange", ![w].seed = v, ![w].token = t]
    <3>1. PICK u : u = [wk[w] EXCEPT !.pc = "exchange", !.seed = v, !.token = t]
      OBVIOUS
    <3>2. u = [key |-> wk[w].key, pc |-> "exchange", handle |-> wk[w].handle, token |-> t,
               seed |-> v, cache |-> wk[w].cache, out |-> wk[w].out]
      BY <3>1, <1>2 DEF WorkerState
    <3>3. u \in WorkerState
      BY <3>2, <1>2, <1>4 DEF WorkerState, Pcs
    <3>4. wk' = [wk EXCEPT ![w] = u]
      BY <2>2, <3>1, <1>1 DEF Shapes
    <3>. QED BY <3>2, <3>3, <3>4
  <2>. QED BY <2>1, <2>2, <1>3, <1>5 DEF AdapterLoads
<1>7. PICK u \in WorkerState :
        /\ wk' = [wk EXCEPT ![w] = u] /\ u.key = wk[w].key /\ u.handle = wk[w].handle
        /\ u.pc \in {"release", "exchange"} /\ u.out = wk[w].out
  BY <1>6
<1>8. Place(u)
  BY <1>2, <1>7 DEF Place, Waiting
<1>9. UNCHANGED <<daemon, single, grants, lost, live, exchanges>>
  BY DEF AdapterLoads, server
<1>. QED BY <1>1, <1>2, <1>7, <1>8, <1>9, HolderMoves DEF Shapes

\* The server grants the adapter's exchange.
LEMMA AdapterRefreshedLocks ==
  ASSUME LockInv, NEW w \in Workers, AdapterRefreshed(w)
  PROVE  LockInv'
<1>1. Shapes /\ PlacePart
  BY DEF LockInv
<1>2. PICK k \in Keys, t \in Tokens, s \in Tokens : k = wk[w].key /\ t = wk[w].token /\ s = wk[w].seed
  BY <1>1 DEF Shapes, WorkerState
<1>3. PICK a : a = Answer(k, t)
  OBVIOUS
<1>4. /\ Place(wk[w]) /\ wk[w] \in WorkerState /\ wk[w].pc = "exchange" /\ k \in McpKeys
      /\ Accepts(k, t) /\ UNCHANGED <<daemon, single, lost, grants>>
  BY <1>1, <1>2 DEF AdapterRefreshed, PlacePart, Shapes
<1>5. /\ live' \in [Keys -> SUBSET Tokens] /\ exchanges' \in 0..MaxExchanges
      /\ \A j \in Keys : \A x \in live'[j] : x.n =< exchanges'
      /\ a \in Tokens
  BY <1>1, <1>3, <1>4, AcceptFacts
<1>6. PICK c \in Commands : c = [type |-> "OAuthSave", key |-> k, token |-> a, expected |-> s,
                                 spent |-> t, alone |-> FALSE]
  BY <1>5, CommandTypes
<1>7. \/ wk' = [wk EXCEPT ![w].cache = a, ![w].pc = "release"]
      \/ wk' = [wk EXCEPT ![w].cache = a, ![w].pc = "publish", ![w].out = <<c>>]
  BY <1>2, <1>3, <1>6 DEF AdapterRefreshed
<1>8. wk[w].handle # 0 /\ wk[w].out = <<>>
  BY <1>4 DEF Place
<1>9. \E u \in WorkerState :
        /\ wk' = [wk EXCEPT ![w] = u] /\ u.key = wk[w].key /\ u.handle = wk[w].handle
        /\ u.pc \in {"release", "publish"} /\ Place(u)
  <2>1. CASE wk' = [wk EXCEPT ![w].cache = a, ![w].pc = "release"]
    <3>1. PICK u : u = [wk[w] EXCEPT !.cache = a, !.pc = "release"]
      OBVIOUS
    <3>2. u = [key |-> wk[w].key, pc |-> "release", handle |-> wk[w].handle, token |-> t,
               seed |-> s, cache |-> a, out |-> wk[w].out]
      BY <3>1, <1>2, <1>4 DEF WorkerState
    <3>3. u \in WorkerState
      BY <3>2, <1>4, <1>5 DEF WorkerState, Pcs
    <3>4. wk' = [wk EXCEPT ![w] = u]
      BY <2>1, <3>1, <1>1 DEF Shapes
    <3>5. Place(u)
      BY <3>2, <1>8 DEF Place, Waiting
    <3>. QED BY <3>2, <3>3, <3>4, <3>5
  <2>2. CASE wk' = [wk EXCEPT ![w].cache = a, ![w].pc = "publish", ![w].out = <<c>>]
    <3>1. PICK o : o = <<c>>
      OBVIOUS
    <3>2. o \in Outs /\ o # <<>> /\ o[1] = c
      BY <3>1 DEF Outs
    <3>3. PICK u : u = [wk[w] EXCEPT !.cache = a, !.pc = "publish", !.out = o]
      OBVIOUS
    <3>4. u = [key |-> wk[w].key, pc |-> "publish", handle |-> wk[w].handle, token |-> t,
               seed |-> s, cache |-> a, out |-> o]
      BY <3>3, <1>2, <1>4 DEF WorkerState
    <3>5. u \in WorkerState
      BY <3>2, <3>4, <1>4, <1>5 DEF WorkerState, Pcs
    <3>6. wk' = [wk EXCEPT ![w] = u]
      BY <2>2, <3>1, <3>3, <1>1 DEF Shapes
    <3>7. c.key = k /\ c.type = "OAuthSave"
      BY <1>6
    <3>8. Place(u)
      BY <3>2, <3>4, <3>7, <1>2, <1>4, <1>8 DEF Place, Waiting
    <3>. QED BY <3>4, <3>5, <3>6, <3>8
  <2>. QED BY <2>1, <2>2, <1>7
<1>10. PICK u \in WorkerState :
        /\ wk' = [wk EXCEPT ![w] = u] /\ u.key = wk[w].key /\ u.handle = wk[w].handle
        /\ u.pc \in {"release", "publish"} /\ Place(u)
  BY <1>9
<1>11. lost' \in [Keys -> SUBSET Tokens]
  BY <1>1, <1>4 DEF Shapes
<1>. QED BY <1>4, <1>5, <1>10, <1>11, HolderMoves

\* A worker with an adapter's command to send, of one of two kinds.
LEMMA Outgoing ==
  ASSUME Shapes, NEW w \in Workers, NEW k \in McpKeys, NEW c \in Commands, c.key = k,
         c.type \in {"OAuthClear", "AuthRejected", "OAuthSave"},
         NEW u, u.pc = "publish", u.key = k, u.out = <<c>>, u.handle \in Locks \cup {0},
         {u.token, u.seed, u.cache} \subseteq Tokens,
         u = [key |-> u.key, pc |-> u.pc, handle |-> u.handle, token |-> u.token,
              seed |-> u.seed, cache |-> u.cache, out |-> u.out],
         u.handle = 0 => c.type = "OAuthClear"
  PROVE  u \in WorkerState /\ Place(u)
<1>1. PICK o : o = <<c>>
  OBVIOUS
<1>2. o \in Outs /\ o # <<>> /\ o[1] = c /\ u.out = o
  BY <1>1 DEF Outs
<1>3. k \in Keys
  BY DEF Keys
<1>4. u \in WorkerState
  BY <1>2, <1>3 DEF WorkerState, Pcs
<1>5. Place(u)
  BY <1>2 DEF Place, Waiting
<1>. QED BY <1>4, <1>5

\* The server refuses the adapter's token.
LEMMA AdapterRejectedLocks ==
  ASSUME LockInv, NEW w \in Workers, AdapterRejected(w)
  PROVE  LockInv'
<1>1. Shapes /\ PlacePart
  BY DEF LockInv
<1>2. PICK k \in McpKeys : k = wk[w].key
  BY DEF AdapterRejected
<1>3. PICK c \in Commands : c = [type |-> "AuthRejected", key |-> k]
  BY CommandTypes DEF Keys
<1>4. /\ Place(wk[w]) /\ wk[w] \in WorkerState /\ wk[w].pc = "exchange"
      /\ wk' = [wk EXCEPT ![w].pc = "publish", ![w].out = <<c>>]
      /\ UNCHANGED <<daemon, single, lost, grants, live, exchanges>>
  BY <1>1, <1>2, <1>3 DEF AdapterRejected, PlacePart, Shapes, server
<1>5. wk[w].handle # 0 /\ wk[w].handle \in Locks \cup {0}
  BY <1>4 DEF Place, WorkerState
<1>6. PICK u : u = [wk[w] EXCEPT !.pc = "publish", !.out = <<c>>]
  OBVIOUS
<1>7. u = [key |-> k, pc |-> "publish", handle |-> wk[w].handle, token |-> wk[w].token,
           seed |-> wk[w].seed, cache |-> wk[w].cache, out |-> <<c>>]
  BY <1>2, <1>4, <1>6 DEF WorkerState
<1>8. {wk[w].token, wk[w].seed, wk[w].cache} \subseteq Tokens
  BY <1>4 DEF WorkerState
<1>9. u \in WorkerState /\ Place(u)
  <2>1. /\ c.key = k /\ c.type = "AuthRejected" /\ u.pc = "publish" /\ u.key = k /\ u.out = <<c>>
        /\ u.handle = wk[w].handle /\ u.token = wk[w].token /\ u.seed = wk[w].seed
        /\ u.cache = wk[w].cache
    BY <1>3, <1>7
  <2>2. u = [key |-> u.key, pc |-> u.pc, handle |-> u.handle, token |-> u.token,
             seed |-> u.seed, cache |-> u.cache, out |-> u.out]
    BY <1>7
  <2>. QED BY <2>1, <2>2, <1>1, <1>5, <1>8, Outgoing
<1>10. wk' = [wk EXCEPT ![w] = u]
  BY <1>1, <1>4, <1>6 DEF Shapes
<1>11. u.key = wk[w].key /\ u.handle = wk[w].handle /\ u.pc = "publish"
  BY <1>2, <1>7
<1>. QED BY <1>1, <1>4, <1>9, <1>10, <1>11, HolderMoves DEF Shapes

\* A worker without a lock moves: a cleared credential, a replaced connection.
LEMMA IdleMoves ==
  ASSUME LockInv, NEW w \in Workers, AdapterClears(w) \/ AdapterReplaced(w)
  PROVE  LockInv'
<1>1. Shapes /\ PlacePart
  BY DEF LockInv
<1>2. PICK k \in Keys : k = wk[w].key
  BY <1>1 DEF Shapes, WorkerState
<1>3. PICK c \in Commands : c = [type |-> "OAuthClear", key |-> k]
  BY CommandTypes
<1>4. /\ Place(wk[w]) /\ wk[w].pc = "idle"
      /\ UNCHANGED <<locked, store, queue, registry, free, lost, grants, live, exchanges>>
  BY <1>1 DEF AdapterClears, AdapterReplaced, PlacePart, daemon, single, server
<1>5. wk[w].handle = 0
  BY <1>4 DEF Place
<1>6. /\ Idle(k) = [key |-> k, pc |-> "idle", handle |-> 0, token |-> None, seed |-> None,
                    cache |-> None, out |-> <<>>]
      /\ Idle(k) \in WorkerState /\ Place(Idle(k))
  <2>1. <<>> \in Outs
    BY DEF Outs
  <2>2. Idle(k) = [key |-> k, pc |-> "idle", handle |-> 0, token |-> None, seed |-> None,
                    cache |-> None, out |-> <<>>]
    BY DEF Idle
  <2>3. Idle(k) \in WorkerState
    BY <2>1, <2>2, Bounds DEF WorkerState, Pcs
  <2>4. Place(Idle(k))
    BY <2>2 DEF Place, Waiting
  <2>. QED BY <2>2, <2>3, <2>4
<1>7. \E u \in WorkerState :
        /\ wk' = [wk EXCEPT ![w] = u] /\ u.key = k /\ u.handle = 0
        /\ u.pc \in {"idle", "publish"} /\ Place(u)
  <2>1. CASE AdapterReplaced(w)
    BY <2>1, <1>2, <1>6 DEF AdapterReplaced
  <2>2. CASE AdapterClears(w)
    <3>0. PICK o : o = <<c>>
      OBVIOUS
    <3>1. PICK u : u = [Idle(k) EXCEPT !.pc = "publish", !.out = o]
      OBVIOUS
    <3>2. wk' = [wk EXCEPT ![w] = u] /\ k \in McpKeys
      BY <2>2, <3>0, <3>1, <1>2, <1>3 DEF AdapterClears
    <3>3. u = [key |-> k, pc |-> "publish", handle |-> 0, token |-> None, seed |-> None,
               cache |-> None, out |-> o]
      BY <3>1 DEF Idle
    <3>4. u \in WorkerState /\ Place(u)
      <4>1. /\ c.key = k /\ c.type = "OAuthClear" /\ u.pc = "publish" /\ u.key = k /\ u.out = <<c>>
            /\ u.handle = 0 /\ u.token = None /\ u.seed = None /\ u.cache = None
        BY <1>3, <3>0, <3>3
      <4>2. u = [key |-> u.key, pc |-> u.pc, handle |-> u.handle, token |-> u.token,
                 seed |-> u.seed, cache |-> u.cache, out |-> u.out]
        BY <3>3
      <4>3. {u.token, u.seed, u.cache} \subseteq Tokens /\ u.handle \in Locks \cup {0}
        BY <4>1, Bounds
      <4>. QED BY <4>1, <4>2, <4>3, <3>2, <1>1, Outgoing
    <3>. QED BY <3>2, <3>3, <3>4
  <2>. QED BY <2>1, <2>2
<1>8. PICK u \in WorkerState :
        /\ wk' = [wk EXCEPT ![w] = u] /\ u.key = k /\ u.handle = 0
        /\ u.pc \in {"idle", "publish"} /\ Place(u)
  BY <1>7
<1>9. wk[w].pc \notin Waiting /\ u.pc \notin Waiting
  BY <1>4, <1>8 DEF Waiting
<1>10. LockPart' /\ PlacePart' /\ AnswerPart' /\ queue' \in Seq(Commands)
       /\ wk' \in [Workers -> WorkerState] /\ registry' \in [Keys -> Locks \cup {0}]
  BY <1>2, <1>4, <1>5, <1>8, <1>9, WorkerMoves
<1>11. Shapes'
  BY <1>1, <1>4, <1>10 DEF Shapes
<1>. QED BY <1>10, <1>11 DEF LockInv

\* The adapter publishes into the read view, then sends its command.
LEMMA AdapterSpeaksLocks ==
  ASSUME LockInv, NEW w \in Workers, AdapterPublishes(w) \/ AdapterSends(w)
  PROVE  LockInv'
<1>1. Shapes /\ PlacePart
  BY DEF LockInv
<1>2. /\ Place(wk[w]) /\ wk[w] \in WorkerState /\ wk[w].pc \in {"publish", "send"}
      /\ UNCHANGED <<locked, registry, free, lost, grants, live, exchanges>>
  BY <1>1 DEF AdapterPublishes, AdapterSends, PlacePart, Shapes, single, server
<1>3. PICK k \in McpKeys : k = wk[w].key
  BY <1>2 DEF Place
<1>4. PICK o \in Outs : o = wk[w].out /\ o # <<>>
  BY <1>2 DEF Place, WorkerState
<1>5. PICK c \in Commands : o = <<c>> /\ o[1] = c /\ Head(o) = c
  BY <1>4, OutFacts
<1>6. /\ c.key = k /\ c.type \in {"OAuthSave", "OAuthClear", "AuthRejected"}
      /\ (wk[w].handle = 0 => c.type = "OAuthClear")
  BY <1>2, <1>3, <1>4, <1>5 DEF Place
<1>7. CASE AdapterPublishes(w)
  <2>1. PICK q \in Pcs : q = "send"
    BY DEF Pcs
  <2>2. /\ wk[w].pc = "publish" /\ queue' = queue /\ wk' = [wk EXCEPT ![w].pc = q]
        /\ store' = [store EXCEPT ![k].view = Shown(c)]
    BY <2>1, <1>3, <1>4, <1>5, <1>7 DEF AdapterPublishes
  <2>3. PICK u \in WorkerState :
          /\ wk' = [wk EXCEPT ![w] = u] /\ u.pc = q
          /\ u.key = wk[w].key /\ u.handle = wk[w].handle /\ u.token = wk[w].token
          /\ u.seed = wk[w].seed /\ u.cache = wk[w].cache /\ u.out = wk[w].out
    BY <2>2, <1>1, PlaceChanges
  <2>4. Place(u) /\ wk[w].pc \notin Waiting /\ u.pc \notin Waiting /\ wk[w].pc \in Holding
    BY <2>1, <2>2, <2>3, <1>2 DEF Place, Waiting, Holding
  <2>5. LockPart' /\ PlacePart' /\ AnswerPart' /\ queue' \in Seq(Commands)
        /\ wk' \in [Workers -> WorkerState] /\ registry' \in [Keys -> Locks \cup {0}]
    BY <2>2, <2>3, <2>4, <1>2, WorkerMoves
  <2>6. store' \in [Keys -> Record]
    <3>1. PICK x \in Tokens : x = Shown(c)
      BY CommandFields, Bounds DEF Shown, Save
    <3>2. k \in Keys /\ store \in [Keys -> Record] /\ store[k] \in Record
      BY <1>1 DEF Keys, Shapes
    <3>3. [store[k] EXCEPT !.view = x] \in Record
      BY <3>1, <3>2 DEF Record
    <3>4. store' = [store EXCEPT ![k] = [store[k] EXCEPT !.view = x]]
      BY <2>2, <3>1, <3>2
    <3>. QED BY <3>2, <3>3, <3>4
  <2>7. Shapes'
    BY <2>5, <2>6, <1>1, <1>2 DEF Shapes
  <2>. QED BY <2>5, <2>7 DEF LockInv
<1>8. CASE AdapterSends(w)
  <2>1. PICK q \in Pcs : q = (IF wk[w].handle # 0 THEN "release" ELSE "idle")
    BY DEF Pcs
  <2>2. PICK d \in Commands : d = Marked(k, c) /\ d.type = c.type /\ d.key = c.key
    BY MarkedFacts
  <2>3. /\ wk[w].pc = "send" /\ queue' = Append(queue, d) /\ store' = store
        /\ wk' = [wk EXCEPT ![w].pc = q, ![w].out = <<>>]
    BY <2>1, <2>2, <1>3, <1>4, <1>5, <1>8 DEF AdapterSends, Post
  <2>4. PICK u : u = [wk[w] EXCEPT !.pc = q, !.out = <<>>]
    OBVIOUS
  <2>5. u = [key |-> k, pc |-> q, handle |-> wk[w].handle, token |-> wk[w].token,
             seed |-> wk[w].seed, cache |-> wk[w].cache, out |-> <<>>]
    BY <2>4, <1>2, <1>3 DEF WorkerState
  <2>6. u \in WorkerState
    <3>1. <<>> \in Outs
      BY DEF Outs
    <3>. QED BY <3>1, <2>5, <1>2, <1>3 DEF WorkerState
  <2>7. wk' = [wk EXCEPT ![w] = u]
    BY <2>3, <2>4, <1>1 DEF Shapes
  <2>8. Place(u) /\ wk[w].pc \notin Waiting /\ u.pc \notin Waiting /\ wk[w].pc \in Holding
    BY <2>1, <2>3, <2>5 DEF Place, Waiting, Holding
  <2>9. ~Asks(d) /\ OfItsKind(d)
    BY <2>2, <1>6 DEF Asks, OfItsKind
  <2>10. u.key = wk[w].key /\ u.handle = wk[w].handle
    BY <2>5, <1>3
  <2>11. LockPart' /\ PlacePart' /\ AnswerPart' /\ queue' \in Seq(Commands)
        /\ wk' \in [Workers -> WorkerState] /\ registry' \in [Keys -> Locks \cup {0}]
    BY <2>3, <2>6, <2>7, <2>8, <2>9, <2>10, <1>2, WorkerMoves
  <2>12. Shapes'
    BY <2>3, <2>11, <1>1, <1>2 DEF Shapes
  <2>. QED BY <2>11, <2>12 DEF LockInv
<1>. QED BY <1>7, <1>8

-----------------------------------------------------------------------------
(* The locks and the answers: the command loop, the clients, the start.      *)

\* A key's record with another grant.
LEMMA RecordReplaced ==
  ASSUME NEW r \in Record, NEW t \in Tokens, NEW a \in Counts
  PROVE  /\ [r EXCEPT !.cred = t, !.blob = t, !.access = a, !.dead = FALSE] \in Record
         /\ [r EXCEPT !.cred = t, !.blob = t, !.access = a, !.dead = FALSE]
              = [cred |-> t, blob |-> t, access |-> a, dead |-> FALSE, view |-> r.view, ahead |-> r.ahead]
<1>1. PICK no \in Flags : no = FALSE
  BY DEF Flags
<1>2. PICK x : x = [r EXCEPT !.cred = t, !.blob = t, !.access = a, !.dead = no]
  OBVIOUS
<1>3. x = [cred |-> t, blob |-> t, access |-> a, dead |-> no, view |-> r.view, ahead |-> r.ahead]
  BY <1>2 DEF Record
<1>4. r.view \in Tokens /\ r.ahead \in Flags
  BY DEF Record
<1>5. x \in Record
  BY <1>3, <1>4 DEF Record
<1>. QED BY <1>1, <1>2, <1>3, <1>5

\* A key's record, after what the handlers do to it.
LEMMA RecordUpdates ==
  ASSUME NEW r \in Record, NEW t \in Tokens
  PROVE  /\ Removed(r) \in Record
         /\ Removed(r)
              = [cred |-> None, blob |-> None, access |-> 0, dead |-> FALSE, view |-> r.view, ahead |-> r.ahead]
         /\ Wiped(r) \in Record
         /\ Wiped(r)
              = [cred |-> None, blob |-> r.blob, access |-> 0, dead |-> FALSE, view |-> r.view, ahead |-> r.ahead]
         /\ [r EXCEPT !.ahead = TRUE] \in Record
         /\ [r EXCEPT !.ahead = TRUE]
              = [cred |-> r.cred, blob |-> r.blob, access |-> r.access, dead |-> r.dead, view |-> r.view, ahead |-> TRUE]
         /\ [r EXCEPT !.dead = TRUE] \in Record
         /\ [r EXCEPT !.dead = TRUE]
              = [cred |-> r.cred, blob |-> r.blob, access |-> r.access, dead |-> TRUE, view |-> r.view, ahead |-> r.ahead]
         /\ [r EXCEPT !.dead = TRUE, !.access = 0] \in Record
         /\ [r EXCEPT !.dead = TRUE, !.access = 0]
              = [cred |-> r.cred, blob |-> r.blob, access |-> 0, dead |-> TRUE, view |-> r.view, ahead |-> r.ahead]
         /\ [r EXCEPT !.cred = r.blob] \in Record
         /\ [r EXCEPT !.cred = r.blob]
              = [cred |-> r.blob, blob |-> r.blob, access |-> r.access, dead |-> r.dead, view |-> r.view, ahead |-> r.ahead]
         /\ [r EXCEPT !.view = t] \in Record
         /\ [r EXCEPT !.view = t]
              = [cred |-> r.cred, blob |-> r.blob, access |-> r.access, dead |-> r.dead, view |-> t, ahead |-> r.ahead]
<1>1. /\ r.cred \in Tokens /\ r.blob \in Tokens /\ r.access \in Counts
      /\ r.dead \in Flags /\ r.view \in Tokens /\ r.ahead \in Flags
  BY DEF Record
<1>2. PICK yes, no : yes = TRUE /\ no = FALSE /\ yes \in Flags /\ no \in Flags
  BY DEF Flags
<1>3. None \in Tokens /\ 0 \in Counts
  BY Bounds DEF Counts
<1>5. /\ Removed(r) \in Record
      /\ Removed(r)
           = [cred |-> None, blob |-> None, access |-> 0, dead |-> FALSE, view |-> r.view, ahead |-> r.ahead]
  <2>0. PICK x : x = [r EXCEPT !.cred = None, !.blob = None, !.access = 0, !.dead = no]
    OBVIOUS
  <2>1. x = [cred |-> None, blob |-> None, access |-> 0, dead |-> no, view |-> r.view, ahead |-> r.ahead]
    BY <2>0 DEF Record
  <2>2. [cred |-> None, blob |-> None, access |-> 0, dead |-> no, view |-> r.view, ahead |-> r.ahead] \in Record
    BY <1>1, <1>2, <1>3 DEF Record
  <2>. QED BY <2>0, <2>1, <2>2, <1>2 DEF Removed, Wiped
<1>6. /\ Wiped(r) \in Record
      /\ Wiped(r)
           = [cred |-> None, blob |-> r.blob, access |-> 0, dead |-> FALSE, view |-> r.view, ahead |-> r.ahead]
  <2>0. PICK x : x = [r EXCEPT !.cred = None, !.access = 0, !.dead = no]
    OBVIOUS
  <2>1. x = [cred |-> None, blob |-> r.blob, access |-> 0, dead |-> no, view |-> r.view, ahead |-> r.ahead]
    BY <2>0 DEF Record
  <2>2. [cred |-> None, blob |-> r.blob, access |-> 0, dead |-> no, view |-> r.view, ahead |-> r.ahead] \in Record
    BY <1>1, <1>2, <1>3 DEF Record
  <2>. QED BY <2>0, <2>1, <2>2, <1>2 DEF Removed, Wiped
<1>7. /\ [r EXCEPT !.ahead = TRUE] \in Record
      /\ [r EXCEPT !.ahead = TRUE]
           = [cred |-> r.cred, blob |-> r.blob, access |-> r.access, dead |-> r.dead, view |-> r.view, ahead |-> TRUE]
  <2>0. PICK x : x = [r EXCEPT !.ahead = yes]
    OBVIOUS
  <2>1. x = [cred |-> r.cred, blob |-> r.blob, access |-> r.access, dead |-> r.dead, view |-> r.view, ahead |-> yes]
    BY <2>0 DEF Record
  <2>2. [cred |-> r.cred, blob |-> r.blob, access |-> r.access, dead |-> r.dead, view |-> r.view, ahead |-> yes] \in Record
    BY <1>1, <1>2, <1>3 DEF Record
  <2>. QED BY <2>0, <2>1, <2>2, <1>2 DEF Removed, Wiped
<1>8. /\ [r EXCEPT !.dead = TRUE] \in Record
      /\ [r EXCEPT !.dead = TRUE]
           = [cred |-> r.cred, blob |-> r.blob, access |-> r.access, dead |-> TRUE, view |-> r.view, ahead |-> r.ahead]
  <2>0. PICK x : x = [r EXCEPT !.dead = yes]
    OBVIOUS
  <2>1. x = [cred |-> r.cred, blob |-> r.blob, access |-> r.access, dead |-> yes, view |-> r.view, ahead |-> r.ahead]
    BY <2>0 DEF Record
  <2>2. [cred |-> r.cred, blob |-> r.blob, access |-> r.access, dead |-> yes, view |-> r.view, ahead |-> r.ahead] \in Record
    BY <1>1, <1>2, <1>3 DEF Record
  <2>. QED BY <2>0, <2>1, <2>2, <1>2 DEF Removed, Wiped
<1>9. /\ [r EXCEPT !.dead = TRUE, !.access = 0] \in Record
      /\ [r EXCEPT !.dead = TRUE, !.access = 0]
           = [cred |-> r.cred, blob |-> r.blob, access |-> 0, dead |-> TRUE, view |-> r.view, ahead |-> r.ahead]
  <2>0. PICK x : x = [r EXCEPT !.dead = yes, !.access = 0]
    OBVIOUS
  <2>1. x = [cred |-> r.cred, blob |-> r.blob, access |-> 0, dead |-> yes, view |-> r.view, ahead |-> r.ahead]
    BY <2>0 DEF Record
  <2>2. [cred |-> r.cred, blob |-> r.blob, access |-> 0, dead |-> yes, view |-> r.view, ahead |-> r.ahead] \in Record
    BY <1>1, <1>2, <1>3 DEF Record
  <2>. QED BY <2>0, <2>1, <2>2, <1>2 DEF Removed, Wiped
<1>10. /\ [r EXCEPT !.cred = r.blob] \in Record
      /\ [r EXCEPT !.cred = r.blob]
           = [cred |-> r.blob, blob |-> r.blob, access |-> r.access, dead |-> r.dead, view |-> r.view, ahead |-> r.ahead]
  <2>0. PICK x : x = [r EXCEPT !.cred = r.blob]
    OBVIOUS
  <2>1. x = [cred |-> r.blob, blob |-> r.blob, access |-> r.access, dead |-> r.dead, view |-> r.view, ahead |-> r.ahead]
    BY <2>0 DEF Record
  <2>2. [cred |-> r.blob, blob |-> r.blob, access |-> r.access, dead |-> r.dead, view |-> r.view, ahead |-> r.ahead] \in Record
    BY <1>1, <1>2, <1>3 DEF Record
  <2>. QED BY <2>0, <2>1, <2>2, <1>2 DEF Removed, Wiped
<1>11. /\ [r EXCEPT !.view = t] \in Record
      /\ [r EXCEPT !.view = t]
           = [cred |-> r.cred, blob |-> r.blob, access |-> r.access, dead |-> r.dead, view |-> t, ahead |-> r.ahead]
  <2>0. PICK x : x = [r EXCEPT !.view = t]
    OBVIOUS
  <2>1. x = [cred |-> r.cred, blob |-> r.blob, access |-> r.access, dead |-> r.dead, view |-> t, ahead |-> r.ahead]
    BY <2>0 DEF Record
  <2>2. [cred |-> r.cred, blob |-> r.blob, access |-> r.access, dead |-> r.dead, view |-> t, ahead |-> r.ahead] \in Record
    BY <1>1, <1>2, <1>3 DEF Record
  <2>. QED BY <2>0, <2>1, <2>2, <1>2 DEF Removed, Wiped
<1>. QED BY <1>5, <1>6, <1>7, <1>8, <1>9, <1>10, <1>11

\* The fields of a record.
LEMMA RecordFields ==
  ASSUME NEW r \in Record
  PROVE  /\ r.cred \in Tokens /\ r.blob \in Tokens /\ r.access \in 0..MaxGrants
         /\ r.dead \in BOOLEAN /\ r.view \in Tokens /\ r.ahead \in BOOLEAN
BY DEF Record, Flags, Counts

\* publish_mcp_oauth_key changes the view only.
LEMMA ViewedFacts ==
  ASSUME NEW k \in Keys, NEW r \in Record
  PROVE  /\ Viewed(k, r) \in Record
         /\ Viewed(k, r) = [cred |-> r.cred, blob |-> r.blob, access |-> r.access,
              dead |-> r.dead, view |-> IF k \in McpKeys /\ ~r.dead THEN r.cred ELSE None,
              ahead |-> FALSE]
<1>1. r.cred \in Tokens /\ r.blob \in Tokens /\ r.access \in Counts /\ r.dead \in Flags
  BY DEF Record
<1>0. PICK no \in Flags : no = FALSE
  BY DEF Flags
<1>2. PICK v : v = IF k \in McpKeys /\ ~r.dead THEN r.cred ELSE None
  OBVIOUS
<1>3. v \in Tokens
  BY <1>1, <1>2, Bounds
<1>4. PICK x : x = [r EXCEPT !.view = v, !.ahead = no]
  OBVIOUS
<1>7. Viewed(k, r) = x
  BY <1>0, <1>2, <1>4 DEF Viewed
<1>5. x = [cred |-> r.cred, blob |-> r.blob, access |-> r.access, dead |-> r.dead, view |-> v,
           ahead |-> no]
  BY <1>4 DEF Record
<1>6. [cred |-> r.cred, blob |-> r.blob, access |-> r.access, dead |-> r.dead, view |-> v,
       ahead |-> no] \in Record
  BY <1>1, <1>3 DEF Record
<1>. QED BY <1>0, <1>2, <1>5, <1>6, <1>7

\* One key's record changes.
LEMMA OneRecord ==
  ASSUME Shapes, NEW k \in Keys, NEW r \in Record, Set(k, r) \/ Publish(k, r)
  PROVE  store' \in [Keys -> Record]
<1>1. store \in [Keys -> Record] /\ Viewed(k, r) \in Record
  BY ViewedFacts DEF Shapes
<1>. QED BY <1>1 DEF Set, Publish

\* A lost token is a token.
LEMMA LoseTypes ==
  ASSUME Shapes, NEW c, c.key \in Keys, NEW t \in Tokens, Lose(c, t)
  PROVE  lost' \in [Keys -> SUBSET Tokens]
BY DEF Lose, Shapes

\* The store after a command of the workers, and what was lost.
LEMMA HandlerTypes ==
  ASSUME Shapes, NEW c \in Commands,
         \/ HandleLoad(c) \/ HandleSave(c) \/ HandleMarkDead(c)
         \/ HandleOAuthSave(c) \/ HandleOAuthClear(c) \/ HandleAuthRejected(c)
  PROVE  /\ store' \in [Keys -> Record] /\ lost' \in [Keys -> SUBSET Tokens]
         /\ UNCHANGED <<locked, free, live, grants, exchanges>>
<1>1. PICK k \in Keys : k = c.key
  BY CommandFields
<1>2. PICK r \in Record : r = store[k]
  BY DEF Shapes
<1>3. store \in [Keys -> Record] /\ lost \in [Keys -> SUBSET Tokens]
  BY DEF Shapes
<1>4. 0 \in Counts
  BY Bounds DEF Counts
<1>5. CASE HandleLoad(c)
  BY <1>3, <1>5 DEF HandleLoad, server, single
<1>6. CASE HandleSave(c)
  <2>1. c.type = "Save" /\ Save(c)
    BY <1>6 DEF HandleSave, Save
  <2>2. c.token \in Tokens /\ c.expected \in Tokens
    BY <2>1, CommandFields
  <2>3. c.token.g \in Counts
    BY <2>2 DEF Tokens, Counts
  <2>4. lost' \in [Keys -> SUBSET Tokens]
    <3>1. Lose(c, c.expected) \/ lost' = lost
      BY <1>6 DEF HandleSave
    <3>. QED BY <3>1, <2>2, <1>1, <1>3, LoseTypes
  <2>5. store' \in [Keys -> Record]
    <3>1. PICK x : x = [r EXCEPT !.cred = c.token, !.blob = c.token, !.access = c.token.g,
                                 !.dead = FALSE]
      OBVIOUS
    <3>2. x \in Record
      BY <3>1, <2>2, <2>3, RecordReplaced
    <3>3. store' = store \/ Set(k, x)
      BY <1>1, <1>2, <1>6, <3>1 DEF HandleSave
    <3>. QED BY <3>2, <3>3, <1>3, OneRecord
  <2>. QED BY <2>4, <2>5, <1>6 DEF HandleSave, single
<1>7. CASE HandleMarkDead(c)
  <2>1. PICK x : x = [r EXCEPT !.dead = TRUE, !.access = 0]
    OBVIOUS
  <2>2. x \in Record
    BY <2>1, <1>4, RecordUpdates, Bounds
  <2>3. Set(k, r) \/ Set(k, x)
    BY <1>1, <1>2, <1>7, <2>1 DEF HandleMarkDead
  <2>4. store' \in [Keys -> Record]
    BY <2>2, <2>3, OneRecord
  <2>. QED BY <2>4, <1>3, <1>7 DEF HandleMarkDead, single, server
<1>8. CASE HandleOAuthSave(c)
  <2>1. c.type = "OAuthSave" /\ Save(c)
    BY <1>8 DEF HandleOAuthSave, Save
  <2>2. c.token \in Tokens /\ c.spent \in Tokens
    BY <2>1, CommandFields
  <2>3. lost' \in [Keys -> SUBSET Tokens]
    <3>1. Lose(c, c.spent) \/ lost' = lost
      BY <1>8 DEF HandleOAuthSave
    <3>. QED BY <3>1, <2>2, <1>1, <1>3, LoseTypes
  <2>4. store' \in [Keys -> Record]
    <3>1. PICK x, y : /\ x = [r EXCEPT !.cred = c.token, !.blob = c.token, !.access = 0,
                                      !.dead = FALSE]
                      /\ y = [r EXCEPT !.ahead = TRUE]
      OBVIOUS
    <3>2. x \in Record /\ y \in Record
      BY <3>1, <2>2, <1>4, RecordUpdates, RecordReplaced
    <3>3. Publish(k, r) \/ Publish(k, x) \/ Set(k, y)
      BY <1>1, <1>2, <1>8, <3>1 DEF HandleOAuthSave
    <3>. QED BY <3>2, <3>3, OneRecord
  <2>. QED BY <2>3, <2>4, <1>8 DEF HandleOAuthSave
<1>9. CASE HandleOAuthClear(c)
  <2>1. PICK x, y : x = Removed(r) /\ y = [r EXCEPT !.ahead = TRUE]
    OBVIOUS
  <2>2. x \in Record /\ y \in Record
    BY <2>1, <1>4, RecordUpdates, Bounds
  <2>3. Publish(k, x) \/ Set(k, y)
    BY <1>1, <1>2, <1>9, <2>1 DEF HandleOAuthClear
  <2>4. store' \in [Keys -> Record]
    BY <2>2, <2>3, OneRecord
  <2>. QED BY <2>4, <1>3, <1>9 DEF HandleOAuthClear, server
<1>10. CASE HandleAuthRejected(c)
  <2>1. PICK x : x = [r EXCEPT !.dead = TRUE]
    OBVIOUS
  <2>2. x \in Record
    BY <2>1, <1>4, RecordUpdates, Bounds
  <2>3. store' = store \/ Publish(k, x)
    BY <1>1, <1>2, <1>10, <2>1 DEF HandleAuthRejected
  <2>4. store' \in [Keys -> Record]
    BY <2>2, <2>3, <1>3, OneRecord, SMTT(30)
  <2>. QED BY <2>4, <1>3, <1>10 DEF HandleAuthRejected, single, server
<1>. QED BY <1>5, <1>6, <1>7, <1>8, <1>9, <1>10

\* The worker a question was answered to.
LEMMA AnswerGiven ==
  ASSUME Shapes, NEW c \in Commands, HandleLoad(c) \/ HandleSave(c)
  PROVE  /\ Asks(c) /\ UNCHANGED <<registry, free>>
         /\ \E u \in WorkerState :
              /\ wk' = [wk EXCEPT ![c.w] = u] /\ u.key = wk[c.w].key /\ u.handle = wk[c.w].handle
              /\ u.out = wk[c.w].out /\ u.seed = wk[c.w].seed /\ u.cache = wk[c.w].cache
              /\ \/ u.pc = "release" /\ u.token = wk[c.w].token
                 \/ /\ u.pc = "exchange" /\ c.type = "Load" /\ u.token = store[c.key].cred
                    /\ u.token # None /\ ~store[c.key].dead
<1>1. Asks(c) /\ UNCHANGED <<registry, free>>
  BY DEF Asks, HandleLoad, HandleSave, single
<1>2. PICK w \in Workers : w = c.w
  BY <1>1, CommandFields
<1>3. PICK k \in Keys : k = c.key
  BY CommandFields
<1>4. wk \in [Workers -> WorkerState] /\ wk[w] \in WorkerState /\ store[k].cred \in Tokens
  BY RecordFields DEF Shapes
<1>5. CASE wk' = [wk EXCEPT ![c.w].pc = "release"]
  <2>1. PICK q \in Pcs : q = "release"
    BY DEF Pcs
  <2>2. \E u \in WorkerState :
          /\ wk' = [wk EXCEPT ![w] = u] /\ u.pc = q
          /\ u.key = wk[w].key /\ u.handle = wk[w].handle /\ u.token = wk[w].token
          /\ u.seed = wk[w].seed /\ u.cache = wk[w].cache /\ u.out = wk[w].out
    BY <2>1, <1>2, <1>5, PlaceChanges, ZenonT(40)
  <2>. QED BY <2>1, <2>2, <1>1, <1>2
<1>6. CASE /\ HandleLoad(c) /\ store[k].cred # None /\ ~store[k].dead
           /\ wk' = [wk EXCEPT ![c.w].pc = "exchange", ![c.w].token = store[k].cred]
  <2>1. PICK t \in Tokens : t = store[k].cred
    BY <1>4
  <2>2. PICK u : u = [wk[w] EXCEPT !.pc = "exchange", !.token = t]
    OBVIOUS
  <2>3. u = [key |-> wk[w].key, pc |-> "exchange", handle |-> wk[w].handle, token |-> t,
             seed |-> wk[w].seed, cache |-> wk[w].cache, out |-> wk[w].out]
    BY <2>2, <1>4 DEF WorkerState
  <2>4. u \in WorkerState
    BY <2>1, <2>3, <1>4 DEF WorkerState, Pcs
  <2>5. wk' = [wk EXCEPT ![w] = u]
    BY <2>1, <2>2, <1>2, <1>4, <1>6
  <2>6. c.type = "Load"
    BY <1>6 DEF HandleLoad
  <2>. QED BY <2>1, <2>3, <2>4, <2>5, <2>6, <1>1, <1>2, <1>3, <1>6
<1>. QED BY <1>3, <1>5, <1>6 DEF HandleLoad, HandleSave

\* The command loop serves a worker's command.
LEMMA HandleLocks ==
  ASSUME LockInv, Handle
  PROVE  LockInv'
<1>1. Shapes
  BY DEF LockInv
<1>2. queue # <<>> /\ queue' = Tail(queue)
  BY DEF Handle
<1>3. PICK c : c = Head(queue)
  OBVIOUS
<1>4. c \in Commands
  BY <1>1, <1>2, <1>3, FirstTaken
<1>5. \/ HandleLoad(c) \/ HandleSave(c) \/ HandleMarkDead(c)
      \/ HandleOAuthSave(c) \/ HandleOAuthClear(c) \/ HandleAuthRejected(c)
  BY <1>3 DEF Handle
<1>6. /\ store' \in [Keys -> Record] /\ lost' \in [Keys -> SUBSET Tokens]
      /\ UNCHANGED <<locked, free, live, grants, exchanges>>
  BY <1>1, <1>4, <1>5, HandlerTypes
<1>7. /\ LockPart' /\ PlacePart' /\ AnswerPart' /\ queue' \in Seq(Commands)
      /\ wk' \in [Workers -> WorkerState] /\ registry' \in [Keys -> Locks \cup {0}]
  <2>1. CASE HandleLoad(c) \/ HandleSave(c)
    <3>1. Asks(c) /\ UNCHANGED <<registry, free>>
      BY <2>1, <1>1, <1>4, AnswerGiven
    <3>2. \E u \in WorkerState :
            /\ wk' = [wk EXCEPT ![c.w] = u] /\ u.key = wk[c.w].key /\ u.handle = wk[c.w].handle
            /\ u.out = wk[c.w].out /\ u.seed = wk[c.w].seed /\ u.cache = wk[c.w].cache
            /\ \/ u.pc = "release" /\ u.token = wk[c.w].token
               \/ /\ u.pc = "exchange" /\ c.type = "Load" /\ u.token = store[c.key].cred
                  /\ u.token # None /\ ~store[c.key].dead
      BY <2>1, <1>1, <1>4, AnswerGiven
    <3>3. PICK u \in WorkerState :
            /\ wk' = [wk EXCEPT ![c.w] = u] /\ u.key = wk[c.w].key /\ u.handle = wk[c.w].handle
            /\ u.out = wk[c.w].out /\ u.pc \in {"release", "exchange"}
      BY <3>2
    <3>4. LockPart' /\ PlacePart' /\ AnswerPart' /\ queue' \in Seq(Commands)
          /\ wk' \in [Workers -> WorkerState]
      BY <3>1, <3>3, <1>2, <1>3, Answered
    <3>. QED BY <3>1, <3>4, <1>1 DEF Shapes
  <2>2. CASE ~(HandleLoad(c) \/ HandleSave(c))
    <3>1. ~Asks(c) /\ wk' = wk /\ (registry' = registry \/ registry' = Retained)
      BY <2>2, <1>5 DEF Asks, HandleMarkDead, HandleOAuthSave, HandleOAuthClear,
                        HandleAuthRejected, single
    <3>. QED BY <3>1, <1>1, <1>2, <1>3, <1>6, Unasked DEF Shapes
  <2>. QED BY <2>1, <2>2
<1>8. Shapes'
  BY <1>1, <1>6, <1>7 DEF Shapes
<1>. QED BY <1>7, <1>8 DEF LockInv

\* The workers, their commands and the locks are left alone.
LEMMA WorkersKept ==
  ASSUME LockInv, UNCHANGED <<queue, wk, registry, free>>
  PROVE  LockPart' /\ PlacePart' /\ AnswerPart'
<1>1. KeyOf' = KeyOf /\ Handles' = Handles /\ Held' = Held
  BY DEF KeyOf, Handles, Held, Holder
<1>2. LockPart'
  BY <1>1 DEF LockInv, LockPart
<1>3. PlacePart'
  BY DEF LockInv, PlacePart
<1>4. AnswerPart'
  BY DEF LockInv, AnswerPart
<1>. QED BY <1>2, <1>3, <1>4

\* What a sign-in obtains.
LEMMA SignedIn ==
  ASSUME Shapes, NEW k \in Keys, SaveCredential(k)
  PROVE  \E t \in Tokens : \E r \in Record :
           /\ t.n = 0 /\ t.g = grants[k] + 1 /\ grants'[k] = grants[k] + 1
           /\ grants' \in [Keys -> 1..MaxGrants] /\ live' = [live EXCEPT ![k] = @ \cup {t}]
           /\ \A j \in Keys \ {k} : grants'[j] = grants[j]
           /\ Publish(k, r)
           /\ r = [cred |-> t, blob |-> t, access |-> 0, dead |-> FALSE, view |-> store[k].view,
                   ahead |-> store[k].ahead]
<1>1. grants[k] \in 1..MaxGrants /\ grants[k] < MaxGrants /\ MaxGrants \in Nat
  BY Bounds DEF Shapes, SaveCredential
<1>2. PICK t : t = [g |-> grants[k] + 1, n |-> 0]
  OBVIOUS
<1>3. t \in Tokens /\ t.n = 0 /\ t.g = grants[k] + 1
  BY <1>1, <1>2, Bounds DEF Tokens
<1>4. /\ grants' = [grants EXCEPT ![k] = @ + 1] /\ live' = [live EXCEPT ![k] = @ \cup {t}]
      /\ Publish(k, [store[k] EXCEPT !.cred = t, !.blob = t, !.access = 0, !.dead = FALSE])
  BY <1>2 DEF SaveCredential
<1>5. grants' \in [Keys -> 1..MaxGrants] /\ grants'[k] = grants[k] + 1
      /\ \A j \in Keys \ {k} : grants'[j] = grants[j]
  BY <1>1, <1>4 DEF Shapes
<1>6. PICK r \in Record, z \in Counts : r = store[k] /\ z = 0
  BY Bounds DEF Shapes, Counts
<1>7. /\ [r EXCEPT !.cred = t, !.blob = t, !.access = z, !.dead = FALSE] \in Record
      /\ [r EXCEPT !.cred = t, !.blob = t, !.access = z, !.dead = FALSE]
           = [cred |-> t, blob |-> t, access |-> z, dead |-> FALSE, view |-> r.view,
              ahead |-> r.ahead]
  BY <1>3, RecordReplaced
<1>8. PICK x \in Record : /\ x = [r EXCEPT !.cred = t, !.blob = t, !.access = z, !.dead = FALSE]
                          /\ x = [cred |-> t, blob |-> t, access |-> z, dead |-> FALSE, view |-> r.view,
                                  ahead |-> r.ahead]
  BY <1>7
<1>9. Publish(k, x)
  BY <1>4, <1>6, <1>8
<1>10. x = [cred |-> t, blob |-> t, access |-> 0, dead |-> FALSE, view |-> store[k].view,
            ahead |-> store[k].ahead]
  BY <1>6, <1>8
<1>. QED BY <1>3, <1>4, <1>5, <1>9, <1>10

\* A record of a keystore that is locked, unlocked or restarted.
LEMMA RecordSwept ==
  ASSUME NEW k \in Keys, NEW r \in Record
  PROVE  LET a == Viewed(k, Wiped(r))
             b == Viewed(k, [r EXCEPT !.cred = r.blob])
             d == [Wiped(r) EXCEPT !.view = None, !.ahead = FALSE] IN
         /\ a \in Record /\ b \in Record /\ d \in Record
         /\ a = [cred |-> None, blob |-> r.blob, access |-> 0, dead |-> FALSE, view |-> None,
                 ahead |-> FALSE]
         /\ b = [cred |-> r.blob, blob |-> r.blob, access |-> r.access, dead |-> r.dead,
                 view |-> IF k \in McpKeys /\ ~r.dead THEN r.blob ELSE None, ahead |-> FALSE]
         /\ d = a
<1>2. None \in Tokens /\ 0 \in Counts
  BY Bounds DEF Counts
<1>3. /\ Wiped(r) \in Record
      /\ Wiped(r) = [cred |-> None, blob |-> r.blob, access |-> 0, dead |-> FALSE, view |-> r.view,
                     ahead |-> r.ahead]
  BY <1>2, RecordUpdates
<1>4. PICK x \in Record : x = Wiped(r)
  BY <1>3
<1>5. /\ x.cred = None /\ x.blob = r.blob /\ x.access = 0 /\ x.view = r.view
  BY <1>3, <1>4
<1>6. x.dead = FALSE
  BY <1>3, <1>4
<1>7. /\ Viewed(k, x) \in Record
      /\ Viewed(k, x) = [cred |-> x.cred, blob |-> x.blob, access |-> x.access,
           dead |-> x.dead, view |-> IF k \in McpKeys /\ ~x.dead THEN x.cred ELSE None,
           ahead |-> FALSE]
  BY ViewedFacts
<1>8. Viewed(k, x) = [cred |-> None, blob |-> r.blob, access |-> 0, dead |-> FALSE, view |-> None,
                      ahead |-> FALSE]
  <2>1. (IF k \in McpKeys /\ ~x.dead THEN x.cred ELSE None) = None
    BY <1>5
  <2>2. PICK v : v = IF k \in McpKeys /\ ~x.dead THEN x.cred ELSE None
    OBVIOUS
  <2>3. Viewed(k, x) = [cred |-> x.cred, blob |-> x.blob, access |-> x.access,
                        dead |-> x.dead, view |-> v, ahead |-> FALSE]
    BY <1>7, <2>2
  <2>. QED BY <2>1, <2>2, <2>3, <1>5, <1>6
<1>9. PICK y \in Record : y = [r EXCEPT !.cred = r.blob]
  BY <1>2, RecordUpdates
<1>10. /\ y.cred = r.blob /\ y.blob = r.blob /\ y.access = r.access /\ y.dead = r.dead
  BY <1>9 DEF Record
<1>11. /\ Viewed(k, y) \in Record
       /\ Viewed(k, y) = [cred |-> y.cred, blob |-> y.blob, access |-> y.access,
            dead |-> y.dead, view |-> IF k \in McpKeys /\ ~y.dead THEN y.cred ELSE None,
            ahead |-> FALSE]
  BY ViewedFacts
<1>12. PICK no \in Flags : no = FALSE
  BY DEF Flags
<1>13. PICK z : z = [x EXCEPT !.view = None, !.ahead = no]
  OBVIOUS
<1>14. z = [cred |-> x.cred, blob |-> x.blob, access |-> x.access, dead |-> x.dead,
            view |-> None, ahead |-> no]
  BY <1>13 DEF Record
<1>15. z = [cred |-> None, blob |-> r.blob, access |-> 0, dead |-> FALSE, view |-> None, ahead |-> no]
  BY <1>5, <1>6, <1>14
<1>16. z = Viewed(k, x)
  BY <1>8, <1>12, <1>15
<1>. QED BY <1>4, <1>7, <1>8, <1>9, <1>10, <1>11, <1>12, <1>13, <1>16

\* Every key's record changes: a lock or a crash.
LEMMA LockedRecords ==
  ASSUME Shapes, Lock \/ Crash
  PROVE  /\ store' \in [Keys -> Record]
         /\ \A k \in Keys :
              store'[k] = [cred |-> None, blob |-> store[k].blob, access |-> 0, dead |-> FALSE,
                           view |-> None, ahead |-> FALSE]
<1>1. store' = [k \in Keys |-> Viewed(k, Wiped(store[k]))]
      \/ store' = [k \in Keys |-> [Wiped(store[k]) EXCEPT !.view = None, !.ahead = FALSE]]
  BY DEF Lock, Crash
<1>2. ASSUME NEW k \in Keys
      PROVE  /\ Viewed(k, Wiped(store[k])) \in Record
             /\ [Wiped(store[k]) EXCEPT !.view = None, !.ahead = FALSE] = Viewed(k, Wiped(store[k]))
             /\ Viewed(k, Wiped(store[k]))
                  = [cred |-> None, blob |-> store[k].blob, access |-> 0, dead |-> FALSE,
                     view |-> None, ahead |-> FALSE]
  <2>1. PICK r \in Record : r = store[k]
    BY DEF Shapes
  <2>. QED BY <2>1, RecordSwept
<1>3. store' = [k \in Keys |-> Viewed(k, Wiped(store[k]))]
  BY <1>1, <1>2
<1>. QED BY <1>2, <1>3, Zenon

\* An unlock.
LEMMA UnlockedRecords ==
  ASSUME Shapes, Unlock
  PROVE  /\ store' \in [Keys -> Record]
         /\ \A k \in Keys : LET r == store[k] IN
              store'[k] = [cred |-> r.blob, blob |-> r.blob, access |-> r.access, dead |-> r.dead,
                           view |-> IF k \in McpKeys /\ ~r.dead THEN r.blob ELSE None,
                           ahead |-> FALSE]
<1>1. store' = [k \in Keys |-> Viewed(k, [store[k] EXCEPT !.cred = store[k].blob])]
  BY DEF Unlock
<1>2. ASSUME NEW k \in Keys
      PROVE  LET r == store[k]
                 b == Viewed(k, [r EXCEPT !.cred = r.blob]) IN
             /\ b \in Record
             /\ b = [cred |-> r.blob, blob |-> r.blob, access |-> r.access, dead |-> r.dead,
                     view |-> IF k \in McpKeys /\ ~r.dead THEN r.blob ELSE None, ahead |-> FALSE]
  <2>1. PICK r \in Record : r = store[k]
    BY DEF Shapes
  <2>. QED BY <2>1, RecordSwept
<1>. QED BY <1>1, <1>2, Zenon

\* A client's command: a sign-in, a removal, a revocation.
LEMMA ClientLocks ==
  ASSUME LockInv, NEW k \in Keys, SaveCredential(k) \/ RemoveCredential(k) \/ Revoke(k)
  PROVE  LockInv'
<1>1. Shapes /\ UNCHANGED <<locked, queue, wk, registry, free, exchanges>>
  BY DEF LockInv, SaveCredential, RemoveCredential, Revoke, single, server, daemon
<1>2. LockPart' /\ PlacePart' /\ AnswerPart'
  BY <1>1, WorkersKept
<1>3. /\ store \in [Keys -> Record] /\ live \in [Keys -> SUBSET Tokens]
      /\ lost \in [Keys -> SUBSET Tokens] /\ grants \in [Keys -> 1..MaxGrants]
      /\ \A j \in Keys : \A t \in live[j] : t.n =< exchanges
      /\ exchanges \in 0..MaxExchanges
  BY <1>1 DEF Shapes
<1>4. /\ store' \in [Keys -> Record] /\ live' \in [Keys -> SUBSET Tokens]
      /\ lost' \in [Keys -> SUBSET Tokens] /\ grants' \in [Keys -> 1..MaxGrants]
      /\ \A j \in Keys : \A t \in live'[j] : t.n =< exchanges
  <2>1. CASE SaveCredential(k)
    <3>1. PICK t \in Tokens : \E r \in Record :
           /\ t.n = 0 /\ grants' \in [Keys -> 1..MaxGrants]
           /\ live' = [live EXCEPT ![k] = @ \cup {t}] /\ Publish(k, r)
      BY <2>1, <1>1, SignedIn
    <3>2. store' \in [Keys -> Record]
      BY <3>1, <1>1, OneRecord
    <3>3. live' \in [Keys -> SUBSET Tokens] /\ \A j \in Keys : \A x \in live'[j] : x.n =< exchanges
      BY <3>1, <1>3, Bounds
    <3>. QED BY <2>1, <3>1, <3>2, <3>3, <1>3 DEF SaveCredential
  <2>2. CASE RemoveCredential(k)
    <3>1. PICK r \in Record : r = store[k]
      BY <1>3
    <3>2. Removed(r) \in Record
      BY RecordUpdates, Bounds
    <3>3. store' \in [Keys -> Record]
      BY <2>2, <3>1, <3>2, <1>1, OneRecord DEF RemoveCredential
    <3>. QED BY <2>2, <3>3, <1>3 DEF RemoveCredential, server
  <2>3. CASE Revoke(k)
    <3>1. PICK t \in live[k] : live' = [live EXCEPT ![k] = @ \ {t}]
                               /\ lost' = [lost EXCEPT ![k] = @ \cup {t}]
      BY <2>3 DEF Revoke
    <3>2. t \in Tokens
      BY <3>1, <1>3
    <3>3. live' \in [Keys -> SUBSET Tokens] /\ lost' \in [Keys -> SUBSET Tokens]
      BY <3>1, <3>2, <1>3
    <3>4. \A j \in Keys : live'[j] \subseteq live[j]
      BY <3>1, <1>3
    <3>. QED BY <2>3, <3>3, <3>4, <1>3 DEF Revoke, daemon
  <2>. QED BY <2>1, <2>2, <2>3
<1>5. Shapes'
  BY <1>1, <1>4 DEF Shapes
<1>. QED BY <1>2, <1>5 DEF LockInv

\* The queue after an unlock: the same commands, the history marks cleared.
LEMMA Unmarked ==
  ASSUME Shapes, Unlock
  PROVE  /\ queue' \in Seq(Commands) /\ Len(queue') = Len(queue) /\ DOMAIN queue' = DOMAIN queue
         /\ \A i \in DOMAIN queue :
              /\ queue'[i].type = queue[i].type /\ queue'[i].key = queue[i].key
              /\ queue[i].type # "OAuthSave" => queue'[i] = queue[i]
              /\ queue[i].type = "OAuthSave" =>
                   /\ queue'[i].token = queue[i].token /\ queue'[i].expected = queue[i].expected
                   /\ queue'[i].spent = queue[i].spent /\ queue'[i].alone = FALSE
<1>1. queue \in Seq(Commands) /\ Len(queue) \in Nat /\ DOMAIN queue = 1..Len(queue)
  BY QueueFacts DEF Shapes
<1>2. queue' = [i \in DOMAIN queue |-> IF queue[i].type = "OAuthSave"
                                      THEN [queue[i] EXCEPT !.alone = FALSE] ELSE queue[i]]
  BY DEF Unlock
<1>3. ASSUME NEW i \in DOMAIN queue
      PROVE  /\ queue'[i] \in Commands /\ queue'[i].type = queue[i].type /\ queue'[i].key = queue[i].key
             /\ queue[i].type # "OAuthSave" => queue'[i] = queue[i]
             /\ queue[i].type = "OAuthSave" =>
                   /\ queue'[i].token = queue[i].token /\ queue'[i].expected = queue[i].expected
                   /\ queue'[i].spent = queue[i].spent /\ queue'[i].alone = FALSE
  <2>1. PICK c \in Commands : c = queue[i]
    BY QueueFacts
  <2>2. CASE c.type # "OAuthSave"
    BY <2>1, <2>2, <1>2
  <2>3. CASE c.type = "OAuthSave"
    <3>1. PICK b \in BOOLEAN : b = FALSE
      OBVIOUS
    <3>2. queue'[i] = [c EXCEPT !.alone = b]
      BY <2>1, <2>3, <3>1, <1>2
    <3>3. c \in [type : {"OAuthSave"}, key : Keys, token : Tokens, expected : Tokens,
                 spent : Tokens, alone : BOOLEAN]
      BY <2>3 DEF Commands
    <3>4. [c EXCEPT !.alone = b] = [type |-> "OAuthSave", key |-> c.key, token |-> c.token,
             expected |-> c.expected, spent |-> c.spent, alone |-> b]
      BY <2>3, <3>3
    <3>5. queue'[i] \in Commands
      BY <3>2, <3>3, <3>4, CommandTypes
    <3>6. queue'[i].type = "OAuthSave" /\ queue'[i].key = c.key /\ queue'[i].token = c.token
          /\ queue'[i].expected = c.expected /\ queue'[i].spent = c.spent
      BY <3>2, <3>4
    <3>7. queue'[i].alone = FALSE
      BY <3>1, <3>2, <3>4
    <3>. QED BY <2>1, <2>3, <3>5, <3>6, <3>7
  <2>. QED BY <2>2, <2>3
<1>4. queue' = [i \in 1..Len(queue) |-> queue'[i]] /\ \A i \in 1..Len(queue) : queue'[i] \in Commands
  <2>1. DOMAIN queue' = 1..Len(queue)
    BY <1>1, <1>2
  <2>. QED BY <2>1, <1>1, <1>2, <1>3
<1>5. queue' \in Seq(Commands) /\ Len(queue') = Len(queue)
  <2>1. queue' \in [1..Len(queue) -> Commands]
    BY <1>4
  <2>2. queue' \in Seq(Commands)
    BY <2>1, <1>1, SeqDef
  <2>3. DOMAIN queue' = 1..Len(queue') /\ Len(queue') \in Nat
    BY <2>2, LenProperties
  <2>. QED BY <2>1, <2>2, <2>3, <1>1
<1>6. DOMAIN queue' = DOMAIN queue
  BY <1>2
<1>. QED BY <1>3, <1>5, <1>6

\* The keystore is locked or unlocked.
LEMMA KeystoreLocks ==
  ASSUME LockInv, Lock \/ Unlock
  PROVE  LockInv'
<1>1. Shapes /\ UNCHANGED <<wk, registry, free, exchanges, live, lost, grants>>
  BY DEF LockInv, Lock, Unlock, single, server
<1>2. locked' \in BOOLEAN
  BY DEF Lock, Unlock
<1>3. store' \in [Keys -> Record]
  BY <1>1, LockedRecords, UnlockedRecords
<1>4. CASE Lock
  <2>1. UNCHANGED queue
    BY <1>4 DEF Lock
  <2>2. LockPart' /\ PlacePart' /\ AnswerPart'
    BY <2>1, <1>1, WorkersKept
  <2>3. Shapes'
    BY <1>1, <1>2, <1>3, <2>1 DEF Shapes
  <2>. QED BY <2>2, <2>3 DEF LockInv
<1>5. CASE Unlock
  <2>1. /\ queue' \in Seq(Commands) /\ DOMAIN queue' = DOMAIN queue
        /\ \A i \in DOMAIN queue :
              /\ queue'[i].type = queue[i].type /\ queue'[i].key = queue[i].key
              /\ queue[i].type # "OAuthSave" => queue'[i] = queue[i]
    BY <1>1, <1>5, Unmarked
  <2>2. KeyOf' = KeyOf /\ Handles' = Handles /\ Held' = Held
    BY <1>1 DEF KeyOf, Handles, Held, Holder
  <2>3. LockPart'
    BY <2>2, <1>1 DEF LockInv, LockPart
  <2>4. PlacePart'
    BY <1>1 DEF LockInv, PlacePart
  <2>5. \A i \in DOMAIN queue : /\ OfItsKind(queue[i]) <=> OfItsKind(queue'[i])
                                /\ Asks(queue[i]) <=> Asks(queue'[i])
                                /\ Asks(queue[i]) => queue'[i] = queue[i]
    BY <2>1 DEF OfItsKind, Asks
  <2>6. AnswerPart
    BY DEF LockInv
  <2>7. \A i \in DOMAIN queue' : OfItsKind(queue'[i]) /\ (Asks(queue'[i]) => Asked(queue'[i], wk'[queue'[i].w]))
    BY <2>1, <2>5, <2>6, <1>1 DEF AnswerPart
  <2>8. \A i, j \in DOMAIN queue' :
          Asks(queue'[i]) /\ Asks(queue'[j]) /\ queue'[i].w = queue'[j].w => i = j
    BY <2>1, <2>5, <2>6 DEF AnswerPart
  <2>9. \A w \in Workers : wk'[w].pc \in Waiting => \E i \in DOMAIN queue' : Asks(queue'[i]) /\ queue'[i].w = w
    BY <2>1, <2>5, <2>6, <1>1 DEF AnswerPart
  <2>10. AnswerPart'
    BY <2>7, <2>8, <2>9 DEF AnswerPart
  <2>11. Shapes'
    BY <1>1, <1>2, <1>3, <2>1 DEF Shapes
  <2>. QED BY <2>3, <2>4, <2>10, <2>11 DEF LockInv
<1>. QED BY <1>4, <1>5

\* A worker between two refreshes.
LEMMA IdleFacts ==
  ASSUME NEW k \in Keys
  PROVE  /\ Idle(k) \in WorkerState /\ Place(Idle(k)) /\ Idle(k).key = k /\ Idle(k).handle = 0
         /\ Idle(k).pc = "idle" /\ Idle(k).out = <<>>
         /\ Idle(k).token = None /\ Idle(k).seed = None /\ Idle(k).cache = None
<1>1. <<>> \in Outs
  BY DEF Outs
<1>2. Idle(k) = [key |-> k, pc |-> "idle", handle |-> 0, token |-> None, seed |-> None,
                  cache |-> None, out |-> <<>>]
  BY DEF Idle
<1>3. Idle(k) \in WorkerState
  BY <1>1, <1>2, Bounds DEF WorkerState, Pcs
<1>4. Place(Idle(k))
  BY <1>2 DEF Place, Waiting
<1>. QED BY <1>2, <1>3, <1>4

\* Nobody is at work.
LEMMA AllIdle ==
  ASSUME wk \in [Workers -> WorkerState], queue = <<>>, registry = [k \in Keys |-> 0], free = {},
         \A w \in Workers : wk[w].pc = "idle" /\ wk[w].handle = 0 /\ Place(wk[w])
  PROVE  LockPart /\ PlacePart /\ AnswerPart /\ queue \in Seq(Commands)
         /\ registry \in [Keys -> Locks \cup {0}] /\ free \subseteq Locks
<1>1. Held = {} /\ \A w \in Workers : Handles[w] = 0
  BY DEF Held, Holder, Handles
<1>2. LockPart
  BY <1>1 DEF LockPart
<1>3. DOMAIN queue = {}
  BY EmptySeq
<1>4. AnswerPart
  BY <1>3 DEF AnswerPart, Waiting
<1>. QED BY <1>2, <1>4, EmptySeq DEF PlacePart

\* What a crash loses are tokens.
LEMMA UnsavedFacts ==
  ASSUME Shapes, NEW k \in Keys
  PROVE  Unsaved(k) \subseteq Tokens
<1>1. ASSUME NEW w \in Workers, NEW i \in DOMAIN wk[w].out
      PROVE  wk[w].out[i] \in Commands
  <2>1. PICK o \in Outs : o = wk[w].out
    BY DEF Shapes, WorkerState
  <2>2. o # <<>>
    BY <2>1, <1>1
  <2>3. PICK c \in Commands : o = <<c>>
    BY <2>2 DEF Outs
  <2>4. \A j \in DOMAIN <<c>> : <<c>>[j] = c
    OBVIOUS
  <2>. QED BY <2>1, <2>3, <2>4, <1>1
<1>2. \A w \in Workers : wk[w].token \in Tokens
  BY DEF Shapes, WorkerState
<1>3. \A c \in Commands : c.type = "OAuthSave" => c.spent \in Tokens
  BY CommandFields
<1>4. \A i \in DOMAIN queue : queue[i] \in Commands
  BY QueueFacts
<1>. QED BY <1>1, <1>2, <1>3, <1>4 DEF Unsaved

\* The process crashes.
LEMMA CrashLocks ==
  ASSUME LockInv, Crash
  PROVE  LockInv'
<1>1. Shapes /\ UNCHANGED <<live, grants, exchanges>>
  BY DEF LockInv, Crash
<1>2. /\ locked' = TRUE /\ queue' = <<>> /\ registry' = [k \in Keys |-> 0] /\ free' = {}
      /\ wk' = [w \in Workers |-> Idle(wk[w].key)]
      /\ lost' = [k \in Keys |-> lost[k] \cup Unsaved(k)]
  BY DEF Crash
<1>3. \A w \in Workers : wk[w].key \in Keys
  BY <1>1 DEF Shapes, WorkerState
<1>4. wk' \in [Workers -> WorkerState]
      /\ \A w \in Workers : wk'[w].pc = "idle" /\ wk'[w].handle = 0 /\ Place(wk'[w])
  BY <1>2, <1>3, IdleFacts
<1>5. LockPart' /\ PlacePart' /\ AnswerPart' /\ queue' \in Seq(Commands)
      /\ registry' \in [Keys -> Locks \cup {0}] /\ free' \subseteq Locks
  <2>1. Held' = {} /\ \A w \in Workers : Handles'[w] = 0
    BY <1>4 DEF Held, Holder, Handles
  <2>2. LockPart'
    BY <2>1, <1>2 DEF LockPart
  <2>3. DOMAIN queue' = {} /\ queue' \in Seq(Commands)
    BY <1>2, EmptySeq
  <2>4. AnswerPart'
    BY <2>3, <1>4 DEF AnswerPart, Waiting
  <2>5. PlacePart'
    BY <1>4 DEF PlacePart
  <2>. QED BY <2>2, <2>3, <2>4, <2>5, <1>2
<1>6. store' \in [Keys -> Record]
  BY <1>1, LockedRecords
<1>7. lost' \in [Keys -> SUBSET Tokens]
  <2>1. \A k \in Keys : lost[k] \subseteq Tokens /\ Unsaved(k) \subseteq Tokens
    BY <1>1, UnsavedFacts DEF Shapes
  <2>. QED BY <2>1, <1>2
<1>8. Shapes'
  BY <1>1, <1>2, <1>4, <1>5, <1>6, <1>7 DEF Shapes
<1>. QED BY <1>5, <1>8 DEF LockInv

\* At the start.
LEMMA InitLocks ==
  ASSUME Init
  PROVE  LockInv
<1>1. PICK f \in Serves : wk = [w \in Workers |-> Idle(f[w])]
  BY DEF Init
<1>2. \A w \in Workers : f[w] \in Keys
  BY ServesAssumption
<1>3. wk \in [Workers -> WorkerState]
      /\ \A w \in Workers : wk[w].pc = "idle" /\ wk[w].handle = 0 /\ Place(wk[w])
  BY <1>1, <1>2, IdleFacts
<1>4. LockPart /\ PlacePart /\ AnswerPart /\ queue \in Seq(Commands)
      /\ registry \in [Keys -> Locks \cup {0}] /\ free \subseteq Locks
  BY <1>3, AllIdle DEF Init
<1>5. store \in [Keys -> Record]
  <2>0. PICK no \in Flags : no = FALSE
    BY DEF Flags
  <2>1. PICK z \in Counts : z = 0
    BY Bounds DEF Counts
  <2>2. \A v \in Tokens : [cred |-> First, blob |-> First, access |-> z, dead |-> no,
                           view |-> v, ahead |-> no] \in Record
    BY Bounds DEF Record
  <2>3. \A k \in Keys : (IF k \in McpKeys THEN First ELSE None) \in Tokens
    BY Bounds
  <2>4. store = [k \in Keys |-> [cred |-> First, blob |-> First, access |-> z, dead |-> no,
                                 view |-> IF k \in McpKeys THEN First ELSE None, ahead |-> no]]
    BY <2>0, <2>1 DEF Init
  <2>. QED BY <2>2, <2>3, <2>4
<1>6. /\ live \in [Keys -> SUBSET Tokens] /\ lost \in [Keys -> SUBSET Tokens]
      /\ grants \in [Keys -> 1..MaxGrants] /\ exchanges \in 0..MaxExchanges
      /\ \A k \in Keys : \A t \in live[k] : t.n =< exchanges
  <2>1. First.n = 0
    BY DEF First
  <2>. QED BY <2>1, Bounds DEF Init
<1>7. Shapes
  BY <1>3, <1>4, <1>5, <1>6 DEF Shapes, Init
<1>. QED BY <1>4, <1>7 DEF LockInv

\* Nothing changes.
LEMMA StutterLocks ==
  ASSUME LockInv, UNCHANGED vars
  PROVE  LockInv'
<1>1. UNCHANGED <<locked, store, queue, wk, registry, free, live, lost, grants, exchanges>>
  BY DEF vars, daemon, single, server
<1>2. LockPart' /\ PlacePart' /\ AnswerPart'
  BY <1>1, WorkersKept
<1>3. Shapes'
  BY <1>1 DEF LockInv, Shapes
<1>. QED BY <1>2, <1>3 DEF LockInv

\* Every step keeps the first part of the invariant.
LEMMA StepLocks ==
  ASSUME LockInv, [Next]_vars
  PROVE  LockInv'
<1>1. ASSUME NEW w \in Workers,
             Step(w) \/ Acquire(w) \/ AdapterClears(w) \/ AdapterReplaced(w)
      PROVE  LockInv'
  BY <1>1, TakeLockLocks, ReleaseLocks, PruneLocks, ExchangeFailsLocks, ProviderRefreshedLocks,
     ProviderRejectedLocks, AdapterLoadsLocks, AdapterRefreshedLocks, AdapterRejectedLocks,
     AdapterSpeaksLocks, AcquireLocks, IdleMoves DEF Step
<1>2. ASSUME NEW k \in Served, SaveCredential(k) \/ RemoveCredential(k) \/ Revoke(k)
      PROVE  LockInv'
  <2>1. k \in Keys
    BY DEF Served, LockInv, Shapes, WorkerState
  <2>. QED BY <1>2, <2>1, ClientLocks
<1>. QED BY <1>1, <1>2, HandleLocks, KeystoreLocks, CrashLocks, StutterLocks DEF Next

\* The locks and the answers, of every behaviour.
THEOREM LocksInvariant == Spec => []LockInv
<1>1. Init => LockInv
  BY InitLocks
<1>2. LockInv /\ [Next]_vars => LockInv'
  BY StepLocks
<1>. QED BY <1>1, <1>2, PTL DEF Spec

\* What the invariant says of the types.
LEMMA LockTypes ==
  ASSUME LockInv
  PROVE  TypeOK
<1>1. Shapes /\ PlacePart
  BY DEF LockInv
<1>2. locked \in BOOLEAN
  BY <1>1 DEF Shapes
<1>3. store \in [Keys -> [cred : Tokens, blob : Tokens, access : 0..MaxGrants,
                          dead : BOOLEAN, view : Tokens, ahead : BOOLEAN]]
  BY <1>1 DEF Shapes, Record, Flags, Counts
<1>4. \A i \in DOMAIN queue : queue[i] \in Commands
  BY <1>1, QueueFacts
<1>5. ASSUME NEW w \in Workers
      PROVE  /\ wk[w].key \in Keys /\ wk[w].pc \in Pcs
             /\ wk[w].handle \in Locks \cup {0}
             /\ {wk[w].token, wk[w].seed, wk[w].cache} \subseteq Tokens
             /\ wk[w].out = <<>> \/ wk[w].out[1] \in Commands
             /\ wk[w].pc \in {"idle", "prune"} => wk[w].handle = 0
  <2>1. wk[w] \in WorkerState /\ Place(wk[w])
    BY <1>1 DEF Shapes, PlacePart
  <2>2. PICK o \in Outs : o = wk[w].out
    BY <2>1 DEF WorkerState
  <2>3. o = <<>> \/ o[1] \in Commands
    BY OutFacts
  <2>4. wk[w].pc \in {"idle", "prune"} => wk[w].handle = 0
    BY <2>1 DEF Place
  <2>5. /\ wk[w].key \in Keys /\ wk[w].pc \in Pcs /\ wk[w].handle \in Locks \cup {0}
        /\ {wk[w].token, wk[w].seed, wk[w].cache} \subseteq Tokens
    BY <2>1 DEF WorkerState
  <2>. QED BY <2>2, <2>3, <2>4, <2>5
<1>. QED BY <1>1, <1>2, <1>3, <1>4, <1>5 DEF Shapes, TypeOK

\* One refresh of a credential at a time, whichever engines run them: a held or
\* awaited lock stays the registry's, so its key gets no second one
\* (oauth_refresh_locks.rs: acquire, the guard's pin, prune_map).
THEOREM OneRefreshAtATime == Spec => []SingleFlight
<1>1. LockInv => SingleFlight
  <2>1. SUFFICES ASSUME LockInv PROVE SingleFlight
    OBVIOUS
  <2>2. TypeOK
    BY <2>1, LockTypes
  <2>3. ASSUME NEW v \in Workers, NEW w \in Workers, Holder(v), Holder(w), wk[v].key = wk[w].key
        PROVE  v = w
    <3>1. v \in Held /\ w \in Held /\ KeyOf[v] = KeyOf[w]
      BY <2>3 DEF Held, KeyOf
    <3>2. Handles[v] # 0 /\ Handles[w] # 0
      BY <2>3 DEF Handles, Holder
    <3>3. Handles[v] = Handles[w]
      BY <2>1, <3>1, <3>2 DEF LockInv, LockPart
    <3>. QED BY <2>1, <3>1, <3>3 DEF LockInv, LockPart
  <2>. QED BY <2>2, <2>3 DEF SingleFlight
<1>. QED BY <1>1, LocksInvariant, PTL

-----------------------------------------------------------------------------
(* What the steps do to the store.                                           *)

\* A record is set as it is.
LEMMA SetFields ==
  ASSUME Shapes, NEW k \in Keys, NEW x \in Record, Set(k, x)
  PROVE  store'[k] = x /\ \A j \in Keys \ {k} : store'[j] = store[j]
BY DEF Set, Shapes

\* A record is set and shown.
LEMMA PublishFields ==
  ASSUME Shapes, NEW k \in Keys, NEW y \in Record, Publish(k, y)
  PROVE  /\ store'[k].cred = y.cred /\ store'[k].blob = y.blob /\ store'[k].access = y.access
         /\ store'[k].dead = y.dead /\ ~store'[k].ahead
         /\ store'[k].view = IF k \in McpKeys /\ ~y.dead THEN y.cred ELSE None
         /\ \A j \in Keys \ {k} : store'[j] = store[j]
<1>1. PICK x \in Record : x = Viewed(k, y)
  BY ViewedFacts
<1>2. Set(k, x)
  BY <1>1 DEF Publish
<1>3. store'[k] = x /\ \A j \in Keys \ {k} : store'[j] = store[j]
  BY <1>2, SetFields
<1>4. PICK v : v = IF k \in McpKeys /\ ~y.dead THEN y.cred ELSE None
  OBVIOUS
<1>5. x = [cred |-> y.cred, blob |-> y.blob, access |-> y.access, dead |-> y.dead, view |-> v,
           ahead |-> FALSE]
  BY <1>1, <1>4, ViewedFacts
<1>6. x.cred = y.cred /\ x.blob = y.blob /\ x.access = y.access /\ x.view = v
  BY <1>5
<1>7. x.dead = y.dead /\ ~x.ahead
  BY <1>5
<1>. QED BY <1>3, <1>4, <1>6, <1>7

\* Two ways to change one field.
LEMMA Flagged ==
  ASSUME NEW r \in Record, NEW x, x = [r EXCEPT !.ahead = TRUE] \/ x = [r EXCEPT !.dead = TRUE]
  PROVE  /\ x \in Record /\ x.cred = r.cred /\ x.blob = r.blob /\ x.access = r.access
         /\ x.view = r.view
         /\ x = [r EXCEPT !.ahead = TRUE] => x.dead = r.dead
         /\ x = [r EXCEPT !.dead = TRUE] => x.dead
<1>1. PICK yes \in Flags : yes = TRUE
  BY DEF Flags
<1>2. CASE x = [r EXCEPT !.ahead = yes]
  <2>1. x \in Record /\ x.cred = r.cred /\ x.blob = r.blob /\ x.access = r.access
        /\ x.view = r.view /\ x.dead = r.dead
    BY <1>2 DEF Record
  <2>2. x = [r EXCEPT !.dead = yes] => x.dead = yes
    BY DEF Record
  <2>. QED BY <2>1, <2>2, <1>1
<1>3. CASE x = [r EXCEPT !.dead = yes]
  <2>1. x \in Record /\ x.cred = r.cred /\ x.blob = r.blob /\ x.access = r.access
        /\ x.view = r.view
    BY <1>3 DEF Record
  <2>2. x.dead = yes
    BY <1>3 DEF Record
  <2>3. x = [r EXCEPT !.ahead = yes] => x.dead = r.dead
    BY DEF Record
  <2>. QED BY <2>1, <2>2, <2>3, <1>1
<1>. QED BY <1>1, <1>2, <1>3

\* handle_save_oauth_token.
LEMMA SaveStore ==
  ASSUME Shapes, NEW c \in Commands, HandleSave(c)
  PROVE  \/ /\ store' = store
            /\ \/ Lose(c, c.expected)
               \/ lost' = lost /\ ~locked /\ store[c.key].cred # c.expected
         \/ /\ ~locked /\ store[c.key].cred # None /\ store[c.key].cred = c.expected /\ lost' = lost
            /\ \A j \in Keys \ {c.key} : store'[j] = store[j]
            /\ store'[c.key].cred = c.token /\ store'[c.key].blob = c.token
            /\ store'[c.key].access = c.token.g /\ ~store'[c.key].dead
            /\ store'[c.key].view = store[c.key].view
<1>1. PICK k \in Keys : k = c.key
  BY CommandFields
<1>2. PICK r \in Record : r = store[k]
  BY DEF Shapes
<1>3. Save(c)
  BY DEF HandleSave, Save
<1>4. PICK t \in Tokens : t = c.token
  BY <1>3, CommandFields
<1>5. PICK a \in Counts : a = c.token.g
  BY <1>4 DEF Tokens, Counts
<1>6. PICK x \in Record : /\ x = [r EXCEPT !.cred = t, !.blob = t, !.access = a, !.dead = FALSE]
                          /\ x = [cred |-> t, blob |-> t, access |-> a, dead |-> FALSE,
                                  view |-> r.view, ahead |-> r.ahead]
  BY RecordReplaced
<1>7. CASE Set(k, x) /\ ~locked /\ r.cred # None /\ Unchanged(c) /\ lost' = lost
  <2>1. store'[k] = x /\ \A j \in Keys \ {k} : store'[j] = store[j]
    BY <1>7, SetFields
  <2>2. x.cred = t /\ x.blob = t /\ x.access = a /\ x.view = r.view
    BY <1>6
  <2>3. ~x.dead
    BY <1>6
  <2>. QED BY <2>1, <2>2, <2>3, <1>1, <1>2, <1>4, <1>5, <1>7 DEF Unchanged
<1>8. \/ store' = store /\ Lose(c, c.expected)
      \/ store' = store /\ lost' = lost /\ ~locked /\ ~Unchanged(c)
      \/ Set(k, x) /\ ~locked /\ r.cred # None /\ Unchanged(c) /\ lost' = lost
  BY <1>1, <1>2, <1>4, <1>5, <1>6 DEF HandleSave
<1>. QED BY <1>7, <1>8 DEF Unchanged

\* handle_oauth_save.
LEMMA OAuthSaveStore ==
  ASSUME Shapes, NEW c \in Commands, HandleOAuthSave(c)
  PROVE  /\ \A j \in Keys \ {c.key} : store'[j] = store[j]
         /\ \/ /\ locked \/ store[c.key].cred = None \/ store[c.key].cred # c.expected
               /\ Lose(c, c.spent) /\ ~store'[c.key].ahead
               /\ store'[c.key].cred = store[c.key].cred /\ store'[c.key].blob = store[c.key].blob
               /\ store'[c.key].access = store[c.key].access
               /\ store'[c.key].dead = store[c.key].dead
               /\ store'[c.key].view = IF c.key \in McpKeys /\ ~store[c.key].dead
                                       THEN store[c.key].cred ELSE None
            \/ /\ Lose(c, c.spent) /\ store'[c.key].ahead
               /\ store'[c.key].cred = store[c.key].cred /\ store'[c.key].blob = store[c.key].blob
               /\ store'[c.key].access = store[c.key].access
               /\ store'[c.key].dead = store[c.key].dead
               /\ store'[c.key].view = store[c.key].view /\ ~locked
            \/ /\ ~locked /\ store[c.key].cred # None /\ store[c.key].cred = c.expected
               /\ lost' = lost /\ ~store'[c.key].ahead
               /\ store'[c.key].cred = c.token /\ store'[c.key].blob = c.token
               /\ store'[c.key].access = 0 /\ ~store'[c.key].dead
               /\ store'[c.key].view = IF c.key \in McpKeys THEN c.token ELSE None
<1>1. PICK k \in Keys : k = c.key
  BY CommandFields
<1>2. PICK r \in Record : r = store[k]
  BY DEF Shapes
<1>3. Save(c)
  BY DEF HandleOAuthSave, Save
<1>4. PICK t \in Tokens : t = c.token
  BY <1>3, CommandFields
<1>5. PICK a \in Counts : a = 0
  BY Bounds DEF Counts
<1>6. PICK x \in Record : /\ x = [r EXCEPT !.cred = t, !.blob = t, !.access = a, !.dead = FALSE]
                          /\ x = [cred |-> t, blob |-> t, access |-> a, dead |-> FALSE,
                                  view |-> r.view, ahead |-> r.ahead]
  BY RecordReplaced
<1>7. x.cred = t /\ x.blob = t /\ x.access = a
  BY <1>6
<1>8. ~x.dead
  BY <1>6
<1>9. PICK y : y = [r EXCEPT !.ahead = TRUE]
  OBVIOUS
<1>10. /\ y \in Record /\ y.cred = r.cred /\ y.blob = r.blob /\ y.access = r.access
       /\ y.view = r.view /\ y.dead = r.dead
  BY <1>9, Flagged
<1>11. y.ahead
  <2>1. PICK yes : yes = TRUE
    OBVIOUS
  <2>2. y = [r EXCEPT !.ahead = yes]
    BY <1>9, <2>1
  <2>3. y.ahead = yes
    BY <2>2 DEF Record
  <2>. QED BY <2>1, <2>3
<1>12. \/ (locked \/ r.cred = None \/ ~Unchanged(c)) /\ Publish(k, r) /\ Lose(c, c.spent)
       \/ ~locked /\ Set(k, y) /\ Lose(c, c.spent)
       \/ ~locked /\ r.cred # None /\ Unchanged(c) /\ Publish(k, x) /\ lost' = lost
  BY <1>1, <1>2, <1>4, <1>5, <1>6, <1>9 DEF HandleOAuthSave
<1>13. CASE (locked \/ r.cred = None \/ ~Unchanged(c)) /\ Publish(k, r) /\ Lose(c, c.spent)
  <2>1. /\ store'[k].cred = r.cred /\ store'[k].blob = r.blob /\ store'[k].access = r.access
        /\ store'[k].dead = r.dead /\ ~store'[k].ahead
        /\ store'[k].view = IF k \in McpKeys /\ ~r.dead THEN r.cred ELSE None
        /\ \A j \in Keys \ {k} : store'[j] = store[j]
    BY <1>13, PublishFields
  <2>. QED BY <2>1, <1>1, <1>2, <1>13 DEF Unchanged
<1>14. CASE ~locked /\ Set(k, y) /\ Lose(c, c.spent)
  <2>1. store'[k] = y /\ \A j \in Keys \ {k} : store'[j] = store[j]
    BY <1>10, <1>14, SetFields
  <2>. QED BY <2>1, <1>1, <1>2, <1>10, <1>11, <1>14
<1>15. CASE ~locked /\ r.cred # None /\ Unchanged(c) /\ Publish(k, x) /\ lost' = lost
  <2>1. /\ store'[k].cred = x.cred /\ store'[k].blob = x.blob /\ store'[k].access = x.access
        /\ store'[k].dead = x.dead /\ ~store'[k].ahead
        /\ store'[k].view = IF k \in McpKeys /\ ~x.dead THEN x.cred ELSE None
        /\ \A j \in Keys \ {k} : store'[j] = store[j]
    BY <1>15, PublishFields
  <2>. QED BY <2>1, <1>1, <1>2, <1>4, <1>5, <1>7, <1>8, <1>15 DEF Unchanged
<1>. QED BY <1>12, <1>13, <1>14, <1>15

\* A credential is removed: a sign-out by a client, or rmcp's clear.
LEMMA RemovedStore ==
  ASSUME Shapes, NEW k \in Keys, Publish(k, Removed(store[k]))
  PROVE  /\ \A j \in Keys \ {k} : store'[j] = store[j]
         /\ store'[k].cred = None /\ store'[k].blob = None /\ store'[k].access = 0
         /\ ~store'[k].dead /\ store'[k].view = None /\ ~store'[k].ahead
<1>1. PICK r \in Record : r = store[k]
  BY DEF Shapes
<1>2. PICK x \in Record : /\ x = Removed(r)
                          /\ x = [cred |-> None, blob |-> None, access |-> 0, dead |-> FALSE,
                                  view |-> r.view, ahead |-> r.ahead]
  BY RecordUpdates, Bounds
<1>3. x.cred = None /\ x.blob = None /\ x.access = 0
  BY <1>2
<1>4. ~x.dead
  BY <1>2
<1>5. /\ store'[k].cred = x.cred /\ store'[k].blob = x.blob /\ store'[k].access = x.access
      /\ store'[k].dead = x.dead /\ ~store'[k].ahead
      /\ store'[k].view = IF k \in McpKeys /\ ~x.dead THEN x.cred ELSE None
      /\ \A j \in Keys \ {k} : store'[j] = store[j]
  BY <1>1, <1>2, PublishFields
<1>. QED BY <1>3, <1>4, <1>5

\* handle_oauth_clear.
LEMMA ClearStore ==
  ASSUME Shapes, NEW c \in Commands, HandleOAuthClear(c)
  PROVE  /\ \A j \in Keys \ {c.key} : store'[j] = store[j]
         /\ \/ /\ store'[c.key].cred = None /\ store'[c.key].blob = None /\ store'[c.key].access = 0
               /\ ~store'[c.key].dead /\ store'[c.key].view = None /\ ~store'[c.key].ahead
            \/ /\ store'[c.key].cred = store[c.key].cred /\ store'[c.key].blob = store[c.key].blob
               /\ store'[c.key].access = store[c.key].access
               /\ store'[c.key].dead = store[c.key].dead
               /\ store'[c.key].view = store[c.key].view /\ store'[c.key].ahead
<1>1. PICK k \in Keys : k = c.key
  BY CommandFields
<1>2. PICK r \in Record : r = store[k]
  BY DEF Shapes
<1>3. PICK y : y = [r EXCEPT !.ahead = TRUE]
  OBVIOUS
<1>4. /\ y \in Record /\ y.cred = r.cred /\ y.blob = r.blob /\ y.access = r.access
      /\ y.view = r.view /\ y.dead = r.dead
  BY <1>3, Flagged
<1>5. y.ahead
  <2>1. PICK yes : yes = TRUE
    OBVIOUS
  <2>2. y = [r EXCEPT !.ahead = yes]
    BY <1>3, <2>1
  <2>3. y.ahead = yes
    BY <2>2 DEF Record
  <2>. QED BY <2>1, <2>3
<1>6. Publish(k, Removed(store[k])) \/ Set(k, y)
  BY <1>1, <1>2, <1>3 DEF HandleOAuthClear
<1>7. CASE Publish(k, Removed(store[k]))
  BY <1>1, <1>7, RemovedStore
<1>8. CASE Set(k, y)
  <2>1. store'[k] = y /\ \A j \in Keys \ {k} : store'[j] = store[j]
    BY <1>4, <1>8, SetFields
  <2>. QED BY <2>1, <1>1, <1>2, <1>4, <1>5
<1>. QED BY <1>6, <1>7, <1>8

\* handle_mark_oauth_dead and the adapter's rejection.
LEMMA DeadStore ==
  ASSUME Shapes, NEW c \in Commands, HandleMarkDead(c) \/ HandleAuthRejected(c)
  PROVE  \/ store' = store
         \/ /\ \A j \in Keys \ {c.key} : store'[j] = store[j]
            /\ store'[c.key].cred = store[c.key].cred /\ store'[c.key].blob = store[c.key].blob
            /\ store'[c.key].dead
            /\ \/ /\ c.type = "MarkDead" /\ store'[c.key].access = 0
                  /\ store'[c.key].view = store[c.key].view
               \/ /\ c.type = "AuthRejected" /\ store'[c.key].access = store[c.key].access
                  /\ store'[c.key].view = None /\ ~store'[c.key].ahead
<1>1. PICK k \in Keys : k = c.key
  BY CommandFields
<1>2. PICK r \in Record : r = store[k]
  BY DEF Shapes
<1>3. CASE HandleMarkDead(c)
  <2>1. PICK yes \in Flags : yes = TRUE
    BY DEF Flags
  <2>2. PICK x : x = [r EXCEPT !.dead = yes, !.access = 0]
    OBVIOUS
  <2>3. x \in Record
    BY <2>1, <2>2, RecordUpdates, Bounds
  <2>4. x = [cred |-> r.cred, blob |-> r.blob, access |-> 0, dead |-> yes, view |-> r.view, ahead |-> r.ahead]
    BY <2>2 DEF Record
  <2>5. x.cred = r.cred /\ x.blob = r.blob /\ x.access = 0 /\ x.view = r.view /\ x.dead = yes
    BY <2>4
  <2>6. Set(k, r) \/ Set(k, x)
    BY <1>1, <1>2, <1>3, <2>1, <2>2 DEF HandleMarkDead
  <2>7. CASE Set(k, r)
    <3>1. store' = store
      BY <2>7, <1>2 DEF Set, Shapes
    <3>. QED BY <3>1
  <2>8. CASE Set(k, x)
    <3>1. store'[k] = x /\ \A j \in Keys \ {k} : store'[j] = store[j]
      BY <2>3, <2>8, SetFields
    <3>2. c.type = "MarkDead"
      BY <1>3 DEF HandleMarkDead
    <3>. QED BY <2>1, <2>5, <3>1, <3>2, <1>1, <1>2
  <2>. QED BY <2>6, <2>7, <2>8
<1>4. CASE HandleAuthRejected(c)
  <2>1. PICK x : x = [r EXCEPT !.dead = TRUE]
    OBVIOUS
  <2>2. /\ x \in Record /\ x.cred = r.cred /\ x.blob = r.blob /\ x.access = r.access
        /\ x.dead
    BY <2>1, Flagged
  <2>3. store' = store \/ Publish(k, x)
    BY <2>1, <1>1, <1>2, <1>4 DEF HandleAuthRejected
  <2>4. CASE Publish(k, x)
    <3>1. /\ store'[k].cred = x.cred /\ store'[k].blob = x.blob /\ store'[k].access = x.access
          /\ store'[k].dead = x.dead /\ ~store'[k].ahead
          /\ store'[k].view = IF k \in McpKeys /\ ~x.dead THEN x.cred ELSE None
          /\ \A j \in Keys \ {k} : store'[j] = store[j]
      BY <2>2, <2>4, PublishFields
    <3>2. c.type = "AuthRejected"
      BY <1>4 DEF HandleAuthRejected
    <3>. QED BY <2>2, <3>1, <3>2, <1>1, <1>2
  <2>. QED BY <2>3, <2>4
<1>. QED BY <1>3, <1>4

-----------------------------------------------------------------------------
(* The grants: memory, disk and cache.                                       *)

\* One key's record satisfies it.
Sound(l, k, r) ==
  /\ IF l THEN r.cred = None /\ r.access = 0 ELSE r.cred = r.blob
  /\ r.access # 0 => r.access = r.cred.g /\ ~r.dead /\ k \in ProviderKeys
  /\ k \in ProviderKeys => r.view = None

\* A sign-in as it reaches the store.
LEMMA SignInStore ==
  ASSUME Shapes, NEW k \in Keys, SaveCredential(k)
  PROVE  \E t \in Tokens :
           /\ t.n = 0 /\ t.g = grants[k] + 1 /\ grants'[k] = grants[k] + 1
           /\ grants' \in [Keys -> 1..MaxGrants] /\ live' = [live EXCEPT ![k] = @ \cup {t}]
           /\ \A j \in Keys \ {k} : grants'[j] = grants[j] /\ store'[j] = store[j]
           /\ store'[k].cred = t /\ store'[k].blob = t /\ store'[k].access = 0
           /\ ~store'[k].dead /\ ~store'[k].ahead
           /\ store'[k].view = IF k \in McpKeys THEN t ELSE None
<1>1. PICK t \in Tokens : \E r \in Record :
           /\ t.n = 0 /\ t.g = grants[k] + 1 /\ grants'[k] = grants[k] + 1
           /\ grants' \in [Keys -> 1..MaxGrants] /\ live' = [live EXCEPT ![k] = @ \cup {t}]
           /\ \A j \in Keys \ {k} : grants'[j] = grants[j]
           /\ Publish(k, r)
           /\ r = [cred |-> t, blob |-> t, access |-> 0, dead |-> FALSE, view |-> store[k].view,
                   ahead |-> store[k].ahead]
  BY SignedIn
<1>2. PICK r \in Record :
           /\ Publish(k, r)
           /\ r = [cred |-> t, blob |-> t, access |-> 0, dead |-> FALSE, view |-> store[k].view,
                   ahead |-> store[k].ahead]
  BY <1>1
<1>3. r.cred = t /\ r.blob = t /\ r.access = 0
  BY <1>2
<1>4. ~r.dead
  BY <1>2
<1>5. /\ store'[k].cred = r.cred /\ store'[k].blob = r.blob /\ store'[k].access = r.access
      /\ store'[k].dead = r.dead /\ ~store'[k].ahead
      /\ store'[k].view = IF k \in McpKeys /\ ~r.dead THEN r.cred ELSE None
      /\ \A j \in Keys \ {k} : store'[j] = store[j]
  BY <1>2, PublishFields
<1>. QED BY <1>1, <1>3, <1>4, <1>5

\* The adapter's publication as it reaches the store.
LEMMA ShownStore ==
  ASSUME Shapes, PlacePart, NEW w \in Workers, AdapterPublishes(w)
  PROVE  LET k == wk[w].key IN
         /\ k \in McpKeys /\ \A j \in Keys \ {k} : store'[j] = store[j]
         /\ store'[k].cred = store[k].cred /\ store'[k].blob = store[k].blob
         /\ store'[k].access = store[k].access /\ store'[k].dead = store[k].dead
         /\ store'[k].ahead = store[k].ahead
         /\ store'[k].view = Shown(wk[w].out[1])
<1>1. Place(wk[w]) /\ wk[w] \in WorkerState /\ wk[w].pc = "publish"
  BY DEF PlacePart, Shapes, AdapterPublishes
<1>2. PICK k \in McpKeys : k = wk[w].key
  BY <1>1 DEF Place
<1>3. PICK o \in Outs : o = wk[w].out /\ o # <<>>
  BY <1>1 DEF Place, WorkerState
<1>4. PICK c \in Commands : o = <<c>> /\ o[1] = c /\ Head(o) = c
  BY <1>3, OutFacts
<1>5. store' = [store EXCEPT ![k].view = Shown(c)]
  BY <1>2, <1>3, <1>4 DEF AdapterPublishes
<1>6. PICK v : v = Shown(c)
  OBVIOUS
<1>7. k \in Keys /\ store \in [Keys -> Record]
  BY DEF Keys, Shapes
<1>8. PICK r \in Record : r = store[k]
  BY <1>7
<1>9. PICK x : x = [r EXCEPT !.view = v]
  OBVIOUS
<1>10. x.cred = r.cred /\ x.blob = r.blob /\ x.access = r.access /\ x.dead = r.dead
       /\ x.ahead = r.ahead /\ x.view = v
  BY <1>9 DEF Record
<1>11. store' = [store EXCEPT ![k] = x]
  BY <1>5, <1>6, <1>7, <1>8, <1>9
<1>12. store'[k] = x /\ \A j \in Keys \ {k} : store'[j] = store[j]
  BY <1>7, <1>11
<1>. QED BY <1>2, <1>3, <1>4, <1>6, <1>8, <1>10, <1>12

\* The steps that leave the store alone.
LEMMA StoreUntouched ==
  ASSUME NEW w \in Workers,
         \/ TakeLock(w) \/ Release(w) \/ Prune(w) \/ ExchangeFails(w)
         \/ ProviderRefreshed(w) \/ ProviderRejected(w) \/ AdapterLoads(w) \/ AdapterRefreshed(w)
         \/ AdapterRejected(w) \/ AdapterSends(w) \/ Acquire(w) \/ AdapterClears(w)
         \/ AdapterReplaced(w)
  PROVE  UNCHANGED <<locked, store>>
BY DEF TakeLock, Release, Prune, ExchangeFails, ProviderRefreshed, ProviderRejected, AdapterLoads,
   AdapterRefreshed, AdapterRejected, AdapterSends, Acquire, AdapterClears, AdapterReplaced, daemon

\* The command at the head of the queue.
LEMMA HeadFacts ==
  ASSUME LockInv, Handle
  PROVE  \E c \in Commands :
           /\ c = Head(queue) /\ c = queue[1] /\ 1 \in DOMAIN queue /\ c.key \in Keys /\ OfItsKind(c)
           /\ Asks(c) => c.w \in Workers /\ Asked(c, wk[c.w])
           /\ \/ HandleLoad(c) \/ HandleSave(c) \/ HandleMarkDead(c)
              \/ HandleOAuthSave(c) \/ HandleOAuthClear(c) \/ HandleAuthRejected(c)
<1>1. Shapes /\ AnswerPart /\ queue # <<>> /\ queue' = Tail(queue)
  BY DEF LockInv, Handle
<1>2. PICK c : c = Head(queue)
  OBVIOUS
<1>3. c \in Commands /\ 1 \in DOMAIN queue /\ c = queue[1]
  BY <1>1, <1>2, FirstTaken
<1>4. OfItsKind(c) /\ (Asks(c) => Asked(c, wk[c.w]))
  BY <1>1, <1>3 DEF AnswerPart
<1>5. c.key \in Keys /\ (Asks(c) => c.w \in Workers)
  BY <1>3, CommandFields
<1>6. \/ HandleLoad(c) \/ HandleSave(c) \/ HandleMarkDead(c)
      \/ HandleOAuthSave(c) \/ HandleOAuthClear(c) \/ HandleAuthRejected(c)
  BY <1>2 DEF Handle
<1>. QED BY <1>2, <1>3, <1>4, <1>5, <1>6

\* Every step keeps it.
LEMMA StepStore ==
  ASSUME LockInv, StorePart, [Next]_vars
  PROVE  StorePart'
<1>0. Shapes /\ PlacePart
  BY DEF LockInv
<1>1. \A j \in Keys : Sound(locked, j, store[j])
  BY DEF StorePart, Sound
<1>2. SUFFICES \A j \in Keys : Sound(locked', j, store'[j])
  BY DEF StorePart, Sound
<1>3. CASE UNCHANGED <<locked, store>>
  BY <1>1, <1>3
<1>4. CASE Handle
  <2>1. PICK c \in Commands :
           /\ c.key \in Keys /\ OfItsKind(c)
           /\ Asks(c) => c.w \in Workers /\ Asked(c, wk[c.w])
           /\ \/ HandleLoad(c) \/ HandleSave(c) \/ HandleMarkDead(c)
              \/ HandleOAuthSave(c) \/ HandleOAuthClear(c) \/ HandleAuthRejected(c)
    BY <1>4, HeadFacts
  <2>2. locked' = locked
    BY <2>1, <1>0, HandlerTypes
  <2>3. CASE HandleLoad(c)
    BY <2>2, <2>3, <1>3 DEF HandleLoad
  <2>4. CASE HandleSave(c)
    <3>1. c.key \in ProviderKeys
      BY <2>1, <2>4 DEF HandleSave, OfItsKind
    <3>. QED BY <2>1, <2>2, <2>4, <3>1, <1>0, <1>1, SaveStore DEF Sound
  <2>5. CASE HandleMarkDead(c) \/ HandleAuthRejected(c)
    <3>1. c.type = "AuthRejected" => c.key \notin ProviderKeys
      BY <2>1, Bounds DEF OfItsKind
    <3>. QED BY <2>1, <2>2, <2>5, <3>1, <1>0, <1>1, DeadStore DEF Sound
  <2>6. CASE HandleOAuthSave(c)
    <3>1. c.key \notin ProviderKeys
      BY <2>1, <2>6, Bounds DEF HandleOAuthSave, OfItsKind
    <3>. QED BY <2>1, <2>2, <2>6, <3>1, <1>0, <1>1, OAuthSaveStore DEF Sound
  <2>7. CASE HandleOAuthClear(c)
    <3>1. c.key \notin ProviderKeys
      BY <2>1, <2>7, Bounds DEF HandleOAuthClear, OfItsKind
    <3>. QED BY <2>1, <2>2, <2>7, <3>1, <1>0, <1>1, ClearStore DEF Sound
  <2>. QED BY <2>1, <2>3, <2>4, <2>5, <2>6, <2>7
<1>5. ASSUME NEW w \in Workers, AdapterPublishes(w)
      PROVE  \A j \in Keys : Sound(locked', j, store'[j])
  <2>1. locked' = locked /\ wk[w].key \notin ProviderKeys
    BY <1>0, <1>5, ShownStore, Bounds DEF AdapterPublishes
  <2>. QED BY <2>1, <1>0, <1>1, <1>5, ShownStore DEF Sound
<1>6. ASSUME NEW k \in Keys, SaveCredential(k)
      PROVE  \A j \in Keys : Sound(locked', j, store'[j])
  <2>1. ~locked' /\ (locked' = locked)
    BY <1>6 DEF SaveCredential
  <2>2. PICK t \in Tokens :
           /\ \A j \in Keys \ {k} : store'[j] = store[j]
           /\ store'[k].cred = t /\ store'[k].blob = t /\ store'[k].access = 0
           /\ store'[k].view = IF k \in McpKeys THEN t ELSE None
    BY <1>0, <1>6, SignInStore
  <2>. QED BY <2>1, <2>2, <1>1, Bounds DEF Sound
<1>7. ASSUME NEW k \in Keys, RemoveCredential(k)
      PROVE  \A j \in Keys : Sound(locked', j, store'[j])
  <2>1. locked' = locked /\ Publish(k, Removed(store[k]))
    BY <1>7 DEF RemoveCredential
  <2>. QED BY <2>1, <1>0, <1>1, RemovedStore DEF Sound
<1>8. ASSUME NEW k \in Keys, Revoke(k)
      PROVE  \A j \in Keys : Sound(locked', j, store'[j])
  BY <1>3, <1>8 DEF Revoke, daemon
<1>9. CASE Lock \/ Crash
  <2>1. locked' = TRUE
    BY <1>9 DEF Lock, Crash
  <2>2. ASSUME NEW j \in Keys
        PROVE  store'[j].cred = None /\ store'[j].access = 0 /\ store'[j].view = None
    <3>1. store'[j] = [cred |-> None, blob |-> store[j].blob, access |-> 0, dead |-> FALSE,
                       view |-> None, ahead |-> FALSE]
      BY <1>0, <1>9, LockedRecords
    <3>. QED BY <3>1
  <2>. QED BY <2>1, <2>2 DEF Sound
<1>10. CASE Unlock
  <2>1. locked' = FALSE
    BY <1>10 DEF Unlock
  <2>2. ASSUME NEW j \in Keys
        PROVE  Sound(locked', j, store'[j])
    <3>1. PICK r \in Record : r = store[j]
      BY <1>0 DEF Shapes
    <3>2. PICK v : v = IF j \in McpKeys /\ ~r.dead THEN r.blob ELSE None
      OBVIOUS
    <3>3. store'[j] = [cred |-> r.blob, blob |-> r.blob, access |-> r.access, dead |-> r.dead,
                       view |-> v, ahead |-> FALSE]
      BY <1>0, <1>10, <3>1, <3>2, UnlockedRecords
    <3>4. store'[j].cred = r.blob /\ store'[j].blob = r.blob /\ store'[j].access = r.access
          /\ store'[j].view = v
      BY <3>3
    <3>5. store'[j].dead = r.dead
      BY <3>3
    <3>6. j \in ProviderKeys => v = None
      BY <3>2, Bounds
    <3>. QED BY <2>1, <3>1, <3>4, <3>5, <3>6, <1>1 DEF Sound
  <2>. QED BY <2>2
<1>11. CASE UNCHANGED vars
  BY <1>3, <1>11 DEF vars, daemon
<1>12. ASSUME NEW w \in Workers,
              Step(w) \/ Acquire(w) \/ AdapterClears(w) \/ AdapterReplaced(w)
       PROVE  \A j \in Keys : Sound(locked', j, store'[j])
  BY <1>3, <1>5, <1>12, StoreUntouched DEF Step
<1>13. ASSUME NEW k \in Served, SaveCredential(k) \/ RemoveCredential(k) \/ Revoke(k)
       PROVE  \A j \in Keys : Sound(locked', j, store'[j])
  <2>1. k \in Keys
    BY <1>0 DEF Served, Shapes, WorkerState
  <2>. QED BY <2>1, <1>6, <1>7, <1>8, <1>13
<1>. QED BY <1>4, <1>9, <1>10, <1>11, <1>12, <1>13 DEF Next

-----------------------------------------------------------------------------
(* What the steps do to a worker.                                            *)

\* The tokens a worker has.
Carried(u) == {u.token, u.seed, u.cache}

\* The steps of a refresh in which no adapter's command is made or sent.
LEMMA QuietWorker ==
  ASSUME LockInv, NEW w \in Workers,
         \/ Acquire(w) \/ TakeLock(w) \/ Release(w) \/ Prune(w) \/ ExchangeFails(w)
         \/ ProviderRefreshed(w) \/ ProviderRejected(w) \/ AdapterLoads(w) \/ AdapterReplaced(w)
  PROVE  \E u \in WorkerState :
           /\ wk' = [wk EXCEPT ![w] = u] /\ u.key = wk[w].key
           /\ u.out = <<>> /\ wk[w].out = <<>>
           /\ u.pc \notin {"publish", "send"} /\ wk[w].pc \notin {"publish", "send"}
           /\ Carried(u) \subseteq Carried(wk[w]) \cup {None, store[wk[w].key].view}
           /\ u.pc = "exchange" => wk[w].key \in McpKeys
           /\ u.pc = "saving" => u.token = wk[w].token
<1>1. Shapes /\ wk \in [Workers -> WorkerState] /\ wk[w] \in WorkerState /\ Place(wk[w])
      /\ wk[w].key \in Keys
  BY DEF LockInv, PlacePart, Shapes, WorkerState
<1>2. wk[w].pc \notin {"publish", "send"} /\ wk[w].out = <<>>
  <2>1. wk[w].pc \in {"idle", "wait", "release", "prune", "exchange", "load"}
    BY DEF Acquire, TakeLock, Release, Prune, ExchangeFails, ProviderRefreshed, ProviderRejected,
           AdapterLoads, AdapterReplaced
  <2>. QED BY <2>1, <1>1 DEF Place
<1>3. ASSUME NEW q \in Pcs, q \notin {"publish", "send", "exchange"}, wk' = [wk EXCEPT ![w].pc = q]
      PROVE  \E u \in WorkerState :
           /\ wk' = [wk EXCEPT ![w] = u] /\ u.key = wk[w].key
           /\ u.out = <<>> /\ wk[w].out = <<>>
           /\ u.pc \notin {"publish", "send"} /\ wk[w].pc \notin {"publish", "send"}
           /\ Carried(u) \subseteq Carried(wk[w]) \cup {None, store[wk[w].key].view}
           /\ u.pc = "exchange" => wk[w].key \in McpKeys
           /\ u.pc = "saving" => u.token = wk[w].token
  <2>1. PICK u \in WorkerState :
           /\ wk' = [wk EXCEPT ![w] = u] /\ u.pc = q
           /\ u.key = wk[w].key /\ u.handle = wk[w].handle /\ u.token = wk[w].token
           /\ u.seed = wk[w].seed /\ u.cache = wk[w].cache /\ u.out = wk[w].out
    BY <1>1, <1>3, PlaceChanges
  <2>. QED BY <2>1, <1>2, <1>3 DEF Carried
<1>4. CASE TakeLock(w) \/ Prune(w) \/ ExchangeFails(w) \/ ProviderRefreshed(w) \/ ProviderRejected(w)
           \/ (AdapterLoads(w) /\ store[wk[w].key].view = None)
  <2>1. PICK q \in Pcs : q \notin {"publish", "send", "exchange"} /\ wk' = [wk EXCEPT ![w].pc = q]
    BY <1>4 DEF TakeLock, Prune, ExchangeFails, ProviderRefreshed, ProviderRejected, AdapterLoads, Pcs
  <2>. QED BY <2>1, <1>3
<1>5. CASE Acquire(w)
  <2>1. PICK l : wk' = [wk EXCEPT ![w].pc = "wait", ![w].handle = l]
    BY <1>5 DEF Acquire
  <2>2. PICK u : u = [wk[w] EXCEPT !.pc = "wait", !.handle = l]
    OBVIOUS
  <2>3. u = [key |-> wk[w].key, pc |-> "wait", handle |-> l, token |-> wk[w].token,
             seed |-> wk[w].seed, cache |-> wk[w].cache, out |-> wk[w].out]
    BY <2>2, <1>1 DEF WorkerState
  <2>4. wk' = [wk EXCEPT ![w] = u]
    BY <2>1, <2>2, <1>1
  <2>5. u \in WorkerState
    <3>1. LockInv'
      BY <1>5, AcquireLocks
    <3>2. wk'[w] \in WorkerState
      BY <3>1 DEF LockInv, Shapes
    <3>. QED BY <3>2, <2>4, <1>1
  <2>6. Carried(u) = Carried(wk[w]) /\ u.key = wk[w].key /\ u.out = wk[w].out /\ u.pc = "wait"
    BY <2>3 DEF Carried
  <2>. QED BY <2>4, <2>5, <2>6, <1>2
<1>6. CASE Release(w)
  <2>1. PICK q \in Pcs : q \in {"idle", "prune"}
                /\ wk' = [wk EXCEPT ![w].handle = 0, ![w].token = None, ![w].seed = None, ![w].pc = q]
    BY <1>6 DEF Release, Pcs
  <2>2. PICK u : u = [wk[w] EXCEPT !.handle = 0, !.token = None, !.seed = None, !.pc = q]
    OBVIOUS
  <2>3. u = [key |-> wk[w].key, pc |-> q, handle |-> 0, token |-> None,
             seed |-> None, cache |-> wk[w].cache, out |-> wk[w].out]
    BY <2>2, <1>1 DEF WorkerState
  <2>4. wk' = [wk EXCEPT ![w] = u]
    BY <2>1, <2>2, <1>1
  <2>5. u \in WorkerState
    BY <2>1, <2>3, <1>1, Bounds DEF WorkerState
  <2>6. Carried(u) = {None, wk[w].cache} /\ u.key = wk[w].key /\ u.out = wk[w].out /\ u.pc = q
    BY <2>3 DEF Carried
  <2>. QED BY <2>1, <2>4, <2>5, <2>6, <1>2 DEF Carried
<1>7. CASE AdapterReplaced(w)
  <2>1. PICK u \in WorkerState : u = Idle(wk[w].key) /\ u.key = wk[w].key /\ u.pc = "idle"
          /\ u.out = <<>> /\ u.token = None /\ u.seed = None /\ u.cache = None
    BY <1>1, IdleFacts
  <2>2. wk' = [wk EXCEPT ![w] = u]
    BY <2>1, <1>7 DEF AdapterReplaced
  <2>. QED BY <2>1, <2>2, <1>2 DEF Carried
<1>8. CASE AdapterLoads(w) /\ store[wk[w].key].view # None
  <2>1. PICK v \in Tokens : v = store[wk[w].key].view
    BY <1>1, RecordFields DEF Shapes
  <2>2. PICK t \in Tokens : t = IF wk[w].cache = None THEN v ELSE wk[w].cache
    BY <1>1 DEF WorkerState
  <2>3. wk' = [wk EXCEPT ![w].pc = "exchange", ![w].seed = v, ![w].token = t] /\ wk[w].key \in McpKeys
    BY <1>8, <2>1, <2>2 DEF AdapterLoads
  <2>4. PICK u : u = [wk[w] EXCEPT !.pc = "exchange", !.seed = v, !.token = t]
    OBVIOUS
  <2>5. u = [key |-> wk[w].key, pc |-> "exchange", handle |-> wk[w].handle, token |-> t,
             seed |-> v, cache |-> wk[w].cache, out |-> wk[w].out]
    BY <2>4, <1>1 DEF WorkerState
  <2>6. wk' = [wk EXCEPT ![w] = u]
    BY <2>3, <2>4, <1>1
  <2>7. u \in WorkerState
    BY <2>5, <1>1 DEF WorkerState, Pcs
  <2>8. Carried(u) = {t, v, wk[w].cache} /\ u.key = wk[w].key /\ u.out = wk[w].out /\ u.pc = "exchange"
    BY <2>5 DEF Carried
  <2>. QED BY <2>1, <2>2, <2>3, <2>6, <2>7, <2>8, <1>2 DEF Carried
<1>. QED BY <1>4, <1>5, <1>6, <1>7, <1>8

\* The exchange of an adapter that the server grants.
LEMMA RefreshedWorker ==
  ASSUME LockInv, NEW w \in Workers, AdapterRefreshed(w), NEW k, k = wk[w].key,
         NEW t, t = wk[w].token, NEW a, a = Answer(k, t)
  PROVE  /\ k \in McpKeys /\ k \in Keys /\ t \in Tokens /\ Accepts(k, t) /\ wk[w].pc = "exchange"
         /\ wk[w].out = <<>> /\ wk[w].handle # 0
         /\ UNCHANGED <<locked, store, queue, lost, grants>>
         /\ \E u \in WorkerState :
              /\ wk' = [wk EXCEPT ![w] = u] /\ u.key = k
              /\ Carried(u) \subseteq Carried(wk[w]) \cup {a}
              /\ \/ a = wk[w].seed /\ u.pc = "release" /\ u.out = <<>>
                 \/ /\ a # wk[w].seed /\ u.pc = "publish" /\ u.out # <<>>
                    /\ u.out[1] \in Commands /\ u.out[1].type = "OAuthSave" /\ u.out[1].key = k
                    /\ u.out[1].token = a /\ u.out[1].expected = wk[w].seed /\ u.out[1].spent = t
<1>1. Shapes /\ wk \in [Workers -> WorkerState] /\ wk[w] \in WorkerState /\ Place(wk[w])
  BY DEF LockInv, PlacePart, Shapes
<1>2. k \in Keys /\ t \in Tokens /\ wk[w].seed \in Tokens
  BY <1>1 DEF WorkerState
<1>3. PICK s \in Tokens : s = wk[w].seed
  BY <1>2
<1>4. /\ wk[w].pc = "exchange" /\ k \in McpKeys /\ Accepts(k, t)
      /\ UNCHANGED <<locked, store, queue, lost, grants>>
  BY DEF AdapterRefreshed, daemon
<1>5. wk[w].handle # 0 /\ wk[w].out = <<>>
  BY <1>1, <1>4 DEF Place
<1>6. a \in Tokens
  BY <1>1, <1>2, <1>4, AcceptFacts
<1>7. PICK c \in Commands : c = [type |-> "OAuthSave", key |-> k, token |-> a, expected |-> s,
                                 spent |-> t, alone |-> FALSE]
  BY <1>2, <1>6, CommandTypes
<1>8. c.type = "OAuthSave" /\ c.key = k /\ c.token = a /\ c.expected = s /\ c.spent = t
  BY <1>7
<1>9. PICK o \in Outs : o = <<c>> /\ o # <<>> /\ o[1] = c
  <2>1. PICK x : x = <<c>>
    OBVIOUS
  <2>. QED BY <2>1 DEF Outs
<1>10. \/ a = s /\ wk' = [wk EXCEPT ![w].cache = a, ![w].pc = "release"]
       \/ a # s /\ wk' = [wk EXCEPT ![w].cache = a, ![w].pc = "publish", ![w].out = o]
  BY <1>3, <1>7, <1>9 DEF AdapterRefreshed, Durable
<1>11. \E u \in WorkerState :
              /\ wk' = [wk EXCEPT ![w] = u] /\ u.key = k
              /\ Carried(u) \subseteq Carried(wk[w]) \cup {a}
              /\ \/ a = s /\ u.pc = "release" /\ u.out = <<>>
                 \/ a # s /\ u.pc = "publish" /\ u.out = o
  <2>1. CASE a = s /\ wk' = [wk EXCEPT ![w].cache = a, ![w].pc = "release"]
    <3>1. PICK u : u = [wk[w] EXCEPT !.cache = a, !.pc = "release"]
      OBVIOUS
    <3>2. u = [key |-> wk[w].key, pc |-> "release", handle |-> wk[w].handle, token |-> wk[w].token,
               seed |-> wk[w].seed, cache |-> a, out |-> wk[w].out]
      BY <3>1, <1>1 DEF WorkerState
    <3>3. u \in WorkerState
      BY <3>2, <1>1, <1>6 DEF WorkerState, Pcs
    <3>4. wk' = [wk EXCEPT ![w] = u]
      BY <2>1, <3>1, <1>1
    <3>5. Carried(u) = {wk[w].token, wk[w].seed, a}
      BY <3>2 DEF Carried
    <3>. QED BY <2>1, <3>2, <3>3, <3>4, <3>5, <1>5 DEF Carried
  <2>2. CASE a # s /\ wk' = [wk EXCEPT ![w].cache = a, ![w].pc = "publish", ![w].out = o]
    <3>1. PICK u : u = [wk[w] EXCEPT !.cache = a, !.pc = "publish", !.out = o]
      OBVIOUS
    <3>2. u = [key |-> wk[w].key, pc |-> "publish", handle |-> wk[w].handle, token |-> wk[w].token,
               seed |-> wk[w].seed, cache |-> a, out |-> o]
      BY <3>1, <1>1 DEF WorkerState
    <3>3. u \in WorkerState
      BY <3>2, <1>1, <1>6 DEF WorkerState, Pcs
    <3>4. wk' = [wk EXCEPT ![w] = u]
      BY <2>2, <3>1, <1>1
    <3>5. Carried(u) = {wk[w].token, wk[w].seed, a}
      BY <3>2 DEF Carried
    <3>. QED BY <2>2, <3>2, <3>3, <3>4, <3>5 DEF Carried
  <2>. QED BY <2>1, <2>2, <1>10
<1>. QED BY <1>2, <1>3, <1>4, <1>5, <1>8, <1>9, <1>11

\* A rejected token and a cleared credential become commands.
LEMMA SpeakingWorker ==
  ASSUME LockInv, NEW w \in Workers, AdapterRejected(w) \/ AdapterClears(w)
  PROVE  /\ wk[w].key \in McpKeys /\ wk[w].out = <<>> /\ wk[w].pc \in {"idle", "exchange"}
         /\ UNCHANGED <<locked, store, queue, lost, grants, live>>
         /\ \E u \in WorkerState :
              /\ wk' = [wk EXCEPT ![w] = u] /\ u.key = wk[w].key /\ u.pc = "publish"
              /\ Carried(u) \subseteq Carried(wk[w]) \cup {None} /\ u.out # <<>>
              /\ u.out[1] \in Commands /\ u.out[1].type \in {"AuthRejected", "OAuthClear"}
<1>1. Shapes /\ wk \in [Workers -> WorkerState] /\ wk[w] \in WorkerState /\ Place(wk[w])
  BY DEF LockInv, PlacePart, Shapes
<1>2. PICK k \in McpKeys : k = wk[w].key
  BY DEF AdapterRejected, AdapterClears
<1>3. /\ wk[w].pc \in {"idle", "exchange"}
      /\ UNCHANGED <<locked, store, queue, lost, grants, live>>
  BY DEF AdapterRejected, AdapterClears, daemon, server
<1>4. wk[w].out = <<>> /\ k \in Keys
  BY <1>1, <1>3 DEF Place, Keys
<1>5. CASE AdapterRejected(w)
  <2>1. PICK c \in Commands : c = [type |-> "AuthRejected", key |-> k]
    BY <1>4, CommandTypes
  <2>2. PICK o \in Outs : o = <<c>> /\ o # <<>> /\ o[1] = c
    <3>1. PICK x : x = <<c>>
      OBVIOUS
    <3>. QED BY <3>1 DEF Outs
  <2>3. wk' = [wk EXCEPT ![w].pc = "publish", ![w].out = o]
    BY <1>2, <1>5, <2>1, <2>2 DEF AdapterRejected
  <2>4. PICK u : u = [wk[w] EXCEPT !.pc = "publish", !.out = o]
    OBVIOUS
  <2>5. u = [key |-> wk[w].key, pc |-> "publish", handle |-> wk[w].handle, token |-> wk[w].token,
             seed |-> wk[w].seed, cache |-> wk[w].cache, out |-> o]
    BY <2>4, <1>1 DEF WorkerState
  <2>6. u \in WorkerState
    BY <2>5, <1>1 DEF WorkerState, Pcs
  <2>7. wk' = [wk EXCEPT ![w] = u]
    BY <2>3, <2>4, <1>1
  <2>8. Carried(u) = Carried(wk[w])
    BY <2>5 DEF Carried
  <2>9. c.type = "AuthRejected"
    BY <2>1
  <2>. QED BY <2>2, <2>5, <2>6, <2>7, <2>8, <2>9, <1>2, <1>3, <1>4
<1>6. CASE AdapterClears(w)
  <2>1. PICK c \in Commands : c = [type |-> "OAuthClear", key |-> k]
    BY <1>4, CommandTypes
  <2>2. PICK o \in Outs : o = <<c>> /\ o # <<>> /\ o[1] = c
    <3>1. PICK x : x = <<c>>
      OBVIOUS
    <3>. QED BY <3>1 DEF Outs
  <2>3. PICK u : u = [Idle(k) EXCEPT !.pc = "publish", !.out = o]
    OBVIOUS
  <2>4. wk' = [wk EXCEPT ![w] = u]
    BY <1>2, <1>6, <2>1, <2>2, <2>3 DEF AdapterClears
  <2>5. u = [key |-> k, pc |-> "publish", handle |-> 0, token |-> None, seed |-> None,
             cache |-> None, out |-> o]
    BY <2>3 DEF Idle
  <2>6. u \in WorkerState
    BY <2>5, <1>4, Bounds DEF WorkerState, Pcs
  <2>7. Carried(u) = {None}
    BY <2>5 DEF Carried
  <2>8. c.type = "OAuthClear"
    BY <2>1
  <2>. QED BY <2>2, <2>4, <2>5, <2>6, <2>7, <2>8, <1>2, <1>3, <1>4
<1>. QED BY <1>5, <1>6

\* The adapter's command is published, then sent.
LEMMA SendingWorker ==
  ASSUME LockInv, NEW w \in Workers, AdapterPublishes(w) \/ AdapterSends(w)
  PROVE  /\ wk[w].key \in McpKeys /\ wk[w].out # <<>> /\ wk[w].out[1] \in Commands
         /\ wk[w].out[1].key = wk[w].key
         /\ UNCHANGED <<locked, lost, grants, live>>
         /\ \E u \in WorkerState :
              /\ wk' = [wk EXCEPT ![w] = u] /\ u.key = wk[w].key
              /\ Carried(u) = Carried(wk[w])
              /\ \/ /\ AdapterPublishes(w) /\ wk[w].pc = "publish" /\ u.pc = "send"
                    /\ u.out = wk[w].out /\ queue' = queue
                 \/ /\ AdapterSends(w) /\ wk[w].pc = "send" /\ u.pc \in {"release", "idle"}
                    /\ u.out = <<>> /\ store' = store
                    /\ queue' = Append(queue, Marked(wk[w].key, wk[w].out[1]))
<1>1. Shapes /\ wk \in [Workers -> WorkerState] /\ wk[w] \in WorkerState /\ Place(wk[w])
  BY DEF LockInv, PlacePart, Shapes
<1>2. wk[w].pc \in {"publish", "send"} /\ UNCHANGED <<locked, lost, grants, live>>
  BY DEF AdapterPublishes, AdapterSends, server
<1>3. PICK k \in McpKeys : k = wk[w].key
  BY <1>1, <1>2 DEF Place
<1>4. PICK o \in Outs : o = wk[w].out /\ o # <<>>
  BY <1>1, <1>2 DEF Place, WorkerState
<1>5. PICK c \in Commands : o = <<c>> /\ o[1] = c /\ Head(o) = c
  BY <1>4, OutFacts
<1>6. c.key = k
  BY <1>1, <1>2, <1>3, <1>4, <1>5 DEF Place
<1>7. CASE AdapterPublishes(w)
  <2>1. PICK q \in Pcs : q = "send"
    BY DEF Pcs
  <2>2. wk[w].pc = "publish" /\ queue' = queue /\ wk' = [wk EXCEPT ![w].pc = q]
    BY <2>1, <1>7 DEF AdapterPublishes
  <2>3. PICK u \in WorkerState :
          /\ wk' = [wk EXCEPT ![w] = u] /\ u.pc = q
          /\ u.key = wk[w].key /\ u.handle = wk[w].handle /\ u.token = wk[w].token
          /\ u.seed = wk[w].seed /\ u.cache = wk[w].cache /\ u.out = wk[w].out
    BY <2>2, <1>1, PlaceChanges
  <2>4. Carried(u) = Carried(wk[w])
    BY <2>3 DEF Carried
  <2>. QED BY <2>1, <2>2, <2>3, <2>4, <1>2, <1>3, <1>4, <1>5, <1>6, <1>7
<1>8. CASE AdapterSends(w)
  <2>1. PICK q \in Pcs : q \in {"release", "idle"} /\ wk' = [wk EXCEPT ![w].pc = q, ![w].out = <<>>]
    BY <1>8 DEF AdapterSends, Pcs
  <2>2. /\ wk[w].pc = "send" /\ store' = store
        /\ queue' = Append(queue, Marked(k, c))
    BY <1>3, <1>4, <1>5, <1>8 DEF AdapterSends, Post
  <2>3. PICK u : u = [wk[w] EXCEPT !.pc = q, !.out = <<>>]
    OBVIOUS
  <2>4. u = [key |-> k, pc |-> q, handle |-> wk[w].handle, token |-> wk[w].token,
             seed |-> wk[w].seed, cache |-> wk[w].cache, out |-> <<>>]
    BY <2>3, <1>1, <1>3 DEF WorkerState
  <2>5. u \in WorkerState
    <3>1. <<>> \in Outs
      BY DEF Outs
    <3>. QED BY <3>1, <2>4, <1>1, <1>3 DEF WorkerState
  <2>6. wk' = [wk EXCEPT ![w] = u]
    BY <2>1, <2>3, <1>1
  <2>7. Carried(u) = Carried(wk[w])
    BY <2>4 DEF Carried
  <2>. QED BY <2>1, <2>2, <2>4, <2>5, <2>6, <2>7, <1>2, <1>3, <1>4, <1>5, <1>6, <1>8
<1>. QED BY <1>7, <1>8

-----------------------------------------------------------------------------
(* The grants: no token is ahead of the server's.                            *)

\* What the tokens minted so far are.
LEMMA MintedFacts ==
  ASSUME Shapes, NEW k \in Keys
  PROVE  /\ None \in Minted[k]
         /\ \A x : x \in Minted[k] <=> /\ x \in Tokens /\ x.g =< grants[k]
                                       /\ \A t \in live[k] : x.g = t.g => x.n =< t.n
<1>1. \A x : x \in Minted[k] <=> /\ x \in Tokens /\ x.g =< grants[k]
                                 /\ \A t \in live[k] : x.g = t.g => x.n =< t.n
  BY DEF Minted
<1>2. grants[k] \in 1..MaxGrants /\ live[k] \subseteq Tokens
  BY DEF Shapes
<1>3. None \in Tokens /\ None.g = 0 /\ None.n = 0
  BY Bounds DEF None
<1>4. \A t \in Tokens : 0 =< t.n
  BY Bounds DEF Tokens
<1>5. None \in Minted[k]
  BY <1>1, <1>2, <1>3, <1>4, Bounds
<1>. QED BY <1>1, <1>5

\* An exchange mints nothing else, and takes nothing away.
LEMMA MintAccepted ==
  ASSUME LockInv, LockInv', MintPart, NEW k \in Keys, NEW t \in Tokens, Accepts(k, t),
         grants' = grants, NEW a, a = Answer(k, t)
  PROVE  /\ \A j \in Keys : Minted[j] \subseteq Minted'[j] /\ live'[j] \subseteq Minted'[j]
         /\ a \in Minted'[k] /\ t \in Minted[k] /\ a \in live'[k]
         /\ a # t => a \notin Minted[k]
<1>1. Shapes /\ Shapes'
  BY DEF LockInv
<1>2. /\ a \in Tokens /\ a.g = t.g /\ t \in live[k]
      /\ \A j \in Keys \ {k} : live'[j] = live[j]
      /\ \/ a = t /\ live' = live
         \/ a # t /\ a.n = t.n + 1 /\ live'[k] = (live[k] \ {t}) \cup {a}
  BY <1>1, AcceptFacts
<1>3. \A j \in Keys : live[j] \subseteq Minted[j] /\ live[j] \subseteq Tokens
  BY <1>1 DEF MintPart, Shapes
<1>4. \A x \in Tokens : x.n \in Nat /\ x.g \in Nat
  BY Bounds DEF Tokens
<1>5. \A j \in Keys : \A x : x \in Minted[j] <=> /\ x \in Tokens /\ x.g =< grants[j]
                                 /\ \A y \in live[j] : x.g = y.g => x.n =< y.n
  BY <1>1, MintedFacts
<1>6. \A j \in Keys : \A x : x \in Minted'[j] <=> /\ x \in Tokens /\ x.g =< grants[j]
                                 /\ \A y \in live'[j] : x.g = y.g => x.n =< y.n
  BY DEF Minted
<1>7. CASE a = t /\ live' = live
  BY <1>2, <1>3, <1>5, <1>6, <1>7
<1>8. CASE a # t /\ a.n = t.n + 1 /\ live'[k] = (live[k] \ {t}) \cup {a}
  <2>1. \A x \in Minted[k] : x \in Minted'[k]
    <3>1. SUFFICES ASSUME NEW x \in Minted[k], NEW y \in live'[k], x.g = y.g PROVE x.n =< y.n
      BY <1>5, <1>6
    <3>2. CASE y = a
      BY <3>1, <3>2, <1>2, <1>4, <1>5, <1>8
    <3>3. CASE y # a
      BY <3>1, <3>3, <1>5, <1>8
    <3>. QED BY <3>2, <3>3
  <2>2. \A y \in live[k] : y.g = t.g => y = t
    <3>1. SUFFICES ASSUME NEW y \in live[k], y.g = t.g PROVE y = t
      OBVIOUS
    <3>2. y.n =< t.n /\ t.n =< y.n
      BY <3>1, <1>2, <1>3, <1>5
    <3>3. y \in Tokens /\ y.n = t.n
      BY <3>2, <1>3, <1>4
    <3>4. y = [g |-> y.g, n |-> y.n] /\ t = [g |-> t.g, n |-> t.n]
      BY <3>3 DEF Tokens
    <3>. QED BY <3>1, <3>3, <3>4
  <2>3. a \in Minted'[k]
    <3>1. a.g =< grants[k]
      BY <1>2, <1>3, <1>5
    <3>2. ASSUME NEW y \in live'[k], a.g = y.g PROVE a.n =< y.n
      <4>1. y = a
        BY <2>2, <3>2, <1>2, <1>8
      <4>. QED BY <4>1, <1>2, <1>4
    <3>. QED BY <3>1, <3>2, <1>2, <1>6
  <2>4. a \notin Minted[k]
    BY <1>2, <1>4, <1>5, <1>8
  <2>5. \A j \in Keys \ {k} : Minted[j] \subseteq Minted'[j] /\ live'[j] \subseteq Minted'[j]
    BY <1>2, <1>3, <1>5, <1>6
  <2>6. live'[k] \subseteq Minted'[k] /\ a \in live'[k]
    BY <2>1, <2>3, <1>3, <1>8
  <2>. QED BY <2>1, <2>3, <2>4, <2>5, <2>6, <1>2, <1>3
<1>. QED BY <1>2, <1>7, <1>8

\* A sign-in mints one.
LEMMA MintSignedIn ==
  ASSUME LockInv, MintPart, NEW k \in Keys, SaveCredential(k)
  PROVE  /\ \A j \in Keys : Minted[j] \subseteq Minted'[j] /\ live'[j] \subseteq Minted'[j]
         /\ store'[k].blob \in Minted'[k]
<1>1. Shapes
  BY DEF LockInv
<1>2. PICK t \in Tokens :
           /\ t.n = 0 /\ t.g = grants[k] + 1 /\ grants'[k] = grants[k] + 1
           /\ live' = [live EXCEPT ![k] = @ \cup {t}]
           /\ \A j \in Keys \ {k} : grants'[j] = grants[j]
           /\ store'[k].blob = t
  BY <1>1, SignInStore
<1>3. \A j \in Keys : live[j] \subseteq Minted[j] /\ live[j] \subseteq Tokens
  BY <1>1 DEF MintPart, Shapes
<1>4. live'[k] = live[k] \cup {t} /\ \A j \in Keys \ {k} : live'[j] = live[j]
  BY <1>1, <1>2 DEF Shapes
<1>5. \A x \in Tokens : x.n \in Nat /\ x.g \in Nat
  BY Bounds DEF Tokens
<1>6. \A j \in Keys : \A x : x \in Minted[j] <=> /\ x \in Tokens /\ x.g =< grants[j]
                                 /\ \A y \in live[j] : x.g = y.g => x.n =< y.n
  BY <1>1, MintedFacts
<1>7. \A j \in Keys : \A x : x \in Minted'[j] <=> /\ x \in Tokens /\ x.g =< grants'[j]
                                 /\ \A y \in live'[j] : x.g = y.g => x.n =< y.n
  BY DEF Minted
<1>8. grants[k] \in Nat
  BY <1>1, Bounds DEF Shapes
<1>9. \A x \in Minted[k] : x \in Minted'[k]
  <2>1. SUFFICES ASSUME NEW x \in Minted[k] PROVE x \in Minted'[k]
    OBVIOUS
  <2>2. x \in Tokens /\ x.g =< grants[k] /\ x.g # t.g
    BY <1>2, <1>5, <1>6, <1>8
  <2>3. x.g =< grants'[k]
    BY <2>2, <1>2, <1>5, <1>8
  <2>4. \A y \in live'[k] : x.g = y.g => x.n =< y.n
    BY <2>2, <1>4, <1>6
  <2>. QED BY <2>2, <2>3, <2>4, <1>7
<1>10. t \in Minted'[k]
  <2>1. \A y \in live[k] : y.g # t.g
    BY <1>2, <1>3, <1>5, <1>6, <1>8
  <2>2. \A y \in live'[k] : t.g = y.g => t.n =< y.n
    BY <2>1, <1>2, <1>4
  <2>3. t.g =< grants'[k]
    BY <1>2, <1>5
  <2>. QED BY <2>2, <2>3, <1>7
<1>11. \A j \in Keys \ {k} : Minted[j] \subseteq Minted'[j] /\ live'[j] \subseteq Minted'[j]
  BY <1>2, <1>3, <1>4, <1>6, <1>7
<1>12. live'[k] \subseteq Minted'[k]
  BY <1>3, <1>4, <1>9, <1>10
<1>. QED BY <1>2, <1>9, <1>10, <1>11, <1>12

\* What the server takes back leaves the rest.
LEMMA MintRevoked ==
  ASSUME LockInv, MintPart, NEW k \in Keys, Revoke(k)
  PROVE  \A j \in Keys : Minted[j] \subseteq Minted'[j] /\ live'[j] \subseteq Minted'[j]
<1>1. Shapes /\ grants' = grants
  BY DEF LockInv, Revoke
<1>2. PICK t \in live[k] : live' = [live EXCEPT ![k] = @ \ {t}]
  BY DEF Revoke
<1>3. \A j \in Keys : live'[j] \subseteq live[j]
  BY <1>1, <1>2 DEF Shapes
<1>4. \A j \in Keys : Minted[j] \subseteq Minted'[j]
  BY <1>1, <1>3 DEF Minted
<1>5. \A j \in Keys : live[j] \subseteq Minted[j]
  BY DEF MintPart
<1>. QED BY <1>3, <1>4, <1>5

\* The commands that wait mention minted tokens only.
LEMMA MintQueue ==
  ASSUME Shapes, MintPart, \A j \in Keys : Minted[j] \subseteq Minted'[j],
         \/ queue' = queue
         \/ \E c \in Commands : queue' = Append(queue, c) /\ Mentioned(c) \subseteq Minted'[c.key]
         \/ queue # <<>> /\ queue' = Tail(queue)
         \/ Unlock
         \/ queue' = <<>>
  PROVE  \A i \in DOMAIN queue' : Mentioned(queue'[i]) \subseteq Minted'[queue'[i].key]
<1>1. \A i \in DOMAIN queue : Mentioned(queue[i]) \subseteq Minted'[queue[i].key]
  <2>1. SUFFICES ASSUME NEW i \in DOMAIN queue PROVE Mentioned(queue[i]) \subseteq Minted'[queue[i].key]
    OBVIOUS
  <2>2. queue[i].key \in Keys
    BY QueueFacts, CommandFields
  <2>. QED BY <2>2 DEF MintPart
<1>2. CASE queue' = queue
  BY <1>1, <1>2
<1>3. CASE \E c \in Commands : queue' = Append(queue, c) /\ Mentioned(c) \subseteq Minted'[c.key]
  <2>1. PICK c \in Commands : queue' = Append(queue, c) /\ Mentioned(c) \subseteq Minted'[c.key]
    BY <1>3
  <2>2. PICK n, m : n = Len(queue) + 1 /\ m = Len(queue)
    OBVIOUS
  <2>3. /\ DOMAIN queue' = 1..n /\ queue'[n] = c /\ n = m + 1 /\ m \in Nat /\ DOMAIN queue = 1..m
        /\ \A i \in DOMAIN queue : queue'[i] = queue[i]
    BY <2>1, <2>2, Appended, QueueFacts
  <2>4. \A i \in 1..n : i \in 1..m \/ i = n
    BY <2>3
  <2>. QED BY <2>1, <2>3, <2>4, <1>1
<1>4. CASE queue # <<>> /\ queue' = Tail(queue)
  <2>1. \A i \in DOMAIN queue' : i + 1 \in DOMAIN queue /\ queue'[i] = queue[i + 1]
    BY <1>4, FirstTaken
  <2>. QED BY <2>1, <1>1
<1>5. CASE Unlock
  <2>1. DOMAIN queue' = DOMAIN queue /\ \A i \in DOMAIN queue :
          /\ queue'[i].type = queue[i].type /\ queue'[i].key = queue[i].key
          /\ queue[i].type # "OAuthSave" => queue'[i] = queue[i]
          /\ queue[i].type = "OAuthSave" =>
               /\ queue'[i].token = queue[i].token /\ queue'[i].expected = queue[i].expected
               /\ queue'[i].spent = queue[i].spent
    BY <1>5, Unmarked
  <2>2. \A i \in DOMAIN queue : Mentioned(queue'[i]) = Mentioned(queue[i])
    BY <2>1 DEF Mentioned
  <2>. QED BY <2>1, <2>2, <1>1
<1>6. CASE queue' = <<>>
  <2>1. DOMAIN queue' = {}
    BY <1>6, EmptySeq
  <2>. QED BY <2>1
<1>. QED BY <1>2, <1>3, <1>4, <1>5, <1>6

\* So do the workers.
LEMMA MintWorker ==
  ASSUME Shapes, MintPart, \A j \in Keys : Minted[j] \subseteq Minted'[j],
         NEW w \in Workers, NEW u \in WorkerState, wk' = [wk EXCEPT ![w] = u], u.key = wk[w].key,
         Carried(u) \subseteq Minted'[wk[w].key],
         u.out # <<>> => Mentioned(u.out[1]) \subseteq Minted'[wk[w].key]
  PROVE  \A v \in Workers :
           /\ {wk'[v].token, wk'[v].seed, wk'[v].cache} \subseteq Minted'[KeyOf'[v]]
           /\ wk'[v].out # <<>> => Mentioned(wk'[v].out[1]) \subseteq Minted'[KeyOf'[v]]
<1>1. /\ wk'[w] = u /\ \A v \in Workers \ {w} : wk'[v] = wk[v]
      /\ KeyOf' = KeyOf /\ \A v \in Workers : KeyOf[v] = wk[v].key /\ KeyOf[v] \in Keys
  BY Becomes
<1>2. ASSUME NEW v \in Workers, v # w
      PROVE  /\ {wk'[v].token, wk'[v].seed, wk'[v].cache} \subseteq Minted'[KeyOf'[v]]
             /\ wk'[v].out # <<>> => Mentioned(wk'[v].out[1]) \subseteq Minted'[KeyOf'[v]]
  <2>1. wk'[v] = wk[v] /\ KeyOf'[v] = KeyOf[v] /\ Minted[KeyOf[v]] \subseteq Minted'[KeyOf'[v]]
    BY <1>1, <1>2
  <2>2. /\ {wk[v].token, wk[v].seed, wk[v].cache} \subseteq Minted[KeyOf[v]]
        /\ wk[v].out # <<>> => Mentioned(wk[v].out[1]) \subseteq Minted[KeyOf[v]]
    BY DEF MintPart
  <2>. QED BY <2>1, <2>2
<1>. QED BY <1>1, <1>2 DEF Carried

\* What a step leaves in the store was there before, or a worker's save or a
\* sign-in has brought it.
LEMMA StoreMentions ==
  ASSUME LockInv, Handle
  PROVE  \E c \in Commands :
           /\ 1 \in DOMAIN queue /\ c = queue[1] /\ c.key \in Keys
           /\ \A j \in Keys :
                {store'[j].cred, store'[j].blob, store'[j].view}
                  \subseteq {store[j].cred, store[j].blob, store[j].view, None}
                            \cup (IF Save(c) /\ j = c.key THEN {c.token} ELSE {})
<1>1. PICK c \in Commands :
           /\ c = queue[1] /\ 1 \in DOMAIN queue /\ c.key \in Keys
           /\ \/ HandleLoad(c) \/ HandleSave(c) \/ HandleMarkDead(c)
              \/ HandleOAuthSave(c) \/ HandleOAuthClear(c) \/ HandleAuthRejected(c)
  BY HeadFacts
<1>2. Shapes
  BY DEF LockInv
<1>3. SUFFICES ASSUME NEW j \in Keys
               PROVE  {store'[j].cred, store'[j].blob, store'[j].view}
                        \subseteq {store[j].cred, store[j].blob, store[j].view, None}
                                  \cup (IF Save(c) /\ j = c.key THEN {c.token} ELSE {})
  BY <1>1
<1>4. CASE HandleLoad(c)
  BY <1>4 DEF HandleLoad
<1>5. CASE HandleSave(c)
  <2>1. Save(c)
    BY <1>5 DEF HandleSave, Save
  <2>. QED BY <2>1, <1>1, <1>2, <1>5, SaveStore
<1>6. CASE HandleMarkDead(c) \/ HandleAuthRejected(c)
  BY <1>1, <1>2, <1>6, DeadStore
<1>7. CASE HandleOAuthSave(c)
  <2>1. Save(c)
    BY <1>7 DEF HandleOAuthSave, Save
  <2>. QED BY <2>1, <1>1, <1>2, <1>7, OAuthSaveStore
<1>8. CASE HandleOAuthClear(c)
  BY <1>1, <1>2, <1>8, ClearStore
<1>. QED BY <1>1, <1>4, <1>5, <1>6, <1>7, <1>8

\* The four conjuncts make the part.
LEMMA MintMade ==
  ASSUME \A j \in Keys : Minted[j] \subseteq Minted'[j] /\ live'[j] \subseteq Minted'[j],
         \A j \in Keys : {store'[j].cred, store'[j].blob, store'[j].view} \subseteq Minted'[j],
         \A i \in DOMAIN queue' : Mentioned(queue'[i]) \subseteq Minted'[queue'[i].key],
         \A v \in Workers :
           /\ {wk'[v].token, wk'[v].seed, wk'[v].cache} \subseteq Minted'[KeyOf'[v]]
           /\ wk'[v].out # <<>> => Mentioned(wk'[v].out[1]) \subseteq Minted'[KeyOf'[v]]
  PROVE  MintPart'
BY DEF MintPart

\* The workers' steps keep the part.
LEMMA WorkerMints ==
  ASSUME LockInv, LockInv', MintPart, NEW w \in Workers,
         Step(w) \/ Acquire(w) \/ AdapterClears(w) \/ AdapterReplaced(w)
  PROVE  MintPart'
<1>1. Shapes /\ PlacePart /\ wk[w] \in WorkerState
  BY DEF LockInv, Shapes
<1>2. PICK k \in Keys : k = wk[w].key
  BY <1>1 DEF WorkerState
<1>3. /\ Carried(wk[w]) \subseteq Minted[k] /\ None \in Minted[k] /\ store[k].view \in Minted[k]
      /\ (wk[w].out # <<>> => Mentioned(wk[w].out[1]) \subseteq Minted[k])
  <2>1. KeyOf[w] = k
    BY <1>2 DEF KeyOf
  <2>. QED BY <2>1, <1>1, <1>2, MintedFacts, ZenonT(40) DEF MintPart, Carried
<1>4. \A j \in Keys : live[j] \subseteq Minted[j]
                      /\ {store[j].cred, store[j].blob, store[j].view} \subseteq Minted[j]
  BY DEF MintPart
<1>5. live' = live /\ grants' = grants => Minted' = Minted
  BY DEF Minted
<1>6. CASE ProviderRefreshed(w)
  <2>1. PICK t \in Tokens : t = wk[w].token
    BY <1>1 DEF WorkerState
  <2>2. PICK a : a = Answer(k, t)
    OBVIOUS
  <2>3. Accepts(k, t) /\ grants' = grants /\ store' = store
        /\ queue' = Append(queue, [type |-> "Save", key |-> k, w |-> w, token |-> a, expected |-> t])
    BY <2>1, <2>2, <1>2, <1>6 DEF ProviderRefreshed, Post
  <2>4. /\ \A j \in Keys : Minted[j] \subseteq Minted'[j] /\ live'[j] \subseteq Minted'[j]
        /\ a \in Minted'[k] /\ t \in Minted[k]
    BY <2>2, <2>3, MintAccepted
  <2>5. a \in Tokens
    BY <2>2, <2>3, <1>1, AcceptFacts
  <2>6. PICK c \in Commands : c = [type |-> "Save", key |-> k, w |-> w, token |-> a, expected |-> t]
    BY <2>5, CommandTypes
  <2>7. Mentioned(c) \subseteq Minted'[c.key]
    <3>1. c.type = "Save" /\ c.key = k /\ c.token = a /\ c.expected = t
      BY <2>6
    <3>2. Mentioned(c) = {a, t}
      BY <3>1 DEF Mentioned
    <3>. QED BY <3>1, <3>2, <2>4
  <2>8. \A i \in DOMAIN queue' : Mentioned(queue'[i]) \subseteq Minted'[queue'[i].key]
    BY <2>3, <2>4, <2>6, <2>7, <1>1, MintQueue
  <2>9. PICK u \in WorkerState :
           /\ wk' = [wk EXCEPT ![w] = u] /\ u.key = wk[w].key /\ u.out = <<>>
           /\ Carried(u) \subseteq Carried(wk[w]) \cup {None, store[wk[w].key].view}
    BY <1>6, QuietWorker
  <2>10. \A v \in Workers :
           /\ {wk'[v].token, wk'[v].seed, wk'[v].cache} \subseteq Minted'[KeyOf'[v]]
           /\ wk'[v].out # <<>> => Mentioned(wk'[v].out[1]) \subseteq Minted'[KeyOf'[v]]
    <3>1. Carried(u) \subseteq Minted'[wk[w].key]
      BY <2>4, <2>9, <1>2, <1>3
    <3>. QED BY <2>4, <2>9, <3>1, <1>1, MintWorker
  <2>11. \A j \in Keys : {store'[j].cred, store'[j].blob, store'[j].view} \subseteq Minted'[j]
    BY <2>3, <2>4, <1>4
  <2>. QED BY <2>4, <2>8, <2>10, <2>11, MintMade
<1>7. CASE ExchangeFails(w)
  <2>1. PICK t \in Tokens : t = wk[w].token
    BY <1>1 DEF WorkerState
  <2>2. (live' = live \/ Accepts(k, t)) /\ grants' = grants /\ store' = store /\ queue' = queue
    BY <2>1, <1>2, <1>7 DEF ExchangeFails, Accepts, daemon
  <2>3. \A j \in Keys : Minted[j] \subseteq Minted'[j] /\ live'[j] \subseteq Minted'[j]
    <3>1. CASE live' = live
      BY <3>1, <2>2, <1>4, <1>5
    <3>2. CASE Accepts(k, t)
      <4>1. PICK a : a = Answer(k, t)
        OBVIOUS
      <4>. QED BY <4>1, <3>2, <2>2, MintAccepted
    <3>. QED BY <3>1, <3>2, <2>2
  <2>4. \A i \in DOMAIN queue' : Mentioned(queue'[i]) \subseteq Minted'[queue'[i].key]
    BY <2>2, <2>3, <1>1, MintQueue
  <2>5. PICK u \in WorkerState :
           /\ wk' = [wk EXCEPT ![w] = u] /\ u.key = wk[w].key /\ u.out = <<>>
           /\ Carried(u) \subseteq Carried(wk[w]) \cup {None, store[wk[w].key].view}
    BY <1>7, QuietWorker
  <2>6. Carried(u) \subseteq Minted'[wk[w].key]
    BY <2>3, <2>5, <1>2, <1>3
  <2>7. \A v \in Workers :
           /\ {wk'[v].token, wk'[v].seed, wk'[v].cache} \subseteq Minted'[KeyOf'[v]]
           /\ wk'[v].out # <<>> => Mentioned(wk'[v].out[1]) \subseteq Minted'[KeyOf'[v]]
    BY <2>3, <2>5, <2>6, <1>1, MintWorker
  <2>8. \A j \in Keys : {store'[j].cred, store'[j].blob, store'[j].view} \subseteq Minted'[j]
    BY <2>2, <2>3, <1>4
  <2>. QED BY <2>3, <2>4, <2>7, <2>8, MintMade
<1>8. CASE AdapterRefreshed(w)
  <2>1. PICK t : t = wk[w].token
    OBVIOUS
  <2>2. PICK a : a = Answer(k, t)
    OBVIOUS
  <2>3. /\ t \in Tokens /\ Accepts(k, t) /\ UNCHANGED <<locked, store, queue, lost, grants>>
        /\ \E u \in WorkerState :
              /\ wk' = [wk EXCEPT ![w] = u] /\ u.key = k
              /\ Carried(u) \subseteq Carried(wk[w]) \cup {a}
              /\ \/ a = wk[w].seed /\ u.pc = "release" /\ u.out = <<>>
                 \/ /\ a # wk[w].seed /\ u.pc = "publish" /\ u.out # <<>>
                    /\ u.out[1] \in Commands /\ u.out[1].type = "OAuthSave" /\ u.out[1].key = k
                    /\ u.out[1].token = a /\ u.out[1].expected = wk[w].seed /\ u.out[1].spent = t
    BY <2>1, <2>2, <1>2, <1>8, RefreshedWorker
  <2>4. PICK u \in WorkerState :
              /\ wk' = [wk EXCEPT ![w] = u] /\ u.key = k
              /\ Carried(u) \subseteq Carried(wk[w]) \cup {a}
              /\ u.out # <<>> =>
                    /\ u.out[1].type = "OAuthSave"
                    /\ u.out[1].token = a /\ u.out[1].expected = wk[w].seed /\ u.out[1].spent = t
    BY <2>3
  <2>5. /\ \A j \in Keys : Minted[j] \subseteq Minted'[j] /\ live'[j] \subseteq Minted'[j]
        /\ a \in Minted'[k] /\ t \in Minted[k]
    BY <2>2, <2>3, MintAccepted
  <2>6. \A i \in DOMAIN queue' : Mentioned(queue'[i]) \subseteq Minted'[queue'[i].key]
    BY <2>3, <2>5, <1>1, MintQueue
  <2>7. Carried(u) \subseteq Minted'[wk[w].key]
    BY <2>4, <2>5, <1>2, <1>3
  <2>8. u.out # <<>> => Mentioned(u.out[1]) \subseteq Minted'[wk[w].key]
    <3>1. SUFFICES ASSUME u.out # <<>> PROVE Mentioned(u.out[1]) \subseteq Minted'[k]
      BY <1>2
    <3>2. Mentioned(u.out[1]) = {a, wk[w].seed, t}
      BY <2>4, <3>1 DEF Mentioned
    <3>3. wk[w].seed \in Minted[k]
      BY <1>3 DEF Carried
    <3>. QED BY <3>2, <3>3, <2>5
  <2>9. \A v \in Workers :
           /\ {wk'[v].token, wk'[v].seed, wk'[v].cache} \subseteq Minted'[KeyOf'[v]]
           /\ wk'[v].out # <<>> => Mentioned(wk'[v].out[1]) \subseteq Minted'[KeyOf'[v]]
    BY <2>4, <2>5, <2>7, <2>8, <1>1, <1>2, MintWorker
  <2>10. \A j \in Keys : {store'[j].cred, store'[j].blob, store'[j].view} \subseteq Minted'[j]
    BY <2>3, <2>5, <1>4
  <2>. QED BY <2>5, <2>6, <2>9, <2>10, MintMade
<1>9. ASSUME live' = live, grants' = grants,
             \A j \in Keys : {store'[j].cred, store'[j].blob, store'[j].view} \subseteq Minted[j],
             \/ queue' = queue
             \/ \E c \in Commands : queue' = Append(queue, c) /\ Mentioned(c) \subseteq Minted[c.key],
             \E u \in WorkerState :
              /\ wk' = [wk EXCEPT ![w] = u] /\ u.key = wk[w].key
              /\ Carried(u) \subseteq Minted[wk[w].key]
              /\ u.out # <<>> => Mentioned(u.out[1]) \subseteq Minted[wk[w].key]
      PROVE  MintPart'
  <2>1. Minted' = Minted
    BY <1>5, <1>9
  <2>2. \A j \in Keys : Minted[j] \subseteq Minted'[j] /\ live'[j] \subseteq Minted'[j]
    BY <2>1, <1>4, <1>9
  <2>3. \A i \in DOMAIN queue' : Mentioned(queue'[i]) \subseteq Minted'[queue'[i].key]
    BY <2>1, <1>1, <1>9, MintQueue
  <2>4. PICK u \in WorkerState :
              /\ wk' = [wk EXCEPT ![w] = u] /\ u.key = wk[w].key
              /\ Carried(u) \subseteq Minted[wk[w].key]
              /\ u.out # <<>> => Mentioned(u.out[1]) \subseteq Minted[wk[w].key]
    BY <1>9
  <2>5. \A v \in Workers :
           /\ {wk'[v].token, wk'[v].seed, wk'[v].cache} \subseteq Minted'[KeyOf'[v]]
           /\ wk'[v].out # <<>> => Mentioned(wk'[v].out[1]) \subseteq Minted'[KeyOf'[v]]
    BY <2>1, <2>4, <1>1, MintWorker
  <2>6. \A j \in Keys : {store'[j].cred, store'[j].blob, store'[j].view} \subseteq Minted'[j]
    BY <2>1, <1>9
  <2>. QED BY <2>2, <2>3, <2>5, <2>6, MintMade
<1>10. CASE \/ Acquire(w) \/ TakeLock(w) \/ Release(w) \/ Prune(w)
            \/ ProviderRejected(w) \/ AdapterLoads(w) \/ AdapterReplaced(w)
  <2>1. store' = store /\ live' = live /\ grants' = grants
    BY <1>10 DEF Acquire, TakeLock, Release, Prune, ProviderRejected, AdapterLoads, AdapterReplaced,
                 daemon, server
  <2>2. \/ queue' = queue
        \/ \E c \in Commands : queue' = Append(queue, c) /\ Mentioned(c) \subseteq Minted[c.key]
    <3>1. PICK c \in Commands : c = [type |-> "Load", key |-> k, w |-> w]
      BY CommandTypes
    <3>2. PICK d \in Commands : d = [type |-> "MarkDead", key |-> k]
      BY CommandTypes
    <3>3. Mentioned(c) = {} /\ Mentioned(d) = {}
      BY <3>1, <3>2 DEF Mentioned
    <3>4. queue' = queue \/ queue' = Append(queue, c) \/ queue' = Append(queue, d)
      BY <3>1, <3>2, <1>2, <1>10 DEF Acquire, TakeLock, Release, Prune, ProviderRejected,
         AdapterLoads, AdapterReplaced, daemon, Post
    <3>. QED BY <3>3, <3>4
  <2>3. \E u \in WorkerState :
           /\ wk' = [wk EXCEPT ![w] = u] /\ u.key = wk[w].key /\ u.out = <<>>
           /\ Carried(u) \subseteq Carried(wk[w]) \cup {None, store[wk[w].key].view}
    BY <1>10, QuietWorker
  <2>4. \E u \in WorkerState :
              /\ wk' = [wk EXCEPT ![w] = u] /\ u.key = wk[w].key
              /\ Carried(u) \subseteq Minted[wk[w].key]
              /\ u.out # <<>> => Mentioned(u.out[1]) \subseteq Minted[wk[w].key]
    BY <2>3, <1>2, <1>3
  <2>5. \A j \in Keys : {store'[j].cred, store'[j].blob, store'[j].view} \subseteq Minted[j]
    BY <2>1, <1>4
  <2>. QED BY <2>1, <2>2, <2>4, <2>5, <1>9
<1>11. CASE AdapterRejected(w) \/ AdapterClears(w)
  <2>1. /\ store' = store /\ live' = live /\ grants' = grants /\ queue' = queue
        /\ \E u \in WorkerState :
              /\ wk' = [wk EXCEPT ![w] = u] /\ u.key = wk[w].key
              /\ Carried(u) \subseteq Carried(wk[w]) \cup {None}
              /\ u.out[1].type \in {"AuthRejected", "OAuthClear"}
    BY <1>11, SpeakingWorker
  <2>2. PICK u \in WorkerState :
              /\ wk' = [wk EXCEPT ![w] = u] /\ u.key = wk[w].key
              /\ Carried(u) \subseteq Carried(wk[w]) \cup {None}
              /\ u.out[1].type \in {"AuthRejected", "OAuthClear"}
    BY <2>1
  <2>3. Mentioned(u.out[1]) = {}
    BY <2>2 DEF Mentioned
  <2>4. Carried(u) \subseteq Minted[wk[w].key]
    BY <2>2, <1>2, <1>3
  <2>5. \A j \in Keys : {store'[j].cred, store'[j].blob, store'[j].view} \subseteq Minted[j]
    BY <2>1, <1>4
  <2>. QED BY <2>1, <2>2, <2>3, <2>4, <2>5, <1>9
<1>12. CASE AdapterPublishes(w) \/ AdapterSends(w)
  <2>1. PICK c \in Commands : c = wk[w].out[1] /\ wk[w].out # <<>> /\ c.key = k
    BY <1>2, <1>12, SendingWorker
  <2>2. live' = live /\ grants' = grants
    BY <1>12, SendingWorker
  <2>3. \E u \in WorkerState :
              /\ wk' = [wk EXCEPT ![w] = u] /\ u.key = wk[w].key
              /\ Carried(u) = Carried(wk[w])
              /\ \/ /\ AdapterPublishes(w) /\ u.out = wk[w].out /\ queue' = queue
                 \/ /\ AdapterSends(w) /\ u.out = <<>> /\ store' = store
                    /\ queue' = Append(queue, Marked(k, c))
    BY <1>2, <2>1, <1>12, SendingWorker
  <2>4. PICK u \in WorkerState :
              /\ wk' = [wk EXCEPT ![w] = u] /\ u.key = wk[w].key
              /\ Carried(u) = Carried(wk[w])
              /\ \/ /\ AdapterPublishes(w) /\ u.out = wk[w].out /\ queue' = queue
                 \/ /\ AdapterSends(w) /\ u.out = <<>> /\ store' = store
                    /\ queue' = Append(queue, Marked(k, c))
    BY <2>3
  <2>5. Mentioned(c) \subseteq Minted[k]
    BY <2>1, <1>3
  <2>6. CASE AdapterPublishes(w) /\ u.out = wk[w].out /\ queue' = queue
    <3>1. /\ \A j \in Keys \ {k} : store'[j] = store[j]
          /\ store'[k].cred = store[k].cred /\ store'[k].blob = store[k].blob
          /\ store'[k].view = Shown(c)
      BY <2>1, <2>6, <1>1, <1>2, ShownStore
    <3>2. Shown(c) \in Minted[k]
      BY <2>5, <1>3 DEF Shown, Mentioned
    <3>3. \A j \in Keys : {store'[j].cred, store'[j].blob, store'[j].view} \subseteq Minted[j]
      BY <3>1, <3>2, <1>4
    <3>4. \E x \in WorkerState :
              /\ wk' = [wk EXCEPT ![w] = x] /\ x.key = wk[w].key
              /\ Carried(x) \subseteq Minted[wk[w].key]
              /\ x.out # <<>> => Mentioned(x.out[1]) \subseteq Minted[wk[w].key]
      BY <2>1, <2>4, <2>5, <2>6, <1>2, <1>3
    <3>. QED BY <2>2, <2>6, <3>3, <3>4, <1>9
  <2>7. CASE AdapterSends(w) /\ u.out = <<>> /\ store' = store /\ queue' = Append(queue, Marked(k, c))
    <3>1. PICK d \in Commands : d = Marked(k, c)
      BY MarkedFacts
    <3>2. Mentioned(d) \subseteq Minted[d.key]
      <4>1. d.type = c.type /\ d.key = c.key
        BY <3>1, MarkedFacts
      <4>2. CASE c.type = "OAuthSave"
        <5>1. d.token = c.token /\ d.expected = c.expected /\ d.spent = c.spent
          BY <3>1, <4>2, MarkedFacts
        <5>2. Mentioned(d) = Mentioned(c)
          BY <4>1, <4>2, <5>1 DEF Mentioned
        <5>. QED BY <4>1, <5>2, <2>1, <2>5
      <4>3. CASE c.type # "OAuthSave"
        <5>1. d = c
          BY <3>1, <4>3, MarkedFacts
        <5>. QED BY <5>1, <2>1, <2>5
      <4>. QED BY <4>2, <4>3
    <3>3. \A j \in Keys : {store'[j].cred, store'[j].blob, store'[j].view} \subseteq Minted[j]
      BY <2>7, <1>4
    <3>4. \E x \in WorkerState :
              /\ wk' = [wk EXCEPT ![w] = x] /\ x.key = wk[w].key
              /\ Carried(x) \subseteq Minted[wk[w].key]
              /\ x.out # <<>> => Mentioned(x.out[1]) \subseteq Minted[wk[w].key]
      BY <2>4, <2>7, <1>2, <1>3
    <3>5. \E x \in Commands : queue' = Append(queue, x) /\ Mentioned(x) \subseteq Minted[x.key]
      BY <2>7, <3>1, <3>2
    <3>. QED BY <2>2, <3>3, <3>4, <3>5, <1>9
  <2>. QED BY <2>4, <2>6, <2>7
<1>. QED BY <1>6, <1>7, <1>8, <1>10, <1>11, <1>12 DEF Step

\* So do the command loop's.
LEMMA HandleMints ==
  ASSUME LockInv, LockInv', MintPart, Handle
  PROVE  MintPart'
<1>1. Shapes
  BY DEF LockInv
<1>2. PICK c \in Commands :
           /\ c = queue[1] /\ 1 \in DOMAIN queue /\ c.key \in Keys
           /\ Asks(c) => c.w \in Workers /\ Asked(c, wk[c.w])
           /\ \/ HandleLoad(c) \/ HandleSave(c) \/ HandleMarkDead(c)
              \/ HandleOAuthSave(c) \/ HandleOAuthClear(c) \/ HandleAuthRejected(c)
  BY HeadFacts
<1>3. live' = live /\ grants' = grants
  BY <1>1, <1>2, HandlerTypes
<1>4. Minted' = Minted
  BY <1>3 DEF Minted
<1>5. \A j \in Keys : live[j] \subseteq Minted[j] /\ None \in Minted[j]
                      /\ {store[j].cred, store[j].blob, store[j].view} \subseteq Minted[j]
  BY <1>1, MintedFacts DEF MintPart
<1>6. \A j \in Keys : {store'[j].cred, store'[j].blob, store'[j].view} \subseteq Minted'[j]
  <2>1. PICK d \in Commands :
           /\ 1 \in DOMAIN queue /\ d = queue[1] /\ d.key \in Keys
           /\ \A j \in Keys :
                {store'[j].cred, store'[j].blob, store'[j].view}
                  \subseteq {store[j].cred, store[j].blob, store[j].view, None}
                            \cup (IF Save(d) /\ j = d.key THEN {d.token} ELSE {})
    BY StoreMentions
  <2>2. Mentioned(d) \subseteq Minted[d.key]
    BY <2>1 DEF MintPart
  <2>3. Save(d) => d.token \in Minted[d.key]
    BY <2>2 DEF Save, Mentioned
  <2>. QED BY <2>1, <2>3, <1>4, <1>5
<1>7. \A i \in DOMAIN queue' : Mentioned(queue'[i]) \subseteq Minted'[queue'[i].key]
  <2>1. queue # <<>> /\ queue' = Tail(queue)
    BY DEF Handle
  <2>. QED BY <2>1, <1>1, <1>4, MintQueue
<1>8. \A v \in Workers :
        /\ {wk'[v].token, wk'[v].seed, wk'[v].cache} \subseteq Minted'[KeyOf'[v]]
        /\ wk'[v].out # <<>> => Mentioned(wk'[v].out[1]) \subseteq Minted'[KeyOf'[v]]
  <2>1. CASE HandleLoad(c) \/ HandleSave(c)
    <3>0. Asks(c)
      BY <2>1, <1>1, AnswerGiven
    <3>1. PICK w \in Workers : w = c.w /\ Asked(c, wk[w])
      BY <3>0, <1>2
    <3>2. PICK u \in WorkerState :
              /\ wk' = [wk EXCEPT ![w] = u] /\ u.key = wk[w].key /\ u.out = wk[w].out
              /\ u.seed = wk[w].seed /\ u.cache = wk[w].cache
              /\ u.token = wk[w].token \/ u.token = store[c.key].cred
      BY <2>1, <3>1, <1>1, AnswerGiven
    <3>3. c.key = wk[w].key /\ KeyOf[w] = wk[w].key
      BY <3>1 DEF Asked, KeyOf
    <3>4. Carried(u) \subseteq Minted'[wk[w].key]
      <4>1. Carried(wk[w]) \subseteq Minted[wk[w].key]
        BY <3>3 DEF MintPart, Carried
      <4>2. store[c.key].cred \in Minted[wk[w].key]
        BY <3>3, <1>2, <1>5
      <4>. QED BY <3>2, <4>1, <4>2, <1>4 DEF Carried
    <3>5. u.out # <<>> => Mentioned(u.out[1]) \subseteq Minted'[wk[w].key]
      BY <3>2, <3>3, <1>4 DEF MintPart
    <3>. QED BY <3>2, <3>4, <3>5, <1>1, <1>4, MintWorker
  <2>2. CASE ~(HandleLoad(c) \/ HandleSave(c))
    <3>1. wk' = wk
      BY <2>2, <1>2 DEF HandleMarkDead, HandleOAuthSave, HandleOAuthClear, HandleAuthRejected
    <3>2. KeyOf' = KeyOf
      BY <3>1 DEF KeyOf
    <3>. QED BY <3>1, <3>2, <1>4 DEF MintPart
  <2>. QED BY <2>1, <2>2
<1>9. \A j \in Keys : Minted[j] \subseteq Minted'[j] /\ live'[j] \subseteq Minted'[j]
  BY <1>3, <1>4, <1>5
<1>. QED BY <1>6, <1>7, <1>8, <1>9, MintMade

\* The workers are as they were.
LEMMA MintKept ==
  ASSUME Shapes, MintPart, wk' = wk, \A j \in Keys : Minted[j] \subseteq Minted'[j]
  PROVE  \A v \in Workers :
           /\ {wk'[v].token, wk'[v].seed, wk'[v].cache} \subseteq Minted'[KeyOf'[v]]
           /\ wk'[v].out # <<>> => Mentioned(wk'[v].out[1]) \subseteq Minted'[KeyOf'[v]]
<1>1. KeyOf' = KeyOf /\ \A v \in Workers : KeyOf[v] \in Keys
  BY DEF KeyOf, Shapes, WorkerState
<1>2. \A v \in Workers :
        /\ {wk[v].token, wk[v].seed, wk[v].cache} \subseteq Minted[KeyOf[v]]
        /\ wk[v].out # <<>> => Mentioned(wk[v].out[1]) \subseteq Minted[KeyOf[v]]
  BY DEF MintPart
<1>. QED BY <1>1, <1>2

\* The clients' commands, and a crash, keep the part.
LEMMA ClientMints ==
  ASSUME LockInv, LockInv', MintPart,
         \/ \E k \in Keys : SaveCredential(k) \/ RemoveCredential(k) \/ Revoke(k)
         \/ Lock \/ Unlock \/ Crash \/ UNCHANGED vars
  PROVE  MintPart'
<1>1. Shapes
  BY DEF LockInv
<1>2. \A j \in Keys : live[j] \subseteq Minted[j] /\ None \in Minted[j]
                      /\ {store[j].cred, store[j].blob, store[j].view} \subseteq Minted[j]
  BY <1>1, MintedFacts DEF MintPart
<1>3. ASSUME NEW k \in Keys, SaveCredential(k) \/ RemoveCredential(k) \/ Revoke(k)
      PROVE  MintPart'
  <2>1. queue' = queue /\ wk' = wk
    BY <1>3 DEF SaveCredential, RemoveCredential, Revoke, daemon
  <2>2. /\ \A j \in Keys : Minted[j] \subseteq Minted'[j] /\ live'[j] \subseteq Minted'[j]
        /\ \A j \in Keys : {store'[j].cred, store'[j].blob, store'[j].view} \subseteq Minted'[j]
    <3>1. CASE SaveCredential(k)
      <4>1. /\ \A j \in Keys : Minted[j] \subseteq Minted'[j] /\ live'[j] \subseteq Minted'[j]
            /\ store'[k].blob \in Minted'[k]
        BY <3>1, MintSignedIn
      <4>2. PICK t \in Tokens :
              /\ \A j \in Keys \ {k} : store'[j] = store[j]
              /\ store'[k].cred = t /\ store'[k].blob = t
              /\ store'[k].view = IF k \in McpKeys THEN t ELSE None
        BY <3>1, <1>1, SignInStore
      <4>. QED BY <4>1, <4>2, <1>2
    <3>2. CASE RemoveCredential(k)
      <4>1. live' = live /\ grants' = grants /\ Publish(k, Removed(store[k]))
        BY <3>2 DEF RemoveCredential, server
      <4>2. Minted' = Minted
        BY <4>1 DEF Minted
      <4>3. /\ \A j \in Keys \ {k} : store'[j] = store[j]
            /\ store'[k].cred = None /\ store'[k].blob = None /\ store'[k].view = None
        BY <4>1, <1>1, RemovedStore
      <4>. QED BY <4>1, <4>2, <4>3, <1>2
    <3>3. CASE Revoke(k)
      <4>1. store' = store
        BY <3>3 DEF Revoke, daemon
      <4>. QED BY <4>1, <3>3, <1>2, MintRevoked
    <3>. QED BY <3>1, <3>2, <3>3, <1>3
  <2>3. \A i \in DOMAIN queue' : Mentioned(queue'[i]) \subseteq Minted'[queue'[i].key]
    BY <2>1, <2>2, <1>1, MintQueue
  <2>4. \A v \in Workers :
          /\ {wk'[v].token, wk'[v].seed, wk'[v].cache} \subseteq Minted'[KeyOf'[v]]
          /\ wk'[v].out # <<>> => Mentioned(wk'[v].out[1]) \subseteq Minted'[KeyOf'[v]]
    BY <2>1, <2>2, <1>1, MintKept
  <2>. QED BY <2>2, <2>3, <2>4, MintMade
<1>4. CASE Lock \/ Unlock \/ Crash \/ UNCHANGED vars
  <2>1. live' = live /\ grants' = grants
    BY <1>4 DEF Lock, Unlock, Crash, vars, server
  <2>2. Minted' = Minted
    BY <2>1 DEF Minted
  <2>3. ASSUME NEW j \in Keys
        PROVE  {store'[j].cred, store'[j].blob, store'[j].view} \subseteq Minted'[j]
    <3>1. CASE Lock \/ Crash
      <4>1. store'[j] = [cred |-> None, blob |-> store[j].blob, access |-> 0, dead |-> FALSE,
                         view |-> None, ahead |-> FALSE]
        BY <3>1, <1>1, LockedRecords
      <4>2. store'[j].cred = None /\ store'[j].blob = store[j].blob /\ store'[j].view = None
        BY <4>1
      <4>. QED BY <4>2, <2>2, <1>2
    <3>2. CASE Unlock
      <4>1. PICK r \in Record : r = store[j]
        BY <1>1 DEF Shapes
      <4>2. PICK v : v = IF j \in McpKeys /\ ~r.dead THEN r.blob ELSE None
        OBVIOUS
      <4>3. store'[j] = [cred |-> r.blob, blob |-> r.blob, access |-> r.access, dead |-> r.dead,
                         view |-> v, ahead |-> FALSE]
        BY <1>1, <3>2, <4>1, <4>2, UnlockedRecords
      <4>4. store'[j].cred = r.blob /\ store'[j].blob = r.blob /\ store'[j].view = v
        BY <4>3
      <4>. QED BY <4>1, <4>2, <4>4, <2>2, <1>2
    <3>3. CASE UNCHANGED vars
      BY <3>3, <2>2, <1>2 DEF vars, daemon
    <3>. QED BY <3>1, <3>2, <3>3, <1>4
  <2>4. \A i \in DOMAIN queue' : Mentioned(queue'[i]) \subseteq Minted'[queue'[i].key]
    <3>1. queue' = queue \/ Unlock \/ queue' = <<>>
      BY <1>4 DEF Lock, Crash, vars, daemon
    <3>. QED BY <2>2, <3>1, <1>1, MintQueue
  <2>5. \A v \in Workers :
          /\ {wk'[v].token, wk'[v].seed, wk'[v].cache} \subseteq Minted'[KeyOf'[v]]
          /\ wk'[v].out # <<>> => Mentioned(wk'[v].out[1]) \subseteq Minted'[KeyOf'[v]]
    <3>1. CASE wk' = wk
      BY <3>1, <2>2, <1>1, MintKept
    <3>2. CASE Crash
      <4>1. \A v \in Workers : wk[v].key \in Keys /\ wk'[v] = Idle(wk[v].key)
        BY <3>2, <1>1 DEF Crash, Shapes, WorkerState
      <4>2. \A v \in Workers : /\ wk'[v].key = wk[v].key /\ wk'[v].out = <<>> /\ wk'[v].token = None
                               /\ wk'[v].seed = None /\ wk'[v].cache = None
        BY <4>1, IdleFacts
      <4>3. \A v \in Workers : KeyOf'[v] = wk[v].key
        BY <4>2 DEF KeyOf
      <4>. QED BY <4>1, <4>2, <4>3, <2>2, <1>2
    <3>. QED BY <3>1, <3>2, <1>4 DEF Lock, Unlock, vars
  <2>6. \A j \in Keys : Minted[j] \subseteq Minted'[j] /\ live'[j] \subseteq Minted'[j]
    BY <2>1, <2>2, <1>2
  <2>. QED BY <2>3, <2>4, <2>5, <2>6, MintMade
<1>. QED BY <1>3, <1>4

\* Every step keeps the two parts.
LEMMA StepMints ==
  ASSUME LockInv, LockInv', MintPart, [Next]_vars
  PROVE  MintPart'
<1>1. \A k \in Served : k \in Keys
  BY DEF Served, LockInv, Shapes, WorkerState
<1>. QED BY <1>1, WorkerMints, HandleMints, ClientMints DEF Next

\* And they hold at the start.
LEMMA InitGrants ==
  ASSUME Init
  PROVE  StorePart /\ MintPart
<1>1. Shapes
  BY InitLocks DEF LockInv
<1>2. PICK f \in Serves : wk = [w \in Workers |-> Idle(f[w])]
  BY DEF Init
<1>3. \A w \in Workers : /\ wk[w].out = <<>> /\ wk[w].token = None /\ wk[w].seed = None
                         /\ wk[w].cache = None /\ KeyOf[w] \in Keys
  <2>1. \A w \in Workers : f[w] \in Keys
    BY ServesAssumption
  <2>. QED BY <1>2, <2>1, IdleFacts DEF KeyOf
<1>4. First.g = 1 /\ First.n = 0
  BY DEF First
<1>5. \A k \in Keys : /\ live[k] = {First} /\ grants[k] = 1 /\ ~locked
                      /\ store[k].cred = First /\ store[k].blob = First /\ store[k].access = 0
                      /\ store[k].view = IF k \in McpKeys THEN First ELSE None
  BY DEF Init
<1>6. \A k \in Keys : First \in Minted[k] /\ None \in Minted[k]
  BY <1>1, <1>4, <1>5, MintedFacts, Bounds
<1>7. StorePart
  BY <1>5, Bounds DEF StorePart
<1>8. \A k \in Keys : /\ live[k] \subseteq Minted[k]
                      /\ {store[k].cred, store[k].blob, store[k].view} \subseteq Minted[k]
  BY <1>5, <1>6
<1>9. DOMAIN queue = {}
  BY EmptySeq DEF Init
<1>10. MintPart
  BY <1>3, <1>6, <1>8, <1>9 DEF MintPart
<1>. QED BY <1>7, <1>10

\* Every step keeps the operator's word.
LEMMA StepKeepsSignIns ==
  ASSUME LockInv, StorePart, MintPart, [Next]_vars
  PROVE  /\ \A k \in ProviderKeys : store'[k].blob # None => store'[k].blob.g >= store[k].blob.g
         /\ \A k \in Keys : store[k].blob = None /\ store'[k].blob # None => grants'[k] > grants[k]
<1>1. Shapes /\ PlacePart
  BY DEF LockInv
<1>2. \A k \in Keys : store[k].blob \in Tokens /\ store[k].blob.g \in Nat /\ grants[k] \in Nat
                      /\ store[k].blob.g =< grants[k]
  <2>1. \A k \in Keys : store[k].blob \in Minted[k]
    BY DEF MintPart
  <2>2. \A k \in Keys : store[k].blob \in Tokens /\ store[k].blob.g =< grants[k]
    BY <2>1, <1>1, MintedFacts
  <2>3. \A t \in Tokens : t.g \in Nat
    BY Bounds DEF Tokens
  <2>. QED BY <2>2, <2>3, <1>1, Bounds DEF Shapes
<1>3. ASSUME NEW w \in Workers, Step(w) \/ Acquire(w) \/ AdapterClears(w) \/ AdapterReplaced(w)
      PROVE  \A j \in Keys : store'[j].blob = store[j].blob
  <2>1. CASE AdapterPublishes(w)
    BY <2>1, <1>1, ShownStore
  <2>2. CASE ~AdapterPublishes(w)
    BY <2>2, <1>3, StoreUntouched DEF Step
  <2>. QED BY <2>1, <2>2
<1>4. ASSUME Handle
      PROVE  \A j \in Keys : \/ store'[j].blob = store[j].blob \/ store'[j].blob = None
                             \/ /\ store[j].blob # None
                                /\ j \in ProviderKeys => store'[j].blob.g = store[j].blob.g
  <2>1. PICK c \in Commands :
           /\ c.key \in Keys /\ OfItsKind(c)
           /\ Asks(c) => c.w \in Workers /\ Asked(c, wk[c.w])
           /\ \/ HandleLoad(c) \/ HandleSave(c) \/ HandleMarkDead(c)
              \/ HandleOAuthSave(c) \/ HandleOAuthClear(c) \/ HandleAuthRejected(c)
    BY <1>4, HeadFacts
  <2>2. ~locked => store[c.key].cred = store[c.key].blob
    BY <2>1 DEF StorePart
  <2>3. CASE HandleLoad(c)
    BY <2>3 DEF HandleLoad
  <2>4. CASE HandleSave(c)
    <3>1. c.token.g = c.expected.g
      BY <2>1, <2>4 DEF HandleSave, Asks, Asked
    <3>. QED BY <2>1, <2>2, <2>4, <3>1, <1>1, SaveStore
  <2>5. CASE HandleMarkDead(c) \/ HandleAuthRejected(c)
    BY <2>1, <2>5, <1>1, DeadStore
  <2>6. CASE HandleOAuthSave(c)
    <3>1. c.key \notin ProviderKeys
      BY <2>1, <2>6, Bounds DEF HandleOAuthSave, OfItsKind
    <3>. QED BY <2>1, <2>2, <2>6, <3>1, <1>1, OAuthSaveStore
  <2>7. CASE HandleOAuthClear(c)
    BY <2>1, <2>7, <1>1, ClearStore
  <2>. QED BY <2>1, <2>3, <2>4, <2>5, <2>6, <2>7
<1>5. ASSUME NEW k \in Keys, SaveCredential(k)
      PROVE  \A j \in Keys : \/ store'[j].blob = store[j].blob
                             \/ store'[j].blob.g = grants[j] + 1 /\ grants'[j] = grants[j] + 1
  BY <1>1, <1>5, SignInStore
<1>6. ASSUME NEW k \in Keys, RemoveCredential(k) \/ Revoke(k)
      PROVE  \A j \in Keys : store'[j].blob = store[j].blob \/ store'[j].blob = None
  <2>1. CASE RemoveCredential(k)
    BY <2>1, <1>1, RemovedStore DEF RemoveCredential
  <2>2. CASE Revoke(k)
    BY <2>2 DEF Revoke, daemon
  <2>. QED BY <2>1, <2>2, <1>6
<1>7. ASSUME Lock \/ Crash \/ Unlock \/ UNCHANGED vars
      PROVE  \A j \in Keys : store'[j].blob = store[j].blob
  <2>1. CASE Lock \/ Crash
    <3>1. SUFFICES ASSUME NEW j \in Keys PROVE store'[j].blob = store[j].blob
      OBVIOUS
    <3>2. PICK b : b = store[j].blob
      OBVIOUS
    <3>3. store'[j] = [cred |-> None, blob |-> b, access |-> 0, dead |-> FALSE,
                       view |-> None, ahead |-> FALSE]
      BY <2>1, <3>2, <1>1, LockedRecords
    <3>. QED BY <3>2, <3>3
  <2>2. CASE Unlock
    <3>1. SUFFICES ASSUME NEW j \in Keys PROVE store'[j].blob = store[j].blob
      OBVIOUS
    <3>2. PICK r \in Record : r = store[j]
      BY <1>1 DEF Shapes
    <3>3. PICK v : v = IF j \in McpKeys /\ ~r.dead THEN r.blob ELSE None
      OBVIOUS
    <3>4. store'[j] = [cred |-> r.blob, blob |-> r.blob, access |-> r.access, dead |-> r.dead,
                       view |-> v, ahead |-> FALSE]
      BY <1>1, <2>2, <3>2, <3>3, UnlockedRecords
    <3>. QED BY <3>2, <3>4
  <2>3. CASE UNCHANGED vars
    BY <2>3 DEF vars, daemon
  <2>. QED BY <2>1, <2>2, <2>3, <1>7
<1>8. \A j \in Keys :
        \/ store'[j].blob = store[j].blob \/ store'[j].blob = None
        \/ store[j].blob # None /\ (j \in ProviderKeys => store'[j].blob.g = store[j].blob.g)
        \/ store'[j].blob.g = grants[j] + 1 /\ grants'[j] = grants[j] + 1
  <2>1. \A k \in Served : k \in Keys
    BY <1>1 DEF Served, Shapes, WorkerState
  <2>. QED BY <2>1, <1>3, <1>4, <1>5, <1>6, <1>7 DEF Next
<1>9. \A k \in ProviderKeys : k \in Keys
  BY DEF Keys
<1>. QED BY <1>2, <1>8, <1>9

\* The operator's word stands in every behaviour: a refresh of an older grant
\* never replaces a newer sign-in's blob (handle_save_oauth_token's guard), and a
\* removed credential comes back by a new sign-in only.
THEOREM SignInsStand == Spec => SignInsAreKept
<1>1. Init => LockInv /\ StorePart /\ MintPart
  BY InitLocks, InitGrants
<1>2. LockInv /\ StorePart /\ MintPart /\ [Next]_vars => (LockInv /\ StorePart /\ MintPart)'
  BY StepLocks, StepStore, StepMints
<1>3. LockInv /\ StorePart /\ MintPart /\ [Next]_vars =>
        [/\ \A k \in ProviderKeys : store'[k].blob # None => store'[k].blob.g >= store[k].blob.g
         /\ \A k \in Keys : store[k].blob = None /\ store'[k].blob # None =>
              grants'[k] > grants[k]]_vars
  BY StepKeepsSignIns
<1>. QED BY <1>1, <1>2, <1>3, PTL DEF Spec, SignInsAreKept

-----------------------------------------------------------------------------
(* Third part: no grant without a live one.                                  *)

\* A save of key k that spent token t for another, and a worker with a save that
\* it has not sent yet.
Spend(c) == IF c.type = "Save" THEN c.expected ELSE c.spent
Spends(c, k, t) == Save(c) /\ c.key = k /\ Spend(c) = t /\ c.token # t
Rotating(w) == wk[w].out # <<>> /\ wk[w].out[1].type = "OAuthSave"

\* The server honours t, or a fault took its successor, or the save that has it
\* is behind place i of the queue or about to be sent.
Honoured(t, k) == t \in live[k] \/ t \in lost[k]
Succeeded(t, k, i) ==
  \/ Honoured(t, k)
  \/ \E j \in DOMAIN queue : i < j /\ Spends(queue[j], k, t)
  \/ \E w \in Workers : Rotating(w) /\ Spends(wk[w].out[1], k, t)

\* The grant at rest, and each that a save carries, is honoured or was spent for
\* one that comes after it; what a worker has fresh from the server, or presents
\* to it for a provider, is honoured.
CoverPart ==
  /\ \A k \in Keys : store[k].blob = None \/ Succeeded(store[k].blob, k, 0)
  /\ \A i \in DOMAIN queue : Save(queue[i]) => Succeeded(queue[i].token, queue[i].key, i)
  /\ \A w \in Workers : Rotating(w) => Honoured(wk[w].out[1].token, wk[w].key)
  /\ \A w \in Workers : wk[w].pc = "exchange" /\ wk[w].key \in ProviderKeys =>
       Honoured(wk[w].token, wk[w].key)

\* Two workers that hold the lock of one key are the same.
LEMMA AloneAtKey ==
  ASSUME LockInv, NEW v \in Workers, NEW w \in Workers, Holder(v), Holder(w), wk[v].key = wk[w].key
  PROVE  v = w
<1>1. v \in Held /\ w \in Held /\ KeyOf[v] = KeyOf[w]
  BY DEF Held, KeyOf
<1>2. Handles[v] # 0 /\ Handles[w] # 0
  BY <1>1 DEF LockInv, LockPart
<1>3. Handles[v] = Handles[w]
  BY <1>1, <1>2 DEF LockInv, LockPart
<1>. QED BY <1>1, <1>3 DEF LockInv, LockPart

\* Who has a save to send, presents a provider's token or waits holds the lock.
LEMMA BusyHolds ==
  ASSUME LockInv, NEW w \in Workers, Rotating(w) \/ wk[w].pc \in {"exchange", "loading", "saving"}
  PROVE  Holder(w) /\ (Rotating(w) => wk[w].key \in McpKeys /\ wk[w].out[1].key = wk[w].key)
<1>1. Place(wk[w])
  BY DEF LockInv, PlacePart
<1>2. Rotating(w) => wk[w].pc \in {"publish", "send"} /\ wk[w].handle # 0
                     /\ wk[w].key \in McpKeys /\ wk[w].out[1].key = wk[w].key
  BY <1>1 DEF Rotating, Place
<1>3. wk[w].pc \in {"exchange", "loading", "saving"} => wk[w].handle # 0
  BY <1>1 DEF Place
<1>. QED BY <1>2, <1>3 DEF Holder, Holding

\* A step that only puts commands behind the queue.
LEMMA SucceededKept ==
  ASSUME Shapes, queue' \in Seq(Commands),
         \A k \in Keys : \A t : t \in lost[k] => t \in lost'[k],
         \A k \in Keys : \A t : t \in live[k] =>
           \/ t \in live'[k] \/ t \in lost'[k]
           \/ \E j \in DOMAIN queue' : Len(queue) < j /\ Spends(queue'[j], k, t)
           \/ \E w \in Workers : Rotating(w)' /\ Spends(wk'[w].out[1], k, t),
         \A j \in DOMAIN queue :
           j \in DOMAIN queue' /\ \A k \in Keys : \A t : Spends(queue[j], k, t) => Spends(queue'[j], k, t),
         \A w \in Workers, k \in Keys : \A t : Rotating(w) /\ Spends(wk[w].out[1], k, t) =>
           \/ Rotating(w)' /\ Spends(wk'[w].out[1], k, t)
           \/ \E j \in DOMAIN queue' : Len(queue) < j /\ Spends(queue'[j], k, t),
         NEW k \in Keys, NEW t, NEW i \in 0..Len(queue), Succeeded(t, k, i)
  PROVE  Succeeded(t, k, i)'
<1>1. Len(queue) \in Nat /\ Len(queue') \in Nat /\ DOMAIN queue' = 1..Len(queue')
  BY QueueFacts, LenProperties
<1>2. \A j \in DOMAIN queue' : Len(queue) < j => i < j
  BY <1>1
<1>3. CASE Honoured(t, k)
  BY <1>3, <1>2 DEF Honoured, Succeeded
<1>4. CASE \E j \in DOMAIN queue : i < j /\ Spends(queue[j], k, t)
  BY <1>4 DEF Succeeded
<1>5. CASE \E w \in Workers : Rotating(w) /\ Spends(wk[w].out[1], k, t)
  BY <1>5, <1>2 DEF Succeeded
<1>. QED BY <1>3, <1>4, <1>5 DEF Succeeded

\* One worker's step: it holds the lock of a key whose token it spends, and what
\* it sends or is to send is fresh from the server.
LEMMA WorkerCovers ==
  ASSUME LockInv, LockInv', CoverPart, NEW w \in Workers, NEW u \in WorkerState,
         wk' = [wk EXCEPT ![w] = u], u.key = wk[w].key,
         \A k \in Keys : store'[k].blob = store[k].blob,
         \A k \in Keys : \A t : t \in lost[k] => t \in lost'[k],
         \A k \in Keys : \A t : t \in live[k] =>
           \/ t \in live'[k] \/ t \in lost'[k]
           \/ /\ Holder(w) /\ k = wk[w].key
              /\ \/ \E j \in DOMAIN queue' : Len(queue) < j /\ Spends(queue'[j], k, t)
                 \/ Rotating(w)' /\ Spends(u.out[1], k, t),
         \/ queue' = queue
         \/ \E c \in Commands :
              queue' = Append(queue, c) /\ (Save(c) => Honoured(c.token, c.key)'),
         \A k \in Keys : \A t : Rotating(w) /\ Spends(wk[w].out[1], k, t) =>
           \/ Rotating(w)' /\ Spends(u.out[1], k, t)
           \/ \E j \in DOMAIN queue' : Len(queue) < j /\ Spends(queue'[j], k, t),
         Rotating(w)' => Honoured(u.out[1].token, u.key)',
         u.pc = "exchange" => u.key \in McpKeys
  PROVE  CoverPart'
<1>1. Shapes /\ Shapes' /\ queue' \in Seq(Commands) /\ wk \in [Workers -> WorkerState]
  BY DEF LockInv, Shapes
<1>2. /\ wk'[w] = u /\ \A v \in Workers \ {w} : wk'[v] = wk[v]
      /\ \A v \in Workers : wk'[v].key = wk[v].key /\ wk[v].key \in Keys
  <2>1. \A v \in Workers : wk[v].key \in Keys
    BY <1>1 DEF WorkerState
  <2>. QED BY <1>1, <2>1
<1>3. \A v \in Workers \ {w} : Rotating(v)' <=> Rotating(v)
  BY <1>2 DEF Rotating
<1>4. /\ Len(queue) \in Nat /\ DOMAIN queue = 1..Len(queue)
      /\ \A j \in DOMAIN queue : j \in DOMAIN queue' /\ queue'[j] = queue[j]
      /\ \A i \in DOMAIN queue' : i \in DOMAIN queue \/ (Save(queue'[i]) => Honoured(queue[i].token, queue[i].key)')
  <2>1. Len(queue) \in Nat /\ DOMAIN queue = 1..Len(queue)
    BY <1>1, QueueFacts
  <2>2. CASE queue' = queue
    BY <2>1, <2>2
  <2>3. ASSUME NEW c \in Commands, queue' = Append(queue, c), Save(c) => Honoured(c.token, c.key)'
        PROVE  /\ \A j \in DOMAIN queue : j \in DOMAIN queue' /\ queue'[j] = queue[j]
               /\ \A i \in DOMAIN queue' :
                    i \in DOMAIN queue \/ (Save(queue'[i]) => Honoured(queue[i].token, queue[i].key)')
    <3>1. /\ DOMAIN queue' = 1..(Len(queue) + 1) /\ queue'[Len(queue) + 1] = c
          /\ \A i \in DOMAIN queue : queue'[i] = queue[i]
      BY <1>1, <2>3, Appended
    <3>2. \A i \in DOMAIN queue' : i \in DOMAIN queue \/ i = Len(queue) + 1
      BY <2>1, <3>1
    <3>3. \A j \in DOMAIN queue : j \in DOMAIN queue'
      BY <2>1, <3>1
    <3>. QED BY <2>3, <3>1, <3>2, <3>3
  <2>. QED BY <2>1, <2>2, <2>3
<1>5. ASSUME NEW k \in Keys, NEW t, NEW i \in 0..Len(queue), Succeeded(t, k, i)
      PROVE  Succeeded(t, k, i)'
  <2>1. \A j \in Keys : \A x : x \in live[j] =>
           \/ x \in live'[j] \/ x \in lost'[j]
           \/ \E n \in DOMAIN queue' : Len(queue) < n /\ Spends(queue'[n], j, x)
           \/ \E v \in Workers : Rotating(v)' /\ Spends(wk'[v].out[1], j, x)
    BY <1>2
  <2>2. \A v \in Workers, j \in Keys : \A x : Rotating(v) /\ Spends(wk[v].out[1], j, x) =>
           \/ Rotating(v)' /\ Spends(wk'[v].out[1], j, x)
           \/ \E n \in DOMAIN queue' : Len(queue) < n /\ Spends(queue'[n], j, x)
    BY <1>2, <1>3
  <2>. QED BY <2>1, <2>2, <1>1, <1>4, <1>5, SucceededKept
<1>6. ASSUME NEW v \in Workers \ {w}, NEW t, Honoured(t, wk[v].key),
             Rotating(v) \/ wk[v].pc = "exchange"
      PROVE  Honoured(t, wk[v].key)'
  <2>1. Holder(v)
    BY <1>6, BusyHolds
  <2>2. ~(Holder(w) /\ wk[v].key = wk[w].key)
    BY <2>1, AloneAtKey
  <2>3. t \in live'[wk[v].key] \/ t \in lost'[wk[v].key]
    BY <2>2, <1>2, <1>6 DEF Honoured
  <2>. QED BY <2>3, <1>2 DEF Honoured
<1>7. \A k \in Keys : store'[k].blob = None \/ Succeeded(store[k].blob, k, 0)'
  BY <1>4, <1>5 DEF CoverPart
<1>8. \A i \in DOMAIN queue' : Save(queue'[i]) => Succeeded(queue[i].token, queue[i].key, i)'
  <2>1. SUFFICES ASSUME NEW i \in DOMAIN queue', Save(queue'[i])
                 PROVE  Succeeded(queue[i].token, queue[i].key, i)'
    OBVIOUS
  <2>2. CASE i \in DOMAIN queue
    <3>1. queue'[i] = queue[i] /\ queue[i].key \in Keys /\ i \in 0..Len(queue)
      BY <2>2, <1>1, <1>4, QueueFacts, CommandFields
    <3>2. Succeeded(queue[i].token, queue[i].key, i)
      BY <2>1, <2>2, <3>1 DEF CoverPart
    <3>. QED BY <3>1, <3>2, <1>5
  <2>3. CASE i \notin DOMAIN queue
    <3>1. Honoured(queue[i].token, queue[i].key)'
      BY <2>1, <2>3, <1>4
    <3>. QED BY <3>1 DEF Succeeded
  <2>. QED BY <2>2, <2>3
<1>9. \A v \in Workers : Rotating(v)' => Honoured(wk[v].out[1].token, wk[v].key)'
  BY <1>2, <1>3, <1>6 DEF CoverPart
<1>10. \A v \in Workers : wk'[v].pc = "exchange" /\ wk'[v].key \in ProviderKeys =>
         Honoured(wk[v].token, wk[v].key)'
  BY <1>2, <1>6, Bounds DEF CoverPart
<1>. QED BY <1>7, <1>8, <1>9, <1>10 DEF CoverPart

\* A step of a worker that spends nothing and has no save to send.
LEMMA CalmCovers ==
  ASSUME LockInv, LockInv', CoverPart, NEW w \in Workers, NEW u \in WorkerState,
         wk' = [wk EXCEPT ![w] = u], u.key = wk[w].key,
         \A k \in Keys : store'[k].blob = store[k].blob,
         \A k \in Keys : \A t : t \in lost[k] => t \in lost'[k],
         \A k \in Keys : \A t : t \in live[k] => t \in live'[k] \/ t \in lost'[k],
         queue' = queue \/ \E c \in Commands : queue' = Append(queue, c) /\ ~Save(c),
         ~Rotating(w), u.out # <<>> => u.out[1].type # "OAuthSave",
         u.pc = "exchange" => u.key \in McpKeys
  PROVE  CoverPart'
<1>1. wk'[w] = u
  BY DEF LockInv, Shapes
<1>2. ~Rotating(w)'
  BY <1>1 DEF Rotating
<1>3. \/ queue' = queue
      \/ \E c \in Commands : queue' = Append(queue, c) /\ (Save(c) => Honoured(c.token, c.key)')
  OBVIOUS
<1>. QED BY <1>2, <1>3, WorkerCovers

\* The workers' steps keep the part.
LEMMA StepCovers ==
  ASSUME LockInv, LockInv', MintPart, CoverPart, NEW w \in Workers,
         Step(w) \/ Acquire(w) \/ AdapterClears(w) \/ AdapterReplaced(w)
  PROVE  CoverPart'
<1>1. Shapes /\ Shapes' /\ PlacePart /\ wk[w] \in WorkerState
  BY DEF LockInv, Shapes
<1>2. PICK k \in Keys : k = wk[w].key
  BY <1>1 DEF WorkerState
<1>3. PICK t \in Tokens : t = wk[w].token
  BY <1>1 DEF WorkerState
<1>4. PICK a : a = Answer(k, t)
  OBVIOUS
<1>5. CASE ProviderRefreshed(w)
  <2>1. /\ Accepts(k, t) /\ store' = store /\ lost' = lost /\ wk[w].pc = "exchange"
        /\ queue' = Append(queue, [type |-> "Save", key |-> k, w |-> w, token |-> a, expected |-> t])
    BY <1>2, <1>3, <1>4, <1>5 DEF ProviderRefreshed, Post
  <2>2. /\ a \in Tokens /\ t \in live[k] /\ \A j \in Keys \ {k} : live'[j] = live[j]
        /\ (a = t /\ live' = live) \/ (a # t /\ live'[k] = (live[k] \ {t}) \cup {a})
    BY <2>1, <1>1, <1>4, AcceptFacts
  <2>3. PICK c \in Commands : c = [type |-> "Save", key |-> k, w |-> w, token |-> a, expected |-> t]
    BY <2>2, CommandTypes
  <2>4. c.type = "Save" /\ c.key = k /\ c.token = a /\ c.expected = t
    BY <2>3
  <2>5. a # t => Spends(c, k, t)
    BY <2>4 DEF Spends, Spend, Save
  <2>6. a \in live'[k]
    BY <2>2
  <2>7. Honoured(c.token, c.key)'
    BY <2>4, <2>6 DEF Honoured
  <2>8. PICK u \in WorkerState :
           /\ wk' = [wk EXCEPT ![w] = u] /\ u.key = wk[w].key /\ u.out = <<>> /\ wk[w].out = <<>>
           /\ u.pc = "exchange" => wk[w].key \in McpKeys
    BY <1>5, QuietWorker
  <2>9. ~Rotating(w) /\ ~Rotating(w)'
    BY <2>8, <1>1 DEF Rotating, Shapes
  <2>10. /\ Len(queue) \in Nat /\ Len(queue) + 1 \in DOMAIN queue' /\ queue'[Len(queue) + 1] = c
    BY <2>1, <2>3, <1>1, Appended, QueueFacts
  <2>11. Holder(w)
    BY <2>1, BusyHolds
  <2>12. \A j \in Keys : \A x : x \in live[j] =>
           \/ x \in live'[j] \/ x \in lost'[j]
           \/ /\ Holder(w) /\ j = wk[w].key
              /\ \/ \E n \in DOMAIN queue' : Len(queue) < n /\ Spends(queue'[n], j, x)
                 \/ Rotating(w)' /\ Spends(u.out[1], j, x)
    <3>1. SUFFICES ASSUME NEW j \in Keys, NEW x, x \in live[j], x \notin live'[j]
                   PROVE  j = wk[w].key /\ \E n \in DOMAIN queue' : Len(queue) < n /\ Spends(queue'[n], j, x)
      BY <2>11
    <3>2. j = k /\ x = t /\ a # t
      BY <3>1, <2>2
    <3>. QED BY <3>2, <2>5, <2>10, <1>2
  <2>13. queue' = Append(queue, c)
    BY <2>1, <2>3
  <2>. QED BY <2>1, <2>7, <2>8, <2>9, <2>12, <2>13, WorkerCovers
<1>6. CASE AdapterRefreshed(w)
  <2>1. /\ k \in McpKeys /\ Accepts(k, t) /\ wk[w].pc = "exchange" /\ wk[w].out = <<>>
        /\ UNCHANGED <<locked, store, queue, lost, grants>>
    BY <1>2, <1>3, <1>4, <1>6, RefreshedWorker
  <2>2. PICK u \in WorkerState :
          /\ wk' = [wk EXCEPT ![w] = u] /\ u.key = k
          /\ \/ a = wk[w].seed /\ u.pc = "release" /\ u.out = <<>>
             \/ /\ a # wk[w].seed /\ u.pc = "publish" /\ u.out # <<>>
                /\ u.out[1] \in Commands /\ u.out[1].type = "OAuthSave" /\ u.out[1].key = k
                /\ u.out[1].token = a /\ u.out[1].spent = t
    BY <1>2, <1>3, <1>4, <1>6, RefreshedWorker
  <2>3. /\ t \in live[k] /\ \A j \in Keys \ {k} : live'[j] = live[j]
        /\ (a = t /\ live' = live) \/ (a # t /\ live'[k] = (live[k] \ {t}) \cup {a})
    BY <2>1, <1>1, <1>4, AcceptFacts
  <2>4. wk'[w] = u /\ ~Rotating(w) /\ (Rotating(w)' <=> u.pc = "publish")
    BY <2>1, <2>2, <1>1 DEF Rotating, Shapes
  <2>5. a # t => a # wk[w].seed
    <3>1. a # t => a \notin Minted[k]
      BY <2>1, <1>4, MintAccepted
    <3>2. wk[w].seed \in Minted[k]
      BY <1>2 DEF MintPart, KeyOf
    <3>. QED BY <3>1, <3>2
  <2>6. a # t => Rotating(w)' /\ Spends(u.out[1], k, t)
    BY <2>2, <2>4, <2>5 DEF Spends, Spend, Save
  <2>7. Rotating(w)' => Honoured(u.out[1].token, u.key)'
    <3>1. a \in live'[k]
      BY <2>3
    <3>. QED BY <3>1, <2>2, <2>4 DEF Honoured
  <2>8. Holder(w)
    BY <2>1, BusyHolds
  <2>9. \A j \in Keys : \A x : x \in live[j] =>
           \/ x \in live'[j] \/ x \in lost'[j]
           \/ /\ Holder(w) /\ j = wk[w].key
              /\ \/ \E n \in DOMAIN queue' : Len(queue) < n /\ Spends(queue'[n], j, x)
                 \/ Rotating(w)' /\ Spends(u.out[1], j, x)
    <3>1. SUFFICES ASSUME NEW j \in Keys, NEW x, x \in live[j], x \notin live'[j]
                   PROVE  j = wk[w].key /\ Rotating(w)' /\ Spends(u.out[1], j, x)
      BY <2>8
    <3>2. j = k /\ x = t /\ a # t
      BY <3>1, <2>3
    <3>. QED BY <3>2, <2>6, <1>2
  <2>. QED BY <2>1, <2>2, <2>4, <2>7, <2>9, <1>2, WorkerCovers
<1>7. CASE ExchangeFails(w)
  <2>1. /\ store' = store /\ queue' = queue
        /\ \/ live' = live /\ lost' = lost
           \/ Accepts(k, t) /\ lost' = [lost EXCEPT ![k] = @ \cup {t}]
    BY <1>2, <1>3, <1>7 DEF ExchangeFails, Accepts, daemon
  <2>2. PICK u \in WorkerState :
           /\ wk' = [wk EXCEPT ![w] = u] /\ u.key = wk[w].key /\ u.out = <<>> /\ wk[w].out = <<>>
           /\ u.pc = "exchange" => wk[w].key \in McpKeys
    BY <1>7, QuietWorker
  <2>3. ~Rotating(w)
    BY <2>2 DEF Rotating
  <2>4. \A j \in Keys : \A x : x \in lost[j] => x \in lost'[j]
    BY <2>1, <1>1 DEF Shapes
  <2>5. \A j \in Keys : \A x : x \in live[j] => x \in live'[j] \/ x \in lost'[j]
    <3>1. CASE live' = live
      BY <3>1
    <3>2. CASE Accepts(k, t) /\ lost' = [lost EXCEPT ![k] = @ \cup {t}]
      <4>1. /\ \A j \in Keys \ {k} : live'[j] = live[j]
            /\ live' = live \/ live'[k] = (live[k] \ {t}) \cup {a}
        BY <3>2, <1>1, <1>4, AcceptFacts
      <4>2. t \in lost'[k]
        BY <3>2, <1>1 DEF Shapes
      <4>. QED BY <4>1, <4>2
    <3>. QED BY <3>1, <3>2, <2>1
  <2>. QED BY <2>1, <2>2, <2>3, <2>4, <2>5, CalmCovers
<1>8. CASE \/ Acquire(w) \/ TakeLock(w) \/ Release(w) \/ Prune(w)
           \/ ProviderRejected(w) \/ AdapterLoads(w) \/ AdapterReplaced(w)
  <2>1. store' = store /\ live' = live /\ lost' = lost
    BY <1>8 DEF Acquire, TakeLock, Release, Prune, ProviderRejected, AdapterLoads, AdapterReplaced,
       daemon, server
  <2>2. queue' = queue \/ \E c \in Commands : queue' = Append(queue, c) /\ ~Save(c)
    <3>1. CASE TakeLock(w) \/ ProviderRejected(w)
      <4>1. \/ queue' = queue
            \/ queue' = Append(queue, [type |-> "Load", key |-> k, w |-> w])
            \/ queue' = Append(queue, [type |-> "MarkDead", key |-> k])
        BY <3>1, <1>2 DEF TakeLock, ProviderRejected, Post
      <4>2. /\ [type |-> "Load", key |-> k, w |-> w] \in Commands
            /\ [type |-> "MarkDead", key |-> k] \in Commands
        BY CommandTypes
      <4>3. ~Save([type |-> "Load", key |-> k, w |-> w]) /\ ~Save([type |-> "MarkDead", key |-> k])
        BY DEF Save
      <4>. QED BY <4>1, <4>2, <4>3
    <3>2. CASE ~(TakeLock(w) \/ ProviderRejected(w))
      BY <3>2, <1>8 DEF Acquire, Release, Prune, AdapterLoads, AdapterReplaced, daemon
    <3>. QED BY <3>1, <3>2
  <2>3. PICK u \in WorkerState :
           /\ wk' = [wk EXCEPT ![w] = u] /\ u.key = wk[w].key /\ u.out = <<>> /\ wk[w].out = <<>>
           /\ u.pc = "exchange" => wk[w].key \in McpKeys
    BY <1>8, QuietWorker
  <2>4. ~Rotating(w)
    BY <2>3 DEF Rotating
  <2>. QED BY <2>1, <2>2, <2>3, <2>4, CalmCovers
<1>9. CASE AdapterRejected(w) \/ AdapterClears(w)
  <2>1. UNCHANGED <<store, queue, lost, live>> /\ wk[w].out = <<>>
    BY <1>9, SpeakingWorker
  <2>2. PICK u \in WorkerState :
           /\ wk' = [wk EXCEPT ![w] = u] /\ u.key = wk[w].key /\ u.pc = "publish"
           /\ u.out[1].type \in {"AuthRejected", "OAuthClear"}
    BY <1>9, SpeakingWorker
  <2>3. ~Rotating(w)
    BY <2>1 DEF Rotating
  <2>. QED BY <2>1, <2>2, <2>3, CalmCovers
<1>10. CASE AdapterPublishes(w) \/ AdapterSends(w)
  <2>1. PICK c \in Commands : c = wk[w].out[1] /\ wk[w].out # <<>> /\ c.key = k
    BY <1>2, <1>10, SendingWorker
  <2>2. live' = live /\ lost' = lost
    BY <1>10, SendingWorker
  <2>3. PICK u \in WorkerState :
              /\ wk' = [wk EXCEPT ![w] = u] /\ u.key = wk[w].key
              /\ \/ /\ AdapterPublishes(w) /\ u.pc = "send" /\ u.out = wk[w].out /\ queue' = queue
                 \/ /\ AdapterSends(w) /\ u.pc \in {"release", "idle"} /\ u.out = <<>> /\ store' = store
                    /\ queue' = Append(queue, Marked(k, c))
    BY <1>2, <2>1, <1>10, SendingWorker
  <2>4. Rotating(w) => Honoured(c.token, k)
    BY <2>1, <1>2 DEF CoverPart
  <2>5. wk'[w] = u
    BY <2>3, <1>1 DEF Shapes
  <2>6. CASE AdapterPublishes(w) /\ u.pc = "send" /\ u.out = wk[w].out /\ queue' = queue
    <3>1. \A j \in Keys : store'[j].blob = store[j].blob
      BY <2>6, <1>1, <1>2, ShownStore
    <3>2. Rotating(w)' <=> Rotating(w)
      BY <2>5, <2>6 DEF Rotating
    <3>3. Rotating(w)' => Honoured(u.out[1].token, u.key)'
      BY <3>2, <2>1, <2>2, <2>3, <2>4, <2>6, <1>2 DEF Honoured
    <3>. QED BY <3>1, <3>2, <3>3, <2>2, <2>3, <2>6, WorkerCovers
  <2>7. CASE /\ AdapterSends(w) /\ u.pc \in {"release", "idle"} /\ u.out = <<>> /\ store' = store
             /\ queue' = Append(queue, Marked(k, c))
    <3>1. PICK d \in Commands : d = Marked(k, c)
      BY MarkedFacts
    <3>2. d.type = c.type /\ d.key = k
      BY <3>1, <2>1, MarkedFacts
    <3>3. c.type = "OAuthSave" => d.token = c.token /\ d.spent = c.spent
      BY <3>1, MarkedFacts
    <3>4. Rotating(w) <=> c.type = "OAuthSave"
      BY <2>1 DEF Rotating
    <3>5. ~Rotating(w)'
      BY <2>5, <2>7 DEF Rotating
    <3>6. Len(queue) \in Nat /\ Len(queue) + 1 \in DOMAIN queue' /\ queue'[Len(queue) + 1] = d
      BY <2>7, <3>1, <1>1, Appended, QueueFacts
    <3>7. \A j \in Keys : \A x : Rotating(w) /\ Spends(wk[w].out[1], j, x) =>
            \E n \in DOMAIN queue' : Len(queue) < n /\ Spends(queue'[n], j, x)
      <4>1. \A j \in Keys : \A x : Rotating(w) /\ Spends(c, j, x) => Spends(d, j, x)
        BY <3>2, <3>3, <3>4, <2>1 DEF Spends, Spend, Save
      <4>. QED BY <4>1, <3>6, <2>1
    <3>8. Save(d) => Honoured(d.token, d.key)'
      <4>1. SUFFICES ASSUME Save(d) PROVE Honoured(d.token, d.key)'
        OBVIOUS
      <4>2. c.type # "Save"
        <5>1. Place(wk[w]) /\ wk[w].pc \in {"publish", "send"}
          BY <1>1, <1>10 DEF PlacePart, AdapterPublishes, AdapterSends
        <5>. QED BY <5>1, <2>1 DEF Place
      <4>3. c.type = "OAuthSave"
        BY <4>1, <4>2, <3>2 DEF Save
      <4>. QED BY <4>3, <3>2, <3>3, <3>4, <2>2, <2>4 DEF Honoured
    <3>9. \E x \in Commands : queue' = Append(queue, x) /\ (Save(x) => Honoured(x.token, x.key)')
      BY <2>7, <3>1, <3>8
    <3>. QED BY <3>5, <3>7, <3>9, <2>2, <2>3, <2>7, WorkerCovers
  <2>. QED BY <2>3, <2>6, <2>7
<1>. QED BY <1>5, <1>6, <1>7, <1>8, <1>9, <1>10 DEF Step

\* The command at the head of the queue is handled: what it spent is no longer
\* shown by it, what is behind it is.
LEMMA SucceededTaken ==
  ASSUME Shapes, queue # <<>>, queue' = Tail(queue), live' = live,
         \A k \in Keys : \A t : t \in lost[k] => t \in lost'[k],
         \A w \in Workers : wk'[w].out = wk[w].out,
         NEW k \in Keys, NEW t, NEW i \in Nat
  PROVE  /\ Succeeded(t, k, i + 1) => Succeeded(t, k, i)'
         /\ Succeeded(t, k, 0) => Succeeded(t, k, 0)' \/ Spends(queue[1], k, t)
<1>1. /\ Len(queue) \in Nat \ {0} /\ DOMAIN queue' = 1..(Len(queue) - 1)
      /\ DOMAIN queue = 1..Len(queue)
      /\ \A n \in DOMAIN queue' : queue'[n] = queue[n + 1]
  BY FirstTaken, QueueFacts
<1>2. \A w \in Workers : Rotating(w)' <=> Rotating(w)
  BY DEF Rotating
<1>3. ASSUME NEW j \in DOMAIN queue, j # 1 PROVE j - 1 \in DOMAIN queue' /\ queue'[j - 1] = queue[j]
  <2>1. j - 1 \in DOMAIN queue' /\ (j - 1) + 1 = j
    BY <1>1, <1>3
  <2>. QED BY <2>1, <1>1
<1>4. Honoured(t, k) => Succeeded(t, k, i)' /\ Succeeded(t, k, 0)'
  BY DEF Honoured, Succeeded
<1>5. (\E w \in Workers : Rotating(w) /\ Spends(wk[w].out[1], k, t)) =>
        Succeeded(t, k, i)' /\ Succeeded(t, k, 0)'
  BY <1>2 DEF Succeeded
<1>6. ASSUME NEW j \in DOMAIN queue, i + 1 < j, Spends(queue[j], k, t) PROVE Succeeded(t, k, i)'
  <2>1. j # 1 /\ i < j - 1
    BY <1>1, <1>6
  <2>2. j - 1 \in DOMAIN queue' /\ queue'[j - 1] = queue[j]
    BY <2>1, <1>3
  <2>. QED BY <1>6, <2>1, <2>2 DEF Succeeded
<1>7. ASSUME NEW j \in DOMAIN queue, j # 1, Spends(queue[j], k, t) PROVE Succeeded(t, k, 0)'
  <2>1. 0 < j - 1
    BY <1>1, <1>7
  <2>2. j - 1 \in DOMAIN queue' /\ queue'[j - 1] = queue[j]
    BY <1>7, <1>3
  <2>. QED BY <1>7, <2>1, <2>2 DEF Succeeded
<1>. QED BY <1>4, <1>5, <1>6, <1>7 DEF Succeeded

\* The loss of a token is put down.
LEMMA LoseFacts ==
  ASSUME Shapes, NEW c \in Commands, NEW t, Lose(c, t)
  PROVE  /\ \A k \in Keys : \A x : x \in lost[k] => x \in lost'[k]
         /\ c.token # t => t \in lost'[c.key]
<1>1. c.key \in Keys
  BY CommandFields
<1>. QED BY <1>1 DEF Lose, Shapes

\* A loaded grant of a provider is honoured: no other refresh of it is under way.
LEMMA LoadedIsHonoured ==
  ASSUME LockInv, StorePart, CoverPart, NEW c \in Commands, 1 \in DOMAIN queue, c = queue[1],
         c.type = "Load", OfItsKind(c), c.w \in Workers, Asked(c, wk[c.w]), store[c.key].cred # None
  PROVE  Honoured(store[c.key].cred, c.key)
<1>1. PICK k \in Keys : k = c.key /\ k \in ProviderKeys
  BY CommandFields DEF OfItsKind
<1>2. PICK w \in Workers : w = c.w /\ wk[w].pc = "loading" /\ wk[w].key = k
  BY <1>1 DEF Asked
<1>3. store[k].cred = store[k].blob
  BY <1>1 DEF StorePart
<1>4. Holder(w)
  BY <1>2, BusyHolds
<1>5. ASSUME NEW j \in DOMAIN queue, Save(queue[j]), queue[j].key = k PROVE FALSE
  <2>1. queue[j].type = "Save" /\ Asks(queue[j]) /\ Asked(queue[j], wk[queue[j].w])
    <3>1. OfItsKind(queue[j])
      BY DEF LockInv, AnswerPart
    <3>2. queue[j].type = "Save"
      BY <3>1, <1>1, <1>5, Bounds DEF OfItsKind, Save
    <3>. QED BY <3>2 DEF LockInv, AnswerPart, Asks
  <2>2. PICK v \in Workers : v = queue[j].w
    BY <2>1, QueueFacts, CommandFields DEF LockInv
  <2>3. wk[v].pc = "saving" /\ wk[v].key = k
    BY <2>1, <2>2, <1>5 DEF Asked
  <2>4. v = w
    BY <2>3, <1>2, <1>4, BusyHolds, AloneAtKey
  <2>. QED BY <2>3, <2>4, <1>2
<1>6. ASSUME NEW v \in Workers, NEW t, Rotating(v), Spends(wk[v].out[1], k, t) PROVE FALSE
  <2>1. wk[v].out[1].key = k /\ wk[v].key \in McpKeys /\ wk[v].out[1].key = wk[v].key
    BY <1>6, BusyHolds DEF Spends
  <2>. QED BY <2>1, <1>1, Bounds
<1>7. Succeeded(store[k].blob, k, 0)
  BY <1>1, <1>3 DEF CoverPart
<1>8. Honoured(store[k].blob, k)
  BY <1>5, <1>6, <1>7 DEF Succeeded, Spends
<1>. QED BY <1>1, <1>3, <1>8

\* The command loop keeps the part.
LEMMA HandleCovers ==
  ASSUME LockInv, LockInv', StorePart, CoverPart, Handle
  PROVE  CoverPart'
<1>1. Shapes /\ PlacePart /\ queue # <<>> /\ queue' = Tail(queue) /\ live' = live
  BY DEF LockInv, Handle, HandleLoad, HandleSave, HandleMarkDead, HandleOAuthSave, HandleOAuthClear,
     HandleAuthRejected, server
<1>2. PICK c \in Commands :
           /\ c = queue[1] /\ 1 \in DOMAIN queue /\ c.key \in Keys /\ OfItsKind(c)
           /\ Asks(c) => c.w \in Workers /\ Asked(c, wk[c.w])
           /\ \/ HandleLoad(c) \/ HandleSave(c) \/ HandleMarkDead(c)
              \/ HandleOAuthSave(c) \/ HandleOAuthClear(c) \/ HandleAuthRejected(c)
  BY HeadFacts
<1>3. \A k \in Keys : \A t : t \in lost[k] => t \in lost'[k]
  <2>1. CASE HandleSave(c)
    BY <2>1, <1>1, SaveStore, LoseFacts
  <2>2. CASE HandleOAuthSave(c)
    BY <2>2, <1>1, OAuthSaveStore, LoseFacts
  <2>3. CASE HandleLoad(c) \/ HandleMarkDead(c) \/ HandleOAuthClear(c) \/ HandleAuthRejected(c)
    BY <2>3 DEF HandleLoad, HandleMarkDead, HandleOAuthClear, HandleAuthRejected, server
  <2>. QED BY <2>1, <2>2, <2>3, <1>2
<1>4. /\ \A w \in Workers : wk'[w].out = wk[w].out /\ wk'[w].key = wk[w].key
      /\ \A w \in Workers : wk'[w].pc = "exchange" =>
           \/ wk'[w] = wk[w]
           \/ /\ c.type = "Load" /\ w = c.w /\ c.key = wk[w].key /\ wk'[w].token = store[c.key].cred
              /\ wk'[w].token # None
  <2>1. CASE HandleLoad(c) \/ HandleSave(c)
    <3>1. Asks(c)
      BY <2>1, <1>1, AnswerGiven
    <3>2. PICK w \in Workers : w = c.w /\ c.key = wk[w].key
      BY <3>1, <1>2 DEF Asked
    <3>3. PICK u \in WorkerState :
              /\ wk' = [wk EXCEPT ![w] = u] /\ u.key = wk[w].key /\ u.out = wk[w].out
              /\ \/ u.pc = "release"
                 \/ u.pc = "exchange" /\ c.type = "Load" /\ u.token = store[c.key].cred /\ u.token # None
      BY <2>1, <3>2, <1>1, AnswerGiven
    <3>4. wk'[w] = u /\ \A v \in Workers \ {w} : wk'[v] = wk[v]
      BY <3>3, <1>1 DEF Shapes
    <3>. QED BY <3>2, <3>3, <3>4
  <2>2. CASE ~(HandleLoad(c) \/ HandleSave(c))
    BY <2>2, <1>2 DEF HandleMarkDead, HandleOAuthSave, HandleOAuthClear, HandleAuthRejected
  <2>. QED BY <2>1, <2>2
<1>5. \A t : \A k \in Keys, i \in Nat :
        /\ Succeeded(t, k, i + 1) => Succeeded(t, k, i)'
        /\ Succeeded(t, k, 0) => Succeeded(t, k, 0)' \/ Spends(c, k, t)
  BY <1>1, <1>2, <1>3, <1>4, SucceededTaken
<1>6. \A k \in Keys : \A t : Honoured(t, k) => Honoured(t, k)'
  BY <1>1, <1>3 DEF Honoured
<1>7. Save(c) => Succeeded(c.token, c.key, 0)'
  <2>1. Save(c) => Succeeded(c.token, c.key, 0 + 1)
    BY <1>2 DEF CoverPart
  <2>. QED BY <2>1, <1>2, <1>5
<1>8. ASSUME NEW k \in Keys, NEW b, b = store'[k].blob, b # None PROVE Succeeded(b, k, 0)'
  <2>1. CASE store'[k].blob = store[k].blob /\ ~Spends(c, k, b)
    BY <2>1, <1>5, <1>8 DEF CoverPart
  <2>2. CASE store'[k].blob = store[k].blob /\ Spends(c, k, b)
    <3>1. Save(c) /\ k = c.key /\ Spend(c) = b /\ c.token # b
      BY <2>2 DEF Spends
    <3>2. CASE HandleSave(c)
      <4>1. Spend(c) = c.expected
        BY <3>2 DEF HandleSave, Spend
      <4>2. CASE Lose(c, c.expected)
        <5>1. b \in lost'[k]
          BY <4>1, <4>2, <3>1, <1>1, LoseFacts
        <5>. QED BY <5>1 DEF Succeeded, Honoured
      <4>3. CASE ~locked /\ store[c.key].cred # c.expected
        <5>1. store[k].cred = store[k].blob
          BY <4>3 DEF StorePart
        <5>. QED BY <5>1, <4>1, <4>3, <3>1, <2>2, <1>8
      <4>4. CASE store'[c.key].blob = c.token
        BY <4>4, <3>1, <1>8
      <4>. QED BY <4>2, <4>3, <4>4, <3>2, <1>1, SaveStore
    <3>3. CASE HandleOAuthSave(c)
      <4>1. Spend(c) = c.spent
        BY <3>3 DEF HandleOAuthSave, Spend
      <4>2. CASE Lose(c, c.spent)
        <5>1. b \in lost'[k]
          BY <4>1, <4>2, <3>1, <1>1, LoseFacts
        <5>. QED BY <5>1 DEF Succeeded, Honoured
      <4>3. CASE store'[c.key].blob = c.token
        BY <4>3, <3>1, <1>8
      <4>. QED BY <4>2, <4>3, <3>3, <1>1, OAuthSaveStore
    <3>. QED BY <3>1, <3>2, <3>3, <1>2
         DEF Save, HandleLoad, HandleMarkDead, HandleOAuthClear, HandleAuthRejected
  <2>3. CASE Save(c) /\ k = c.key /\ b = c.token
    BY <2>3, <1>7
  <2>4. store'[k].blob = store[k].blob \/ (Save(c) /\ k = c.key /\ b = c.token)
    <3>1. CASE HandleLoad(c)
      BY <3>1 DEF HandleLoad
    <3>2. CASE HandleSave(c)
      <4>1. Save(c)
        BY <3>2 DEF HandleSave, Save
      <4>. QED BY <3>2, <4>1, <1>1, <1>8, SaveStore
    <3>3. CASE HandleOAuthSave(c)
      <4>1. Save(c)
        BY <3>3 DEF HandleOAuthSave, Save
      <4>. QED BY <3>3, <4>1, <1>1, <1>8, OAuthSaveStore
    <3>4. CASE HandleMarkDead(c) \/ HandleAuthRejected(c)
      BY <3>4, <1>1, DeadStore
    <3>5. CASE HandleOAuthClear(c)
      BY <3>5, <1>1, <1>8, ClearStore
    <3>. QED BY <3>1, <3>2, <3>3, <3>4, <3>5, <1>2
  <2>. QED BY <2>1, <2>2, <2>3, <2>4
<1>9. \A k \in Keys : store'[k].blob = None \/ Succeeded(store[k].blob, k, 0)'
  BY <1>8
<1>10. \A i \in DOMAIN queue' : Save(queue'[i]) => Succeeded(queue[i].token, queue[i].key, i)'
  <2>1. SUFFICES ASSUME NEW i \in DOMAIN queue', Save(queue'[i])
                 PROVE  Succeeded(queue[i].token, queue[i].key, i)'
    OBVIOUS
  <2>2. i \in Nat /\ i + 1 \in DOMAIN queue /\ queue'[i] = queue[i + 1]
    BY <1>1, FirstTaken
  <2>3. PICK d \in Commands : d = queue[i + 1] /\ d.key \in Keys
    BY <2>2, <1>1, QueueFacts, CommandFields
  <2>4. Succeeded(d.token, d.key, i + 1)
    BY <2>1, <2>2, <2>3 DEF CoverPart
  <2>5. Succeeded(d.token, d.key, i)'
    BY <2>2, <2>3, <2>4, <1>5
  <2>. QED BY <2>2, <2>3, <2>5
<1>11. \A w \in Workers : wk[w].key \in Keys
  BY <1>1 DEF Shapes, WorkerState
<1>12. \A w \in Workers : Rotating(w)' => Honoured(wk[w].out[1].token, wk[w].key)'
  BY <1>4, <1>6, <1>11 DEF CoverPart, Rotating
<1>13. \A w \in Workers : wk'[w].pc = "exchange" /\ wk'[w].key \in ProviderKeys =>
         Honoured(wk[w].token, wk[w].key)'
  <2>1. SUFFICES ASSUME NEW w \in Workers, wk'[w].pc = "exchange", wk'[w].key \in ProviderKeys
                 PROVE  Honoured(wk[w].token, wk[w].key)'
    OBVIOUS
  <2>2. CASE wk'[w] = wk[w]
    BY <2>1, <2>2, <1>6, <1>11 DEF CoverPart
  <2>3. CASE /\ c.type = "Load" /\ w = c.w /\ c.key = wk[w].key /\ wk'[w].token = store[c.key].cred
             /\ wk'[w].token # None
    <3>1. Honoured(store[c.key].cred, c.key)
      BY <2>3, <1>2, LoadedIsHonoured DEF Asks
    <3>2. PICK t : t = store[c.key].cred
      OBVIOUS
    <3>3. Honoured(t, c.key)'
      BY <3>1, <3>2, <1>2, <1>6
    <3>. QED BY <3>2, <3>3, <2>3, <1>4
  <2>. QED BY <2>1, <2>2, <2>3, <1>4, SMTT(30)
<1>. QED BY <1>9, <1>10, <1>12, <1>13, SMTT(30) DEF CoverPart

\* So do the clients' commands and a crash: what only the process knew of is lost.
LEMMA ClientCovers ==
  ASSUME LockInv, LockInv', CoverPart,
         \/ \E k \in Keys : SaveCredential(k) \/ RemoveCredential(k) \/ Revoke(k)
         \/ Lock \/ Unlock \/ UNCHANGED vars
  PROVE  CoverPart'
<1>1. Shapes /\ queue' \in Seq(Commands)
  BY DEF LockInv, Shapes
<1>2. wk' = wk
  BY DEF SaveCredential, RemoveCredential, Revoke, Lock, Unlock, vars
<1>3. /\ \A k \in Keys : \A t : t \in lost[k] => t \in lost'[k]
      /\ \A k \in Keys : \A t : t \in live[k] => t \in live'[k] \/ t \in lost'[k]
  <2>1. ASSUME NEW k \in Keys, SaveCredential(k)
        PROVE  lost' = lost /\ \A j \in Keys : live[j] \subseteq live'[j]
    BY <2>1, <1>1 DEF SaveCredential, Shapes
  <2>2. ASSUME NEW k \in Keys, Revoke(k)
        PROVE  /\ \A j \in Keys : \A t : t \in lost[j] => t \in lost'[j]
               /\ \A j \in Keys : \A t : t \in live[j] => t \in live'[j] \/ t \in lost'[j]
    BY <2>2, <1>1 DEF Revoke, Shapes
  <2>3. CASE (\E k \in Keys : RemoveCredential(k)) \/ Lock \/ Unlock \/ UNCHANGED vars
    <3>1. live' = live /\ lost' = lost
      BY <2>3 DEF RemoveCredential, Lock, Unlock, vars, server
    <3>. QED BY <3>1
  <2>. QED BY <2>1, <2>2, <2>3
<1>4. /\ Len(queue) \in Nat /\ DOMAIN queue = 1..Len(queue) /\ DOMAIN queue' = DOMAIN queue
      /\ \A i \in DOMAIN queue : queue'[i].type = queue[i].type /\ queue'[i].key = queue[i].key
      /\ \A i \in DOMAIN queue : Save(queue[i]) =>
           queue'[i].token = queue[i].token /\ Spend(queue'[i]) = Spend(queue[i])
  <2>1. Len(queue) \in Nat /\ DOMAIN queue = 1..Len(queue)
    BY <1>1, QueueFacts
  <2>2. CASE Unlock
    BY <2>1, <2>2, <1>1, Unmarked DEF Save, Spend
  <2>3. CASE ~Unlock
    <3>1. queue' = queue
      BY <2>3 DEF SaveCredential, RemoveCredential, Revoke, Lock, vars, daemon
    <3>. QED BY <2>1, <3>1
  <2>. QED BY <2>2, <2>3
<1>5. /\ \A i \in DOMAIN queue : Save(queue'[i]) <=> Save(queue[i])
      /\ \A i \in DOMAIN queue, k \in Keys : \A t : Spends(queue[i], k, t) => Spends(queue'[i], k, t)
  BY <1>4 DEF Save, Spends
<1>6. \A w \in Workers : Rotating(w)' <=> Rotating(w)
  BY <1>2 DEF Rotating
<1>7. ASSUME NEW k \in Keys, NEW t, NEW i \in 0..Len(queue), Succeeded(t, k, i)
      PROVE  Succeeded(t, k, i)'
  <2>1. \A j \in DOMAIN queue :
          j \in DOMAIN queue' /\ \A n \in Keys : \A x : Spends(queue[j], n, x) => Spends(queue'[j], n, x)
    BY <1>4, <1>5
  <2>2. \A w \in Workers, n \in Keys : \A x : Rotating(w) /\ Spends(wk[w].out[1], n, x) =>
          Rotating(w)' /\ Spends(wk'[w].out[1], n, x)
    BY <1>2, <1>6
  <2>. QED BY <2>1, <2>2, <1>1, <1>3, <1>7, SucceededKept
<1>8. \A k \in Keys : \A t : Honoured(t, k) => Honoured(t, k)'
  BY <1>3 DEF Honoured
<1>9. ASSUME NEW k \in Keys
      PROVE  \/ store'[k].blob = store[k].blob \/ store'[k].blob = None
             \/ store'[k].blob \in live'[k]
  <2>1. ASSUME NEW j \in Keys, SaveCredential(j)
        PROVE  store'[k].blob = store[k].blob \/ store'[k].blob \in live'[k]
    <3>1. PICK t \in Tokens :
            /\ live' = [live EXCEPT ![j] = @ \cup {t}] /\ store'[j].blob = t
            /\ \A n \in Keys \ {j} : store'[n] = store[n]
      BY <2>1, <1>1, SignInStore
    <3>2. t \in live'[j]
      BY <3>1, <1>1 DEF Shapes
    <3>. QED BY <3>1, <3>2
  <2>2. ASSUME NEW j \in Keys, RemoveCredential(j)
        PROVE  store'[k].blob = store[k].blob \/ store'[k].blob = None
    BY <2>2, <1>1, RemovedStore DEF RemoveCredential
  <2>3. ASSUME NEW j \in Keys, Revoke(j) PROVE store' = store
    BY <2>3 DEF Revoke, daemon
  <2>4. CASE Lock
    <3>1. PICK b : b = store[k].blob
      OBVIOUS
    <3>2. store'[k] = [cred |-> None, blob |-> b, access |-> 0, dead |-> FALSE,
                       view |-> None, ahead |-> FALSE]
      BY <2>4, <3>1, <1>1, LockedRecords
    <3>. QED BY <3>1, <3>2
  <2>5. CASE Unlock
    <3>1. PICK r \in Record : r = store[k]
      BY <1>1 DEF Shapes
    <3>2. PICK v : v = IF k \in McpKeys /\ ~r.dead THEN r.blob ELSE None
      OBVIOUS
    <3>3. store'[k] = [cred |-> r.blob, blob |-> r.blob, access |-> r.access, dead |-> r.dead,
                       view |-> v, ahead |-> FALSE]
      BY <1>1, <2>5, <3>1, <3>2, UnlockedRecords
    <3>. QED BY <3>1, <3>3
  <2>6. CASE UNCHANGED vars
    BY <2>6 DEF vars, daemon
  <2>. QED BY <2>1, <2>2, <2>3, <2>4, <2>5, <2>6
<1>10. \A k \in Keys : store'[k].blob = None \/ Succeeded(store[k].blob, k, 0)'
  <2>1. SUFFICES ASSUME NEW k \in Keys, NEW b, b = store'[k].blob, b # None PROVE Succeeded(b, k, 0)'
    OBVIOUS
  <2>2. CASE b = store[k].blob
    BY <2>1, <2>2, <1>4, <1>7 DEF CoverPart
  <2>3. CASE b \in live'[k]
    BY <2>3 DEF Succeeded, Honoured
  <2>. QED BY <2>1, <2>2, <2>3, <1>9
<1>11. \A i \in DOMAIN queue' : Save(queue'[i]) => Succeeded(queue[i].token, queue[i].key, i)'
  <2>1. SUFFICES ASSUME NEW i \in DOMAIN queue', Save(queue'[i])
                 PROVE  Succeeded(queue[i].token, queue[i].key, i)'
    OBVIOUS
  <2>2. PICK d \in Commands : d = queue[i] /\ d.key \in Keys /\ i \in 0..Len(queue)
    BY <1>1, <1>4, QueueFacts, CommandFields
  <2>3. Save(d) /\ queue'[i].token = d.token /\ queue'[i].key = d.key
    BY <2>1, <2>2, <1>4, <1>5
  <2>4. Succeeded(d.token, d.key, i)
    BY <2>2, <2>3, <1>4 DEF CoverPart
  <2>5. Succeeded(d.token, d.key, i)'
    BY <2>2, <2>4, <1>7
  <2>. QED BY <2>3, <2>5
<1>12. \A w \in Workers : wk[w].key \in Keys
  BY <1>1 DEF Shapes, WorkerState
<1>13. \A w \in Workers : Rotating(w)' => Honoured(wk[w].out[1].token, wk[w].key)'
  BY <1>2, <1>6, <1>8, <1>12 DEF CoverPart
<1>14. \A w \in Workers : wk'[w].pc = "exchange" /\ wk'[w].key \in ProviderKeys =>
         Honoured(wk[w].token, wk[w].key)'
  BY <1>2, <1>8, <1>12 DEF CoverPart
<1>. QED BY <1>10, <1>11, <1>13, <1>14 DEF CoverPart

LEMMA CrashCovers ==
  ASSUME LockInv, CoverPart, Crash
  PROVE  CoverPart'
<1>1. Shapes /\ AnswerPart
  BY DEF LockInv
<1>2. /\ queue' = <<>> /\ live' = live /\ lost' = [k \in Keys |-> lost[k] \cup Unsaved(k)]
      /\ \A w \in Workers : wk[w].key \in Keys /\ wk'[w] = Idle(wk[w].key)
  BY <1>1 DEF Crash, Shapes, WorkerState
<1>3. \A w \in Workers : wk'[w].out = <<>> /\ wk'[w].pc = "idle"
  BY <1>2, IdleFacts
<1>4. ASSUME NEW k \in Keys, NEW t, Succeeded(t, k, 0) PROVE t \in live'[k] \/ t \in lost'[k]
  <2>1. CASE Honoured(t, k)
    BY <2>1, <1>2 DEF Honoured
  <2>2. ASSUME NEW j \in DOMAIN queue, Spends(queue[j], k, t) PROVE t \in Unsaved(k)
    <3>1. PICK c \in Commands : c = queue[j] /\ Save(c) /\ c.key = k /\ Spend(c) = t
      BY <2>2, <1>1, QueueFacts DEF Spends
    <3>2. CASE c.type = "Save"
      <4>1. c.w \in Workers /\ Asked(c, wk[c.w])
        BY <3>1, <3>2, <1>1, CommandFields DEF AnswerPart, Asks
      <4>2. t = wk[c.w].token /\ wk[c.w].pc = "saving" /\ wk[c.w].key = k
        BY <3>1, <3>2, <4>1 DEF Asked, Spend
      <4>. QED BY <4>1, <4>2 DEF Unsaved
    <3>3. CASE c.type = "OAuthSave"
      <4>1. t = c.spent
        BY <3>1, <3>3 DEF Spend
      <4>. QED BY <2>2, <3>1, <3>3, <4>1 DEF Unsaved
    <3>. QED BY <3>1, <3>2, <3>3 DEF Save
  <2>3. ASSUME NEW w \in Workers, Rotating(w), Spends(wk[w].out[1], k, t) PROVE t \in Unsaved(k)
    <3>1. PICK c : c = wk[w].out[1]
      OBVIOUS
    <3>2. c.type = "OAuthSave" /\ c.key = k /\ c.spent = t
      BY <2>3, <3>1 DEF Rotating, Spends, Spend
    <3>3. 1 \in DOMAIN wk[w].out
      <4>1. wk[w].out \in Outs /\ wk[w].out # <<>>
        BY <2>3, <1>1 DEF Rotating, Shapes, WorkerState
      <4>2. PICK d : wk[w].out = <<d>>
        BY <4>1 DEF Outs
      <4>3. 1 \in DOMAIN <<d>>
        OBVIOUS
      <4>. QED BY <4>2, <4>3
    <3>4. c \in {wk[w].out[i] : i \in DOMAIN wk[w].out}
      BY <3>1, <3>3
    <3>5. c \in UNION {{wk[v].out[i] : i \in DOMAIN wk[v].out} : v \in Workers}
      BY <3>4
    <3>. QED BY <3>2, <3>5 DEF Unsaved
  <2>. QED BY <2>1, <2>2, <2>3, <1>2, <1>4 DEF Succeeded
<1>5. \A k \in Keys : store'[k].blob = None \/ Succeeded(store[k].blob, k, 0)'
  <2>1. SUFFICES ASSUME NEW k \in Keys, NEW b, b = store[k].blob
                 PROVE  store'[k].blob = None \/ Succeeded(store[k].blob, k, 0)'
    OBVIOUS
  <2>2. store'[k].blob = b
    <3>1. store'[k] = [cred |-> None, blob |-> b, access |-> 0, dead |-> FALSE,
                       view |-> None, ahead |-> FALSE]
      BY <2>1, <1>1, LockedRecords
    <3>. QED BY <3>1
  <2>3. b = None \/ b \in live'[k] \/ b \in lost'[k]
    BY <2>1, <1>4 DEF CoverPart
  <2>. QED BY <2>2, <2>3 DEF Succeeded, Honoured
<1>6. DOMAIN queue' = {}
  BY <1>2, EmptySeq
<1>7. \A w \in Workers : ~Rotating(w)'
  BY <1>3 DEF Rotating
<1>. QED BY <1>3, <1>5, <1>6, <1>7 DEF CoverPart

LEMMA NextCovers ==
  ASSUME LockInv, LockInv', StorePart, MintPart, CoverPart, [Next]_vars
  PROVE  CoverPart'
<1>1. \A k \in Served : k \in Keys
  BY DEF Served, LockInv, Shapes, WorkerState
<1>. QED BY <1>1, StepCovers, HandleCovers, ClientCovers, CrashCovers DEF Next

LEMMA InitCovers ==
  ASSUME Init
  PROVE  CoverPart
<1>1. PICK f \in Serves : wk = [w \in Workers |-> Idle(f[w])]
  BY DEF Init
<1>2. \A w \in Workers : wk[w].out = <<>> /\ wk[w].pc = "idle"
  <2>1. \A w \in Workers : f[w] \in Keys
    BY ServesAssumption
  <2>. QED BY <1>1, <2>1, IdleFacts
<1>3. \A k \in Keys : store[k].blob = First /\ First \in live[k]
  BY DEF Init
<1>4. DOMAIN queue = {}
  BY EmptySeq DEF Init
<1>. QED BY <1>2, <1>3, <1>4 DEF CoverPart, Succeeded, Honoured, Rotating

\* The locks and the grants, of every behaviour.
THEOREM GrantsInvariant == Spec => [](LockInv /\ StorePart /\ MintPart /\ CoverPart)
<1>1. Init => LockInv /\ StorePart /\ MintPart /\ CoverPart
  BY InitLocks, InitGrants, InitCovers
<1>2. LockInv /\ StorePart /\ MintPart /\ CoverPart /\ [Next]_vars =>
        (LockInv /\ StorePart /\ MintPart /\ CoverPart)'
  BY StepLocks, StepStore, StepMints, NextCovers
<1>. QED BY <1>1, <1>2, PTL DEF Spec

\* Memory, disk, the access-token cache and the server agree on one grant: the
\* one at rest is honoured, unless a named fault took its successor or the save
\* that has the successor is on its way.
THEOREM GrantAtRestIsLive == Spec => []OneLiveGrant
<1>1. LockInv /\ StorePart /\ CoverPart => OneLiveGrant
  <2>1. SUFFICES ASSUME LockInv, StorePart, CoverPart PROVE OneLiveGrant
    OBVIOUS
  <2>2. ASSUME NEW k \in Keys, store[k].blob # None, ~Saving(k)
        PROVE  store[k].blob \in live[k] \cup lost[k]
    <3>1. Succeeded(store[k].blob, k, 0)
      BY <2>1, <2>2 DEF CoverPart
    <3>2. ASSUME NEW j \in DOMAIN queue, NEW t, Spends(queue[j], k, t) PROVE Saving(k)
      BY <3>2 DEF Saving, Saves, Spends, Save
    <3>3. ASSUME NEW w \in Workers, NEW t, Rotating(w), Spends(wk[w].out[1], k, t) PROVE Saving(k)
      <4>1. wk[w].key = k
        BY <2>1, <3>3, BusyHolds DEF Spends
      <4>2. wk[w].pc \in {"publish", "send"}
        BY <2>1, <3>3 DEF LockInv, PlacePart, Place, Rotating
      <4>. QED BY <3>3, <4>1, <4>2 DEF Saving, Publishing, Rotating
    <3>. QED BY <2>2, <3>1, <3>2, <3>3 DEF Succeeded, Honoured
  <2>3. \A k \in Keys : LET r == store[k] IN
          /\ IF locked THEN r.cred = None /\ r.access = 0 ELSE r.cred = r.blob
          /\ r.access # 0 => r.access = r.cred.g /\ ~r.dead
    BY <2>1 DEF StorePart
  <2>. QED BY <2>2, <2>3 DEF OneLiveGrant
<1>. QED BY <1>1, GrantsInvariant, PTL

\* A provider refresh presents each token once: the load is under the lock, and
\* the loser of a race for it sees the winner's rotation (refresh_single_flight).
THEOREM TokensArePresentedOnce == Spec => []ProviderPresentsLive
<1>1. CoverPart => ProviderPresentsLive
  BY DEF CoverPart, ProviderPresentsLive, Honoured
<1>. QED BY <1>1, GrantsInvariant, PTL

-----------------------------------------------------------------------------
(* Fourth part: the read view.                                               *)

\* What a locked daemon shows has its save on its way, a quarantined grant is
\* shown only as a save's, and the view of a quiet key is the durable grant.
Screened(k) ==
  /\ locked /\ store[k].view # None => Saving(k)
  /\ k \in McpKeys /\ store[k].dead /\ ~store[k].ahead /\ ~Saving(k) => store[k].view = None
  /\ k \in McpKeys /\ ~store[k].ahead /\ Quiet(k) =>
       store[k].view = IF store[k].dead THEN None ELSE store[k].cred

\* The save c at place i is still shown, or something newer of its key is on its
\* way, or it will not be taken.
Shows(c, i) ==
  \/ locked \/ store[c.key].cred # c.expected \/ store[c.key].view \in {c.token, None}
  \/ \E w \in Workers : wk[w].pc = "send" /\ wk[w].key = c.key
  \/ \E j \in DOMAIN queue : i < j /\ queue[j].key = c.key
Alone(c) == c.type = "OAuthSave" /\ c.alone
ViewPart ==
  /\ \A k \in Keys : Screened(k)
  /\ \A i \in DOMAIN queue : Alone(queue[i]) =>
       /\ \A j \in DOMAIN queue : j < i /\ queue[j].key = queue[i].key => ~Save(queue[j])
       /\ Shows(queue[i], i)

\* The view that publish_mcp_oauth_key makes.
LEMMA FreshIsScreened ==
  ASSUME StorePart', NEW k \in Keys,
         store'[k].view = IF k \in McpKeys /\ ~store'[k].dead THEN store'[k].cred ELSE None
  PROVE  Screened(k)'
<1>1. locked' => store'[k].cred = None
  BY DEF StorePart
<1>. QED BY <1>1 DEF Screened

\* A provider's key has no view.
LEMMA ProviderIsScreened ==
  ASSUME StorePart', NEW k \in ProviderKeys
  PROVE  Screened(k)'
<1>1. k \in Keys /\ k \notin McpKeys
  BY Bounds
<1>2. store'[k].view = None
  BY <1>1 DEF StorePart
<1>. QED BY <1>1, <1>2 DEF Screened

\* A worker's step hides nothing of what is on its way.
LEMMA TracesKept ==
  ASSUME Shapes, NEW w \in Workers, NEW u \in WorkerState, wk' = [wk EXCEPT ![w] = u],
         u.key = wk[w].key, queue' = queue \/ \E c \in Commands : queue' = Append(queue, c),
         wk[w].pc \in {"publish", "send"} =>
           \/ u.pc \in {"publish", "send"} /\ u.out = wk[w].out
           \/ \E c \in Commands : /\ queue' = Append(queue, c) /\ c.key = wk[w].key
                                  /\ wk[w].out[1].type = "OAuthSave" => Save(c),
         NEW k \in Keys
  PROVE  (Saving(k) => Saving(k)') /\ (Quiet(k)' => Quiet(k))
<1>1. wk'[w] = u /\ \A v \in Workers \ {w} : wk'[v] = wk[v]
  BY DEF Shapes
<1>2. \A j \in DOMAIN queue : j \in DOMAIN queue' /\ queue'[j] = queue[j]
  <2>1. ASSUME NEW c \in Commands, queue' = Append(queue, c)
        PROVE  \A j \in DOMAIN queue : j \in DOMAIN queue' /\ queue'[j] = queue[j]
    <3>1. /\ DOMAIN queue' = 1..(Len(queue) + 1) /\ \A i \in DOMAIN queue : queue'[i] = queue[i]
          /\ Len(queue) \in Nat /\ DOMAIN queue = 1..Len(queue)
      BY <2>1, Appended, QueueFacts, Zenon
    <3>. QED BY <3>1
  <2>. QED BY <2>1
<1>3. ASSUME wk[w].pc \in {"publish", "send"}, ~(u.pc \in {"publish", "send"} /\ u.out = wk[w].out)
      PROVE  \E j \in DOMAIN queue' : /\ queue'[j].key = wk[w].key
                                      /\ wk[w].out[1].type = "OAuthSave" => Save(queue'[j])
  <2>1. PICK c \in Commands : /\ queue' = Append(queue, c) /\ c.key = wk[w].key
                              /\ wk[w].out[1].type = "OAuthSave" => Save(c)
    BY <1>3
  <2>2. /\ DOMAIN queue' = 1..(Len(queue) + 1) /\ queue'[Len(queue) + 1] = c /\ Len(queue) \in Nat
    BY <2>1, Appended, QueueFacts, Zenon
  <2>3. Len(queue) + 1 \in DOMAIN queue'
    BY <2>2
  <2>. QED BY <2>1, <2>2, <2>3
<1>4. Saving(k) => Saving(k)'
  <2>1. ASSUME NEW j \in Saves(k) PROVE Saving(k)'
    <3>1. j \in Saves(k)'
      BY <2>1, <1>2 DEF Saves
    <3>. QED BY <3>1 DEF Saving
  <2>2. ASSUME NEW v \in Publishing(k), wk[v].out[1].type = "OAuthSave" PROVE Saving(k)'
    <3>1. CASE v = w /\ ~(u.pc \in {"publish", "send"} /\ u.out = wk[w].out)
      <4>1. PICK j \in DOMAIN queue' : queue'[j].key = k /\ Save(queue'[j])
        BY <2>2, <3>1, <1>3 DEF Publishing
      <4>2. j \in Saves(k)'
        BY <4>1 DEF Saves, Save
      <4>. QED BY <4>2 DEF Saving
    <3>2. CASE ~(v = w /\ ~(u.pc \in {"publish", "send"} /\ u.out = wk[w].out))
      <4>1. v \in Publishing(k)' /\ wk'[v].out = wk[v].out
        BY <2>2, <3>2, <1>1 DEF Publishing
      <4>. QED BY <2>2, <4>1 DEF Saving
    <3>. QED BY <3>1, <3>2
  <2>. QED BY <2>1, <2>2 DEF Saving
<1>5. Quiet(k)' => Quiet(k)
  <2>1. SUFFICES ASSUME Quiet(k)' PROVE Quiet(k)
    OBVIOUS
  <2>2. /\ \A j \in DOMAIN queue' : queue'[j].key # k
        /\ \A v \in Workers : wk'[v].key = k => wk'[v].pc \notin {"publish", "send"}
    BY <2>1 DEF Quiet, Publishing
  <2>3. \A j \in DOMAIN queue : queue[j].key # k
    BY <2>2, <1>2
  <2>4. ASSUME NEW v \in Publishing(k) PROVE FALSE
    <3>1. v \in Workers /\ wk[v].key = k /\ wk[v].pc \in {"publish", "send"}
      BY DEF Publishing
    <3>2. v = w
      BY <3>1, <2>2, <1>1
    <3>. QED BY <3>1, <3>2, <2>2, <1>1, <1>3
  <2>. QED BY <2>3, <2>4 DEF Quiet
<1>. QED BY <1>4, <1>5

\* Nor does it take a save that is alone out of the view.
LEMMA AloneKept ==
  ASSUME Shapes, ViewPart, NEW w \in Workers, NEW u \in WorkerState, wk' = [wk EXCEPT ![w] = u],
         u.key = wk[w].key, locked' = locked,
         \A k \in Keys : store'[k] = store[k] \/ (k = wk[w].key /\ u.pc = "send"),
         \/ queue' = queue
         \/ \E c \in Commands :
              /\ queue' = Append(queue, c)
              /\ Alone(c) => Saves(c.key) = {} /\ store'[c.key].view = c.token,
         wk[w].pc = "send" =>
           u.pc = "send" \/ \E c \in Commands : queue' = Append(queue, c) /\ c.key = wk[w].key,
         NEW i \in DOMAIN queue', Alone(queue'[i])
  PROVE  /\ \A j \in DOMAIN queue' : j < i /\ queue'[j].key = queue'[i].key => ~Save(queue'[j])
         /\ Shows(queue[i], i)'
<1>1. wk'[w] = u /\ \A v \in Workers \ {w} : wk'[v] = wk[v]
  BY DEF Shapes
<1>2. /\ Len(queue) \in Nat /\ DOMAIN queue = 1..Len(queue)
      /\ \A j \in DOMAIN queue : queue[j] \in Commands /\ queue[j].key \in Keys
  BY QueueFacts, CommandFields
<1>3. /\ \A j \in DOMAIN queue : j \in DOMAIN queue' /\ queue'[j] = queue[j]
      /\ \A j \in DOMAIN queue' : j \in DOMAIN queue \/ j = Len(queue) + 1
  <2>1. ASSUME NEW c \in Commands, queue' = Append(queue, c)
        PROVE  /\ \A j \in DOMAIN queue : j \in DOMAIN queue' /\ queue'[j] = queue[j]
               /\ \A j \in DOMAIN queue' : j \in DOMAIN queue \/ j = Len(queue) + 1
    <3>1. DOMAIN queue' = 1..(Len(queue) + 1) /\ \A j \in DOMAIN queue : queue'[j] = queue[j]
      BY <2>1, Appended
    <3>. QED BY <3>1, <1>2
  <2>. QED BY <2>1
<1>4. CASE i \in DOMAIN queue
  <2>1. PICK c \in Commands : c = queue[i] /\ c = queue'[i] /\ c.key \in Keys /\ Alone(c)
    BY <1>2, <1>3, <1>4
  <2>2. \A j \in DOMAIN queue' : j < i /\ queue'[j].key = queue'[i].key => ~Save(queue'[j])
    <3>1. \A j \in DOMAIN queue' : j < i => j \in DOMAIN queue
      BY <1>2, <1>3, <1>4
    <3>. QED BY <3>1, <2>1, <1>3, <1>4 DEF ViewPart
  <2>3. Shows(c, i)
    BY <2>1, <1>4 DEF ViewPart
  <2>4. ASSUME locked \/ store[c.key].cred # c.expected \/ store[c.key].view \in {c.token, None}
        PROVE  Shows(c, i)'
    <3>1. CASE store'[c.key] = store[c.key]
      BY <2>4, <3>1 DEF Shows
    <3>2. CASE c.key = wk[w].key /\ u.pc = "send"
      BY <3>2, <1>1 DEF Shows
    <3>. QED BY <3>1, <3>2, <2>1
  <2>5. ASSUME NEW v \in Workers, wk[v].pc = "send", wk[v].key = c.key PROVE Shows(c, i)'
    <3>1. CASE wk'[v].pc = "send"
      BY <2>5, <3>1, <1>1 DEF Shows
    <3>2. CASE wk'[v].pc # "send"
      <4>1. v = w
        BY <2>5, <3>2, <1>1
      <4>2. PICK d \in Commands : queue' = Append(queue, d) /\ d.key = c.key
        BY <2>5, <3>2, <4>1, <1>1
      <4>3. DOMAIN queue' = 1..(Len(queue) + 1) /\ queue'[Len(queue) + 1] = d
        BY <4>2, Appended
      <4>4. Len(queue) + 1 \in DOMAIN queue' /\ i < Len(queue) + 1
        BY <4>3, <1>2, <1>4
      <4>. QED BY <4>2, <4>3, <4>4 DEF Shows
    <3>. QED BY <3>1, <3>2
  <2>6. ASSUME NEW j \in DOMAIN queue, i < j, queue[j].key = c.key PROVE Shows(c, i)'
    BY <2>6, <1>3 DEF Shows
  <2>7. Shows(c, i)'
    BY <2>3, <2>4, <2>5, <2>6 DEF Shows
  <2>. QED BY <2>1, <2>2, <2>7
<1>5. CASE i \notin DOMAIN queue
  <2>1. i = Len(queue) + 1
    BY <1>3, <1>5
  <2>2. PICK c \in Commands :
          queue' = Append(queue, c) /\ (Alone(c) => Saves(c.key) = {} /\ store'[c.key].view = c.token)
    BY <1>5
  <2>3. queue'[i] = c
    BY <2>1, <2>2, Appended
  <2>4. Saves(c.key) = {} /\ store'[c.key].view = c.token
    BY <2>2, <2>3
  <2>5. \A j \in DOMAIN queue' : j < i /\ queue'[j].key = queue'[i].key => ~Save(queue'[j])
    <3>1. SUFFICES ASSUME NEW j \in DOMAIN queue', j < i, queue'[j].key = c.key PROVE ~Save(queue'[j])
      BY <2>3
    <3>2. j \in DOMAIN queue /\ queue'[j] = queue[j]
      BY <3>1, <2>1, <1>2, <1>3
    <3>3. j \notin Saves(c.key)
      BY <2>4
    <3>. QED BY <3>1, <3>2, <3>3 DEF Saves, Save
  <2>. QED BY <2>3, <2>4, <2>5 DEF Shows
<1>. QED BY <1>4, <1>5

\* The workers' steps keep the part.
LEMMA StepViews ==
  ASSUME LockInv, LockInv', StorePart', ViewPart, NEW w \in Workers,
         Step(w) \/ Acquire(w) \/ AdapterClears(w) \/ AdapterReplaced(w)
  PROVE  ViewPart'
<1>1. Shapes /\ PlacePart /\ wk[w] \in WorkerState /\ Place(wk[w])
  BY DEF LockInv, Shapes, PlacePart
<1>2. PICK k \in Keys : k = wk[w].key
  BY <1>1 DEF WorkerState
<1>3. ASSUME NEW u \in WorkerState, wk' = [wk EXCEPT ![w] = u], u.key = wk[w].key,
             UNCHANGED <<locked, store>>, wk[w].pc \notin {"publish", "send"},
             queue' = queue \/ \E c \in Commands : queue' = Append(queue, c) /\ ~Alone(c)
      PROVE  ViewPart'
  <2>1. \A j \in Keys : (Saving(j) => Saving(j)') /\ (Quiet(j)' => Quiet(j))
    BY <1>1, <1>3, TracesKept
  <2>2. \A j \in Keys : Screened(j)'
    BY <2>1, <1>3 DEF ViewPart, Screened
  <2>3. \/ queue' = queue
        \/ \E c \in Commands :
             /\ queue' = Append(queue, c)
             /\ Alone(c) => Saves(c.key) = {} /\ store'[c.key].view = c.token
    BY <1>3
  <2>4. \A i \in DOMAIN queue' : Alone(queue'[i]) =>
          /\ \A j \in DOMAIN queue' : j < i /\ queue'[j].key = queue'[i].key => ~Save(queue'[j])
          /\ Shows(queue[i], i)'
    BY <2>3, <1>1, <1>3, AloneKept
  <2>. QED BY <2>2, <2>4 DEF ViewPart
<1>4. CASE \/ Acquire(w) \/ TakeLock(w) \/ Release(w) \/ Prune(w) \/ ExchangeFails(w)
           \/ ProviderRefreshed(w) \/ ProviderRejected(w) \/ AdapterLoads(w) \/ AdapterReplaced(w)
  <2>1. UNCHANGED <<locked, store>>
    BY <1>4, StoreUntouched
  <2>2. PICK u \in WorkerState :
           /\ wk' = [wk EXCEPT ![w] = u] /\ u.key = wk[w].key /\ wk[w].pc \notin {"publish", "send"}
    BY <1>4, QuietWorker
  <2>3. queue' = queue \/ \E c \in Commands : queue' = Append(queue, c) /\ ~Alone(c)
    <3>1. CASE TakeLock(w) \/ ProviderRejected(w)
      <4>1. \/ queue' = queue
            \/ queue' = Append(queue, [type |-> "Load", key |-> k, w |-> w])
            \/ queue' = Append(queue, [type |-> "MarkDead", key |-> k])
        BY <3>1, <1>2 DEF TakeLock, ProviderRejected, Post
      <4>2. /\ [type |-> "Load", key |-> k, w |-> w] \in Commands
            /\ [type |-> "MarkDead", key |-> k] \in Commands
        BY CommandTypes
      <4>3. ~Alone([type |-> "Load", key |-> k, w |-> w]) /\ ~Alone([type |-> "MarkDead", key |-> k])
        BY DEF Alone
      <4>. QED BY <4>1, <4>2, <4>3
    <3>2. CASE ProviderRefreshed(w)
      <4>1. PICK t \in Tokens : t = wk[w].token
        BY <1>1 DEF WorkerState
      <4>2. PICK a : a = Answer(k, t)
        OBVIOUS
      <4>3. Accepts(k, t)
            /\ queue' = Append(queue, [type |-> "Save", key |-> k, w |-> w, token |-> a, expected |-> t])
        BY <3>2, <4>1, <4>2, <1>2 DEF ProviderRefreshed, Post
      <4>4. a \in Tokens
        BY <4>2, <4>3, <1>1, AcceptFacts
      <4>5. PICK c \in Commands : c = [type |-> "Save", key |-> k, w |-> w, token |-> a, expected |-> t]
        BY <4>4, CommandTypes
      <4>6. ~Alone(c)
        BY <4>5 DEF Alone
      <4>. QED BY <4>3, <4>5, <4>6
    <3>3. CASE ~(TakeLock(w) \/ ProviderRejected(w) \/ ProviderRefreshed(w))
      BY <3>3, <1>4 DEF Acquire, Release, Prune, ExchangeFails, AdapterLoads, AdapterReplaced, daemon
    <3>. QED BY <3>1, <3>2, <3>3
  <2>. QED BY <2>1, <2>2, <2>3, <1>3
<1>5. CASE AdapterRefreshed(w)
  <2>1. PICK t : t = wk[w].token
    OBVIOUS
  <2>2. PICK a : a = Answer(k, t)
    OBVIOUS
  <2>3. wk[w].pc = "exchange" /\ UNCHANGED <<locked, store, queue>>
    BY <2>1, <2>2, <1>2, <1>5, RefreshedWorker
  <2>4. PICK u \in WorkerState : wk' = [wk EXCEPT ![w] = u] /\ u.key = wk[w].key
    BY <2>1, <2>2, <1>2, <1>5, RefreshedWorker
  <2>. QED BY <2>3, <2>4, <1>3
<1>6. CASE AdapterRejected(w) \/ AdapterClears(w)
  <2>1. wk[w].pc \in {"idle", "exchange"} /\ UNCHANGED <<locked, store, queue>>
    BY <1>6, SpeakingWorker
  <2>2. PICK u \in WorkerState : wk' = [wk EXCEPT ![w] = u] /\ u.key = wk[w].key
    BY <1>6, SpeakingWorker
  <2>3. wk[w].pc \notin {"publish", "send"}
    BY <2>1
  <2>. QED BY <2>1, <2>2, <2>3, <1>3
<1>7. CASE AdapterPublishes(w) \/ AdapterSends(w)
  <2>1. PICK c \in Commands : c = wk[w].out[1] /\ wk[w].out # <<>> /\ c.key = k
    BY <1>2, <1>7, SendingWorker
  <2>2. locked' = locked
    BY <1>7, SendingWorker
  <2>3. PICK u \in WorkerState :
              /\ wk' = [wk EXCEPT ![w] = u] /\ u.key = wk[w].key
              /\ \/ /\ AdapterPublishes(w) /\ wk[w].pc = "publish" /\ u.pc = "send"
                    /\ u.out = wk[w].out /\ queue' = queue
                 \/ /\ AdapterSends(w) /\ wk[w].pc = "send" /\ store' = store
                    /\ queue' = Append(queue, Marked(k, c))
    BY <1>2, <2>1, <1>7, SendingWorker
  <2>4. CASE /\ AdapterPublishes(w) /\ wk[w].pc = "publish" /\ u.pc = "send"
             /\ u.out = wk[w].out /\ queue' = queue
    <3>1. \A j \in Keys : (Saving(j) => Saving(j)') /\ (Quiet(j)' => Quiet(j))
      BY <2>3, <2>4, <1>1, TracesKept
    <3>2. /\ \A j \in Keys \ {k} : store'[j] = store[j]
          /\ store'[k].view = Shown(c)
      BY <2>1, <2>4, <1>1, <1>2, ShownStore
    <3>3. wk'[w] = u
      BY <2>3, <1>1 DEF Shapes
    <3>4. w \in Publishing(k)'
      BY <2>3, <2>4, <3>3, <1>2 DEF Publishing
    <3>5. ~Quiet(k)'
      BY <3>4 DEF Quiet
    <3>6. Saving(k)' \/ store'[k].view = None
      <4>1. CASE c.type = "OAuthSave"
        <5>1. wk'[w].out[1].type = "OAuthSave"
          BY <4>1, <3>3, <2>1, <2>4
        <5>. QED BY <5>1, <3>4 DEF Saving
      <4>2. CASE c.type # "OAuthSave"
        BY <4>2, <3>2 DEF Shown
      <4>. QED BY <4>1, <4>2
    <3>7. \A j \in Keys : Screened(j)'
      <4>1. Screened(k)'
        BY <3>5, <3>6 DEF Screened
      <4>2. \A j \in Keys \ {k} : Screened(j)'
        BY <3>1, <3>2, <2>2 DEF ViewPart, Screened
      <4>. QED BY <4>1, <4>2
    <3>8. \A j \in Keys : store'[j] = store[j] \/ (j = wk[w].key /\ u.pc = "send")
      BY <3>2, <2>4, <1>2
    <3>9. \A i \in DOMAIN queue' : Alone(queue'[i]) =>
            /\ \A j \in DOMAIN queue' : j < i /\ queue'[j].key = queue'[i].key => ~Save(queue'[j])
            /\ Shows(queue[i], i)'
      BY <3>8, <2>2, <2>3, <2>4, <1>1, AloneKept
    <3>. QED BY <3>7, <3>9 DEF ViewPart
  <2>5. CASE /\ AdapterSends(w) /\ wk[w].pc = "send" /\ store' = store
             /\ queue' = Append(queue, Marked(k, c))
    <3>1. PICK d \in Commands : d = Marked(k, c)
      BY MarkedFacts
    <3>2. d.type = c.type /\ d.key = k
      BY <3>1, <2>1, MarkedFacts
    <3>3. Alone(d) => Saves(d.key) = {} /\ store'[d.key].view = d.token
      <4>1. SUFFICES ASSUME d.type = "OAuthSave", d.alone PROVE Saves(k) = {} /\ store[k].view = d.token
        BY <3>2, <2>5 DEF Alone
      <4>. QED BY <4>1, <3>1, <3>2, MarkedFacts
    <3>4. wk[w].out[1].type = "OAuthSave" => Save(d)
      BY <3>2, <2>1 DEF Save
    <3>5. queue' = Append(queue, d) /\ d.key = wk[w].key
      BY <3>1, <3>2, <2>5, <1>2
    <3>6. \A j \in Keys : (Saving(j) => Saving(j)') /\ (Quiet(j)' => Quiet(j))
      BY <3>4, <3>5, <2>3, <1>1, TracesKept
    <3>7. \A j \in Keys : Screened(j)'
      BY <3>6, <2>2, <2>5 DEF ViewPart, Screened
    <3>8. \A i \in DOMAIN queue' : Alone(queue'[i]) =>
            /\ \A j \in DOMAIN queue' : j < i /\ queue'[j].key = queue'[i].key => ~Save(queue'[j])
            /\ Shows(queue[i], i)'
      <4>1. \/ queue' = queue
            \/ \E x \in Commands :
                 /\ queue' = Append(queue, x)
                 /\ Alone(x) => Saves(x.key) = {} /\ store'[x.key].view = x.token
        BY <3>3, <3>5
      <4>2. \E x \in Commands : queue' = Append(queue, x) /\ x.key = wk[w].key
        BY <3>5
      <4>. QED BY <4>1, <4>2, <2>2, <2>3, <2>5, <1>1, AloneKept
    <3>. QED BY <3>7, <3>8 DEF ViewPart
  <2>. QED BY <2>3, <2>4, <2>5
<1>. QED BY <1>4, <1>5, <1>6, <1>7 DEF Step

\* The head of the queue is handled: of the other keys all stays on its way, of
\* its own all but the head.
LEMMA TracesTaken ==
  ASSUME LockInv, Handle, NEW c \in Commands, c = queue[1], NEW k \in Keys
  PROVE  /\ k # c.key \/ ~Save(c) => (Saving(k) => Saving(k)')
         /\ Saving(k)' => Saving(k)
         /\ k # c.key => (Quiet(k)' => Quiet(k))
         /\ Quiet(k)' => ~Saving(k)'
         /\ \A w \in Workers : wk[w].pc \in {"publish", "send"} => wk'[w] = wk[w]
<1>1. Shapes /\ queue # <<>> /\ queue' = Tail(queue)
  BY DEF LockInv, Handle
<1>2. /\ Len(queue) \in Nat \ {0} /\ DOMAIN queue' = 1..(Len(queue) - 1)
      /\ DOMAIN queue = 1..Len(queue)
      /\ \A i \in DOMAIN queue' : i + 1 \in DOMAIN queue /\ queue'[i] = queue[i + 1]
  BY <1>1, FirstTaken, QueueFacts
<1>3. ASSUME NEW j \in DOMAIN queue, j # 1 PROVE j - 1 \in DOMAIN queue' /\ queue'[j - 1] = queue[j]
  <2>1. j - 1 \in DOMAIN queue' /\ (j - 1) + 1 = j
    BY <1>2, <1>3
  <2>. QED BY <2>1, <1>2
<1>4. PICK d \in Commands :
           /\ d = queue[1] /\ d.key \in Keys
           /\ Asks(d) => d.w \in Workers /\ Asked(d, wk[d.w])
           /\ \/ HandleLoad(d) \/ HandleSave(d) \/ HandleMarkDead(d)
              \/ HandleOAuthSave(d) \/ HandleOAuthClear(d) \/ HandleAuthRejected(d)
  BY HeadFacts
<1>5. \A w \in Workers :
        \/ wk'[w] = wk[w]
        \/ wk[w].pc \notin {"publish", "send"} /\ wk'[w].pc \notin {"publish", "send"}
  <2>1. CASE HandleLoad(d) \/ HandleSave(d)
    <3>1. Asks(d)
      BY <2>1, <1>1, AnswerGiven
    <3>2. PICK w \in Workers : w = d.w /\ wk[w].pc \in {"loading", "saving"}
      BY <3>1, <1>4 DEF Asked
    <3>3. PICK u \in WorkerState :
            wk' = [wk EXCEPT ![w] = u] /\ (u.pc = "release" \/ u.pc = "exchange")
      BY <2>1, <3>2, <1>1, AnswerGiven
    <3>4. wk'[w] = u /\ \A v \in Workers \ {w} : wk'[v] = wk[v]
      BY <3>3, <1>1 DEF Shapes
    <3>. QED BY <3>2, <3>3, <3>4
  <2>2. CASE ~(HandleLoad(d) \/ HandleSave(d))
    BY <2>2, <1>4 DEF HandleMarkDead, HandleOAuthSave, HandleOAuthClear, HandleAuthRejected
  <2>. QED BY <2>1, <2>2
<1>6. Publishing(k)' = Publishing(k) /\ \A w \in Publishing(k) : wk'[w] = wk[w]
  BY <1>5 DEF Publishing
<1>7. ASSUME k # c.key \/ ~Save(c), Saving(k) PROVE Saving(k)'
  <2>1. ASSUME NEW j \in Saves(k) PROVE Saving(k)'
    <3>1. j \in DOMAIN queue /\ Save(queue[j]) /\ queue[j].key = k
      BY DEF Saves, Save
    <3>2. j # 1
      BY <3>1, <1>7
    <3>3. j - 1 \in DOMAIN queue' /\ queue'[j - 1] = queue[j]
      BY <3>1, <3>2, <1>3
    <3>4. j - 1 \in Saves(k)'
      BY <3>1, <3>3 DEF Saves, Save
    <3>. QED BY <3>4 DEF Saving
  <2>2. ASSUME NEW w \in Publishing(k), wk[w].out[1].type = "OAuthSave" PROVE Saving(k)'
    BY <2>2, <1>6 DEF Saving
  <2>. QED BY <2>1, <2>2, <1>7 DEF Saving
<1>8. Saving(k)' => Saving(k)
  <2>1. ASSUME NEW j \in Saves(k)' PROVE Saving(k)
    <3>1. j \in DOMAIN queue' /\ Save(queue'[j]) /\ queue'[j].key = k
      BY <2>1 DEF Saves, Save
    <3>2. j + 1 \in Saves(k)
      BY <3>1, <1>2 DEF Saves, Save
    <3>. QED BY <3>2 DEF Saving
  <2>2. ASSUME NEW w \in Publishing(k)', wk'[w].out[1].type = "OAuthSave" PROVE Saving(k)
    BY <2>2, <1>6 DEF Saving
  <2>. QED BY <2>1, <2>2 DEF Saving
<1>9. ASSUME k # c.key, Quiet(k)' PROVE Quiet(k)
  <2>1. Publishing(k) = {} /\ \A i \in DOMAIN queue' : queue'[i].key # k
    BY <1>6, <1>9 DEF Quiet
  <2>2. ASSUME NEW j \in DOMAIN queue, queue[j].key = k PROVE FALSE
    <3>1. j # 1
      BY <2>2, <1>9
    <3>. QED BY <2>1, <2>2, <3>1, <1>3
  <2>. QED BY <2>1, <2>2 DEF Quiet
<1>10. Quiet(k)' => ~Saving(k)'
  BY DEF Quiet, Saving, Saves
<1>11. \A w \in Workers : wk[w].pc \in {"publish", "send"} => wk'[w] = wk[w]
  BY <1>5
<1>. QED BY <1>7, <1>8, <1>9, <1>10, <1>11

\* A refused grant is quarantined and no longer shown.
LEMMA RejectedStore ==
  ASSUME Shapes, NEW c \in Commands, HandleAuthRejected(c)
  PROVE  \/ store' = store /\ store[c.key].dead
         \/ store'[c.key].dead /\ store'[c.key].view = None /\ ~store'[c.key].ahead
<1>1. c.key \in Keys /\ store[c.key] \in Record
  BY CommandFields DEF Shapes
<1>2. CASE store[c.key].dead
  BY <1>2 DEF HandleAuthRejected
<1>3. CASE ~store[c.key].dead
  <2>1. PICK r \in Record : r = store[c.key]
    BY <1>1
  <2>2. PICK y : y = [r EXCEPT !.dead = TRUE]
    OBVIOUS
  <2>3. y \in Record /\ y.dead
    BY <2>2, Flagged
  <2>4. Publish(c.key, y)
    BY <1>3, <2>1, <2>2 DEF HandleAuthRejected
  <2>. QED BY <2>3, <2>4, <1>1, PublishFields
<1>. QED BY <1>2, <1>3

\* The command loop keeps the part.
LEMMA HandleViews ==
  ASSUME LockInv, StorePart, StorePart', ViewPart, Handle
  PROVE  ViewPart'
<1>1. Shapes /\ AnswerPart /\ queue # <<>> /\ queue' = Tail(queue) /\ locked' = locked
  BY DEF LockInv, Handle, HandleLoad, HandleSave, HandleMarkDead, HandleOAuthSave, HandleOAuthClear,
     HandleAuthRejected
<1>2. PICK c \in Commands :
           /\ c = queue[1] /\ 1 \in DOMAIN queue /\ c.key \in Keys /\ OfItsKind(c)
           /\ \/ HandleLoad(c) \/ HandleSave(c) \/ HandleMarkDead(c)
              \/ HandleOAuthSave(c) \/ HandleOAuthClear(c) \/ HandleAuthRejected(c)
  BY HeadFacts
<1>3. \A j \in Keys \ {c.key} : store'[j] = store[j]
  <2>1. CASE HandleLoad(c)
    BY <2>1 DEF HandleLoad
  <2>. QED BY <2>1, <1>1, <1>2, SaveStore, OAuthSaveStore, ClearStore, DeadStore
<1>4. \A k \in Keys \ {c.key} : Screened(k)'
  <2>1. \A k \in Keys \ {c.key} :
          (Saving(k) => Saving(k)') /\ (Saving(k)' => Saving(k)) /\ (Quiet(k)' => Quiet(k))
    BY <1>2, TracesTaken
  <2>. QED BY <2>1, <1>1, <1>3 DEF ViewPart, Screened
<1>5. Screened(c.key)'
  <2>1. CASE HandleLoad(c) \/ HandleSave(c) \/ HandleMarkDead(c)
    <3>1. c.key \in ProviderKeys
      BY <2>1, <1>2 DEF HandleLoad, HandleSave, HandleMarkDead, OfItsKind
    <3>. QED BY <3>1, ProviderIsScreened
  <2>2. PICK k \in Keys : k = c.key
    BY <1>2
  <2>3. CASE store'[k].view = IF k \in McpKeys /\ ~store'[k].dead THEN store'[k].cred ELSE None
    BY <2>2, <2>3, FreshIsScreened
  <2>4. CASE HandleOAuthSave(c)
    <3>1. CASE ~locked /\ store'[k].ahead
      BY <2>2, <3>1, <1>1 DEF Screened
    <3>. QED BY <2>2, <2>3, <2>4, <3>1, <1>1, OAuthSaveStore
  <2>5. CASE HandleOAuthClear(c)
    <3>1. CASE store'[k].view = store[k].view /\ store'[k].ahead
      <4>1. ~Save(c)
        BY <2>5 DEF HandleOAuthClear, Save
      <4>2. Saving(k) => Saving(k)'
        BY <4>1, <2>2, <1>2, TracesTaken
      <4>3. locked /\ store[k].view # None => Saving(k)
        BY DEF ViewPart, Screened
      <4>. QED BY <2>2, <3>1, <4>2, <4>3, <1>1 DEF Screened
    <3>2. CASE store'[k].view = None /\ store'[k].cred = None
      BY <2>2, <2>3, <3>2
    <3>. QED BY <2>2, <2>5, <3>1, <3>2, <1>1, ClearStore
  <2>6. CASE HandleAuthRejected(c)
    <3>1. CASE store' = store /\ store[k].dead
      <4>1. ~Save(c)
        BY <2>6 DEF HandleAuthRejected, Save
      <4>2. (Saving(k) <=> Saving(k)') /\ (Quiet(k)' => ~Saving(k)')
        BY <4>1, <2>2, <1>2, TracesTaken
      <4>3. Screened(k)
        BY DEF ViewPart
      <4>4. Screened(k)'
        BY <3>1, <4>2, <4>3, <1>1 DEF Screened
      <4>. QED BY <4>4, <2>2
    <3>2. CASE store'[k].dead /\ store'[k].view = None
      BY <2>2, <2>3, <3>2
    <3>. QED BY <2>2, <2>6, <3>1, <3>2, <1>1, RejectedStore
  <2>. QED BY <2>1, <2>4, <2>5, <2>6, <1>2
<1>6. \A k \in Keys : Screened(k)'
  <2>1. PICK k \in Keys : k = c.key
    BY <1>2
  <2>. QED BY <2>1, <1>4, <1>5
<1>7. ASSUME NEW i \in DOMAIN queue', Alone(queue'[i])
      PROVE  /\ \A j \in DOMAIN queue' : j < i /\ queue'[j].key = queue'[i].key => ~Save(queue'[j])
             /\ Shows(queue[i], i)'
  <2>1. /\ Len(queue) \in Nat \ {0} /\ DOMAIN queue' = 1..(Len(queue) - 1)
        /\ DOMAIN queue = 1..Len(queue)
        /\ \A n \in DOMAIN queue' : n + 1 \in DOMAIN queue /\ queue'[n] = queue[n + 1]
    BY <1>1, FirstTaken, QueueFacts
  <2>2. PICK d \in Commands : d = queue[i + 1] /\ d = queue'[i] /\ d.key \in Keys /\ Alone(d)
    BY <2>1, <1>1, <1>7, QueueFacts, CommandFields
  <2>3. /\ \A j \in DOMAIN queue : j < i + 1 /\ queue[j].key = d.key => ~Save(queue[j])
        /\ Shows(d, i + 1)
    BY <2>1, <2>2, <1>7 DEF ViewPart
  <2>4. \A j \in DOMAIN queue' : j < i /\ queue'[j].key = queue'[i].key => ~Save(queue'[j])
    <3>1. \A j \in DOMAIN queue' : j < i => j + 1 < i + 1
      BY <2>1, <1>7
    <3>. QED BY <3>1, <2>1, <2>2, <2>3
  <2>5. \/ store'[d.key] = store[d.key]
        \/ store'[d.key].view = None
        \/ store'[d.key].view = store[d.key].view /\ store'[d.key].cred = store[d.key].cred
    <3>1. CASE c.key # d.key
      BY <3>1, <2>2, <1>3
    <3>2. CASE c.key = d.key
      <4>1. ~Save(c)
        <5>1. 1 < i + 1
          BY <2>1, <1>7
        <5>. QED BY <5>1, <2>3, <3>2, <1>2
      <4>2. c.key \notin ProviderKeys
        <5>1. OfItsKind(d) /\ d.type = "OAuthSave"
          BY <2>1, <2>2, <1>1, <1>7 DEF AnswerPart, Alone
        <5>. QED BY <5>1, <3>2, Bounds DEF OfItsKind
      <4>3. HandleOAuthClear(c) \/ HandleAuthRejected(c)
        BY <4>1, <4>2, <1>2 DEF HandleLoad, HandleSave, HandleMarkDead, HandleOAuthSave, OfItsKind, Save
      <4>. QED BY <4>3, <3>2, <1>1, ClearStore, RejectedStore
    <3>. QED BY <3>1, <3>2
  <2>6. ASSUME locked \/ store[d.key].cred # d.expected \/ store[d.key].view \in {d.token, None}
        PROVE  Shows(d, i)'
    BY <2>5, <2>6, <1>1 DEF Shows
  <2>7. ASSUME NEW w \in Workers, wk[w].pc = "send", wk[w].key = d.key PROVE Shows(d, i)'
    <3>1. wk'[w] = wk[w]
      BY <2>7, <1>2, TracesTaken
    <3>. QED BY <2>7, <3>1 DEF Shows
  <2>8. ASSUME NEW j \in DOMAIN queue, i + 1 < j, queue[j].key = d.key PROVE Shows(d, i)'
    <3>1. j - 1 \in DOMAIN queue' /\ i < j - 1 /\ (j - 1) + 1 = j
      BY <2>1, <2>8, <1>7
    <3>2. queue'[j - 1] = queue[j]
      BY <3>1, <2>1
    <3>. QED BY <2>8, <3>1, <3>2 DEF Shows
  <2>9. Shows(d, i)'
    BY <2>3, <2>6, <2>7, <2>8 DEF Shows
  <2>. QED BY <2>2, <2>4, <2>9
<1>. QED BY <1>6, <1>7 DEF ViewPart

\* The clients' commands keep the part: a sign-in's grant is none that a save
\* waits to replace, and an unlock republishes every key.
LEMMA ClientViews ==
  ASSUME LockInv, StorePart', MintPart, ViewPart,
         \/ \E k \in Keys : SaveCredential(k) \/ RemoveCredential(k) \/ Revoke(k)
         \/ Lock \/ Unlock \/ UNCHANGED vars
  PROVE  ViewPart'
<1>1. Shapes
  BY DEF LockInv
<1>2. wk' = wk
  BY DEF SaveCredential, RemoveCredential, Revoke, Lock, Unlock, vars
<1>3. /\ DOMAIN queue' = DOMAIN queue
      /\ \A i \in DOMAIN queue : queue'[i].type = queue[i].type /\ queue'[i].key = queue[i].key
  <2>1. CASE Unlock
    BY <2>1, <1>1, Unmarked
  <2>2. CASE ~Unlock
    BY <2>2 DEF SaveCredential, RemoveCredential, Revoke, Lock, vars, daemon
  <2>. QED BY <2>1, <2>2
<1>4. \A k \in Keys : (Saving(k)' <=> Saving(k)) /\ (Quiet(k)' <=> Quiet(k))
  <2>1. SUFFICES ASSUME NEW k \in Keys
                 PROVE  (Saving(k)' <=> Saving(k)) /\ (Quiet(k)' <=> Quiet(k))
    OBVIOUS
  <2>2. Publishing(k)' = Publishing(k)
    BY <1>2 DEF Publishing
  <2>3. Saves(k)' = Saves(k)
    BY <1>3 DEF Saves
  <2>. QED BY <2>2, <2>3, <1>2, <1>3 DEF Saving, Quiet
<1>5. ASSUME NEW k \in Keys
      PROVE  \/ store'[k] = store[k] /\ locked' = locked
             \/ store'[k].view = IF k \in McpKeys /\ ~store'[k].dead THEN store'[k].cred ELSE None
  <2>1. ASSUME NEW j \in Keys, SaveCredential(j)
        PROVE  \/ store'[k] = store[k] /\ locked' = locked
               \/ store'[k].view = IF k \in McpKeys /\ ~store'[k].dead THEN store'[k].cred ELSE None
    <3>1. locked' = locked
      BY <2>1 DEF SaveCredential
    <3>. QED BY <3>1, <2>1, <1>1, SignInStore
  <2>2. ASSUME NEW j \in Keys, RemoveCredential(j)
        PROVE  \/ store'[k] = store[k] /\ locked' = locked
               \/ store'[k].view = IF k \in McpKeys /\ ~store'[k].dead THEN store'[k].cred ELSE None
    BY <2>2, <1>1, RemovedStore DEF RemoveCredential
  <2>3. CASE (\E j \in Keys : Revoke(j)) \/ UNCHANGED vars
    BY <2>3 DEF Revoke, vars, daemon
  <2>4. CASE Lock
    BY <2>4, <1>1, LockedRecords
  <2>5. CASE Unlock
    <3>1. PICK r : r = store[k]
      OBVIOUS
    <3>2. PICK v : v = IF k \in McpKeys /\ ~r.dead THEN r.blob ELSE None
      OBVIOUS
    <3>3. store'[k] = [cred |-> r.blob, blob |-> r.blob, access |-> r.access, dead |-> r.dead,
                       view |-> v, ahead |-> FALSE]
      BY <2>5, <3>1, <3>2, <1>1, UnlockedRecords
    <3>. QED BY <3>2, <3>3
  <2>. QED BY <2>1, <2>2, <2>3, <2>4, <2>5
<1>6. \A k \in Keys : Screened(k)'
  <2>1. SUFFICES ASSUME NEW k \in Keys PROVE Screened(k)'
    OBVIOUS
  <2>2. CASE store'[k] = store[k] /\ locked' = locked
    BY <2>2, <1>4 DEF ViewPart, Screened
  <2>. QED BY <2>2, <1>5, FreshIsScreened
<1>7. ASSUME NEW i \in DOMAIN queue', Alone(queue'[i])
      PROVE  /\ \A j \in DOMAIN queue' : j < i /\ queue'[j].key = queue'[i].key => ~Save(queue'[j])
             /\ Shows(queue[i], i)'
  <2>1. ~Unlock
    BY <1>1, <1>3, <1>7, Unmarked DEF Alone
  <2>2. queue' = queue
    BY <2>1 DEF SaveCredential, RemoveCredential, Revoke, Lock, vars, daemon
  <2>3. PICK d \in Commands : d = queue[i] /\ d.key \in Keys /\ Alone(d)
    BY <2>2, <1>1, <1>7, QueueFacts, CommandFields
  <2>4. /\ \A j \in DOMAIN queue : j < i /\ queue[j].key = d.key => ~Save(queue[j])
        /\ Shows(d, i)
    BY <2>2, <2>3, <1>7 DEF ViewPart
  <2>5. ASSUME locked \/ store[d.key].cred # d.expected \/ store[d.key].view \in {d.token, None}
        PROVE  Shows(d, i)'
    <3>1. CASE \E j \in Keys : SaveCredential(j)
      <4>1. PICK j \in Keys : SaveCredential(j)
        BY <3>1
      <4>2. locked' = locked
        BY <4>1 DEF SaveCredential
      <4>3. PICK t \in Tokens :
              /\ t.g = grants[j] + 1 /\ store'[j].cred = t
              /\ \A n \in Keys \ {j} : store'[n] = store[n]
        BY <4>1, <1>1, SignInStore
      <4>4. CASE d.key # j
        BY <4>2, <4>3, <4>4, <2>3, <2>5 DEF Shows
      <4>5. CASE d.key = j
        <5>1. d.expected \in Minted[j]
          BY <4>5, <2>2, <2>3, <1>7 DEF MintPart, Mentioned, Alone
        <5>2. d.expected.g =< grants[j] /\ grants[j] \in Nat /\ d.expected.g \in Nat
          BY <5>1, <1>1, Bounds, SMTT(30) DEF Minted, Shapes, Tokens
        <5>3. d.expected # t
          BY <5>2, <4>3
        <5>. QED BY <5>3, <4>3, <4>5 DEF Shows
      <4>. QED BY <4>4, <4>5
    <3>2. CASE \E j \in Keys : RemoveCredential(j)
      <4>1. PICK j \in Keys : RemoveCredential(j)
        BY <3>2
      <4>2. locked' = locked /\ store'[j].view = None /\ \A n \in Keys \ {j} : store'[n] = store[n]
        BY <4>1, <1>1, RemovedStore DEF RemoveCredential
      <4>. QED BY <4>2, <2>3, <2>5 DEF Shows
    <3>3. CASE Lock
      BY <3>3 DEF Lock, Shows
    <3>4. CASE (\E j \in Keys : Revoke(j)) \/ UNCHANGED vars
      <4>1. locked' = locked /\ store' = store
        BY <3>4 DEF Revoke, vars, daemon
      <4>. QED BY <4>1, <2>5 DEF Shows
    <3>. QED BY <3>1, <3>2, <3>3, <3>4, <2>1
  <2>6. Shows(d, i)'
    BY <2>2, <2>4, <2>5, <1>2 DEF Shows
  <2>. QED BY <2>2, <2>3, <2>4, <2>6
<1>. QED BY <1>6, <1>7 DEF ViewPart

LEMMA NextViews ==
  ASSUME LockInv, LockInv', StorePart, StorePart', MintPart, ViewPart, [Next]_vars
  PROVE  ViewPart'
<1>1. \A k \in Served : k \in Keys
  BY DEF Served, LockInv, Shapes, WorkerState
<1>2. CASE Crash
  <2>1. Shapes /\ queue' = <<>>
    BY <1>2 DEF LockInv, Crash
  <2>2. Shapes /\ DOMAIN queue' = {}
    BY <2>1, EmptySeq
  <2>3. \A k \in Keys : store'[k].view = None /\ store'[k].cred = None
    BY <1>2, <2>2, LockedRecords
  <2>4. \A k \in Keys : Screened(k)'
    BY <2>3, FreshIsScreened
  <2>. QED BY <2>2, <2>4 DEF ViewPart
<1>. QED BY <1>1, <1>2, StepViews, HandleViews, ClientViews DEF Next

LEMMA InitViews ==
  ASSUME Init
  PROVE  ViewPart
<1>1. /\ locked = FALSE /\ DOMAIN queue = {}
      /\ \A k \in Keys : store[k] = [cred |-> First, blob |-> First, access |-> 0, dead |-> FALSE,
                              view |-> IF k \in McpKeys THEN First ELSE None, ahead |-> FALSE]
  BY EmptySeq DEF Init
<1>2. ASSUME NEW k \in Keys
      PROVE  ~store[k].dead /\ (k \in McpKeys => store[k].view = store[k].cred)
  <2>1. PICK v : v = IF k \in McpKeys THEN First ELSE None
    OBVIOUS
  <2>2. store[k] = [cred |-> First, blob |-> First, access |-> 0, dead |-> FALSE,
                    view |-> v, ahead |-> FALSE]
    BY <1>1, <2>1
  <2>. QED BY <2>1, <2>2
<1>. QED BY <1>1, <1>2 DEF ViewPart, Screened

\* The locks, the grants and the read view, of every behaviour.
THEOREM ViewsInvariant == Spec => [](LockInv /\ StorePart /\ MintPart /\ ViewPart)
<1>1. Init => LockInv /\ StorePart /\ MintPart /\ ViewPart
  BY InitLocks, InitGrants, InitViews
<1>2. LockInv /\ StorePart /\ MintPart /\ ViewPart /\ [Next]_vars =>
        (LockInv /\ StorePart /\ MintPart /\ ViewPart)'
  BY StepLocks, StepStore, StepMints, NextViews
<1>. QED BY <1>1, <1>2, PTL DEF Spec

\* What connects read of an MCP credential is sound: nothing but a rotation on
\* its way is shown by a locked daemon, the view of a key at rest is its durable
\* grant, and a rotation stays shown while its save waits alone.
THEOREM ReadViewStaysSound == Spec => []ReadViewIsSound
<1>1. LockInv /\ ViewPart => ReadViewIsSound
  <2>1. SUFFICES ASSUME LockInv, ViewPart PROVE ReadViewIsSound
    OBVIOUS
  <2>2. Shapes /\ \A k \in McpKeys : k \in Keys
    BY <2>1, Bounds DEF LockInv, Keys
  <2>3. \A k \in Keys : locked /\ store[k].view # None => Saving(k)
    BY <2>1 DEF ViewPart, Screened
  <2>4. ASSUME NEW k \in McpKeys, Quiet(k), ~store[k].ahead PROVE store[k] = Viewed(k, store[k])
    <3>1. PICK r \in Record : r = store[k]
      BY <2>2 DEF Shapes
    <3>2. r.view = IF r.dead THEN None ELSE r.cred
      BY <2>1, <2>2, <2>4, <3>1 DEF ViewPart, Screened
    <3>3. k \in Keys
      BY <2>2
    <3>4. Viewed(k, r) = [cred |-> r.cred, blob |-> r.blob, access |-> r.access,
            dead |-> r.dead, view |-> IF ~r.dead THEN r.cred ELSE None, ahead |-> FALSE]
      BY <3>3, ViewedFacts
    <3>5. r.ahead = FALSE
      BY <2>4, <3>1 DEF Record, Flags
    <3>6. r = Viewed(k, r)
      BY <3>2, <3>4, <3>5 DEF Record
    <3>. QED BY <3>1, <3>6
  <2>5. ASSUME NEW k \in McpKeys, NEW i \in Saves(k), NEW c, c = queue[i], AloneInQueue(k, i),
               Publishing(k) = {}, c.alone, ~locked, Unchanged(c)
        PROVE  store[k].view \in {c.token, None}
    <3>1. i \in DOMAIN queue /\ c.key = k /\ c.type \in {"Save", "OAuthSave"} /\ OfItsKind(c)
      BY <2>1, <2>5 DEF Saves, LockInv, AnswerPart
    <3>2. Alone(c)
      BY <3>1, <2>5, Bounds DEF OfItsKind, Alone
    <3>3. Shows(c, i)
      BY <2>1, <2>5, <3>1, <3>2 DEF ViewPart
    <3>4. ~\E w \in Workers : wk[w].pc = "send" /\ wk[w].key = c.key
      BY <2>5, <3>1 DEF Publishing
    <3>5. ~\E j \in DOMAIN queue : i < j /\ queue[j].key = c.key
      <4>1. i \in Nat
        BY <2>2, <3>1, QueueFacts
      <4>. QED BY <4>1, <2>5, <3>1 DEF AloneInQueue
    <3>. QED BY <3>1, <3>3, <3>4, <3>5, <2>5 DEF Shows, Unchanged
  <2>. QED BY <2>3, <2>4, <2>5 DEF ReadViewIsSound
<1>. QED BY <1>1, ViewsInvariant, PTL
=============================================================================
