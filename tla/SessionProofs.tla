--------------------------- MODULE SessionProofs ---------------------------
(***************************************************************************)
(* Theorems about Session, for every set of clients and models, every      *)
(* bound and (where stated) every fault.                                   *)
(***************************************************************************)
EXTENDS Session, FiniteSetTheorems, WellFoundedInduction, TLAPS

(***************************************************************************)
(* NewestOf: a non-empty set of turn ids has a largest element, so the     *)
(* daemon's "highest id present" is well defined.                          *)
(***************************************************************************)

\* Every non-empty set of numbers up to N has a largest element.
LEMMA LargestExists ==
  ASSUME NEW N \in Nat, NEW S \in SUBSET (0..N), S # {}
  PROVE  \E t \in S : \A u \in S : u =< t
<1> DEFINE D == {N - s : s \in S}
           R == OpToRel(<, Nat)
<1>1. \A s \in S : s \in 0..N /\ N - s \in Nat
  OBVIOUS
<1>2. D \subseteq Nat
  BY <1>1
<1>3. D # {}
  OBVIOUS
<1>4. IsWellFoundedOn(R, Nat)
  BY NatLessThanWellFounded
<1>5. \A u \in S : N - u \in D
  OBVIOUS
<1>6. \A x \in D : \E s \in S : x = N - s
  OBVIOUS
<1>7. \A x \in Nat, y \in Nat : y < x => <<y, x>> \in R
  BY DEF OpToRel
<1>. HIDE DEF D, R
<1>8. \E x \in D : \A y \in D : ~(<<y, x>> \in R)
  BY <1>2, <1>3, <1>4, WFMin
<1>9. PICK x \in D : \A y \in D : ~(y < x)
  BY <1>2, <1>7, <1>8
<1>10. PICK t \in S : x = N - t
  BY <1>6, <1>9
<1>11. ASSUME NEW u \in S PROVE u =< t
  BY <1>1, <1>5, <1>9, <1>10
<1>. QED
  BY <1>11

\* NewestOf returns the largest member, or None for the empty set.
LEMMA NewestOfProperties ==
  ASSUME NEW S \in SUBSET TurnIds
  PROVE  /\ NewestOf(S) \in TurnIds \cup {None}
         /\ \A t \in S : t =< NewestOf(S)
         /\ S = {} => NewestOf(S) = None
         /\ S # {} => NewestOf(S) \in S
<1>1. CASE S = {}
  BY <1>1 DEF NewestOf
<1>2. CASE S # {}
  <2>1. \E t \in S : \A u \in S : u =< t
    BY <1>2, LargestExists, BoundsAssumption DEF TurnIds
  <2>2. NewestOf(S) \in S /\ \A u \in S : u =< NewestOf(S)
    BY <2>1 DEF NewestOf
  <2>. QED
    BY <2>2, <1>2
<1>. QED
  BY <1>1, <1>2

\* The next id is past every id present and within the model's bound.
LEMMA NextIdProperties ==
  ASSUME NEW T \in History
  PROVE  /\ NextId(T) \in 0..(MaxTurnId + 1)
         /\ \A t \in Ids(T) : t < NextId(T)
<1>1. Ids(T) \in SUBSET TurnIds
  BY DEF Ids
<1>2. /\ NewestOf(Ids(T)) \in TurnIds \cup {None}
      /\ \A t \in Ids(T) : t =< NewestOf(Ids(T))
  BY <1>1, NewestOfProperties
<1>. QED
  BY <1>1, <1>2, BoundsAssumption DEF NextId, TurnIds, None

\* The readout names a turn or nothing.
LEMMA LiveLastType ==
  ASSUME NEW T \in History
  PROVE  LiveLast(T) \in TurnIds \cup {None}
<1>1. {t \in Live(T) : T[t].usage} \in SUBSET TurnIds
  BY DEF Live, Ids
<1>. QED
  BY <1>1, NewestOfProperties DEF LiveLast

\* The reconstructed total is a number.
LEMMA BilledTurnsType ==
  ASSUME NEW T \in History
  PROVE  BilledTurns(T) \in Nat
<1>1. IsFiniteSet(TurnIds)
  BY FS_Interval, BoundsAssumption DEF TurnIds
<1>2. {t \in Ids(T) : T[t].usage} \subseteq TurnIds
  BY DEF Ids
<1>3. IsFiniteSet({t \in Ids(T) : T[t].usage})
  BY <1>1, <1>2, FS_Subset
<1>. QED
  BY <1>3, FS_CardinalityType DEF BilledTurns

\* What the provider stores under a response id is a set of turn ids.
LEMMA ContextType ==
  ASSUME NEW T \in History, NEW c \in Chain
  PROVE  Context(T, c) \subseteq TurnIds
BY DEF Context, UnansweredTail, Live, Ids, Chain

-----------------------------------------------------------------------------
(* Type correctness, under every fault.                                    *)

\* The values every action assigns are well typed.
LEMMA InitialValues ==
  /\ NoTurn \in Turn /\ EmptyHistory \in History /\ NoChain \in Chain
  /\ NoWrites \in [rec: BOOLEAN, ids: SUBSET TurnIds]
  /\ 0 \in TurnIds /\ 0 \in 0..(MaxTurnId + 1)
  /\ \A m \in Models : EmptySnapshot(m) \in Snapshot
BY BoundsAssumption DEF NoTurn, Turn, Bodies, EmptyHistory, History, NoChain, Chain,
   NoWrites, TurnIds, EmptySnapshot, Snapshot, None

\* The initial state is well typed.
LEMMA TypeInit == Init => TypeOK
<1> SUFFICES ASSUME Init PROVE TypeOK
  OBVIOUS
<1>1. subs \subseteq Clients
  BY DEF Init
<1>2. redo \in Seq(SUBSET TurnIds) /\ q \in Seq(Message)
  BY DEF Init
<1>. QED
  BY <1>1, <1>2, InitialValues, BoundsAssumption DEF Init, TypeOK

\* A snapshot of a well-typed session is well typed.
LEMMA SnapshotType ==
  ASSUME TypeOK, NEW win \in Models
  PROVE  SnapshotOf(win) \in Snapshot
BY DEF TypeOK, SnapshotOf, Snapshot

\* Hiding and showing turns keeps a history a history.
LEMMA HideShowType ==
  ASSUME NEW T \in History, NEW S
  PROVE  Hide(T, S) \in History /\ Show(T, S) \in History
<1>1. \A t \in TurnIds : /\ [T[t] EXCEPT !.undone = TRUE] \in Turn
                         /\ [T[t] EXCEPT !.undone = FALSE] \in Turn
                         /\ T[t] \in Turn
  BY DEF History, Turn
<1>. QED
  BY <1>1 DEF Hide, Show, History

\* A worker clone with another record for one turn is still a clone.
LEMMA CloneWithTurn ==
  ASSUME NEW s \in Snapshot, NEW t \in TurnIds, NEW X \in Turn
  PROVE  [s EXCEPT !.turns[t] = X] \in Snapshot
BY DEF Snapshot, History

\* A turn with another body is a turn.
LEMMA TurnWithBody ==
  ASSUME NEW s \in Snapshot, NEW t \in TurnIds, NEW b \in Bodies
  PROVE  [s EXCEPT !.turns[t].body = b] \in Snapshot
<1>1. [s.turns[t] EXCEPT !.body = b] \in Turn
  BY DEF Snapshot, History, Turn
<1>. QED
  BY <1>1 DEF Snapshot, History

\* The recorded response keeps the clone well typed.
LEMMA AnsweredType ==
  ASSUME TypeOK, NEW b \in Bodies, NEW u \in BOOLEAN
  PROVE  Answered(b, u) \in Snapshot
<1>1. w \in Snapshot /\ wcur \in TurnIds
  BY DEF TypeOK
<1>2. [w.turns[wcur] EXCEPT !.body = b, !.usage = u] \in Turn
  BY <1>1 DEF Snapshot, History, Turn
<1>3. (IF u THEN w.billed + 1 ELSE w.billed) \in Nat
  BY <1>1 DEF Snapshot
<1>. QED
  BY <1>1, <1>2, <1>3 DEF Answered, Snapshot, History

\* The chain a response leaves behind is well typed.
LEMMA ChainTypes ==
  ASSUME TypeOK, NEW rid \in BOOLEAN
  PROVE  ResponseChain(rid) \in Chain /\ StoredChain(rid) \in Chain
<1>1. Context(w.turns, wprev) \subseteq TurnIds
  BY ContextType DEF TypeOK, Snapshot
<1>. QED
  BY <1>1, InitialValues DEF ResponseChain, StoredChain, TypeOK, Snapshot, Chain

\* Writing a turn row keeps the clone and the rows well typed.
LEMMA PersistTurnType ==
  ASSUME TypeOK, NEW s \in Snapshot, NEW ok \in BOOLEAN, PersistTurn(s, ok)
  PROVE  w' \in Snapshot /\ dbTurns' \in History
<1>1. s.turns[wcur] \in Turn /\ wcur \in TurnIds
  BY DEF TypeOK, Snapshot, History
<1>2. dbTurns' \in History
  BY <1>1 DEF PersistTurn, TypeOK, History
<1>3. w' \in Snapshot
  BY <1>1 DEF PersistTurn, Snapshot
<1>. QED
  BY <1>2, <1>3

\* Every step keeps the types.
LEMMA TypeStep == TypeOK /\ [Next]_vars => TypeOK'
<1> SUFFICES ASSUME TypeOK, [Next]_vars PROVE TypeOK'
  OBVIOUS
<1>. USE InitialValues
<1>a. NextId(turns) \in 0..(MaxTurnId + 1)
  BY NextIdProperties DEF TypeOK
<1>b. ASSUME NEW ok \in WriteOutcomes PROVE ok \in BOOLEAN
  BY DEF WriteOutcomes
<1>c. ASSUME NEW text \in BOOLEAN, NEW win \in Models, StartWorker(text, win)
      PROVE  /\ w' \in Snapshot /\ winit' \in Snapshot /\ wprev' \in Chain
             /\ wnext' \in 0..(MaxTurnId + 1) /\ liveTurn' \in 0..(MaxTurnId + 1)
  BY <1>a, <1>c, SnapshotType DEF StartWorker, TypeOK
<1>1. CASE RunInput
  BY <1>1, <1>c DEF RunInput, StartWorker, TypeOK, db
<1>2. ASSUME NEW text \in BOOLEAN, RunChildInput(text) PROVE TypeOK'
  BY <1>2, <1>c DEF RunChildInput, StartWorker, TypeOK, db
<1>3. CASE Cancel
  BY <1>3 DEF Cancel, TypeOK, main, worker, db
<1>4. CASE Shutdown
  BY <1>4 DEF Shutdown, TypeOK, worker, db
<1>5. ASSUME NEW c \in Clients, Attach(c) PROVE TypeOK'
  BY <1>5 DEF Attach, TypeOK, worker, db
<1>6. ASSUME NEW c \in Clients, Detach(c) PROVE TypeOK'
  BY <1>6 DEF Detach, Leave, TypeOK, worker, db
<1>7. ASSUME NEW m \in Models, SetModel(m) PROVE TypeOK'
  BY <1>7 DEF SetModel, TypeOK, worker, db
<1>8. CASE Undo
  <2>1. UndoBatch(turns) \in SUBSET TurnIds
    BY DEF UndoBatch, Live, Ids
  <2>2. turns' \in History /\ last' \in TurnIds \cup {None}
    BY <1>8, HideShowType, LiveLastType DEF Undo, TypeOK
  <2>3. redo' \in Seq(SUBSET TurnIds)
    BY <1>8, <2>1 DEF Undo, TypeOK
  <2>. QED
    BY <1>8, <2>1, <2>2, <2>3 DEF Undo, TypeOK, worker, db
<1>9. CASE Redo
  <2>1. turns' \in History /\ last' \in TurnIds \cup {None}
    BY <1>9, HideShowType, LiveLastType DEF Redo, TypeOK
  <2>2. Head(redo) \in SUBSET TurnIds /\ redo' \in Seq(SUBSET TurnIds)
    BY <1>9 DEF Redo, TypeOK
  <2>. QED
    BY <1>9, <2>1, <2>2 DEF Redo, TypeOK, worker, db
<1>10. CASE Respawn
  BY <1>10, NextIdProperties, LiveLastType, BilledTurnsType DEF Respawn, TypeOK, worker, db
<1>11. CASE TakeStarted
  <2>1. Head(q) \in Message /\ q' \in Seq(Message)
    BY <1>11 DEF TakeStarted, TypeOK
  <2>2. Head(q).turn \in TurnIds
    BY <2>1 DEF Message
  <2>3. Head(q).turn \in 0..(MaxTurnId + 1)
    BY <2>2, BoundsAssumption DEF TurnIds
  <2>. QED
    BY <1>11, <2>1, <2>3 DEF TakeStarted, TrackLiveStarted, TypeOK, worker, db
<1>12. CASE TakeSync
  <2>1. Head(q) \in Message /\ q' \in Seq(Message)
    BY <1>12 DEF TakeSync, TypeOK
  <2>. QED
    BY <1>12, <2>1 DEF TakeSync, TypeOK, Message, worker, db
<1>13. CASE RequestFinished
  <2>1. turns' \in History
    BY <1>13 DEF RequestFinished, TypeOK, Snapshot, History
  <2>2. MergeWrites \in SUBSET TurnIds
    BY DEF MergeWrites, Ids
  <2>3. nextTurn' \in 0..(MaxTurnId + 1)
    BY <1>13, NextIdProperties DEF RequestFinished, TypeOK, Snapshot
  <2>. QED
    BY <1>13, <2>1, <2>2, <2>3 DEF RequestFinished, Leave, TypeOK, Snapshot, db
<1>14. CASE FlushRecord
  BY <1>14 DEF FlushRecord, WriteRecord, TypeOK, worker
<1>15. ASSUME NEW t \in TurnIds, FlushTurn(t) PROVE TypeOK'
  <2>1. dbTurns' \in History
    BY <1>15 DEF FlushTurn, TypeOK, History
  <2>2. todo' \in [rec: BOOLEAN, ids: SUBSET TurnIds]
    BY <1>15 DEF FlushTurn, TypeOK
  <2>. QED
    BY <1>15, <2>1, <2>2 DEF FlushTurn, TypeOK, worker
<1>16. CASE PersistAndExit
  <2>1. dbChain' \in Chain /\ dbModel' \in Models
    BY <1>16 DEF PersistAndExit, WriteRecord, TypeOK
  <2>2. redo' \in Seq(SUBSET TurnIds)
    BY <1>16 DEF PersistAndExit, MemoryGone
  <2>. QED
    BY <1>16, <2>1, <2>2, BoundsAssumption DEF PersistAndExit, MemoryGone, TypeOK, worker
<1>17. CASE BudgetExceeded
  BY <1>17 DEF BudgetExceeded, End, TypeOK, main, db
<1>18. CASE CancelAtTop
  BY <1>18 DEF CancelAtTop, End, TypeOK, main, db
<1>19. CASE StartTurn
  <2>1. wnext \in TurnIds /\ wnext + 1 \in 0..(MaxTurnId + 1)
    BY <1>19, BoundsAssumption, SMTT(30) DEF StartTurn, TypeOK, TurnIds
  <2> DEFINE X == [user |-> wtext, undone |-> FALSE, body |-> "open", usage |-> FALSE]
  <2>2. X \in Turn
    BY DEF TypeOK, Turn, Bodies
  <2>3. w' \in Snapshot
    BY <1>19, <2>1, <2>2, CloneWithTurn DEF StartTurn, TypeOK
  <2>4. q' \in Seq(Message)
    BY <1>19, <2>1 DEF StartTurn, TypeOK, Message
  <2>. QED
    BY <1>19, <2>1, <2>3, <2>4 DEF StartTurn, TypeOK, main, db
<1>d. ASSUME NEW s \in Snapshot, SendSync(s) PROVE q' \in Seq(Message)
  BY <1>d DEF SendSync, TypeOK, Message, Snapshot
<1>e. ASSUME NEW s \in Snapshot, NEW c \in Chain PROVE [s EXCEPT !.chain = c] \in Snapshot
  BY DEF Snapshot
<1>f. \A b \in {"final", "calls", "tools", "notice", "error"} : b \in Bodies
  BY DEF Bodies
<1>20. ASSUME NEW usage \in Usages, NEW rid \in ResponseIds, FinalText(usage, rid) PROVE TypeOK'
  <2> DEFINE s == [Answered("final", usage) EXCEPT !.chain = StoredChain(rid)]
  <2>1. s \in Snapshot
    BY <1>e, <1>f, AnsweredType, ChainTypes, InputsAssumption
  <2>2. w' \in Snapshot /\ dbTurns' \in History /\ q' \in Seq(Message)
    BY <1>20, <2>1, <1>b, <1>d, PersistTurnType DEF FinalText
  <2>. QED
    BY <1>20, <2>2 DEF FinalText, PersistTurn, End, TypeOK, main
<1>21. ASSUME NEW usage \in Usages, NEW rid \in ResponseIds, ToolUse(usage, rid) PROVE TypeOK'
  <2> DEFINE s == [Answered("calls", usage) EXCEPT !.chain = StoredChain(rid)]
  <2>1. s \in Snapshot
    BY <1>e, <1>f, AnsweredType, ChainTypes, InputsAssumption
  <2>2. w' \in Snapshot /\ q' \in Seq(Message) /\ wprev' \in Chain
    BY <1>21, <2>1, <1>d, ChainTypes, InputsAssumption DEF ToolUse
  <2>. QED
    BY <1>21, <2>2 DEF ToolUse, TypeOK, main, db
<1>g. ASSUME NEW b \in {"tools", "notice", "error"}
      PROVE  [w EXCEPT !.turns[wcur].body = b] \in Snapshot
  BY <1>f, TurnWithBody DEF TypeOK
<1>22. CASE ToolsDone
  <2>1. w' \in Snapshot /\ dbTurns' \in History
    BY <1>22, <1>b, <1>g, PersistTurnType DEF ToolsDone
  <2>. QED
    BY <1>22, <2>1 DEF ToolsDone, PersistTurn, NextIteration, TypeOK, main
<1>23. CASE ToolsCancelled
  <2>1. w' \in Snapshot /\ dbTurns' \in History
    BY <1>23, <1>b, <1>g, PersistTurnType DEF ToolsCancelled
  <2>. QED
    BY <1>23, <2>1 DEF ToolsCancelled, PersistTurn, End, TypeOK, main
<1>24. CASE Truncated
  <2> DEFINE s == [w EXCEPT !.turns[wcur].body = "notice"]
  <2>1. s \in Snapshot /\ [s EXCEPT !.chain = NoChain] \in Snapshot
    BY <1>e, <1>g
  <2>2. w' \in Snapshot /\ dbTurns' \in History
    BY <1>24, <2>1, <1>b, PersistTurnType DEF Truncated
  <2>3. dbChain' \in Chain /\ dbModel' \in Models
    BY <1>24 DEF Truncated, PersistTurn, TypeOK
  <2>4. wprev' \in Chain /\ wtrunc' \in Nat
    BY <1>24 DEF Truncated, TypeOK
  <2>5. wtext' \in BOOLEAN /\ witer' \in Nat /\ wpc' \in {"top", "ended"}
    <3>1. CASE wtext' = TRUE /\ NextIteration /\ wpc' = "top"
      BY <3>1 DEF NextIteration, TypeOK
    <3>2. CASE End /\ UNCHANGED <<wtext, witer>>
      BY <3>2 DEF End, TypeOK
    <3>. QED
      BY <1>24, <3>1, <3>2 DEF Truncated
  <2>. QED
    BY <1>24, <2>2, <2>3, <2>4, <2>5 DEF Truncated, TypeOK, main
<1>25. CASE ProviderError
  <2>1. w' \in Snapshot /\ dbTurns' \in History
    BY <1>25, <1>b, <1>g, PersistTurnType DEF ProviderError
  <2>. QED
    BY <1>25, <2>1 DEF ProviderError, PersistTurn, End, TypeOK, main
<1>26. CASE ProviderCancelled
  BY <1>26 DEF ProviderCancelled, End, TypeOK, main, db
<1>27. CASE Panic
  BY <1>27 DEF Panic, End, TypeOK, main, db
<1>28. CASE Crash
  <2>1. redo' \in Seq(SUBSET TurnIds) /\ q' \in Seq(Message)
    BY <1>28 DEF Crash, MemoryGone, WorkerGone
  <2>. QED
    BY <1>28, <2>1, BoundsAssumption DEF Crash, MemoryGone, WorkerGone, TypeOK, db
<1>29. CASE UNCHANGED vars
  BY <1>29 DEF vars, main, worker, db, TypeOK
<1>. QED
  BY <1>1, <1>2, <1>3, <1>4, <1>5, <1>6, <1>7, <1>8, <1>9, <1>10, <1>11, <1>12, <1>13,
     <1>14, <1>15, <1>16, <1>17, <1>18, <1>19, <1>20, <1>21, <1>22, <1>23, <1>24,
     <1>25, <1>26, <1>27, <1>28, <1>29
     DEF Next, ClientStep, SessionStep, WorkerStep

\* Every reachable state of the session, its worker and its rows is well
\* typed, whatever faults occur.
THEOREM TypeCorrect == Spec => []TypeOK
BY TypeInit, TypeStep, PTL DEF Spec

-----------------------------------------------------------------------------
(***************************************************************************)
(* Crash safety.  With row writes that succeed and workers that do not     *)
(* panic, but a daemon that may die between any two writes, the rows, the  *)
(* session thread's history and the worker's clone stay related as follows.*)
(***************************************************************************)
CrashOnly == {"panic", "writefail"} \cap Envelope = {}

\* No turn the chain's stored conversation holds is hidden in history T.
Clean(T, c) == \A t \in c.seen : t \in Ids(T) => ~T[t].undone

\* Who is running: a worker exactly while a request is active, and only while
\* the command loop runs; a pending turn write belongs to no active request.
ThreadInv ==
  /\ active <=> wpc # "idle"
  /\ phase # "run" => ~active
  /\ phase = "down" => todo = NoWrites
  /\ todo.ids # {} => ~active
  /\ ~active => w.saved = {}

\* The chains in memory and on disk hold no hidden turn.
ChainInv ==
  /\ phase # "down" => Clean(turns, chain)
  /\ active => Clean(w.turns, w.chain) /\ Clean(w.turns, wprev)
  /\ Clean(dbTurns, dbChain)

\* Between runs a row that is not about to be written equals its turn; a row
\* about to be written differs at most in the undone flag, and is not hidden
\* while the record still waits.
RowInv ==
  phase # "down" =>
    /\ ~todo.rec => dbChain = chain /\ dbModel = model
    /\ ~active => \A t \in TurnIds \ todo.ids : dbTurns[t] = turns[t]
    /\ \A t \in todo.ids : t \in Ids(dbTurns) =>
         /\ Content(dbTurns[t]) = Content(turns[t])
         /\ todo.rec => ~dbTurns[t].undone

\* The turn the worker has begun and not yet committed.
InFlight(t) == t = wcur /\ wpc # "top" /\ t \notin w.saved

\* During a run the clone agrees with the session thread on every turn it
\* started from; of the others, all but the one in flight are on disk.
CloneInv ==
  active =>
    /\ \A t \in TurnIds : t \in Ids(turns) \/ t \notin Ids(w.turns) =>
         w.turns[t] = turns[t] /\ dbTurns[t] = turns[t] /\ t \notin w.saved
    /\ \A t \in Ids(w.turns) \ Ids(turns) :
         /\ ~w.turns[t].undone
         /\ \/ t \in w.saved /\ dbTurns[t] = w.turns[t]
            \/ InFlight(t) /\ t \notin Ids(dbTurns)
    /\ \A t \in Ids(w.turns) : t < wnext
    /\ wpc \in {"call", "tools"} =>
         wcur \in Ids(w.turns) \ Ids(turns) /\ wcur \notin w.saved

CrashInv == TypeOK /\ ThreadInv /\ ChainInv /\ RowInv /\ CloneInv

\* A worker step that commits the current turn as X: one transaction writes
\* the row and the id is recorded as saved.
Commits(X) ==
  /\ wpc \in {"call", "tools"} /\ wpc' \in {"top", "ended"}
  /\ X.undone = FALSE /\ X.body # "none"
  /\ w'.turns = [w.turns EXCEPT ![wcur] = X] /\ w'.saved = w.saved \cup {wcur}
  /\ dbTurns' = [dbTurns EXCEPT ![wcur] = X]
  /\ UNCHANGED <<main, winit, wnext, wcur, dbChain, dbModel>>

\* The initial state satisfies the invariant.
LEMMA CrashInit == Init => CrashInv
<1> SUFFICES ASSUME Init PROVE CrashInv
  OBVIOUS
<1>1. TypeOK
  BY TypeInit
<1>2. ThreadInv
  BY DEF Init, ThreadInv, NoWrites, EmptySnapshot
<1>3. Clean(EmptyHistory, NoChain)
  BY DEF Clean, NoChain
<1>4. ChainInv
  BY <1>3 DEF Init, ChainInv
<1>5. RowInv
  BY DEF Init, RowInv, NoWrites
<1>6. CloneInv
  BY DEF Init, CloneInv
<1>. QED
  BY <1>1, <1>2, <1>4, <1>5, <1>6 DEF CrashInv

\* Committing the turn in flight keeps rows, clone and chains related.
LEMMA CommitKeeps ==
  ASSUME CrashInv, NEW X, Commits(X),
         Clean(w.turns, w'.chain), Clean(w.turns, wprev')
  PROVE  ThreadInv' /\ ChainInv' /\ RowInv' /\ CloneInv'
<1>. USE DEF CrashInv
<1>1. /\ active /\ phase = "run" /\ todo.ids = {} /\ wcur \in TurnIds
      /\ wcur \in Ids(w.turns) \ Ids(turns) /\ wcur \notin w.saved
      /\ wcur \notin Ids(dbTurns) /\ ~w.turns[wcur].undone
  BY DEF Commits, ThreadInv, TypeOK, CloneInv
<1>2. Ids(w'.turns) = Ids(w.turns)
  BY <1>1 DEF Commits, Ids, TypeOK, Snapshot, History
<1>3. \A t \in TurnIds : /\ w'.turns[t] = IF t = wcur THEN X ELSE w.turns[t]
                         /\ dbTurns'[t] = IF t = wcur THEN X ELSE dbTurns[t]
  BY <1>1 DEF Commits, TypeOK, Snapshot, History
<1>4. ThreadInv'
  BY <1>1 DEF Commits, ThreadInv, main
<1>5. ChainInv'
  <2>2. Clean(dbTurns', dbChain')
    BY <1>3 DEF Clean, Commits, Ids, ChainInv
  <2>3. Clean(w'.turns, w'.chain) /\ Clean(w'.turns, wprev')
    BY <1>2, <1>3 DEF Clean, Commits, Ids
  <2>. QED
    BY <2>2, <2>3 DEF ChainInv, Commits, main
<1>6. RowInv'
  BY <1>1, <1>3 DEF RowInv, Commits, main
<1>7. CloneInv'
  <2>1. \A t \in TurnIds : t \in Ids(turns) \/ t \notin Ids(w'.turns) =>
          w'.turns[t] = turns[t] /\ dbTurns'[t] = turns[t] /\ t \notin w'.saved
    BY <1>1, <1>2, <1>3 DEF CloneInv, Commits
  <2>2. ASSUME NEW t \in Ids(w'.turns) \ Ids(turns)
        PROVE  ~w'.turns[t].undone /\ t \in w'.saved /\ dbTurns'[t] = w'.turns[t]
    <3>1. CASE t = wcur
      BY <1>1, <1>3, <3>1 DEF Commits
    <3>2. CASE t # wcur
      BY <1>1, <1>2, <1>3, <3>2 DEF CloneInv, Commits, InFlight, Ids
    <3>. QED
      BY <3>1, <3>2
  <2>3. \A t \in Ids(w'.turns) : t < wnext'
    BY <1>1, <1>2 DEF CloneInv, Commits
  <2>. QED
    BY <2>1, <2>2, <2>3 DEF CloneInv, Commits, main
<1>. QED
  BY <1>4, <1>5, <1>6, <1>7

\* Steps that leave everything the invariant relates alone.
LEMMA QuietKeeps ==
  ASSUME CrashInv,
         UNCHANGED <<turns, active, chain, model, todo, phase, w, wprev, wnext, wcur, db>>,
         wpc = wpc' \/ (wpc \in {"top", "call"} /\ wpc' = "ended")
  PROVE  ThreadInv' /\ ChainInv' /\ RowInv' /\ CloneInv'
<1>. USE DEF CrashInv, db
<1>1. ThreadInv'
  BY DEF ThreadInv
<1>2. ChainInv'
  BY DEF ChainInv, ThreadInv
<1>3. RowInv'
  BY DEF RowInv
<1>4. CloneInv'
  BY DEF CloneInv, InFlight
<1>. QED
  BY <1>1, <1>2, <1>3, <1>4

\* An idle session's rows are the history.
LEMMA IdleRows ==
  ASSUME CrashInv, phase # "down", ~active, todo = NoWrites
  PROVE  dbTurns = turns /\ dbChain = chain /\ dbModel = model
<1>1. \A t \in TurnIds : dbTurns[t] = turns[t]
  BY DEF CrashInv, RowInv, NoWrites
<1>2. dbTurns = turns
  BY <1>1 DEF CrashInv, TypeOK, History
<1>. QED
  BY <1>2 DEF CrashInv, RowInv, NoWrites

\* A new run starts from rows, history and clone that agree.
LEMMA StartKeeps ==
  ASSUME CrashInv, NEW text, NEW win, Ready, ~active, StartWorker(text, win),
         UNCHANGED <<phase, turns, chain, model, todo, db>>
  PROVE  ThreadInv' /\ ChainInv' /\ RowInv' /\ CloneInv'
<1>1. dbTurns = turns /\ dbChain = chain /\ dbModel = model
  BY IdleRows DEF Ready
<1>2. w'.turns = turns /\ w'.saved = {} /\ w'.chain = chain
  BY DEF StartWorker, SnapshotOf
<1>3. ThreadInv'
  BY DEF CrashInv, ThreadInv, Ready, StartWorker, NoWrites
<1>4. ChainInv'
  <2>1. Clean(turns, chain) /\ Clean(turns, NoChain)
    BY DEF CrashInv, ChainInv, Ready, Clean, NoChain
  <2>. QED
    BY <1>1, <1>2, <2>1 DEF ChainInv, StartWorker, db
<1>5. RowInv'
  BY <1>1 DEF RowInv, Ready, NoWrites, StartWorker, db
<1>6. CloneInv'
  <2>1. \A t \in Ids(turns) : t < NextId(turns)
    BY NextIdProperties DEF CrashInv, TypeOK
  <2>. QED
    BY <1>1, <1>2, <2>1 DEF CloneInv, StartWorker, db
<1>. QED
  BY <1>3, <1>4, <1>5, <1>6

\* What the provider is shown holds no hidden turn.
LEMMA ContextClean ==
  ASSUME CrashInv, active
  PROVE  \A t \in Context(w.turns, wprev) : t \in Ids(w.turns) => ~w.turns[t].undone
BY DEF CrashInv, ChainInv, Clean, Context, UnansweredTail, Live

\* So neither does the chain a response leaves behind.
LEMMA ResponseClean ==
  ASSUME CrashInv, active, NEW rid \in BOOLEAN
  PROVE  Clean(w.turns, ResponseChain(rid)) /\ Clean(w.turns, StoredChain(rid))
<1>1. Clean(w.turns, ResponseChain(rid))
  BY ContextClean DEF ResponseChain, Clean, NoChain
<1>2. Clean(w.turns, w.chain)
  BY DEF CrashInv, ChainInv
<1>. QED
  BY <1>1, <1>2 DEF StoredChain

\* Without write failures a row write succeeds.
LEMMA WritesSucceed == CrashOnly => WriteOutcomes = {TRUE}
BY DEF CrashOnly, WriteOutcomes

\* Every step of a session whose writes succeed and whose workers do not
\* panic keeps the invariant, a crash included.
LEMMA CrashStep == CrashOnly /\ CrashInv /\ [Next]_vars => CrashInv'
<1> SUFFICES ASSUME CrashOnly, CrashInv, [Next]_vars
             PROVE  ThreadInv' /\ ChainInv' /\ RowInv' /\ CloneInv'
  BY TypeStep DEF CrashInv
<1> DEFINE Kept == ThreadInv' /\ ChainInv' /\ RowInv' /\ CloneInv'
<1>. USE WritesSucceed
<1>t. TypeOK
  BY DEF CrashInv
<1>w. \A ok \in WriteOutcomes : ok = TRUE
  OBVIOUS
<1>1. CASE RunInput
  BY <1>1, StartKeeps DEF RunInput
<1>2. ASSUME NEW text \in BOOLEAN, RunChildInput(text) PROVE Kept
  BY <1>2, StartKeeps DEF RunChildInput
<1>3. CASE Cancel
  BY <1>3, QuietKeeps DEF Cancel, main, worker
<1>4. CASE Shutdown
  <2>1. ThreadInv'
    BY <1>4 DEF Shutdown, worker, CrashInv, ThreadInv, Ready
  <2>2. ChainInv'
    BY <1>4 DEF Shutdown, worker, db, CrashInv, ChainInv, Ready
  <2>3. RowInv'
    BY <1>4 DEF Shutdown, worker, db, CrashInv, RowInv, Ready
  <2>4. CloneInv'
    BY <1>4 DEF Shutdown, worker, db, CrashInv, CloneInv, InFlight
  <2>. QED
    BY <2>1, <2>2, <2>3, <2>4
<1>5. ASSUME NEW c \in Clients, Attach(c) PROVE Kept
  BY <1>5, QuietKeeps DEF Attach, worker
<1>6. ASSUME NEW c \in Clients, Detach(c) PROVE Kept
  <2>1. ThreadInv'
    BY <1>6 DEF Detach, Leave, worker, CrashInv, ThreadInv, Ready
  <2>2. ChainInv'
    BY <1>6 DEF Detach, worker, db, CrashInv, ChainInv, Ready
  <2>3. RowInv'
    BY <1>6 DEF Detach, worker, db, CrashInv, RowInv, Ready
  <2>4. CloneInv'
    BY <1>6 DEF Detach, worker, db, CrashInv, CloneInv, InFlight
  <2>. QED
    BY <2>1, <2>2, <2>3, <2>4
<1>7. ASSUME NEW m \in Models, SetModel(m) PROVE Kept
  <2>1. ThreadInv'
    BY <1>7 DEF SetModel, worker, CrashInv, ThreadInv, Ready
  <2>2. ChainInv'
    BY <1>7 DEF SetModel, worker, db, CrashInv, ChainInv
  <2>3. RowInv'
    BY <1>7 DEF SetModel, worker, db, CrashInv, RowInv, Ready, NoWrites
  <2>4. CloneInv'
    BY <1>7 DEF SetModel, worker, db, CrashInv, CloneInv, InFlight
  <2>. QED
    BY <2>1, <2>2, <2>3, <2>4
<1>8. CASE Undo
  <2> DEFINE batch == UndoBatch(turns)
  <2>1. dbTurns = turns /\ dbChain = chain /\ dbModel = model
    BY <1>8, IdleRows DEF Undo, Ready
  <2>2. batch \subseteq Live(turns)
    BY DEF UndoBatch
  <2>3. \A t \in TurnIds : turns'[t] = IF t \in batch THEN [turns[t] EXCEPT !.undone = TRUE]
                                                      ELSE turns[t]
    BY <1>8 DEF Undo, Hide
  <2>4. ThreadInv'
    BY <1>8 DEF Undo, worker, CrashInv, ThreadInv, Ready
  <2>5. ChainInv'
    BY <1>8 DEF Undo, worker, db, CrashInv, ChainInv, Clean, NoChain
  <2>6. RowInv'
    <3>. HIDE DEF batch
    <3>1. \A t \in batch : /\ ~dbTurns[t].undone /\ t \in TurnIds
                           /\ dbTurns[t] \in Turn
      BY <2>1, <2>2, <1>t DEF Live, Ids, TypeOK, History
    <3>2. \A t \in batch : Content(dbTurns[t]) = Content(turns'[t])
      BY <2>1, <2>3, <3>1 DEF Turn, Content
    <3>3. /\ todo'.rec = (chain # NoChain) /\ todo'.ids = batch /\ chain' = NoChain
          /\ model' = model /\ dbTurns' = dbTurns /\ dbChain' = dbChain /\ dbModel' = dbModel
      BY <1>8 DEF Undo, batch, db
    <3>4. \A t \in TurnIds \ batch : dbTurns[t] = turns'[t]
      BY <2>1, <2>3
    <3>. QED
      BY <2>1, <3>1, <3>2, <3>3, <3>4 DEF RowInv
  <2>7. CloneInv'
    BY <1>8 DEF Undo, CloneInv
  <2>. QED
    BY <2>4, <2>5, <2>6, <2>7
<1>9. CASE Redo
  <2> DEFINE batch == Head(redo)
  <2>1. dbTurns = turns /\ dbChain = chain /\ dbModel = model
    BY <1>9, IdleRows DEF Redo, Ready
  <2>2. batch \subseteq TurnIds
    BY <1>9, <1>t DEF Redo, TypeOK
  <2>3. \A t \in TurnIds : turns'[t] = IF t \in batch THEN [turns[t] EXCEPT !.undone = FALSE]
                                                      ELSE turns[t]
    BY <1>9 DEF Redo, Show
  <2>4. ThreadInv'
    BY <1>9 DEF Redo, worker, CrashInv, ThreadInv, Ready
  <2>r. \A t \in TurnIds : turns[t] \in Turn
    BY <1>t DEF TypeOK, History
  <2>5. ChainInv'
    <3>. HIDE DEF batch
    <3>1. Clean(turns, chain) /\ Clean(dbTurns, dbChain)
      BY <1>9 DEF Redo, Ready, CrashInv, ChainInv
    <3>2. \A t \in TurnIds : /\ turns'[t].body = turns[t].body
                             /\ ~turns[t].undone => ~turns'[t].undone
      BY <2>3, <2>r DEF Turn
    <3>3. Ids(turns') = Ids(turns)
      BY <3>2 DEF Ids
    <3>4. Clean(turns', chain)
      <4> SUFFICES ASSUME NEW t \in chain.seen, t \in Ids(turns) PROVE ~turns'[t].undone
        BY <3>3 DEF Clean
      <4>. QED
        BY <3>1, <3>2 DEF Clean, Ids
    <3>. QED
      BY <1>9, <3>1, <3>4 DEF Redo, db, ChainInv
  <2>6. RowInv'
    <3>. HIDE DEF batch
    <3>1. \A t \in batch : Content(dbTurns[t]) = Content(turns'[t])
      BY <2>1, <2>2, <2>3, <2>r DEF Turn, Content
    <3>2. /\ ~todo'.rec /\ todo'.ids = batch /\ chain' = chain
          /\ model' = model /\ dbTurns' = dbTurns /\ dbChain' = dbChain /\ dbModel' = dbModel
      BY <1>9 DEF Redo, batch, db
    <3>3. \A t \in TurnIds \ batch : dbTurns[t] = turns'[t]
      BY <2>1, <2>3
    <3>. QED
      BY <2>1, <3>1, <3>2, <3>3 DEF RowInv
  <2>7. CloneInv'
    BY <1>9 DEF Redo, CloneInv
  <2>. QED
    BY <2>4, <2>5, <2>6, <2>7
<1>10. CASE Respawn
  <2>1. ~active /\ todo = NoWrites
    BY <1>10 DEF Respawn, CrashInv, ThreadInv
  <2>2. ThreadInv'
    BY <1>10, <2>1 DEF Respawn, worker, CrashInv, ThreadInv
  <2>3. ChainInv'
    BY <1>10, <2>1 DEF Respawn, db, CrashInv, ChainInv
  <2>4. RowInv'
    BY <1>10, <2>1 DEF Respawn, db, RowInv, NoWrites
  <2>5. CloneInv'
    BY <1>10, <2>1 DEF Respawn, CloneInv
  <2>. QED
    BY <2>2, <2>3, <2>4, <2>5
<1>11. CASE TakeStarted
  BY <1>11, QuietKeeps DEF TakeStarted, worker
<1>12. CASE TakeSync
  BY <1>12, QuietKeeps DEF TakeSync, worker
<1>13. CASE RequestFinished
  <2>1. /\ active /\ todo = NoWrites /\ phase = "run" /\ w.turns \in History
        /\ \A t \in TurnIds : turns'[t] = IF t \in Ids(w.turns) THEN w.turns[t] ELSE turns[t]
    BY <1>13, <1>t DEF RequestFinished, Ready, TypeOK, Snapshot
  <2>2. todo' = [rec |-> TRUE, ids |-> MergeWrites] /\ active' = FALSE /\ wpc' = "idle"
    BY <1>13 DEF RequestFinished
  <2>3. phase' # "down" /\ w'.saved = {} /\ chain' = w.chain
    BY <1>13 DEF RequestFinished, Leave, EmptySnapshot
  <2>4. ThreadInv'
    BY <2>2, <2>3 DEF ThreadInv
  <2>5. ChainInv'
    <3>1. Clean(w.turns, w.chain) /\ Clean(dbTurns, dbChain)
      BY <2>1 DEF CrashInv, ChainInv
    <3>2. \A t \in Ids(turns') : t \in Ids(w.turns) /\ turns'[t] = w.turns[t]
      BY <2>1 DEF CrashInv, CloneInv, Ids
    <3>3. Clean(turns', w.chain)
      BY <3>1, <3>2 DEF Clean
    <3>. QED
      BY <1>13, <2>2, <2>3, <3>1, <3>3 DEF RequestFinished, db, ChainInv
  <2>6. RowInv'
    <3>1. ASSUME NEW t \in TurnIds \ MergeWrites PROVE dbTurns[t] = turns'[t]
      <4>1. CASE t \in Ids(turns) \/ t \notin Ids(w.turns)
        BY <2>1, <4>1 DEF CrashInv, CloneInv
      <4>2. CASE t \in Ids(w.turns) \ Ids(turns)
        <5>1. turns[t] # w.turns[t]
          BY <4>2 DEF Ids
        <5>2. t \in w.saved
          BY <3>1, <4>2, <5>1 DEF MergeWrites
        <5>. QED
          BY <2>1, <4>2, <5>2 DEF CrashInv, CloneInv, InFlight
      <4>. QED
        BY <4>1, <4>2
    <3>2. ASSUME NEW t \in MergeWrites PROVE t \notin Ids(dbTurns)
      BY <2>1, <3>2 DEF CrashInv, CloneInv, MergeWrites, Ids
    <3>. QED
      BY <1>13, <2>2, <3>1, <3>2 DEF RequestFinished, db, RowInv
  <2>7. CloneInv'
    BY <2>2 DEF CloneInv
  <2>. QED
    BY <2>4, <2>5, <2>6, <2>7
<1>14. CASE FlushRecord
  <2>1. dbChain' = chain /\ dbModel' = model /\ todo' = [todo EXCEPT !.rec = FALSE]
    <3>1. PICK ok \in WriteOutcomes : WriteRecord(ok)
      BY <1>14 DEF FlushRecord
    <3>2. ok = TRUE
      BY <1>w
    <3>. QED
      BY <1>14, <3>1, <3>2 DEF FlushRecord, WriteRecord
  <2>2. todo'.rec = FALSE /\ todo'.ids = todo.ids
    BY <2>1, <1>t DEF TypeOK
  <2>3. ThreadInv'
    BY <1>14, <2>2 DEF FlushRecord, worker, CrashInv, ThreadInv
  <2>4. ChainInv'
    <3>1. Clean(turns, chain)
      BY <1>14 DEF FlushRecord, CrashInv, ChainInv
    <3>2. ASSUME NEW t \in Ids(dbTurns)
          PROVE  (t \in Ids(turns) /\ dbTurns[t] = turns[t]) \/ ~dbTurns[t].undone
      <4>1. CASE ~active
        BY <1>14, <3>2, <4>1 DEF FlushRecord, CrashInv, RowInv, Ids
      <4>2. CASE active
        BY <3>2, <4>2 DEF CrashInv, CloneInv, Ids
      <4>. QED
        BY <4>1, <4>2
    <3>3. Clean(dbTurns, chain)
      BY <3>1, <3>2 DEF Clean
    <3>. QED
      BY <1>14, <2>1, <3>1, <3>3 DEF FlushRecord, worker, CrashInv, ChainInv
  <2>5. RowInv'
    BY <1>14, <2>1, <2>2 DEF FlushRecord, CrashInv, RowInv
  <2>6. CloneInv'
    BY <1>14 DEF FlushRecord, worker, CrashInv, CloneInv, InFlight
  <2>. QED
    BY <2>3, <2>4, <2>5, <2>6
<1>15. ASSUME NEW u \in TurnIds, FlushTurn(u) PROVE Kept
  <2>1. /\ u \in todo.ids /\ ~todo.rec /\ ~active /\ phase # "down"
        /\ dbTurns' = [dbTurns EXCEPT ![u] = turns[u]]
    <3>1. PICK ok \in WriteOutcomes :
             dbTurns' = IF ok THEN [dbTurns EXCEPT ![u] = turns[u]] ELSE dbTurns
      BY <1>15 DEF FlushTurn
    <3>2. ok = TRUE
      BY <1>w
    <3>3. u \in todo.ids /\ ~todo.rec /\ ~active /\ phase # "down"
      BY <1>15 DEF FlushTurn, TurnMayBeWritten, CrashInv, ThreadInv
    <3>. QED
      BY <3>1, <3>2, <3>3
  <2>2. todo'.rec = FALSE /\ todo'.ids = todo.ids \ {u}
    BY <1>15, <2>1, <1>t DEF FlushTurn, TypeOK
  <2>3. \A t \in TurnIds : dbTurns'[t] = IF t = u THEN turns[u] ELSE dbTurns[t]
    BY <2>1, <1>t DEF TypeOK, History
  <2>4. ThreadInv'
    BY <1>15, <2>1, <2>2 DEF FlushTurn, worker, CrashInv, ThreadInv
  <2>5. ChainInv'
    <3>1. Clean(turns, chain) /\ Clean(dbTurns, chain) /\ dbChain = chain
      BY <2>1 DEF CrashInv, ChainInv, RowInv
    <3>2. Clean(dbTurns', chain)
      BY <2>3, <3>1 DEF Clean, Ids
    <3>. QED
      BY <1>15, <2>1, <3>1, <3>2 DEF FlushTurn, ChainInv
  <2>6. RowInv'
    BY <1>15, <2>1, <2>2, <2>3 DEF FlushTurn, CrashInv, RowInv, Ids
  <2>7. CloneInv'
    BY <1>15, <2>1 DEF FlushTurn, CloneInv
  <2>. QED
    BY <2>4, <2>5, <2>6, <2>7
<1>16. CASE PersistAndExit
  <2>1. ~active /\ phase # "down" /\ todo = NoWrites
    BY <1>16 DEF PersistAndExit, CrashInv, ThreadInv
  <2>2. dbTurns = turns /\ dbChain' = chain /\ dbTurns' = dbTurns
    BY <1>16, <2>1, IdleRows DEF PersistAndExit, WriteRecord
  <2>3. ThreadInv'
    BY <1>16, <2>1 DEF PersistAndExit, MemoryGone, worker, CrashInv, ThreadInv
  <2>4. ChainInv'
    BY <1>16, <2>1, <2>2 DEF PersistAndExit, MemoryGone, CrashInv, ChainInv
  <2>5. RowInv' /\ CloneInv'
    BY <1>16 DEF PersistAndExit, MemoryGone, RowInv, CloneInv
  <2>. QED
    BY <2>3, <2>4, <2>5
<1>17. CASE BudgetExceeded
  BY <1>17, QuietKeeps DEF BudgetExceeded, End, main
<1>18. CASE CancelAtTop
  BY <1>18, QuietKeeps DEF CancelAtTop, End, main
<1>19. CASE StartTurn
  <2> DEFINE X == [user |-> wtext, undone |-> FALSE, body |-> "open", usage |-> FALSE]
  <2>1. /\ active /\ wnext \in TurnIds /\ wcur' = wnext /\ wpc' = "call" /\ wpc # "idle"
        /\ wpc = "top" /\ wnext' = wnext + 1
    BY <1>19, <1>t DEF StartTurn, CrashInv, ThreadInv, TypeOK, TurnIds
  <2>2. wnext \notin Ids(w.turns) /\ wnext \in Nat /\ \A t \in Ids(w.turns) : t \in Nat /\ t < wnext
    BY <2>1 DEF CrashInv, CloneInv, Ids, TurnIds
  <2>3. /\ w'.turns = [w.turns EXCEPT ![wnext] = X] /\ w'.saved = w.saved
        /\ w'.chain = w.chain
    BY <1>19, <1>t DEF StartTurn, TypeOK, Snapshot
  <2>4. \A t \in TurnIds : w'.turns[t] = IF t = wnext THEN X ELSE w.turns[t]
    BY <2>1, <2>3, <1>t DEF TypeOK, Snapshot, History
  <2>5. Ids(w'.turns) = Ids(w.turns) \cup {wnext}
    BY <2>1, <2>4 DEF Ids
  <2>6. wnext \notin Ids(turns) /\ wnext \notin Ids(dbTurns) /\ wnext \notin w.saved
    BY <2>1, <2>2 DEF CrashInv, CloneInv, Ids
  <2>7. ThreadInv'
    BY <1>19, <2>1 DEF StartTurn, main, CrashInv, ThreadInv
  <2>8. ChainInv'
    <3>1. \A t \in Ids(w'.turns) : ~w'.turns[t].undone \/ (t \in Ids(w.turns) /\ w'.turns[t] = w.turns[t])
      BY <2>1, <2>4, <2>5 DEF Ids
    <3>2. Clean(w'.turns, w.chain) /\ Clean(w'.turns, wprev)
      BY <2>1, <3>1 DEF Clean, CrashInv, ChainInv
    <3>. QED
      BY <1>19, <2>3, <3>2 DEF StartTurn, main, db, CrashInv, ChainInv
  <2>9. RowInv'
    BY <1>19 DEF StartTurn, main, db, CrashInv, RowInv
  <2>10. CloneInv'
    <3>1. \A t \in TurnIds : t \in Ids(turns) \/ t \notin Ids(w'.turns) =>
            w'.turns[t] = turns[t] /\ dbTurns[t] = turns[t] /\ t \notin w'.saved
      BY <2>1, <2>3, <2>4, <2>5, <2>6 DEF CrashInv, CloneInv
    <3>2. ASSUME NEW t \in Ids(w'.turns) \ Ids(turns)
          PROVE  /\ ~w'.turns[t].undone
                 /\ \/ t \in w.saved /\ dbTurns[t] = w'.turns[t]
                    \/ t = wnext /\ t \notin Ids(dbTurns)
      BY <2>1, <2>4, <2>5, <2>6 DEF CrashInv, CloneInv, InFlight, Ids
    <3>3. \A t \in Ids(w'.turns) : t < wnext + 1
      BY <2>2, <2>5
    <3>4. UNCHANGED <<turns, dbTurns>>
      BY <1>19 DEF StartTurn, main, db
    <3>. QED
      BY <2>1, <2>3, <2>5, <2>6, <3>1, <3>2, <3>3, <3>4 DEF CloneInv, InFlight
  <2>. QED
    BY <2>7, <2>8, <2>9, <2>10
<1>c. ASSUME wpc \in {"call", "tools"}
      PROVE  /\ active /\ wcur \in TurnIds /\ ~w.turns[wcur].undone /\ w.turns[wcur] \in Turn
             /\ Clean(w.turns, w.chain) /\ Clean(w.turns, wprev) /\ Clean(w.turns, NoChain)
  <2>1. active /\ wcur \in TurnIds /\ w.turns[wcur] \in Turn
    BY <1>c, <1>t DEF CrashInv, ThreadInv, TypeOK, Snapshot, History
  <2>2. ~w.turns[wcur].undone
    BY <1>c, <2>1 DEF CrashInv, CloneInv
  <2>. QED
    BY <2>1, <2>2 DEF CrashInv, ChainInv, Clean, NoChain
<1>p. ASSUME NEW s \in Snapshot, \E ok \in WriteOutcomes : PersistTurn(s, ok)
      PROVE  /\ dbTurns' = [dbTurns EXCEPT ![wcur] = s.turns[wcur]]
             /\ w'.turns = s.turns /\ w'.saved = s.saved \cup {wcur} /\ w'.chain = s.chain
             /\ UNCHANGED <<dbChain, dbModel>>
  <2>1. PersistTurn(s, TRUE)
    BY <1>p, <1>w
  <2>. QED
    BY <2>1 DEF PersistTurn, Snapshot
\* The commits that keep the clone's chain and the run's previous response id.
<1>b. ASSUME NEW b \in {"tools", "notice", "error"}, wpc \in {"call", "tools"},
             \E ok \in WriteOutcomes : PersistTurn([w EXCEPT !.turns[wcur].body = b], ok),
             wpc' \in {"top", "ended"}, UNCHANGED <<main, winit, wnext, wcur, wprev>>
      PROVE  Kept
  <2> DEFINE s == [w EXCEPT !.turns[wcur].body = b]
             X == [w.turns[wcur] EXCEPT !.body = b]
  <2>1. X.undone = FALSE /\ X.body = b /\ X \in Turn
    BY <1>b, <1>c DEF Turn, Bodies
  <2>2. s \in Snapshot
    BY <1>t, <1>b, TurnWithBody DEF TypeOK, Bodies
  <2>3. s.turns = [w.turns EXCEPT ![wcur] = X] /\ s.saved = w.saved /\ s.chain = w.chain
    BY <1>t DEF TypeOK, Snapshot
  <2>4. s.turns[wcur] = X
    BY <2>3, <1>b, <1>c, <1>t DEF TypeOK, Snapshot, History
  <2>. HIDE DEF s, X
  <2>5. \E ok \in WriteOutcomes : PersistTurn(s, ok)
    BY <1>b DEF s
  <2>6. Commits(X) /\ w'.chain = w.chain
    BY <1>b, <1>p, <2>1, <2>2, <2>3, <2>4, <2>5 DEF Commits
  <2>. QED
    BY <1>b, <1>c, <2>6, CommitKeeps
<1>20. ASSUME NEW usage \in Usages, NEW rid \in ResponseIds, FinalText(usage, rid) PROVE Kept
  <2> DEFINE s == [Answered("final", usage) EXCEPT !.chain = StoredChain(rid)]
             X == [w.turns[wcur] EXCEPT !.body = "final", !.usage = usage]
  <2>0. usage \in BOOLEAN /\ rid \in BOOLEAN /\ wpc = "call"
    BY <1>20, InputsAssumption DEF FinalText
  <2>1. X.undone = FALSE /\ X.body = "final" /\ X \in Turn
    BY <1>c, <2>0 DEF Turn, Bodies
  <2>2. s \in Snapshot
    BY <1>t, <2>0, AnsweredType, ChainTypes DEF Snapshot, Bodies
  <2>3. s.turns = [w.turns EXCEPT ![wcur] = X] /\ s.saved = w.saved /\ s.chain = StoredChain(rid)
    BY <1>t DEF Answered, TypeOK, Snapshot
  <2>4. s.turns[wcur] = X
    BY <2>0, <2>3, <1>c, <1>t DEF TypeOK, Snapshot, History
  <2>5. \E ok \in WriteOutcomes : PersistTurn(s, ok)
    BY <1>20 DEF FinalText
  <2>6. UNCHANGED <<main, winit, wnext, wcur, wprev>> /\ wpc' = "ended"
    BY <1>20 DEF FinalText, End
  <2>. HIDE DEF s, X
  <2>7. Commits(X) /\ w'.chain = StoredChain(rid)
    BY <1>p, <2>0, <2>1, <2>2, <2>3, <2>4, <2>5, <2>6 DEF Commits
  <2>. QED
    BY <1>c, <2>0, <2>6, <2>7, CommitKeeps, ResponseClean
<1>21. ASSUME NEW usage \in Usages, NEW rid \in ResponseIds, ToolUse(usage, rid) PROVE Kept
  <2> DEFINE X == [w.turns[wcur] EXCEPT !.body = "calls", !.usage = usage]
  <2>0. usage \in BOOLEAN /\ rid \in BOOLEAN /\ wpc = "call" /\ wpc' = "tools"
    BY <1>21, InputsAssumption DEF ToolUse
  <2>1. X.undone = FALSE /\ X.body = "calls" /\ X \in Turn
    BY <1>c, <2>0 DEF Turn, Bodies
  <2>2. w'.turns = [w.turns EXCEPT ![wcur] = X] /\ w'.saved = w.saved /\ w'.chain = StoredChain(rid)
    BY <1>21, <1>t DEF ToolUse, Answered, TypeOK, Snapshot
  <2>. HIDE DEF X
  <2>3. \A t \in TurnIds : w'.turns[t] = IF t = wcur THEN X ELSE w.turns[t]
    BY <2>2, <1>t DEF TypeOK, Snapshot, History
  <2>4. /\ active /\ wcur \in Ids(w.turns) \ Ids(turns) /\ wcur \notin w.saved
        /\ wcur \notin Ids(dbTurns) /\ wcur \in TurnIds
    BY <1>c, <2>0 DEF CrashInv, CloneInv
  <2>5. Ids(w'.turns) = Ids(w.turns)
    BY <2>1, <2>3, <2>4 DEF Ids
  <2>6. UNCHANGED <<main, wcur, wnext, db>>
    BY <1>21 DEF ToolUse
  <2>7. ThreadInv'
    BY <2>0, <2>2, <2>4, <2>6 DEF main, CrashInv, ThreadInv
  <2>8. ChainInv'
    <3>1. Clean(w.turns, StoredChain(rid)) /\ Clean(w.turns, wprev')
      BY <1>21, <1>c, <2>0, ResponseClean DEF ToolUse
    <3>2. \A t \in Ids(w'.turns) : t \in Ids(w.turns) /\ (~w.turns[t].undone => ~w'.turns[t].undone)
      BY <2>1, <2>3, <2>5 DEF Ids
    <3>3. Clean(w'.turns, w'.chain) /\ Clean(w'.turns, wprev')
      BY <2>2, <3>1, <3>2 DEF Clean
    <3>. QED
      BY <2>6, <3>3 DEF main, db, CrashInv, ChainInv
  <2>9. RowInv'
    BY <2>6 DEF main, db, CrashInv, RowInv
  <2>10. CloneInv'
    <3>1. \A t \in TurnIds : t \in Ids(turns) \/ t \notin Ids(w'.turns) =>
            w'.turns[t] = turns[t] /\ dbTurns[t] = turns[t] /\ t \notin w'.saved
      BY <2>2, <2>3, <2>4, <2>5 DEF CrashInv, CloneInv
    <3>2. ASSUME NEW t \in Ids(w'.turns) \ Ids(turns)
          PROVE  /\ ~w'.turns[t].undone
                 /\ \/ t \in w.saved /\ dbTurns[t] = w'.turns[t]
                    \/ t = wcur /\ t \notin Ids(dbTurns)
      BY <2>1, <2>3, <2>4, <2>5 DEF CrashInv, CloneInv, InFlight, Ids
    <3>3. \A t \in Ids(w'.turns) : t < wnext
      BY <2>4, <2>5 DEF CrashInv, CloneInv
    <3>. QED
      BY <2>0, <2>2, <2>4, <2>5, <2>6, <3>1, <3>2, <3>3 DEF main, db, CloneInv, InFlight
  <2>. QED
    BY <2>7, <2>8, <2>9, <2>10
<1>22. CASE ToolsDone
  BY <1>22, <1>b DEF ToolsDone
<1>23. CASE ToolsCancelled
  BY <1>23, <1>b DEF ToolsCancelled, End
<1>24. CASE Truncated
  <2> DEFINE n == [w EXCEPT !.turns[wcur].body = "notice"]
             s == [n EXCEPT !.chain = NoChain]
             X == [w.turns[wcur] EXCEPT !.body = "notice"]
  <2>0. wpc = "call" /\ UNCHANGED <<main, winit, wnext, wcur>>
    BY <1>24 DEF Truncated
  <2>1. X.undone = FALSE /\ X.body = "notice" /\ X \in Turn
    BY <1>c, <2>0 DEF Turn, Bodies
  <2>2. n \in Snapshot /\ s \in Snapshot
    <3>1. n \in Snapshot
      BY <1>t, TurnWithBody DEF TypeOK, Bodies
    <3>. QED
      BY <3>1, InitialValues DEF Snapshot
  <2>3. s.turns = [w.turns EXCEPT ![wcur] = X] /\ s.saved = w.saved /\ s.chain = NoChain
    BY <1>t DEF TypeOK, Snapshot
  <2>4. s.turns[wcur] = X
    BY <2>3, <2>0, <1>c, <1>t DEF TypeOK, Snapshot, History
  <2>5. /\ PersistTurn(s, TRUE) /\ wprev' = NoChain
        /\ wpc' \in {"top", "ended"}
    BY <1>24, <1>w DEF Truncated, End
  <2>. HIDE DEF s, X
  <2>6. \E ok \in WriteOutcomes : PersistTurn(s, ok)
    BY <2>5
  <2>7. Commits(X) /\ w'.chain = NoChain
    BY <1>p, <2>0, <2>1, <2>2, <2>3, <2>4, <2>5, <2>6 DEF Commits
  <2>. QED
    BY <1>c, <2>0, <2>5, <2>7, CommitKeeps
<1>25. CASE ProviderError
  BY <1>25, <1>b DEF ProviderError, End
<1>26. CASE ProviderCancelled
  BY <1>26, QuietKeeps DEF ProviderCancelled, End, main
<1>27. CASE Panic
  BY <1>27 DEF Panic, CrashOnly
<1>28. CASE Crash
  <2>1. phase' = "down" /\ active' = FALSE /\ todo' = NoWrites /\ wpc' = "idle" /\ w'.saved = {}
    BY <1>28 DEF Crash, MemoryGone, WorkerGone, EmptySnapshot
  <2>2. ThreadInv'
    BY <2>1 DEF ThreadInv, NoWrites
  <2>3. ChainInv'
    BY <1>28, <2>1 DEF Crash, db, CrashInv, ChainInv
  <2>4. RowInv' /\ CloneInv'
    BY <2>1 DEF RowInv, CloneInv
  <2>. QED
    BY <2>2, <2>3, <2>4
<1>29. CASE UNCHANGED vars
  BY <1>29, QuietKeeps DEF vars, main, worker
<1>. QED
  BY <1>1, <1>2, <1>3, <1>4, <1>5, <1>6, <1>7, <1>8, <1>9, <1>10, <1>11, <1>12, <1>13,
     <1>14, <1>15, <1>16, <1>17, <1>18, <1>19, <1>20, <1>21, <1>22, <1>23, <1>24,
     <1>25, <1>26, <1>27, <1>28, <1>29
     DEF Next, ClientStep, SessionStep, WorkerStep

\* The rows, the history and the clone stay related in every reachable state.
THEOREM CrashInvariant ==
  ASSUME CrashOnly
  PROVE  Spec => []CrashInv
<1>1. Init => CrashInv
  BY CrashInit
<1>2. CrashInv /\ [Next]_vars => CrashInv'
  BY CrashStep
<1>. QED
  BY <1>1, <1>2, PTL DEF Spec

\* A provider call never reaches an undone turn, wherever the daemon may have
\* died before: the record is written before the hidden turns are.
THEOREM UndoneTurnsStayHidden ==
  ASSUME CrashOnly
  PROVE  Spec => []NoHiddenTurnInContext
<1>1. CrashInv => NoHiddenTurnInContext
  <2> SUFFICES ASSUME CrashInv, wpc = "call"
               PROVE  \A t \in Context(w.turns, wprev) : t \in Ids(w.turns) => ~w.turns[t].undone
    BY DEF NoHiddenTurnInContext
  <2>1. active
    BY DEF CrashInv, ThreadInv
  <2>. QED
    BY <2>1, ContextClean
<1>. QED
  BY <1>1, CrashInvariant, PTL

\* Whenever the session is idle its rows and record are its state.
THEOREM IdleSessionsAreDurable ==
  ASSUME CrashOnly
  PROVE  Spec => []IdleIsDurable
<1>1. CrashInv => IdleIsDurable
  BY IdleRows DEF IdleIsDurable, Idle
<1>. QED
  BY <1>1, CrashInvariant, PTL

\* A crash during a run loses at most the turn in flight.
THEOREM OneTurnAtRisk ==
  ASSUME CrashOnly
  PROVE  Spec => []CrashLosesOneTurn
<1>1. CrashInv => CrashLosesOneTurn
  <2> SUFFICES ASSUME CrashInv, wpc # "idle", NEW t \in Ids(w.turns)
               PROVE  dbTurns[t] = w.turns[t] \/ (t = wcur /\ wpc # "top")
    BY DEF CrashLosesOneTurn
  <2>1. active /\ t \in TurnIds
    BY DEF CrashInv, ThreadInv, Ids
  <2>. QED
    BY <2>1 DEF CrashInv, CloneInv, InFlight
<1>. QED
  BY <1>1, CrashInvariant, PTL

\* What a step may do to the rows: fill the free row of the turn in flight, or
\* move an undone flag.
LEMMA RowsKept ==
  CrashInv /\ [Next]_vars =>
    \A t \in Ids(dbTurns) : Content(dbTurns'[t]) = Content(dbTurns[t])
<1> SUFFICES ASSUME CrashInv, [Next]_vars, NEW t \in Ids(dbTurns)
             PROVE  Content(dbTurns'[t]) = Content(dbTurns[t])
  OBVIOUS
<1>t. TypeOK /\ t \in TurnIds
  BY DEF CrashInv, Ids
<1>1. ASSUME UNCHANGED dbTurns PROVE Content(dbTurns'[t]) = Content(dbTurns[t])
  BY <1>1
<1>2. ASSUME NEW s, NEW ok, PersistTurn(s, ok), wpc \in {"call", "tools"}
      PROVE  Content(dbTurns'[t]) = Content(dbTurns[t])
  <2>1. wcur \notin Ids(dbTurns)
    BY <1>2 DEF CrashInv, ThreadInv, CloneInv
  <2>2. dbTurns'[t] = dbTurns[t]
    BY <1>t, <1>2, <2>1 DEF PersistTurn, TypeOK, History
  <2>. QED
    BY <2>2
<1>3. ASSUME NEW u \in TurnIds, FlushTurn(u) PROVE Content(dbTurns'[t]) = Content(dbTurns[t])
  <2>1. dbTurns'[t] = dbTurns[t] \/ (t = u /\ dbTurns'[t] = turns[t])
    BY <1>t, <1>3 DEF FlushTurn, TypeOK, History
  <2>2. u \in todo.ids /\ phase # "down"
    BY <1>3 DEF FlushTurn
  <2>3. t = u => Content(dbTurns[t]) = Content(turns[t])
    BY <2>2 DEF CrashInv, RowInv
  <2>. QED
    BY <2>1, <2>3
<1>4. CASE ClientStep
  <2>1. UNCHANGED dbTurns
    BY <1>4 DEF ClientStep, RunInput, RunChildInput, Cancel, Shutdown, Attach, Detach,
       SetModel, Undo, Redo, Respawn, db
  <2>. QED
    BY <1>1, <2>1
<1>5. CASE SessionStep
  <2>1. CASE TakeStarted \/ TakeSync \/ RequestFinished \/ FlushRecord \/ PersistAndExit
    BY <1>1, <2>1 DEF TakeStarted, TakeSync, RequestFinished, FlushRecord, PersistAndExit, db
  <2>. QED
    BY <1>3, <1>5, <2>1 DEF SessionStep
<1>6. CASE WorkerStep
  <2>1. CASE BudgetExceeded \/ CancelAtTop \/ StartTurn \/ ProviderCancelled \/ Panic
    BY <1>1, <2>1 DEF BudgetExceeded, CancelAtTop, StartTurn, ProviderCancelled, Panic, db
  <2>2. ASSUME NEW usage, NEW rid, ToolUse(usage, rid)
        PROVE  Content(dbTurns'[t]) = Content(dbTurns[t])
    BY <1>1, <2>2 DEF ToolUse, db
  <2>3. ASSUME NEW usage, NEW rid, FinalText(usage, rid)
        PROVE  Content(dbTurns'[t]) = Content(dbTurns[t])
    BY <1>2, <2>3 DEF FinalText
  <2>4. CASE ToolsDone \/ ToolsCancelled \/ Truncated \/ ProviderError
    BY <1>2, <2>4 DEF ToolsDone, ToolsCancelled, Truncated, ProviderError
  <2>. QED
    BY <1>6, <2>1, <2>2, <2>3, <2>4 DEF WorkerStep
<1>7. CASE Crash \/ UNCHANGED vars
  BY <1>1, <1>7 DEF Crash, vars, db
<1>. QED
  BY <1>4, <1>5, <1>6, <1>7 DEF Next

\* A committed turn is durable: the row of a turn is never rewritten with other
\* content, by a later run, an undo, a merge or a restart.
THEOREM CommittedTurnsAreKept ==
  ASSUME CrashOnly
  PROVE  Spec => CommittedTurnKept
<1>1. CrashInv /\ [Next]_vars => [\A t \in Ids(dbTurns) :
          Content(dbTurns'[t]) = Content(dbTurns[t])]_vars
  BY RowsKept
<1>. QED
  BY <1>1, CrashInvariant, PTL DEF CommittedTurnKept, Spec

-----------------------------------------------------------------------------
(***************************************************************************)
(* Totals and the turn on display, under every fault: rows may fail, the   *)
(* worker may panic and the daemon may die.  What the session thread shows *)
(* depends on its history, the worker's clone and the commands between     *)
(* them, not on the rows.                                                  *)
(***************************************************************************)

\* The total and the readout are the ones history T gives.
Totals(T, b, l) == b = BilledTurns(T) /\ l = LiveLast(T)

\* A worker runs and sends commands only during a request, and the next id
\* handed out is the next one of the history.
RunPart ==
  /\ active <=> wpc # "idle"
  /\ active => phase = "run"
  /\ ~active => q = <<>>
  /\ phase # "down" => nextTurn = NextId(turns)

\* Between runs the thread's totals are those of its history; during a run
\* those of the clone, and of the snapshot a panic falls back to, are.
TotalPart ==
  /\ ~active /\ phase # "down" => Totals(turns, billed, last)
  /\ active => /\ winit.turns = turns /\ Totals(turns, winit.billed, winit.last)
               /\ Totals(w.turns, w.billed, w.last)
               /\ Ids(turns) \subseteq Ids(w.turns)
               /\ \A t \in Ids(w.turns) : t < wnext

\* The turn in flight is the clone's newest, visible, and not billed before
\* its response.
FlightPart ==
  /\ wpc \in {"call", "tools"} =>
       /\ wcur \in Ids(w.turns) /\ ~w.turns[wcur].undone
       /\ \A t \in Ids(w.turns) : t =< wcur
  /\ wpc = "call" => ~w.turns[wcur].usage

\* A usage report follows its turn's Started directly, in the queue or in what
\* the thread has taken from it; the queue ends with the turn in flight.
QueuePart ==
  /\ \A i \in 1..Len(q) : q[i].kind = "sync" =>
       IF i = 1 THEN liveTurn = q[1].turn
                ELSE q[i - 1].kind = "started" /\ q[i - 1].turn = q[i].turn
  /\ wpc = "top" /\ witer = 0 => q = <<>> /\ liveTurn = wnext
  /\ wpc = "call" => IF q = <<>> THEN liveTurn = wcur
                     ELSE q[Len(q)].kind = "started" /\ q[Len(q)].turn = wcur
  /\ wpc = "tools" => IF q = <<>> THEN liveTurn = wcur ELSE q[Len(q)].turn = wcur

ShownInv == TypeOK /\ RunPart /\ TotalPart /\ FlightPart /\ QueuePart

\* The newest member of a set is the one no other exceeds.
LEMMA NewestIs ==
  ASSUME NEW S \in SUBSET TurnIds, NEW m \in S, \A t \in S : t =< m
  PROVE  NewestOf(S) = m
<1>1. NewestOf(S) \in S /\ m =< NewestOf(S)
  BY NewestOfProperties
<1>2. NewestOf(S) =< m /\ NewestOf(S) \in TurnIds /\ m \in TurnIds
  BY <1>1
<1>. QED
  BY <1>1, <1>2, BoundsAssumption DEF TurnIds

\* Totals and next id depend on which turns exist, are hidden and are billed.
LEMMA SameTotals ==
  ASSUME NEW T \in History, NEW U \in History, Ids(U) = Ids(T),
         \A t \in Ids(T) : U[t].usage = T[t].usage
  PROVE  /\ BilledTurns(U) = BilledTurns(T) /\ NextId(U) = NextId(T)
         /\ (\A t \in Ids(T) : U[t].undone = T[t].undone) => LiveLast(U) = LiveLast(T)
<1>1. {t \in Ids(U) : U[t].usage} = {t \in Ids(T) : T[t].usage}
  OBVIOUS
<1>2. ASSUME \A t \in Ids(T) : U[t].undone = T[t].undone
      PROVE  {t \in Live(U) : U[t].usage} = {t \in Live(T) : T[t].usage}
  BY <1>2 DEF Live
<1>3. BilledTurns(U) = BilledTurns(T)
  BY <1>1 DEF BilledTurns
<1>4. NextId(U) = NextId(T)
  BY DEF NextId
<1>5. ASSUME \A t \in Ids(T) : U[t].undone = T[t].undone
      PROVE  LiveLast(U) = LiveLast(T)
  BY <1>2, <1>5 DEF LiveLast
<1>. QED
  BY <1>3, <1>4, <1>5

\* A response that reports usage for the newest turn adds one to the total and
\* moves the readout to that turn.
LEMMA OneMoreBilled ==
  ASSUME NEW T \in History, NEW U \in History, NEW c \in Ids(T), Ids(U) = Ids(T),
         \A t \in Ids(T) : t =< c, \A t \in Ids(T) \ {c} : U[t] = T[t],
         ~T[c].usage, U[c].usage, ~U[c].undone
  PROVE  BilledTurns(U) = BilledTurns(T) + 1 /\ LiveLast(U) = c
<1> DEFINE S == {t \in Ids(T) : T[t].usage}
           L == {t \in Live(U) : U[t].usage}
<1>1. c \notin S /\ {t \in Ids(U) : U[t].usage} = S \cup {c}
  OBVIOUS
<1>2. IsFiniteSet(S)
  <2>1. S \subseteq TurnIds
    BY DEF Ids
  <2>2. IsFiniteSet(TurnIds)
    BY FS_Interval, BoundsAssumption DEF TurnIds
  <2>. QED
    BY <2>1, <2>2, FS_Subset
<1>3. L \in SUBSET TurnIds /\ c \in L /\ \A t \in L : t =< c
  BY DEF Live, Ids
<1>. HIDE DEF S, L
<1>4. Cardinality(S \cup {c}) = Cardinality(S) + 1
  BY <1>1, <1>2, FS_AddElement
<1>5. NewestOf(L) = c
  BY <1>3, NewestIs
<1>. QED
  BY <1>1, <1>4, <1>5 DEF BilledTurns, LiveLast, S, L

\* A history that keeps every turn of another has no smaller next id.
LEMMA NextIdGrows ==
  ASSUME NEW T \in History, NEW U \in History, Ids(T) \subseteq Ids(U)
  PROVE  NextId(T) =< NextId(U)
<1>1. Ids(T) \in SUBSET TurnIds /\ Ids(U) \in SUBSET TurnIds
  BY DEF Ids
<1>2. /\ NewestOf(Ids(T)) \in TurnIds \cup {None} /\ NewestOf(Ids(U)) \in TurnIds \cup {None}
      /\ Ids(T) = {} => NewestOf(Ids(T)) = None
      /\ Ids(T) # {} => NewestOf(Ids(T)) \in Ids(T)
      /\ \A t \in Ids(U) : t =< NewestOf(Ids(U))
  BY <1>1, NewestOfProperties
<1>. QED
  BY <1>2, BoundsAssumption DEF NextId, TurnIds, None

\* Hiding or showing turns moves the undone flags only.
LEMMA FlagsOnly ==
  ASSUME NEW T \in History, NEW S
  PROVE  /\ Ids(Hide(T, S)) = Ids(T) /\ \A t \in Ids(T) : Hide(T, S)[t].usage = T[t].usage
         /\ Ids(Show(T, S)) = Ids(T) /\ \A t \in Ids(T) : Show(T, S)[t].usage = T[t].usage
<1>1. \A t \in TurnIds : T[t] \in Turn
  BY DEF History
<1>2. \A t \in TurnIds : /\ Hide(T, S)[t].body = T[t].body /\ Hide(T, S)[t].usage = T[t].usage
                         /\ Show(T, S)[t].body = T[t].body /\ Show(T, S)[t].usage = T[t].usage
  BY <1>1 DEF Hide, Show, Turn
<1>. QED
  BY <1>2 DEF Ids

\* The initial state satisfies the invariant.
LEMMA ShownInit == Init => ShownInv
<1> SUFFICES ASSUME Init PROVE ShownInv
  OBVIOUS
<1>1. TypeOK
  BY TypeInit
<1>2. Ids(EmptyHistory) = {} /\ Live(EmptyHistory) = {}
  BY DEF Ids, Live, EmptyHistory, NoTurn
<1>3. NewestOf({}) = None
  BY NewestOfProperties
<1>4. NextId(EmptyHistory) = 0 /\ LiveLast(EmptyHistory) = None
  <2>1. {t \in Live(EmptyHistory) : EmptyHistory[t].usage} = {}
    BY <1>2
  <2>. QED
    BY <1>2, <1>3, <2>1 DEF NextId, LiveLast, None
<1>5. BilledTurns(EmptyHistory) = 0
  <2>1. {t \in Ids(EmptyHistory) : EmptyHistory[t].usage} = {}
    BY <1>2
  <2>. QED
    BY <2>1, FS_EmptySet DEF BilledTurns
<1>6. RunPart /\ TotalPart
  BY <1>4, <1>5 DEF Init, RunPart, TotalPart, Totals
<1>7. FlightPart /\ QueuePart
  BY DEF Init, FlightPart, QueuePart
<1>. QED
  BY <1>1, <1>6, <1>7 DEF ShownInv

\* Steps that touch neither history, totals, worker nor its commands.
LEMMA ShownFrame ==
  ASSUME RunPart /\ TotalPart /\ FlightPart /\ QueuePart,
         UNCHANGED <<turns, nextTurn, active, liveTurn, billed, last, q, worker>>,
         phase' = phase \/ (~active /\ phase # "down" /\ phase' = "exit")
  PROVE  RunPart' /\ TotalPart' /\ FlightPart' /\ QueuePart'
<1>1. UNCHANGED <<wpc, w, winit, wnext, wcur, witer>>
  BY DEF worker
<1>2. RunPart'
  BY <1>1 DEF RunPart
<1>3. TotalPart'
  BY <1>1 DEF TotalPart
<1>4. FlightPart' /\ QueuePart'
  BY <1>1 DEF FlightPart, QueuePart
<1>. QED
  BY <1>2, <1>3, <1>4

\* The worker ends, with its clone or with the snapshot it started from.
LEMMA EndShown ==
  ASSUME ShownInv, wpc \in {"top", "call", "tools"}, wpc' = "ended", w' \in {w, winit},
         UNCHANGED <<main, q, winit, wnext>>
  PROVE  RunPart' /\ TotalPart' /\ FlightPart' /\ QueuePart'
<1>1. UNCHANGED <<phase, turns, nextTurn, active, liveTurn, billed, last>>
  BY DEF main
<1>2. RunPart'
  BY <1>1 DEF ShownInv, RunPart
<1>3. TotalPart'
  BY <1>1, <1>2 DEF ShownInv, RunPart, TotalPart
<1>4. FlightPart' /\ QueuePart'
  BY <1>1 DEF ShownInv, FlightPart, QueuePart
<1>. QED
  BY <1>2, <1>3, <1>4

\* The worker writes X for the turn in flight: with the totals as they were,
\* or billing the turn for the first time.
Updates(X) ==
  /\ wpc \in {"call", "tools"} /\ X \in Turn /\ X.body # "none" /\ ~X.undone
  /\ w'.turns = [w.turns EXCEPT ![wcur] = X]
  /\ \/ X.usage = w.turns[wcur].usage /\ w'.billed = w.billed /\ w'.last = w.last
     \/ X.usage /\ ~w.turns[wcur].usage /\ w'.billed = w.billed + 1 /\ w'.last = wcur
  /\ UNCHANGED <<main, winit, wnext, wcur>>

LEMMA UpdateTotals ==
  ASSUME ShownInv, w' \in Snapshot, NEW X, Updates(X)
  PROVE  /\ TotalPart' /\ Ids(w'.turns) = Ids(w.turns) /\ w'.turns[wcur] = X
         /\ wcur \in Ids(w.turns) /\ \A t \in Ids(w.turns) : t =< wcur
<1>1. /\ w.turns \in History /\ w'.turns \in History /\ wcur \in TurnIds
      /\ wcur \in Ids(w.turns) /\ ~w.turns[wcur].undone /\ active
      /\ \A t \in Ids(w.turns) : t =< wcur
  BY DEF ShownInv, TypeOK, Snapshot, FlightPart, Updates, RunPart
<1>2. \A t \in TurnIds : w'.turns[t] = IF t = wcur THEN X ELSE w.turns[t]
  BY <1>1 DEF Updates, History
<1>3. Ids(w'.turns) = Ids(w.turns)
  BY <1>1, <1>2 DEF Ids, Updates
<1>4. Totals(w'.turns, w'.billed, w'.last)
  <2>0. Totals(w.turns, w.billed, w.last)
    BY <1>1 DEF ShownInv, TotalPart
  <2>1. CASE X.usage = w.turns[wcur].usage /\ w'.billed = w.billed /\ w'.last = w.last
    <3>1. \A t \in Ids(w.turns) : /\ w'.turns[t].usage = w.turns[t].usage
                                  /\ w'.turns[t].undone = w.turns[t].undone
      <4> SUFFICES ASSUME NEW t \in Ids(w.turns)
                   PROVE  /\ w'.turns[t].usage = w.turns[t].usage
                          /\ w'.turns[t].undone = w.turns[t].undone
        OBVIOUS
      <4>0. t \in TurnIds
        BY DEF Ids
      <4>1. CASE t # wcur
        BY <1>2, <4>0, <4>1
      <4>2. CASE t = wcur
        <5>1. w.turns[wcur] \in Turn
          BY <1>1 DEF History
        <5>2. X.undone = FALSE /\ w.turns[wcur].undone = FALSE
          BY <1>1, <5>1, Zenon DEF Updates, Turn
        <5>. QED
          BY <1>2, <2>1, <4>0, <4>2, <5>2
      <4>. QED
        BY <4>1, <4>2
    <3>2. BilledTurns(w'.turns) = BilledTurns(w.turns) /\ LiveLast(w'.turns) = LiveLast(w.turns)
      BY <1>1, <1>3, <3>1, SameTotals
    <3>. QED
      BY <2>0, <2>1, <3>2 DEF Totals
  <2>2. CASE X.usage /\ ~w.turns[wcur].usage /\ w'.billed = w.billed + 1 /\ w'.last = wcur
    <3>1. /\ \A t \in Ids(w.turns) \ {wcur} : w'.turns[t] = w.turns[t]
          /\ w'.turns[wcur] = X
      BY <1>1, <1>2 DEF Ids
    <3>2. w'.turns[wcur].usage /\ ~w'.turns[wcur].undone /\ ~w.turns[wcur].usage
      BY <2>2, <3>1 DEF Updates
    <3>3. BilledTurns(w'.turns) = BilledTurns(w.turns) + 1 /\ LiveLast(w'.turns) = wcur
      BY <1>1, <1>3, <3>1, <3>2, OneMoreBilled
    <3>. QED
      BY <2>0, <2>2, <3>3 DEF Totals
  <2>. QED
    BY <2>1, <2>2 DEF Updates
<1>5. TotalPart'
  BY <1>1, <1>3, <1>4 DEF ShownInv, TotalPart, Updates, main
<1>. QED
  BY <1>1, <1>2, <1>3, <1>5

\* What an update of the turn in flight does to the rest, by where it leads.
LEMMA UpdateShown ==
  ASSUME ShownInv, w' \in Snapshot, NEW X, Updates(X), q' = q,
         wpc' = "ended" \/ (wpc' = "top" /\ witer' = witer + 1)
  PROVE  RunPart' /\ TotalPart' /\ FlightPart' /\ QueuePart'
<1>1. UNCHANGED <<phase, turns, nextTurn, active, liveTurn>> /\ wpc # "idle" /\ witer \in Nat
  BY DEF main, Updates, ShownInv, TypeOK
<1>2. RunPart' /\ FlightPart'
  BY <1>1 DEF ShownInv, RunPart, FlightPart
<1>3. QueuePart'
  BY <1>1 DEF ShownInv, QueuePart
<1>. QED
  BY <1>2, <1>3, UpdateTotals

\* A usage report is queued right behind the turn's Started.
LEMMA SyncShown ==
  ASSUME ShownInv, w' \in Snapshot, NEW X, Updates(X), NEW s \in Snapshot, SendSync(s), wpc = "call",
         wpc' \in {"ended", "tools"}
  PROVE  RunPart' /\ TotalPart' /\ FlightPart' /\ QueuePart'
<1> DEFINE m == [kind |-> "sync", turn |-> wcur, billed |-> s.billed, last |-> s.last]
<1>1. UNCHANGED <<phase, turns, nextTurn, active, liveTurn, wcur>>
  BY DEF main, Updates
<1>2. RunPart'
  BY <1>1 DEF ShownInv, RunPart
<1>3. FlightPart'
  BY <1>1, UpdateTotals DEF FlightPart, Updates
<1>4. /\ m \in Message /\ m.kind = "sync" /\ m.turn = wcur /\ q' = Append(q, m) /\ q \in Seq(Message)
  BY DEF SendSync, ShownInv, TypeOK, Message, Snapshot
<1>. HIDE DEF m
<1>5. /\ Len(q) \in Nat /\ Len(q') = Len(q) + 1 /\ q'[Len(q')] = m /\ q' # <<>>
      /\ \A i \in 1..Len(q) : q'[i] = q[i]
      /\ q = <<>> <=> Len(q) = 0
  BY <1>4
<1>6. ASSUME NEW i \in 1..Len(q'), q'[i].kind = "sync"
      PROVE  IF i = 1 THEN liveTurn' = q'[1].turn
                      ELSE q'[i - 1].kind = "started" /\ q'[i - 1].turn = q'[i].turn
  <2>1. CASE i \in 1..Len(q)
    BY <1>1, <1>5, <1>6, <2>1 DEF ShownInv, QueuePart
  <2>2. CASE i = Len(q) + 1 /\ i = 1
    BY <1>1, <1>4, <1>5, <2>2 DEF ShownInv, QueuePart
  <2>3. CASE i = Len(q) + 1 /\ i # 1
    <3>1. i - 1 \in 1..Len(q) /\ i - 1 = Len(q) /\ q # <<>>
      BY <1>5, <2>3
    <3>. QED
      BY <1>4, <1>5, <2>3, <3>1 DEF ShownInv, QueuePart
  <2>. QED
    BY <1>5, <2>1, <2>2, <2>3
<1>7. QueuePart'
  BY <1>1, <1>4, <1>5, <1>6 DEF QueuePart
<1>. QED
  BY <1>2, <1>3, <1>7, UpdateTotals

\* Every step keeps the invariant, whatever fails.
LEMMA ShownStep == ShownInv /\ [Next]_vars => ShownInv'
<1> DEFINE Goal == RunPart' /\ TotalPart' /\ FlightPart' /\ QueuePart'
<1> SUFFICES ASSUME ShownInv, [Next]_vars PROVE Goal
  BY TypeStep DEF ShownInv
<1>. HIDE DEF Goal
<1>t. TypeOK /\ TypeOK' /\ RunPart /\ TotalPart /\ FlightPart /\ QueuePart
  BY TypeStep DEF ShownInv
<1>0. /\ turns \in History /\ dbTurns \in History /\ w.turns \in History /\ w' \in Snapshot
      /\ w \in Snapshot /\ w.turns[wcur] \in Turn /\ wcur \in TurnIds /\ wnext \in Nat
  <2>1. w \in Snapshot /\ w' \in Snapshot /\ wcur \in TurnIds /\ wnext \in Nat
        /\ turns \in History /\ dbTurns \in History
    BY <1>t DEF TypeOK
  <2>2. w.turns \in History
    BY <2>1 DEF Snapshot
  <2>. QED
    BY <2>1, <2>2 DEF History
<1>1. ASSUME NEW text, NEW win, Ready, ~active, StartWorker(text, win),
             UNCHANGED <<phase, turns, nextTurn, billed, last, q>>
      PROVE  Goal
  <2>1. /\ w'.turns = turns /\ w'.billed = billed /\ w'.last = last /\ winit' = w'
        /\ wnext' = NextId(turns) /\ wpc' = "top" /\ active' = TRUE /\ liveTurn' = nextTurn
        /\ phase = "run"
    BY <1>1 DEF StartWorker, SnapshotOf, Ready
  <2>2. q = <<>> /\ nextTurn = NextId(turns) /\ Totals(turns, billed, last)
    BY <1>1, <1>t, <2>1 DEF RunPart, TotalPart
  <2>3. RunPart' /\ FlightPart'
    BY <1>1, <2>1, <2>2 DEF RunPart, FlightPart
  <2>4. TotalPart'
    <3>1. \A t \in Ids(turns) : t < NextId(turns)
      BY <1>0, NextIdProperties
    <3>. QED
      BY <1>1, <2>1, <2>2, <3>1 DEF TotalPart
  <2>5. QueuePart'
    BY <1>1, <2>1, <2>2 DEF QueuePart
  <2>. QED
    BY <2>3, <2>4, <2>5 DEF Goal
<1>2. CASE RunInput \/ \E text \in BOOLEAN : RunChildInput(text)
  BY <1>1, <1>2 DEF RunInput, RunChildInput
<1>3. CASE \/ Cancel \/ Shutdown \/ (\E c \in Clients : Attach(c) \/ Detach(c))
           \/ (\E m \in Models : SetModel(m)) \/ FlushRecord \/ (\E t \in TurnIds : FlushTurn(t))
           \/ UNCHANGED vars
  <2>1. UNCHANGED <<turns, nextTurn, active, liveTurn, billed, last, q, worker>>
    BY <1>3 DEF Cancel, Shutdown, Attach, Detach, SetModel, FlushRecord, FlushTurn, vars, main
  <2>2. phase' = phase \/ (~active /\ phase # "down" /\ phase' = "exit")
    BY <1>3 DEF Cancel, Shutdown, Attach, Detach, Leave, SetModel, FlushRecord, FlushTurn, vars, main, Ready
  <2>. QED
    BY <1>t, <2>1, <2>2, ShownFrame DEF Goal
<1>4. ASSUME ~active, phase = "run", Ids(turns') = Ids(turns), turns' \in History,
             \A t \in Ids(turns) : turns'[t].usage = turns[t].usage, last' = LiveLast(turns'),
             UNCHANGED <<phase, nextTurn, active, liveTurn, billed, q, worker>>
      PROVE  Goal
  <2>1. BilledTurns(turns') = BilledTurns(turns) /\ NextId(turns') = NextId(turns)
    BY <1>0, <1>4, SameTotals
  <2>2. wpc = "idle" /\ wpc' = "idle" /\ q = <<>> /\ billed = BilledTurns(turns)
        /\ nextTurn = NextId(turns)
    BY <1>t, <1>4 DEF RunPart, TotalPart, Totals, worker
  <2>3. RunPart' /\ FlightPart' /\ QueuePart'
    BY <1>4, <2>1, <2>2 DEF RunPart, FlightPart, QueuePart
  <2>4. TotalPart'
    BY <1>4, <2>1, <2>2 DEF TotalPart, Totals
  <2>. QED
    BY <2>3, <2>4 DEF Goal
<1>5. CASE Undo
  <2>1. turns' = Hide(turns, UndoBatch(turns)) /\ last' = LiveLast(turns') /\ ~active /\ phase = "run"
        /\ UNCHANGED <<phase, nextTurn, active, liveTurn, billed, q, worker>>
    BY <1>5 DEF Undo, Ready
  <2>. QED
    BY <1>0, <1>4, <2>1, FlagsOnly, HideShowType
<1>6. CASE Redo
  <2>1. turns' = Show(turns, Head(redo)) /\ last' = LiveLast(turns') /\ ~active /\ phase = "run"
        /\ UNCHANGED <<phase, nextTurn, active, liveTurn, billed, q, worker>>
    BY <1>6 DEF Redo, Ready
  <2>. QED
    BY <1>0, <1>4, <2>1, FlagsOnly, HideShowType
<1>7. CASE Respawn
  <2>1. /\ ~active /\ wpc = "idle" /\ q = <<>> /\ active' = active /\ q' = q /\ wpc' = wpc
        /\ turns' = dbTurns /\ nextTurn' = NextId(dbTurns) /\ phase' = "run"
        /\ billed' = BilledTurns(dbTurns) /\ last' = LiveLast(dbTurns)
    BY <1>7, <1>t DEF Respawn, RunPart, worker
  <2>. QED
    BY <2>1 DEF Goal, RunPart, TotalPart, Totals, FlightPart, QueuePart
<1>8. CASE PersistAndExit \/ Crash
  <2>1. /\ ~active' /\ phase' = "down" /\ q' = <<>> /\ wpc' = "idle"
    BY <1>8, <1>t DEF PersistAndExit, Crash, MemoryGone, WorkerGone, RunPart, worker
  <2>. QED
    BY <2>1 DEF Goal, RunPart, TotalPart, FlightPart, QueuePart
<1>q. ASSUME q # <<>>, q' = Tail(q)
      PROVE  /\ q \in Seq(Message) /\ Len(q) \in Nat /\ Len(q) > 0 /\ Len(q') = Len(q) - 1
             /\ Head(q) = q[1] /\ (q' = <<>> <=> Len(q) = 1)
             /\ \A i \in 1..Len(q') : q'[i] = q[i + 1] /\ i + 1 \in 1..Len(q)
  <2>1. q \in Seq(Message)
    BY <1>t DEF TypeOK
  <2>2. /\ Len(q) \in Nat /\ Len(q) > 0 /\ Len(q') = Len(q) - 1 /\ Head(q) = q[1]
        /\ q' \in Seq(Message)
    BY <1>q, <2>1
  <2>3. \A i \in 1..Len(q') : q'[i] = q[i + 1] /\ i + 1 \in 1..Len(q)
    <3>1. ASSUME NEW z \in Seq(Message), z # <<>>
          PROVE  \A i \in 1..Len(Tail(z)) : Tail(z)[i] = z[i + 1] /\ i + 1 \in 1..Len(z)
      BY <3>1
    <3>. QED
      BY <1>q, <2>1, <3>1
  <2>4. q' = <<>> <=> Len(q') = 0
    <3>1. ASSUME NEW z \in Seq(Message) PROVE z = <<>> <=> Len(z) = 0
      OBVIOUS
    <3>. QED
      BY <2>2, <3>1
  <2>. QED
    BY <2>1, <2>2, <2>3, <2>4
<1>9. CASE TakeStarted
  <2>1. /\ q # <<>> /\ q' = Tail(q) /\ Head(q).kind = "started"
        /\ liveTurn' = IF active THEN Head(q).turn ELSE liveTurn
        /\ UNCHANGED <<phase, turns, nextTurn, active, billed, last, worker>>
    BY <1>9 DEF TakeStarted, TrackLiveStarted
  <2>2. active /\ UNCHANGED <<wpc, w, winit, wnext, wcur, witer>>
    BY <1>t, <2>1 DEF RunPart, worker
  <2>3. RunPart' /\ TotalPart' /\ FlightPart'
    BY <1>t, <2>1, <2>2 DEF RunPart, TotalPart, FlightPart
  <2>4. liveTurn' = q[1].turn /\ q[1].kind = "started"
    BY <1>q, <2>1, <2>2
  <2>5. QueuePart'
    <3>1. ASSUME NEW i \in 1..Len(q'), q'[i].kind = "sync"
          PROVE  IF i = 1 THEN liveTurn' = q'[1].turn
                          ELSE q'[i - 1].kind = "started" /\ q'[i - 1].turn = q'[i].turn
      <4>1. q'[i] = q[i + 1] /\ i + 1 \in 1..Len(q) /\ q[i].kind = "started" /\ q[i].turn = q[i + 1].turn
        BY <1>q, <1>t, <2>1, <3>1 DEF QueuePart
      <4>2. CASE i = 1
        BY <2>4, <4>1, <4>2
      <4>3. CASE i # 1
        <5>1. i - 1 \in 1..Len(q') /\ i \in Nat
          BY <1>q, <2>1, <4>3
        <5>2. q'[i - 1] = q[i]
          BY <1>q, <2>1, <5>1
        <5>. QED
          BY <4>1, <4>3, <5>2
      <4>. QED
        BY <4>2, <4>3
    <3>2. q # <<>> /\ ~(wpc = "top" /\ witer = 0)
      BY <1>t, <2>1 DEF QueuePart
    <3>3. q' # <<>> => q'[Len(q')] = q[Len(q)]
      BY <1>q, <2>1
    <3>4. q' = <<>> => q[1] = q[Len(q)]
      BY <1>q, <2>1
    <3>5. \A i \in 1..Len(q') : q'[i].kind = "sync" =>
            IF i = 1 THEN liveTurn' = q'[1].turn
                     ELSE q'[i - 1].kind = "started" /\ q'[i - 1].turn = q'[i].turn
      BY <3>1
    <3>. QED
      BY <1>t, <2>2, <2>4, <3>2, <3>3, <3>4, <3>5 DEF QueuePart
  <2>. QED
    BY <2>3, <2>5 DEF Goal
<1>10. CASE TakeSync
  <2>1. /\ q # <<>> /\ q' = Tail(q) /\ Head(q).kind = "sync"
        /\ UNCHANGED <<phase, turns, nextTurn, active, liveTurn, worker>>
    BY <1>10 DEF TakeSync
  <2>2. active /\ UNCHANGED <<wpc, w, winit, wnext, wcur, witer>>
    BY <1>t, <2>1 DEF RunPart, worker
  <2>3. RunPart' /\ TotalPart' /\ FlightPart'
    BY <1>t, <2>1, <2>2 DEF RunPart, TotalPart, FlightPart
  <2>4. liveTurn = q[1].turn /\ q[1].kind = "sync"
    BY <1>q, <1>t, <2>1 DEF QueuePart
  <2>5. QueuePart'
    <3>1. ASSUME NEW i \in 1..Len(q'), q'[i].kind = "sync"
          PROVE  IF i = 1 THEN liveTurn' = q'[1].turn
                          ELSE q'[i - 1].kind = "started" /\ q'[i - 1].turn = q'[i].turn
      <4>1. q'[i] = q[i + 1] /\ i + 1 \in 1..Len(q) /\ q[i].kind = "started" /\ q[i].turn = q[i + 1].turn
        BY <1>q, <1>t, <2>1, <3>1 DEF QueuePart
      <4>2. i # 1
        BY <2>4, <4>1
      <4>3. i - 1 \in 1..Len(q') /\ i \in Nat
        BY <1>q, <2>1, <4>2
      <4>4. q'[i - 1] = q[i]
        BY <1>q, <2>1, <4>3
      <4>. QED
        BY <4>1, <4>2, <4>4
    <3>2. q # <<>> /\ ~(wpc = "top" /\ witer = 0)
      BY <1>t, <2>1 DEF QueuePart
    <3>3. q' # <<>> => q'[Len(q')] = q[Len(q)]
      BY <1>q, <2>1
    <3>4. q' = <<>> => q[1] = q[Len(q)]
      BY <1>q, <2>1
    <3>5. \A i \in 1..Len(q') : q'[i].kind = "sync" =>
            IF i = 1 THEN liveTurn' = q'[1].turn
                     ELSE q'[i - 1].kind = "started" /\ q'[i - 1].turn = q'[i].turn
      BY <3>1
    <3>. QED
      BY <1>t, <2>1, <2>2, <2>4, <3>2, <3>3, <3>4, <3>5 DEF QueuePart
  <2>. QED
    BY <2>3, <2>5 DEF Goal
<1>11. CASE RequestFinished
  <2>1. /\ active /\ q = <<>> /\ q' = q /\ wpc' = "idle" /\ active' = FALSE /\ phase' \in {"run", "exit"}
        /\ billed' = w.billed /\ last' = w.last /\ turns' \in History
        /\ nextTurn' = IF NextId(w.turns) > nextTurn THEN NextId(w.turns) ELSE nextTurn
    BY <1>11, <1>t DEF RequestFinished, Leave, TypeOK
  <2>2. \A t \in TurnIds : turns'[t] = IF t \in Ids(w.turns) THEN w.turns[t] ELSE turns[t]
    BY <1>11 DEF RequestFinished
  <2>3. /\ Ids(turns) \subseteq Ids(w.turns) /\ Totals(w.turns, w.billed, w.last)
        /\ nextTurn = NextId(turns)
    BY <1>t, <2>1 DEF TotalPart, RunPart
  <2>4. Ids(turns') = Ids(w.turns) /\ \A t \in Ids(w.turns) : turns'[t] = w.turns[t]
    BY <2>2, <2>3 DEF Ids
  <2>5. /\ BilledTurns(turns') = BilledTurns(w.turns) /\ LiveLast(turns') = LiveLast(w.turns)
        /\ NextId(turns') = NextId(w.turns)
    BY <1>0, <2>1, <2>4, SameTotals
  <2>6. nextTurn' = NextId(w.turns)
    <3>1. NextId(turns) =< NextId(w.turns) /\ NextId(turns) \in Nat /\ NextId(w.turns) \in Nat
      BY <1>0, <2>3, NextIdGrows, NextIdProperties
    <3>. QED
      BY <2>1, <2>3, <3>1
  <2>. QED
    BY <2>1, <2>3, <2>5, <2>6 DEF Goal, RunPart, TotalPart, Totals, FlightPart, QueuePart
<1>12. CASE BudgetExceeded \/ CancelAtTop \/ ProviderCancelled \/ Panic
  BY <1>12, EndShown DEF BudgetExceeded, CancelAtTop, ProviderCancelled, Panic, End, Goal
<1>13. CASE StartTurn
  <2> DEFINE X == [user |-> wtext, undone |-> FALSE, body |-> "open", usage |-> FALSE]
             m == [kind |-> "started", turn |-> wnext, billed |-> 0, last |-> None]
  <2>1. /\ wpc = "top" /\ wnext \in TurnIds /\ wcur' = wnext /\ wnext' = wnext + 1 /\ wpc' = "call"
        /\ w' = [w EXCEPT !.turns[wnext] = X] /\ q' = Append(q, m)
        /\ UNCHANGED <<main, winit>>
    BY <1>13, <1>t DEF StartTurn, TypeOK, TurnIds
  <2>2. /\ w'.turns = [w.turns EXCEPT ![wnext] = X] /\ w'.billed = w.billed /\ w'.last = w.last
        /\ w'.turns \in History
    BY <1>0, <2>1 DEF Snapshot
  <2>3. /\ m \in Message /\ m.kind = "started" /\ m.turn = wnext /\ q \in Seq(Message)
    BY <1>t, <2>1 DEF Message, TypeOK
  <2>4. X.body = "open" /\ ~X.usage /\ ~X.undone
    OBVIOUS
  <2>. HIDE DEF X, m
  <2>5. \A t \in TurnIds : w'.turns[t] = IF t = wnext THEN X ELSE w.turns[t]
    BY <1>0, <2>1, <2>2 DEF History
  <2>6. active /\ wnext \notin Ids(w.turns) /\ \A t \in Ids(w.turns) : t < wnext
    <3>1. active
      BY <1>t, <2>1 DEF RunPart
    <3>2. \A t \in Ids(w.turns) : t < wnext
      BY <1>t, <3>1 DEF TotalPart
    <3>. QED
      BY <1>0, <3>1, <3>2
  <2>7. Ids(w'.turns) = Ids(w.turns) \cup {wnext}
    BY <2>1, <2>4, <2>5 DEF Ids
  <2>8. UNCHANGED <<phase, turns, nextTurn, active, liveTurn, billed, last>>
    BY <2>1 DEF main
  <2>9. Totals(w'.turns, w'.billed, w'.last)
    <3>1. \A t \in Ids(w.turns) : w'.turns[t] = w.turns[t]
      BY <2>5, <2>6 DEF Ids
    <3>2. {t \in Ids(w'.turns) : w'.turns[t].usage} = {t \in Ids(w.turns) : w.turns[t].usage}
      BY <2>1, <2>4, <2>5, <2>7, <3>1
    <3>3. {t \in Live(w'.turns) : w'.turns[t].usage} = {t \in Live(w.turns) : w.turns[t].usage}
      BY <2>1, <2>4, <2>5, <2>7, <3>1 DEF Live
    <3>4. Totals(w.turns, w.billed, w.last)
      BY <1>t, <2>6 DEF TotalPart
    <3>. QED
      BY <2>2, <3>2, <3>3, <3>4 DEF Totals, BilledTurns, LiveLast
  <2>10. TotalPart'
    <3>1. \A t \in Ids(w'.turns) : t < wnext + 1 /\ t =< wnext
      BY <1>0, <2>6, <2>7, BoundsAssumption DEF Ids, TurnIds
    <3>. QED
      BY <1>t, <2>1, <2>6, <2>7, <2>8, <2>9, <3>1 DEF TotalPart
  <2>11. RunPart'
    BY <1>t, <2>1, <2>6, <2>8 DEF RunPart
  <2>12. FlightPart'
    <3>1. \A t \in Ids(w'.turns) : t =< wnext
      BY <1>0, <2>6, <2>7, BoundsAssumption DEF Ids, TurnIds
    <3>. QED
      BY <2>1, <2>4, <2>5, <2>7, <3>1 DEF FlightPart
  <2>13. QueuePart'
    <3>1. /\ Len(q) \in Nat /\ Len(q') = Len(q) + 1 /\ q'[Len(q')] = m /\ q' # <<>>
          /\ \A i \in 1..Len(q) : q'[i] = q[i]
      BY <2>1, <2>3
    <3>2. ASSUME NEW i \in 1..Len(q'), q'[i].kind = "sync"
          PROVE  IF i = 1 THEN liveTurn' = q'[1].turn
                          ELSE q'[i - 1].kind = "started" /\ q'[i - 1].turn = q'[i].turn
      <4>1. i \in 1..Len(q)
        BY <2>3, <3>1, <3>2
      <4>2. i # 1 => i - 1 \in 1..Len(q)
        BY <3>1, <4>1
      <4>3. q[i].kind = "sync" /\ 1 \in 1..Len(q)
        BY <3>1, <3>2, <4>1
      <4>4. IF i = 1 THEN liveTurn = q[1].turn
                     ELSE q[i - 1].kind = "started" /\ q[i - 1].turn = q[i].turn
        BY <1>t, <4>1, <4>3 DEF QueuePart
      <4>. QED
        BY <2>8, <3>1, <4>1, <4>2, <4>3, <4>4
    <3>3. \A i \in 1..Len(q') : q'[i].kind = "sync" =>
            IF i = 1 THEN liveTurn' = q'[1].turn
                     ELSE q'[i - 1].kind = "started" /\ q'[i - 1].turn = q'[i].turn
      BY <3>2
    <3>. QED
      BY <2>1, <2>3, <3>1, <3>3 DEF QueuePart
  <2>. QED
    BY <2>10, <2>11, <2>12, <2>13 DEF Goal
\* A row write leaves the clone's turns and totals as the step set them.
<1>p. ASSUME NEW s \in Snapshot, NEW ok, PersistTurn(s, ok)
      PROVE  w'.turns = s.turns /\ w'.billed = s.billed /\ w'.last = s.last
  BY <1>p DEF PersistTurn, Snapshot
<1>f. ASSUME wpc \in {"call", "tools"}
      PROVE  w.turns[wcur].undone = FALSE
  <2>1. ~w.turns[wcur].undone
    BY <1>f, <1>t DEF FlightPart
  <2>. QED
    BY <1>0, <2>1, Zenon DEF Turn
<1>b. ASSUME NEW b \in {"tools", "notice", "error"}, wpc \in {"call", "tools"}, NEW s,
             s \in Snapshot, s.turns = [w.turns EXCEPT ![wcur].body = b],
             s.billed = w.billed, s.last = w.last, NEW ok, PersistTurn(s, ok),
             wpc' = "ended" \/ (wpc' = "top" /\ witer' = witer + 1), q' = q,
             UNCHANGED <<main, winit, wnext, wcur>>
      PROVE  Goal
  <2> DEFINE X == [w.turns[wcur] EXCEPT !.body = b]
  <2>1. X \in Turn /\ X.body = b /\ X.usage = w.turns[wcur].usage /\ X.undone = FALSE
    BY <1>0, <1>b, <1>f DEF Turn, Bodies
  <2>2. [w.turns EXCEPT ![wcur].body = b] = [w.turns EXCEPT ![wcur] = X]
    BY <1>0 DEF History
  <2>3. w'.turns = s.turns /\ w'.billed = s.billed /\ w'.last = s.last
    BY <1>b, <1>p
  <2>. HIDE DEF X
  <2>4. Updates(X)
    BY <1>b, <2>1, <2>2, <2>3 DEF Updates
  <2>. QED
    BY <1>0, <1>b, <2>4, UpdateShown DEF Goal
<1>s. ASSUME NEW b \in {"tools", "notice", "error"}
      PROVE  LET s == [w EXCEPT !.turns[wcur].body = b] IN
             /\ s \in Snapshot /\ s.turns = [w.turns EXCEPT ![wcur].body = b]
             /\ s.billed = w.billed /\ s.last = w.last
  <2>1. [w EXCEPT !.turns[wcur].body = b] \in Snapshot
    BY <1>0, TurnWithBody DEF Bodies
  <2>. QED
    BY <1>0, <2>1 DEF Snapshot
<1>14. CASE ToolsDone
  BY <1>14, <1>b, <1>s DEF ToolsDone, NextIteration
<1>15. CASE ToolsCancelled
  BY <1>15, <1>b, <1>s DEF ToolsCancelled, End
<1>16. CASE ProviderError
  BY <1>16, <1>b, <1>s DEF ProviderError, End
<1>17. CASE Truncated
  <2> DEFINE n == [w EXCEPT !.turns[wcur].body = "notice"]
             s(ok) == IF ok THEN [n EXCEPT !.chain = NoChain] ELSE n
  <2>1. PICK ok \in WriteOutcomes : PersistTurn(s(ok), ok)
    BY <1>17 DEF Truncated
  <2>2. /\ s(ok) \in Snapshot /\ s(ok).turns = [w.turns EXCEPT ![wcur].body = "notice"]
        /\ s(ok).billed = w.billed /\ s(ok).last = w.last
    BY <1>s, InitialValues DEF Snapshot
  <2>3. /\ wpc = "call" /\ (wpc' = "ended" \/ (wpc' = "top" /\ witer' = witer + 1)) /\ q' = q
        /\ UNCHANGED <<main, winit, wnext, wcur>>
    BY <1>17 DEF Truncated, NextIteration, End
  <2>. HIDE DEF s
  <2>. QED
    BY <1>b, <2>1, <2>2, <2>3
<1>a. ASSUME NEW b \in {"final", "calls"}, NEW usage \in Usages, NEW rid \in ResponseIds, wpc = "call"
      PROVE  LET s == [Answered(b, usage) EXCEPT !.chain = StoredChain(rid)]
                 X == [w.turns[wcur] EXCEPT !.body = b, !.usage = usage] IN
             /\ s \in Snapshot /\ s.turns = [w.turns EXCEPT ![wcur] = X]
             /\ X \in Turn /\ X.body # "none" /\ ~X.undone
             /\ \/ X.usage = w.turns[wcur].usage /\ s.billed = w.billed /\ s.last = w.last
                \/ X.usage /\ ~w.turns[wcur].usage /\ s.billed = w.billed + 1 /\ s.last = wcur
  <2> DEFINE s == [Answered(b, usage) EXCEPT !.chain = StoredChain(rid)]
             X == [w.turns[wcur] EXCEPT !.body = b, !.usage = usage]
  <2>0. usage \in BOOLEAN /\ rid \in BOOLEAN /\ b \in Bodies
    BY InputsAssumption DEF Bodies
  <2>1. s \in Snapshot
    BY <1>t, <2>0, AnsweredType, ChainTypes DEF Snapshot
  <2>2. s.turns = [w.turns EXCEPT ![wcur] = X]
    BY <1>0 DEF Answered, Snapshot
  <2>3. X \in Turn /\ X.body = b /\ X.undone = FALSE /\ X.usage = usage
    BY <1>0, <1>a, <1>f, <2>0 DEF Turn
  <2>4. /\ s.billed = IF usage THEN w.billed + 1 ELSE w.billed
        /\ s.last = IF usage THEN wcur ELSE w.last
    BY <1>0 DEF Answered, Snapshot
  <2>5. ~w.turns[wcur].usage
    BY <1>a, <1>t DEF FlightPart
  <2>6. w.turns[wcur].usage = FALSE
    BY <1>0, <2>5, Zenon DEF Turn
  <2>. HIDE DEF s, X
  <2>7. \/ X.usage = w.turns[wcur].usage /\ s.billed = w.billed /\ s.last = w.last
        \/ X.usage /\ ~w.turns[wcur].usage /\ s.billed = w.billed + 1 /\ s.last = wcur
    <3>1. CASE usage = TRUE
      BY <2>3, <2>4, <2>5, <3>1
    <3>2. CASE usage = FALSE
      BY <2>3, <2>4, <2>6, <3>2
    <3>. QED
      BY <2>0, <3>1, <3>2
  <2>. QED
    BY <2>1, <2>2, <2>3, <2>7 DEF s, X
<1>18. ASSUME NEW usage \in Usages, NEW rid \in ResponseIds, FinalText(usage, rid) PROVE Goal
  <2> DEFINE s == [Answered("final", usage) EXCEPT !.chain = StoredChain(rid)]
             X == [w.turns[wcur] EXCEPT !.body = "final", !.usage = usage]
  <2>1. /\ wpc = "call" /\ SendSync(s) /\ (\E ok \in WriteOutcomes : PersistTurn(s, ok))
        /\ wpc' = "ended" /\ UNCHANGED <<main, winit, wnext, wcur>>
    BY <1>18 DEF FinalText, End
  <2>2. /\ s \in Snapshot /\ s.turns = [w.turns EXCEPT ![wcur] = X]
        /\ X \in Turn /\ X.body # "none" /\ ~X.undone
        /\ \/ X.usage = w.turns[wcur].usage /\ s.billed = w.billed /\ s.last = w.last
           \/ X.usage /\ ~w.turns[wcur].usage /\ s.billed = w.billed + 1 /\ s.last = wcur
    BY <1>a, <2>1, Zenon
  <2>. HIDE DEF s, X
  <2>3. w'.turns = s.turns /\ w'.billed = s.billed /\ w'.last = s.last
    BY <1>p, <2>1, <2>2
  <2>4. Updates(X)
    BY <2>1, <2>2, <2>3 DEF Updates
  <2>. QED
    BY <1>0, <2>1, <2>2, <2>4, SyncShown DEF Goal
<1>19. ASSUME NEW usage \in Usages, NEW rid \in ResponseIds, ToolUse(usage, rid) PROVE Goal
  <2> DEFINE s == [Answered("calls", usage) EXCEPT !.chain = StoredChain(rid)]
             X == [w.turns[wcur] EXCEPT !.body = "calls", !.usage = usage]
  <2>1. /\ wpc = "call" /\ SendSync(s) /\ w' = s
        /\ wpc' = "tools" /\ UNCHANGED <<main, winit, wnext, wcur>>
    BY <1>19 DEF ToolUse
  <2>2. /\ s \in Snapshot /\ s.turns = [w.turns EXCEPT ![wcur] = X]
        /\ X \in Turn /\ X.body # "none" /\ ~X.undone
        /\ \/ X.usage = w.turns[wcur].usage /\ s.billed = w.billed /\ s.last = w.last
           \/ X.usage /\ ~w.turns[wcur].usage /\ s.billed = w.billed + 1 /\ s.last = wcur
    BY <1>a, <2>1, Zenon
  <2>. HIDE DEF s, X
  <2>3. Updates(X)
    BY <2>1, <2>2 DEF Updates
  <2>. QED
    BY <1>0, <2>1, <2>2, <2>3, SyncShown DEF Goal
<1>. QED
  BY <1>2, <1>3, <1>5, <1>6, <1>7, <1>8, <1>9, <1>10, <1>11, <1>12, <1>13, <1>14, <1>15,
     <1>16, <1>17, <1>18, <1>19
     DEF Next, ClientStep, SessionStep, WorkerStep

\* History, clone, totals and queue stay related, whatever fails.
THEOREM ShownInvariant == Spec => []ShownInv
BY ShownInit, ShownStep, PTL DEF Spec

\* With row writes that succeed and workers that do not panic, a restart of an
\* idle session displays what was displayed before it, wherever the daemon
\* crashed, and whatever was undone or redone, before: the totals are those of
\* the history in memory, and that history is the one on disk
\* (apply_worker_snapshot, reconstruct_accumulated_usage).
THEOREM RestartsKeepTotals ==
  ASSUME CrashOnly
  PROVE  Spec => []RestartKeepsTotals
<1>1. ShownInv /\ IdleIsDurable => RestartKeepsTotals
  BY DEF ShownInv, TotalPart, Totals, IdleIsDurable, RestartKeepsTotals, Idle
<1>. QED
  BY <1>1, ShownInvariant, IdleSessionsAreDurable, PTL

\* A client that attaches during a run is replayed the turn the run's next
\* event belongs to (ActiveRequest.turn_id, track_live_started).
THEOREM AttachIsCurrent == Spec => []AttachReplaysLiveTurn
<1>1. ShownInv => AttachReplaysLiveTurn
  <2> SUFFICES ASSUME ShownInv PROVE AttachReplaysLiveTurn
    OBVIOUS
  <2>1. q \in Seq(Message) /\ QueuePart
    BY DEF ShownInv, TypeOK
  <2>2. q # <<>> => 1 \in 1..Len(q) /\ Head(q) = q[1]
    BY <2>1
  <2>. QED
    BY <2>1, <2>2 DEF QueuePart, AttachReplaysLiveTurn
<1>. QED
  BY <1>1, ShownInvariant, PTL

=============================================================================
