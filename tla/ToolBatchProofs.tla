-------------------------- MODULE ToolBatchProofs --------------------------
(***************************************************************************)
(* Proofs about ToolBatch for every set of calls, every order of the       *)
(* session-config calls, any number of cancels and panics in any thread.   *)
(***************************************************************************)
EXTENDS ToolBatch, TLAPS

(* What the transcript holds is what executed_tool_calls says.             *)
ExecutedPart == pc # "done" => executed = {c \in All : rec[c] # "placeholder"}

(* Phase 1: the first next - 1 session-config calls are recorded, and the  *)
(* concurrent batch has not begun.                                         *)
SerialPart ==
  pc \in {"serial", "wait"} =>
    /\ ~cancelled /\ batch = {} /\ delivered = {}
    /\ \A c \in Calls : loop[c] = "none"
    /\ executed = {Config[i] : i \in 1..(next - 1)}
    /\ pc = "wait" => next =< Len(Config)

(* Phase 2: a call is either waited for, or its one handle is queued, or   *)
(* its handle is processed and its result recorded.                        *)
BatchPart ==
  pc \in {"collect", "drain"} =>
    /\ Serial \subseteq executed /\ executed \cap Calls = delivered /\ delivered # Calls
    /\ pc = "drain" => cancelled
    /\ \A h \in batch : h.call \notin delivered /\ loop[h.call] = "gone"
    /\ \A g, h \in batch : g.call = h.call => g = h
    /\ \A c \in delivered : loop[c] = "gone"

(* After the batch nothing is queued and no wait-loop is left to queue.    *)
EndPart ==
  pc \in {"mirror", "done"} =>
    /\ batch = {}
    /\ \A c \in Calls : loop[c] # "wait"
    /\ pc = "mirror" => cancelled \/ executed = All
    /\ pc = "done" => \A c \in All : rec[c] # "placeholder"

BatchInv == TypeOK /\ ExecutedPart /\ SerialPart /\ BatchPart /\ EndPart

-----------------------------------------------------------------------------
(* The assumptions on the constants, in the form the steps below use.      *)
LEMMA ConfigFacts ==
  /\ Len(Config) \in Nat
  /\ \A i \in 1..Len(Config) : Config[i] \in Serial
  /\ \A i, j \in 1..Len(Config) : Config[i] = Config[j] => i = j
  /\ Serial \cap Calls = {} /\ All = Serial \cup Calls
  BY CallsAssumption DEF Serial, All

(* The session-config call under way is a serial call that has no result.  *)
LEMMA CurrentFacts ==
  ASSUME TypeOK, SerialPart, pc = "wait"
  PROVE  Current \in Serial /\ Current \in All /\ Current \notin executed
         /\ next \in 1..Len(Config)
<1>1. next \in 1..Len(Config)
  BY ConfigFacts DEF TypeOK, SerialPart
<1>2. Current \in Serial /\ Current \in All
  BY <1>1, ConfigFacts DEF Current
<1>3. Current \notin executed
  BY <1>1, ConfigFacts DEF SerialPart, Current
<1> QED BY <1>1, <1>2, <1>3

(* A result read from the channel, or in its place a synthesized one, is an *)
(* outcome.                                                                 *)
LEMMA OutcomeFacts ==
  ASSUME TypeOK, NEW c \in All
  PROVE  /\ FromChannel(c) \in Outcomes
         /\ Drained(c, "cancelled") \in Outcomes /\ Drained(c, "timeout") \in Outcomes
  BY DEF TypeOK, FromChannel, Drained, Outcomes, Results

-----------------------------------------------------------------------------
(* Types.                                                                  *)

LEMMA InitTyped == Init => TypeOK
<1> SUFFICES ASSUME Init PROVE TypeOK
  OBVIOUS
<1>0. Len(Config) \in Nat
  BY ConfigFacts
<1>1. /\ pc = "serial" /\ next \in 1..(Len(Config) + 1)
      /\ sent \in Nat /\ cancels \in Nat
  BY <1>0 DEF Init
<1>a. cancelled \in BOOLEAN
  BY Zenon DEF Init
<1>2. /\ thread \in [All -> {"none", "run", "asked", "replied", "refused", "sent", "died"}]
      /\ result \in [All -> Results] /\ images \in [All -> Nat] /\ flagged \subseteq All
  BY DEF Init, Results
<1>3. /\ loop \in [Calls -> {"none", "wait", "gone"}] /\ kill \subseteq Calls
      /\ batch \subseteq Handle /\ delivered \subseteq Calls
  BY DEF Init
<1>4. /\ rec \in [All -> Records] /\ shown \in [All -> Nat] /\ executed \subseteq All
      /\ asks \in Seq(Serial) /\ applied \in Seq(Serial)
      /\ pending \in Seq(Serial) /\ mirrored \in Seq(Serial)
  BY DEF Init, Records
<1> QED BY <1>1, <1>a, <1>2, <1>3, <1>4 DEF TypeOK

LEMMA ToolTyped ==
  ASSUME TypeOK, NEW c \in All,
         ToolReturns(c) \/ ToolStops(c) \/ ToolEmitsImage(c) \/ ToolDies(c) \/ ToolAsks(c)
  PROVE  TypeOK'
<1>1. CASE ToolReturns(c)
  BY <1>1, ZenonT(40) DEF ToolReturns, Return, TypeOK, Results, worker, loops, session
<1>2. CASE ToolStops(c)
  BY <1>2 DEF ToolStops, Return, TypeOK, Results, worker, loops, session
<1>3. CASE ToolEmitsImage(c)
  BY <1>3 DEF ToolEmitsImage, TypeOK, worker, loops, session
<1>4. CASE ToolDies(c)
  BY <1>4 DEF ToolDies, TypeOK, worker, loops, session
<1>5. CASE ToolAsks(c)
  BY <1>5 DEF ToolAsks, TypeOK, worker, loops
<1> QED BY <1>1, <1>2, <1>3, <1>4, <1>5

LEMMA ConfigCommandTyped ==
  ASSUME TypeOK, ConfigCommand
  PROVE  TypeOK'
<1>0. asks \in Seq(Serial) /\ asks # <<>>
  BY DEF TypeOK, ConfigCommand
<1>1. Head(asks) \in Serial /\ Tail(asks) \in Seq(Serial) /\ Serial \subseteq All
  BY <1>0, ConfigFacts
<1>2. applied' \in Seq(Serial) /\ asks' \in Seq(Serial)
  <2>1. applied \in Seq(Serial)
    BY DEF TypeOK
  <2>2. Append(applied, Head(asks)) \in Seq(Serial)
    BY <1>1, <2>1
  <2> QED BY <1>1, <2>1, <2>2 DEF ConfigCommand
<1>3. thread' \in [All -> {"none", "run", "asked", "replied", "refused", "sent", "died"}]
  BY <1>1 DEF TypeOK, ConfigCommand
<1> QED BY <1>2, <1>3 DEF TypeOK, ConfigCommand, worker, loops

LEMMA LoopTyped ==
  ASSUME TypeOK, NEW c \in Calls,
         LoopResult(c) \/ LoopKilled(c) \/ LoopDeadline(c) \/ LoopDies(c)
  PROVE  TypeOK'
<1>0. c \in All /\ SharesFlag(c) \subseteq All
  BY ConfigFacts DEF SharesFlag
<1>1. ASSUME NEW out \in Outcomes, Deliver(c, out), flagged' \subseteq All
      PROVE  TypeOK'
  <2>1. [call |-> c, out |-> out, image |-> images[c] > 0] \in Handle
    BY <1>0 DEF Handle, TypeOK
  <2> QED BY <1>1, <2>1 DEF Deliver, TypeOK, worker, tools, session
<1>2. CASE LoopResult(c)
  BY <1>0, <1>1, <1>2, OutcomeFacts DEF LoopResult, TypeOK
<1>3. CASE LoopKilled(c)
  BY <1>0, <1>1, <1>3 DEF LoopKilled, TypeOK, Outcomes
<1>4. CASE LoopDeadline(c)
  BY <1>0, <1>1, <1>4, OutcomeFacts DEF LoopDeadline, TypeOK
<1>5. CASE LoopDies(c)
  BY <1>5 DEF LoopDies, TypeOK, worker, tools, session
<1> QED BY <1>2, <1>3, <1>4, <1>5

LEMMA SerialTyped ==
  ASSUME TypeOK, SerialPart,
         \/ SerialCancelled \/ SerialStart \/ SerialResult \/ SerialCancel \/ SerialTimeout
  PROVE  TypeOK'
<1>1. CASE SerialCancelled
  BY <1>1 DEF SerialCancelled, TakeCancel, TypeOK, tools, loops, session
<1>2. CASE SerialStart
  BY <1>2, ConfigFacts DEF SerialStart, Current, TypeOK, loops, session
<1>3. ASSUME NEW out \in Outcomes, NEW stop \in BOOLEAN, pc = "wait", SerialRecord(out, stop),
             cancelled' \in BOOLEAN, cancels' \in Nat, flagged' \subseteq All
      PROVE  TypeOK'
  <2>1. Current \in Serial /\ Current \in All /\ next \in 1..Len(Config)
    BY <1>3, CurrentFacts
  <2>2. rec' \in [All -> Records] /\ shown' \in [All -> Nat] /\ executed' \subseteq All
    BY <1>3, <2>1 DEF SerialRecord, Record, TypeOK, Records
  <2>3. pending' \in Seq(Serial)
    BY <1>3, <2>1 DEF SerialRecord, NotePending, TypeOK
  <2>4. next' \in 1..(Len(Config) + 1)
    BY <1>3, <2>1, ConfigFacts DEF SerialRecord
  <2> QED BY <1>3, <2>2, <2>3, <2>4 DEF SerialRecord, TypeOK, tools, loops, session
<1>4. CASE SerialResult
  BY <1>3, <1>4, CurrentFacts, OutcomeFacts DEF SerialResult, TypeOK
<1>5. CASE SerialCancel
  <2>1. flagged' \subseteq All /\ cancels' \in Nat /\ cancelled' \in BOOLEAN
    BY <1>5, CurrentFacts DEF SerialCancel, TakeCancel, SharesFlag, TypeOK
  <2>2. Drained(Current, "cancelled") \in Outcomes
    BY <1>5, CurrentFacts, OutcomeFacts DEF SerialCancel
  <2> QED BY <1>3, <1>5, <2>1, <2>2 DEF SerialCancel
<1>6. CASE SerialTimeout
  <2>1. flagged' \subseteq All /\ cancels' \in Nat /\ cancelled' \in BOOLEAN
    BY <1>6, CurrentFacts DEF SerialTimeout, SharesFlag, TypeOK
  <2>2. Drained(Current, "timeout") \in Outcomes
    BY <1>6, CurrentFacts, OutcomeFacts DEF SerialTimeout
  <2> QED BY <1>3, <1>6, <2>1, <2>2 DEF SerialTimeout
<1> QED BY <1>1, <1>2, <1>4, <1>5, <1>6

LEMMA CollectTyped ==
  ASSUME TypeOK,
         \/ Dispatch \/ (\E h \in batch : Collect(h))
         \/ CollectCancel \/ CollectDisconnected \/ Mirror
  PROVE  TypeOK'
<1>1. CASE Dispatch
  BY <1>1 DEF Dispatch, TypeOK, session
<1>2. CASE \E h \in batch : Collect(h)
  <2>1. PICK h \in batch : Collect(h)
    BY <1>2
  <2>2. h.call \in Calls /\ h.call \in All /\ h.out \in Records
    BY ConfigFacts DEF TypeOK, Handle, Records
  <2>3. rec' \in [All -> Records] /\ shown' \in [All -> Nat] /\ executed' \subseteq All
    BY <2>1, <2>2 DEF Collect, Record, TypeOK
  <2>4. delivered' \subseteq Calls /\ batch' \subseteq Handle
    BY <2>1, <2>2 DEF Collect, TypeOK
  <2> QED BY <2>1, <2>3, <2>4 DEF Collect, TypeOK, tools, session
<1>3. CASE CollectCancel
  BY <1>3, ConfigFacts DEF CollectCancel, Killed, TakeCancel, TypeOK, tools, session
<1>4. CASE CollectDisconnected
  <2>1. rec' \in [All -> Records] /\ executed' \subseteq All
    BY <1>4, ConfigFacts DEF CollectDisconnected, Missing, TypeOK, Records, Outcomes
  <2> QED BY <1>4, <2>1 DEF CollectDisconnected, TypeOK, tools, loops, session
<1>5. CASE Mirror
  <2>1. rec' \in [All -> Records]
    BY <1>5 DEF Mirror, TypeOK, Records
  <2> QED BY <1>5, <2>1 DEF Mirror, TypeOK, tools, loops, session
<1> QED BY <1>1, <1>2, <1>3, <1>4, <1>5

-----------------------------------------------------------------------------
(* The parts about the worker and the wait-loops.                          *)

Parts == ExecutedPart /\ SerialPart /\ BatchPart /\ EndPart
Kept == \A c \in All : rec[c] # "placeholder" => rec'[c] = rec[c]

(* Tools, the session thread and clients touch none of it.                 *)
LEMMA FrameKeeps ==
  ASSUME Parts, UNCHANGED <<worker, loops>>
  PROVE  Parts' /\ Kept
  BY DEF Parts, ExecutedPart, SerialPart, BatchPart, EndPart, Kept, worker, loops

(* A wait-loop exists in the batch phase only, and delivers once.          *)
LEMMA DeliverKeeps ==
  ASSUME TypeOK, Parts, NEW c \in Calls, NEW out, loop[c] = "wait", Deliver(c, out)
  PROVE  Parts' /\ Kept
<1> DEFINE d == [call |-> c, out |-> out, image |-> images[c] > 0]
<1>1. UNCHANGED <<pc, next, cancelled, delivered, rec, executed>>
  BY DEF Deliver, worker
<1>2. pc \in {"collect", "drain"}
  BY DEF TypeOK, Parts, SerialPart, EndPart
<1>3. batch' = batch \cup {d} /\ d.call = c
  BY DEF Deliver
<1>4. loop'[c] = "gone" /\ \A x \in Calls : x # c => loop'[x] = loop[x]
  BY DEF Deliver, TypeOK
<1>5. c \notin delivered /\ \A h \in batch : h.call # c
  BY <1>2 DEF Parts, BatchPart
<1>6. BatchPart'
  <2>1. \A h \in batch : h.call \in Calls
    BY DEF TypeOK, Handle
  <2>2. \A h \in batch' : h.call \notin delivered' /\ loop'[h.call] = "gone"
    <3> SUFFICES ASSUME NEW h \in batch'
                 PROVE  h.call \notin delivered /\ loop'[h.call] = "gone"
      BY <1>1
    <3>1. CASE h \in batch
      BY <1>2, <1>4, <1>5, <2>1, <3>1 DEF Parts, BatchPart
    <3>2. CASE h = d
      BY <1>3, <1>4, <1>5, <3>2
    <3> QED BY <1>3, <3>1, <3>2
  <2>3. \A g, h \in batch' : g.call = h.call => g = h
    BY <1>2, <1>3, <1>5 DEF Parts, BatchPart
  <2>4. \A x \in delivered' : loop'[x] = "gone"
    BY <1>1, <1>2, <1>4, <1>5 DEF Parts, BatchPart, TypeOK
  <2> QED BY <1>1, <1>2, <2>2, <2>3, <2>4 DEF Parts, BatchPart
<1>7. ExecutedPart' /\ SerialPart' /\ EndPart' /\ Kept
  BY <1>1, <1>2 DEF Parts, ExecutedPart, SerialPart, EndPart, Kept
<1> QED BY <1>6, <1>7 DEF Parts

LEMMA LoopKeeps ==
  ASSUME TypeOK, Parts, NEW c \in Calls,
         LoopResult(c) \/ LoopKilled(c) \/ LoopDeadline(c) \/ LoopDies(c)
  PROVE  Parts' /\ Kept
<1>1. CASE LoopResult(c)
  BY <1>1, DeliverKeeps DEF LoopResult
<1>2. CASE LoopKilled(c)
  BY <1>2, DeliverKeeps DEF LoopKilled
<1>3. CASE LoopDeadline(c)
  BY <1>3, DeliverKeeps DEF LoopDeadline
<1>4. CASE LoopDies(c)
  <2>1. pc \in {"collect", "drain"} /\ UNCHANGED <<worker, batch>>
    BY <1>4 DEF LoopDies, TypeOK, Parts, SerialPart, EndPart
  <2>2. \A x \in Calls : loop[x] = "gone" => loop'[x] = "gone"
    BY <1>4 DEF LoopDies, TypeOK
  <2>3. \A h \in batch : h.call \in Calls
    BY DEF TypeOK, Handle
  <2>4. BatchPart'
    BY <2>1, <2>2, <2>3 DEF Parts, BatchPart, TypeOK, worker
  <2> QED BY <2>1, <2>4 DEF Parts, ExecutedPart, SerialPart, EndPart, Kept, worker
<1> QED BY <1>1, <1>2, <1>3, <1>4

(* Recording a call that had no result keeps the others' results.          *)
LEMMA RecordKeeps ==
  ASSUME TypeOK, ExecutedPart, pc # "done", NEW c \in All, c \notin executed,
         NEW out \in Outcomes, NEW image, Record(c, out, image)
  PROVE  /\ executed' = {x \in All : rec'[x] # "placeholder"}
         /\ executed' = executed \cup {c} /\ Kept
<1>1. rec'[c] = out /\ \A x \in All : x # c => rec'[x] = rec[x]
  BY DEF Record, TypeOK
<1>2. out # "placeholder" /\ rec[c] = "placeholder"
  BY DEF Outcomes, Results, ExecutedPart
<1>3. executed' = executed \cup {c}
  BY DEF Record
<1>4. executed' = {x \in All : rec'[x] # "placeholder"}
  BY <1>1, <1>2, <1>3 DEF ExecutedPart
<1>5. Kept
  BY <1>1, <1>2 DEF Kept
<1> QED BY <1>3, <1>4, <1>5

(* Phase 1.                                                                *)
LEMMA SerialRecordKeeps ==
  ASSUME TypeOK, Parts, pc = "wait", NEW out \in Outcomes, NEW stop \in BOOLEAN,
         SerialRecord(out, stop), cancelled' = (cancelled \/ stop)
  PROVE  Parts' /\ Kept
<1>1. Current \in All /\ Current \notin executed /\ next \in 1..Len(Config)
  BY CurrentFacts DEF Parts
<1>2. /\ executed' = {x \in All : rec'[x] # "placeholder"}
      /\ executed' = executed \cup {Current} /\ Kept
  BY <1>1, RecordKeeps DEF Parts, SerialRecord
<1>3. /\ pc' = IF stop THEN "mirror" ELSE "serial"
      /\ next' = next + 1 /\ UNCHANGED <<delivered, loop, batch>>
  BY DEF SerialRecord, loops
<1>4. /\ ~cancelled /\ batch = {} /\ delivered = {}
      /\ \A c \in Calls : loop[c] = "none"
      /\ executed = {Config[i] : i \in 1..(next - 1)}
  BY DEF Parts, SerialPart
<1>5. ExecutedPart'
  BY <1>2 DEF ExecutedPart
<1>6. executed' = {Config[i] : i \in 1..(next' - 1)}
  <2>1. 1..(next' - 1) = 1..(next - 1) \cup {next}
    BY <1>1, <1>3
  <2> QED BY <1>2, <1>4, <2>1 DEF Current
<1>7. CASE stop
  <2>1. pc' = "mirror" /\ cancelled'
    BY <1>3, <1>7
  <2> QED BY <1>2, <1>3, <1>4, <1>5, <2>1 DEF Parts, SerialPart, BatchPart, EndPart
<1>8. CASE ~stop
  <2>1. pc' = "serial" /\ ~cancelled'
    BY <1>3, <1>4, <1>8
  <2> QED BY <1>2, <1>3, <1>4, <1>5, <1>6, <2>1 DEF Parts, SerialPart, BatchPart, EndPart
<1> QED BY <1>7, <1>8

LEMMA SerialKeeps ==
  ASSUME TypeOK, Parts,
         \/ SerialCancelled \/ SerialStart \/ SerialResult \/ SerialCancel \/ SerialTimeout
  PROVE  Parts' /\ Kept
<1>1. CASE SerialCancelled
  BY <1>1 DEF SerialCancelled, TakeCancel, loops, Parts, ExecutedPart, SerialPart, BatchPart,
              EndPart, Kept
<1>2. CASE SerialStart
  BY <1>2 DEF SerialStart, loops, Parts, ExecutedPart, SerialPart, BatchPart, EndPart, Kept
<1>3. CASE SerialResult
  <2>1. FromChannel(Current) \in Outcomes
    BY <1>3, CurrentFacts, OutcomeFacts DEF SerialResult, Parts
  <2> QED BY <1>3, <2>1, SerialRecordKeeps DEF SerialResult, TypeOK
<1>4. CASE SerialCancel
  <2>1. Drained(Current, "cancelled") \in Outcomes
    BY <1>4, CurrentFacts, OutcomeFacts DEF SerialCancel, Parts
  <2> QED BY <1>4, <2>1, SerialRecordKeeps DEF SerialCancel, TakeCancel
<1>5. CASE SerialTimeout
  <2>1. Drained(Current, "timeout") \in Outcomes
    BY <1>5, CurrentFacts, OutcomeFacts DEF SerialTimeout, Parts
  <2> QED BY <1>5, <2>1, SerialRecordKeeps DEF SerialTimeout, TypeOK
<1> QED BY <1>1, <1>2, <1>3, <1>4, <1>5

(* Phase 2: the batch begins with every session-config call recorded.      *)
LEMMA DispatchKeeps ==
  ASSUME TypeOK, Parts, Dispatch
  PROVE  Parts' /\ Kept
<1>1. /\ ~cancelled /\ batch = {} /\ delivered = {}
      /\ executed = {Config[i] : i \in 1..(next - 1)}
      /\ UNCHANGED <<next, cancelled, delivered, rec, executed, batch>>
  BY DEF Dispatch, Parts, SerialPart
<1>2. executed = Serial
  <2>1. Len(Config) \in Nat /\ next \in 1..(Len(Config) + 1)
    BY ConfigFacts DEF TypeOK
  <2>2. next > Len(Config)
    BY DEF Dispatch
  <2>3. next - 1 = Len(Config)
    BY <2>1, <2>2
  <2> QED BY <1>1, <2>3 DEF Serial
<1>3. ExecutedPart' /\ Kept
  BY <1>1 DEF Dispatch, Parts, ExecutedPart, Kept
<1>4. CASE Calls = {}
  BY <1>1, <1>2, <1>3, <1>4, ConfigFacts DEF Dispatch, Parts, SerialPart, BatchPart, EndPart
<1>5. CASE Calls # {}
  BY <1>1, <1>2, <1>3, <1>5, ConfigFacts DEF Dispatch, Parts, SerialPart, BatchPart, EndPart
<1> QED BY <1>4, <1>5

(* The last handle collected empties the channel: every call delivered one. *)
LEMMA CollectKeeps ==
  ASSUME TypeOK, Parts, NEW h \in batch, Collect(h)
  PROVE  Parts' /\ Kept
<1>1. pc \in {"collect", "drain"} /\ UNCHANGED <<next, cancelled, loop>>
  BY DEF Collect
<1>2. /\ Serial \subseteq executed /\ executed \cap Calls = delivered
      /\ pc = "drain" => cancelled
      /\ \A g \in batch : g.call \notin delivered /\ loop[g.call] = "gone"
      /\ \A f, g \in batch : f.call = g.call => f = g
      /\ \A c \in delivered : loop[c] = "gone"
  BY <1>1 DEF Parts, BatchPart
<1>3. h.call \in Calls /\ h.out \in Outcomes /\ \A g \in batch : g.call \in Calls
  BY DEF TypeOK, Handle
<1>4. /\ batch' = batch \ {h} /\ delivered' = delivered \cup {h.call}
      /\ pc' = IF delivered' = Calls THEN "mirror" ELSE pc
  BY DEF Collect
<1>5. /\ executed' = {x \in All : rec'[x] # "placeholder"}
      /\ executed' = executed \cup {h.call} /\ Kept
  BY <1>1, <1>2, <1>3, RecordKeeps, ConfigFacts DEF Collect, Parts
<1>6. \A g \in batch' : g.call \notin delivered' /\ loop'[g.call] = "gone"
  BY <1>1, <1>2, <1>4
<1>7. \A c \in delivered' : loop'[c] = "gone"
  BY <1>1, <1>2, <1>4
<1>8. Serial \subseteq executed' /\ executed' \cap Calls = delivered'
  BY <1>2, <1>3, <1>4, <1>5
<1>9. CASE delivered' = Calls
  <2>1. pc' = "mirror" /\ batch' = {} /\ executed' = All
    BY <1>3, <1>4, <1>5, <1>6, <1>8, <1>9, ConfigFacts
  <2> QED BY <1>5, <1>7, <1>9, <2>1 DEF Parts, ExecutedPart, SerialPart, BatchPart, EndPart
<1>10. CASE delivered' # Calls
  <2>1. pc' = pc
    BY <1>4, <1>10
  <2>2. BatchPart'
    BY <1>1, <1>2, <1>4, <1>6, <1>7, <1>8, <1>10, <2>1 DEF BatchPart
  <2> QED BY <1>1, <1>5, <2>1, <2>2 DEF Parts, ExecutedPart, SerialPart, EndPart
<1> QED BY <1>9, <1>10

(* A disconnected channel: what is missing has no result yet, and after it  *)
(* nothing is missing.                                                      *)
LEMMA DisconnectKeeps ==
  ASSUME TypeOK, Parts, CollectDisconnected
  PROVE  Parts' /\ Kept
<1>1. /\ Serial \subseteq executed /\ executed \cap Calls = delivered
      /\ executed = {c \in All : rec[c] # "placeholder"}
  BY DEF CollectDisconnected, Parts, BatchPart, ExecutedPart
<1>2. /\ pc' = "mirror" /\ batch' = {} /\ UNCHANGED <<loop, delivered>>
      /\ \A c \in Calls : loop[c] = "gone"
  BY DEF CollectDisconnected, loops
<1>3. executed' = All
  BY <1>1, ConfigFacts DEF CollectDisconnected, Missing, TypeOK
<1>4. \A c \in All : /\ c \in Missing => rec'[c] = "panicked" /\ rec[c] = "placeholder"
                     /\ c \notin Missing => rec'[c] = rec[c] /\ rec[c] # "placeholder"
  BY <1>1, ConfigFacts DEF CollectDisconnected, Missing
<1>5. ExecutedPart' /\ Kept
  BY <1>2, <1>3, <1>4 DEF ExecutedPart, Kept
<1> QED BY <1>2, <1>3, <1>5 DEF Parts, SerialPart, BatchPart, EndPart

LEMMA MirrorKeeps ==
  ASSUME TypeOK, Parts, Mirror
  PROVE  Parts' /\ Kept
<1>1. /\ executed = {c \in All : rec[c] # "placeholder"}
      /\ cancelled \/ executed = All
      /\ batch = {} /\ \A c \in Calls : loop[c] # "wait"
  BY DEF Mirror, Parts, ExecutedPart, EndPart
<1>2. pc' = "done" /\ UNCHANGED <<loop, batch>>
  BY DEF Mirror, loops
<1>3. \A c \in All : rec'[c] = IF cancelled /\ c \notin executed THEN "unexecuted" ELSE rec[c]
  BY DEF Mirror
<1>4. \A c \in All : rec'[c] # "placeholder"
  BY <1>1, <1>3
<1>5. Kept
  BY <1>1, <1>3 DEF Kept
<1> QED BY <1>1, <1>2, <1>4, <1>5 DEF Parts, ExecutedPart, SerialPart, BatchPart, EndPart

LEMMA CollectCancelKeeps ==
  ASSUME TypeOK, Parts, CollectCancel
  PROVE  Parts' /\ Kept
  BY DEF CollectCancel, TakeCancel, Parts, ExecutedPart, SerialPart, BatchPart, EndPart, Kept

-----------------------------------------------------------------------------
(* The inductive step.                                                     *)

LEMMA StepKeeps ==
  ASSUME BatchInv, [Next]_vars
  PROVE  BatchInv' /\ Kept
<1> USE DEF BatchInv, Parts
<1>1. CASE ToolStep
  <2>1. PICK c \in All : ToolReturns(c) \/ ToolStops(c) \/ ToolEmitsImage(c) \/ ToolDies(c) \/ ToolAsks(c)
    BY <1>1 DEF ToolStep
  <2>2. UNCHANGED <<worker, loops>>
    BY <2>1 DEF ToolReturns, ToolStops, ToolEmitsImage, ToolDies, ToolAsks
  <2> QED BY <2>1, <2>2, ToolTyped, FrameKeeps
<1>2. CASE ConfigCommand
  BY <1>2, ConfigCommandTyped, FrameKeeps DEF ConfigCommand
<1>3. CASE Cancel
  <2>1. TypeOK'
    BY <1>3 DEF Cancel, TypeOK, worker, tools, loops, session
  <2> QED BY <1>3, <2>1, FrameKeeps DEF Cancel
<1>4. CASE LoopStep
  BY <1>4, LoopTyped, LoopKeeps DEF LoopStep
<1>5. CASE SerialCancelled \/ SerialStart \/ SerialResult \/ SerialCancel \/ SerialTimeout
  BY <1>5, SerialTyped, SerialKeeps
<1>6. CASE Dispatch
  BY <1>6, CollectTyped, DispatchKeeps
<1>7. CASE \E h \in batch : Collect(h)
  BY <1>7, CollectTyped, CollectKeeps
<1>8. CASE CollectCancel
  BY <1>8, CollectTyped, CollectCancelKeeps
<1>9. CASE CollectDisconnected
  BY <1>9, CollectTyped, DisconnectKeeps
<1>10. CASE Mirror
  BY <1>10, CollectTyped, MirrorKeeps
<1>11. CASE UNCHANGED vars
  <2>1. TypeOK' /\ UNCHANGED <<worker, loops>>
    BY <1>11 DEF TypeOK, vars, worker, tools, loops, session
  <2> QED BY <2>1, FrameKeeps
<1> QED BY <1>1, <1>2, <1>3, <1>4, <1>5, <1>6, <1>7, <1>8, <1>9, <1>10, <1>11 DEF Next, WorkerStep

LEMMA InitBatchInv == Init => BatchInv
<1> SUFFICES ASSUME Init PROVE BatchInv
  OBVIOUS
<1>1. TypeOK
  BY InitTyped
<1>2. ExecutedPart /\ BatchPart /\ EndPart
  BY DEF Init, ExecutedPart, BatchPart, EndPart
<1>3. SerialPart
  <2>1. next = 1 /\ 1..(next - 1) = {}
    BY DEF Init
  <2> QED BY <2>1 DEF Init, SerialPart
<1> QED BY <1>1, <1>2, <1>3 DEF BatchInv

(* BatchInv is an invariant of the tool phase: what is recorded, what is    *)
(* queued and which wait-loops live fit together in every reachable state.  *)
THEOREM BatchInvariant == Spec => []BatchInv
<1>1. BatchInv /\ [Next]_vars => BatchInv'
  BY StepKeeps
<1> QED BY <1>1, InitBatchInv, PTL DEF Spec

(* Every variable of the tool phase keeps its type, whatever panics.        *)
THEOREM ToolTypeCorrect == Spec => []TypeOK
  BY BatchInvariant, PTL DEF BatchInv

(* Whatever results, deadlines, panics and cancels a batch sees, the turn   *)
(* that is checkpointed has an answer for every call the model made         *)
(* (requests.rs phases 1 to 3).                                             *)
THEOREM AllCallsAnswered == Spec => []EveryCallAnswered
<1>1. BatchInv => EveryCallAnswered
  BY DEF BatchInv, EndPart, EveryCallAnswered
<1> QED BY <1>1, BatchInvariant, PTL

(* The worker leaves the batch, by completion or by a cancel, only when no  *)
(* delivered handle is left on the channel (the drain of requests.rs).      *)
THEOREM OutcomesAreKept == Spec => []NoOutcomeDropped
<1>1. BatchInv => NoOutcomeDropped
  BY DEF BatchInv, EndPart, NoOutcomeDropped
<1> QED BY <1>1, BatchInvariant, PTL

(* A result once recorded is never overwritten by a late handle, by a       *)
(* synthesized panic or by the sweep of a cancelled turn.                   *)
THEOREM ResultsAreFinal == Spec => RecordedOnce
<1>1. BatchInv /\ [Next]_vars => [Kept]_vars
  BY StepKeeps
<1>2. [Kept]_vars => [\A c \in All : rec[c] # "placeholder" => rec'[c] = rec[c]]_vars
  BY DEF Kept
<1> QED BY <1>1, <1>2, BatchInvariant, PTL DEF Spec, RecordedOnce

-----------------------------------------------------------------------------
(* What a consumed cancel does.  The flag is set by whichever wait takes   *)
(* the message, and the worker is then past every place that starts a call. *)
TakenPart ==
  /\ sent > cancels => cancelled
  /\ cancelled => pc \in {"drain", "mirror", "done"}

(* A call still running has been told to stop, unless it is the serial call *)
(* under way or belongs to a batch that was not cancelled.                  *)
ToldPart ==
  /\ \A c \in Serial : thread[c] = "run" => c \in flagged \/ (pc = "wait" /\ c = Current)
  /\ \A c \in Calls : thread[c] = "run" /\ cancelled => c \in flagged
  /\ pc \in {"serial", "wait"} => \A c \in Calls : thread[c] = "none"

(* A recorded result belongs to a started call, and of the started calls   *)
(* only those of the wait under way have none.                             *)
StartedPart ==
  /\ \A c \in executed : thread[c] # "none"
  /\ pc \in {"serial", "mirror"} => \A c \in All : thread[c] # "none" => c \in executed
  /\ pc = "wait" => /\ thread[Current] # "none"
                    /\ \A c \in All : thread[c] # "none" => c \in executed \/ c = Current
  /\ pc \in {"collect", "drain"} => \A c \in Calls : thread[c] # "none"
  /\ pc # "done" => \A c \in All : rec[c] # "unexecuted"
  /\ pc = "done" => \A c \in All : thread[c] = "none" <=> rec[c] = "unexecuted"

StopInv == TakenPart /\ ToldPart /\ StartedPart

(* No call starts while the cancel is consumed.                            *)
NoStart == sent > cancels => \A c \in All : thread[c] = "none" => thread'[c] = "none"

(* Steps of the tools, the wait-loops, the session thread and clients: no   *)
(* thread starts.                                                          *)
LEMMA OthersStop ==
  ASSUME BatchInv, StopInv, UNCHANGED worker, flagged \subseteq flagged',
         sent' > cancels' => sent > cancels,
         \A c \in All : /\ thread[c] = "none" <=> thread'[c] = "none"
                        /\ thread'[c] = "run" => thread[c] = "run"
  PROVE  StopInv' /\ NoStart
<1>1. UNCHANGED <<pc, next, cancelled, rec, executed, Current>>
  BY DEF worker, Current
<1>2. Serial \subseteq All /\ Calls \subseteq All /\ executed \subseteq All
  BY ConfigFacts DEF BatchInv, TypeOK
<1>3. pc = "wait" => Current \in All
  BY CurrentFacts DEF BatchInv
<1>4. TakenPart'
  BY <1>1 DEF StopInv, TakenPart
<1>5. ToldPart'
  BY <1>1, <1>2 DEF StopInv, ToldPart
<1>6. StartedPart'
  BY <1>1, <1>2, <1>3 DEF StopInv, StartedPart
<1> QED BY <1>4, <1>5, <1>6 DEF StopInv, NoStart

(* The end of a serial wait.                                               *)
LEMMA SerialRecordStops ==
  ASSUME BatchInv, BatchInv', StopInv, pc = "wait", NEW out \in Outcomes,
         NEW stop \in BOOLEAN, SerialRecord(out, stop), flagged \subseteq flagged',
         thread[Current] = "run" => Current \in flagged',
         cancelled' <=> (cancelled \/ stop), stop \/ UNCHANGED cancels
  PROVE  StopInv' /\ NoStart
<1>1. Current \in Serial /\ Current \in All
  BY CurrentFacts DEF BatchInv
<1>2. ~cancelled
  BY DEF BatchInv, SerialPart
<1>3. /\ pc' = IF stop THEN "mirror" ELSE "serial"
      /\ UNCHANGED <<sent, thread>>
      /\ executed' = executed \cup {Current}
      /\ rec' = [rec EXCEPT ![Current] = out]
  BY DEF SerialRecord, Record, tools
<1>4. Serial \subseteq All /\ Calls \subseteq All /\ executed \subseteq All
  BY ConfigFacts DEF BatchInv, TypeOK
<1>5. TakenPart'
  BY <1>2, <1>3 DEF StopInv, TakenPart
<1>6. ToldPart'
  BY <1>3, <1>4 DEF StopInv, ToldPart
<1>7. \A c \in All : rec'[c] # "unexecuted"
  BY <1>1, <1>3 DEF BatchInv, TypeOK, StopInv, StartedPart, Outcomes, Results
<1>8. StartedPart'
  BY <1>1, <1>3, <1>4, <1>7 DEF StopInv, StartedPart
<1> QED BY <1>3, <1>5, <1>6, <1>8 DEF StopInv, NoStart

(* Phase 1: a wait ends with the cancel only by leaving the phase.         *)
LEMMA SerialStops ==
  ASSUME BatchInv, BatchInv', StopInv,
         \/ SerialCancelled \/ SerialStart \/ SerialResult \/ SerialCancel \/ SerialTimeout
  PROVE  StopInv' /\ NoStart
<1>0. Serial \subseteq All /\ Calls \subseteq All /\ executed \subseteq All
  BY ConfigFacts DEF BatchInv, TypeOK
<1>1. CASE SerialCancelled
  <2>1. /\ pc = "serial" /\ pc' = "mirror" /\ cancelled'
        /\ UNCHANGED <<rec, executed, thread, flagged, sent>>
    BY <1>1 DEF SerialCancelled, TakeCancel, tools
  <2> QED BY <1>0, <2>1 DEF StopInv, TakenPart, ToldPart, StartedPart, NoStart
<1>2. CASE SerialStart
  <2>1. /\ pc = "serial" /\ pc' = "wait" /\ cancels = 0
        /\ thread' = [thread EXCEPT ![Current] = "run"]
        /\ UNCHANGED <<next, cancelled, rec, executed, flagged, sent, cancels>>
    BY <1>2 DEF SerialStart
  <2>2. ~cancelled /\ ~(sent > cancels)
    BY <2>1 DEF StopInv, TakenPart
  <2>3. Current' = Current /\ Current \in Serial /\ Current \in All
    <3>1. next \in 1..Len(Config)
      BY <1>2, ConfigFacts DEF SerialStart, BatchInv, TypeOK
    <3> QED BY <2>1, <3>1, ConfigFacts DEF Current
  <2>4. /\ thread'[Current] = "run"
        /\ \A c \in All : c # Current => thread'[c] = thread[c]
    BY <2>1, <2>3 DEF BatchInv, TypeOK
  <2>5. TakenPart' /\ NoStart
    BY <2>1, <2>2 DEF TakenPart, NoStart
  <2>6. ToldPart'
    BY <1>0, <2>1, <2>2, <2>3, <2>4, ConfigFacts DEF StopInv, ToldPart
  <2>7. StartedPart'
    BY <1>0, <2>1, <2>3, <2>4 DEF StopInv, StartedPart
  <2> QED BY <2>5, <2>6, <2>7 DEF StopInv
<1>3. CASE SerialResult
  <2>1. /\ pc = "wait" /\ SerialRecord(FromChannel(Current), FALSE)
        /\ UNCHANGED <<cancelled, cancels, flagged>> /\ thread[Current] # "run"
    BY <1>3 DEF SerialResult, Finished
  <2>2. FromChannel(Current) \in Outcomes
    BY <2>1, CurrentFacts, OutcomeFacts DEF BatchInv
  <2> QED BY <2>1, <2>2, SerialRecordStops
<1>4. CASE SerialCancel
  <2>1. /\ pc = "wait" /\ cancelled' /\ SerialRecord(Drained(Current, "cancelled"), TRUE)
        /\ flagged' = flagged \cup SharesFlag(Current)
    BY <1>4 DEF SerialCancel, TakeCancel
  <2>2. Current \in SharesFlag(Current) /\ Drained(Current, "cancelled") \in Outcomes
    BY <2>1, CurrentFacts, OutcomeFacts DEF BatchInv, SharesFlag
  <2> QED BY <2>1, <2>2, SerialRecordStops
<1>5. CASE SerialTimeout
  <2>1. /\ pc = "wait" /\ SerialRecord(Drained(Current, "timeout"), FALSE)
        /\ flagged' = flagged \cup SharesFlag(Current) /\ UNCHANGED <<cancelled, cancels>>
    BY <1>5 DEF SerialTimeout
  <2>2. Current \in SharesFlag(Current) /\ Drained(Current, "timeout") \in Outcomes
    BY <2>1, CurrentFacts, OutcomeFacts DEF BatchInv, SharesFlag
  <2> QED BY <2>1, <2>2, SerialRecordStops
<1> QED BY <1>1, <1>2, <1>3, <1>4, <1>5

(* Phases 2 and 3: only Dispatch starts calls, and it comes before any     *)
(* cancel was taken.                                                       *)
LEMMA CollectStops ==
  ASSUME BatchInv, BatchInv', StopInv,
         \/ Dispatch \/ (\E h \in batch : Collect(h)) \/ CollectCancel
         \/ CollectDisconnected \/ Mirror
  PROVE  StopInv' /\ NoStart
<1>0. Serial \subseteq All /\ Calls \subseteq All /\ executed \subseteq All
  BY ConfigFacts DEF BatchInv, TypeOK
<1>1. CASE Dispatch
  <2>1. /\ pc = "serial" /\ pc' = IF Calls = {} THEN "mirror" ELSE "collect"
        /\ thread' = [c \in All |-> IF c \in Calls THEN "run" ELSE thread[c]]
        /\ UNCHANGED <<cancelled, rec, executed, flagged, sent, cancels>>
    BY <1>1 DEF Dispatch
  <2>2. ~cancelled /\ ~(sent > cancels)
    BY <2>1 DEF StopInv, TakenPart
  <2>3. TakenPart' /\ NoStart
    BY <2>1, <2>2 DEF TakenPart, NoStart
  <2>4. ToldPart'
    BY <1>0, <2>1, <2>2, ConfigFacts DEF StopInv, ToldPart
  <2>5. StartedPart'
    BY <1>0, <2>1, ConfigFacts DEF StopInv, StartedPart
  <2> QED BY <2>3, <2>4, <2>5 DEF StopInv
<1>2. CASE \E h \in batch : Collect(h)
  <2>1. PICK h \in batch : Collect(h)
    BY <1>2
  <2>2. h.call \in Calls /\ h.out \in Outcomes
    BY DEF BatchInv, TypeOK, Handle
  <2>3. /\ pc \in {"collect", "drain"}
        /\ delivered' = delivered \cup {h.call}
        /\ executed' = executed \cup {h.call}
        /\ rec' = [rec EXCEPT ![h.call] = h.out]
        /\ pc' = IF delivered' = Calls THEN "mirror" ELSE pc
        /\ UNCHANGED <<cancelled, thread, flagged, sent, cancels>>
    BY <2>1 DEF Collect, Record, tools
  <2>4. \A c \in All : rec'[c] # "unexecuted"
    BY <1>0, <2>2, <2>3 DEF BatchInv, TypeOK, StopInv, StartedPart, Outcomes, Results
  <2>5. Serial \subseteq executed /\ executed \cap Calls = delivered
    BY <2>3 DEF BatchInv, BatchPart
  <2>6. TakenPart' /\ NoStart
    BY <2>3 DEF StopInv, TakenPart, NoStart
  <2>7. ToldPart'
    BY <1>0, <2>3 DEF StopInv, ToldPart
  <2>8. pc' = "mirror" => executed' = All
    BY <2>2, <2>3, <2>5, ConfigFacts DEF BatchInv, TypeOK
  <2>9. StartedPart'
    BY <1>0, <2>2, <2>3, <2>4, <2>8 DEF StopInv, StartedPart
  <2> QED BY <2>6, <2>7, <2>9 DEF StopInv
<1>3. CASE CollectCancel
  <2>1. /\ pc = "collect" /\ pc' = "drain" /\ cancelled'
        /\ flagged' = flagged \cup Calls
        /\ UNCHANGED <<rec, executed, thread, sent>>
    BY <1>3 DEF CollectCancel, TakeCancel, tools
  <2> QED BY <1>0, <2>1 DEF StopInv, TakenPart, ToldPart, StartedPart, NoStart
<1>4. CASE CollectDisconnected
  <2>1. /\ pc \in {"collect", "drain"} /\ pc' = "mirror"
        /\ rec' = [c \in All |-> IF c \in Missing THEN "panicked" ELSE rec[c]]
        /\ executed' = executed \cup Missing
        /\ UNCHANGED <<cancelled, thread, flagged, sent, cancels>>
    BY <1>4 DEF CollectDisconnected, tools
  <2>2. Serial \subseteq executed /\ executed \cap Calls = delivered
    BY <2>1 DEF BatchInv, BatchPart
  <2>3. executed' = All
    BY <2>1, <2>2, ConfigFacts DEF Missing, BatchInv, TypeOK
  <2>4. TakenPart' /\ ToldPart' /\ NoStart
    BY <1>0, <2>1 DEF StopInv, TakenPart, ToldPart, NoStart
  <2>5. \A c \in All : thread[c] # "none"
    BY <2>1, <2>2, ConfigFacts DEF StopInv, StartedPart
  <2>6. StartedPart'
    BY <1>0, <2>1, <2>3, <2>5 DEF StopInv, StartedPart
  <2> QED BY <2>4, <2>6 DEF StopInv
<1>5. CASE Mirror
  <2>1. /\ pc = "mirror" /\ pc' = "done"
        /\ rec' = [c \in All |-> IF cancelled /\ c \notin executed THEN "unexecuted" ELSE rec[c]]
        /\ UNCHANGED <<cancelled, executed, thread, flagged, sent, cancels>>
    BY <1>5 DEF Mirror, tools
  <2>2. cancelled \/ executed = All
    BY <2>1 DEF BatchInv, EndPart
  <2>3. TakenPart' /\ ToldPart' /\ NoStart
    BY <1>0, <2>1 DEF StopInv, TakenPart, ToldPart, NoStart
  <2>4. StartedPart'
    BY <1>0, <2>1, <2>2 DEF StopInv, StartedPart
  <2> QED BY <2>3, <2>4 DEF StopInv
<1> QED BY <1>1, <1>2, <1>3, <1>4, <1>5

LEMMA StepStops ==
  ASSUME BatchInv, BatchInv', StopInv, [Next]_vars
  PROVE  StopInv' /\ NoStart
<1>1. CASE ToolStep
  <2>1. PICK c \in All : ToolReturns(c) \/ ToolStops(c) \/ ToolEmitsImage(c) \/ ToolDies(c) \/ ToolAsks(c)
    BY <1>1 DEF ToolStep
  <2>2. UNCHANGED <<worker, sent, cancels, flagged>>
    BY <2>1 DEF ToolReturns, ToolStops, ToolEmitsImage, ToolDies, ToolAsks
  <2>3. \/ UNCHANGED thread
        \/ thread[c] # "none" /\ \E x \in {"sent", "died", "asked"} : thread' = [thread EXCEPT ![c] = x]
    BY <2>1 DEF ToolReturns, ToolStops, ToolEmitsImage, ToolDies, ToolAsks, Return
  <2>4. \A x \in All : /\ thread[x] = "none" <=> thread'[x] = "none"
                       /\ thread'[x] = "run" => thread[x] = "run"
    BY <2>3 DEF BatchInv, TypeOK
  <2> QED BY <2>2, <2>4, OthersStop
<1>2. CASE ConfigCommand
  <2>1. UNCHANGED <<worker, sent, cancels, flagged>>
    BY <1>2 DEF ConfigCommand
  <2>2. \E x \in {"replied", "refused"} :
          thread' = [thread EXCEPT ![Head(asks)] = IF @ = "asked" THEN x ELSE @]
    BY <1>2 DEF ConfigCommand
  <2>3. \A x \in All : /\ thread[x] = "none" <=> thread'[x] = "none"
                       /\ thread'[x] = "run" => thread[x] = "run"
    BY <2>2 DEF BatchInv, TypeOK
  <2> QED BY <2>1, <2>3, OthersStop
<1>3. CASE Cancel
  <2>1. UNCHANGED <<worker, flagged, thread>> /\ sent' = sent + 1 /\ cancels' = cancels + 1
    BY <1>3 DEF Cancel, tools
  <2>2. sent' > cancels' => sent > cancels
    BY <2>1 DEF BatchInv, TypeOK
  <2> QED BY <2>1, <2>2, OthersStop
<1>4. CASE LoopStep
  <2>1. UNCHANGED <<worker, sent, cancels, thread>> /\ flagged \subseteq flagged'
    BY <1>4 DEF LoopStep, LoopResult, LoopKilled, LoopDeadline, LoopDies, Deliver, tools
  <2> QED BY <2>1, OthersStop
<1>5. CASE WorkerStep
  BY <1>5, SerialStops, CollectStops DEF WorkerStep
<1>6. CASE UNCHANGED vars
  <2>1. UNCHANGED <<worker, sent, cancels, flagged, thread>>
    BY <1>6 DEF vars, tools
  <2> QED BY <2>1, OthersStop
<1> QED BY <1>1, <1>2, <1>3, <1>4, <1>5, <1>6 DEF Next

LEMMA InitStops == Init => StopInv
<1> SUFFICES ASSUME Init PROVE StopInv
  OBVIOUS
<1>1. \A c \in All : thread[c] = "none" /\ rec[c] = "placeholder"
  BY DEF Init
<1>2. pc = "serial" /\ ~cancelled /\ executed = {} /\ ~(sent > cancels)
  BY DEF Init
<1> QED BY <1>1, <1>2, ConfigFacts DEF StopInv, TakenPart, ToldPart, StartedPart

(* A cancel that the tool phase has consumed, wherever it was waiting, lets *)
(* no further call start, has reached every call still running, and ends    *)
(* the phase with the flag that ends the run and with exactly the calls     *)
(* that never started marked as not executed (requests.rs phases 1 to 3).   *)
THEOREM CancelsStopTheRun == Spec => CancelStopsTheRun
<1> DEFINE Stops ==
      sent > cancels =>
        /\ \A c \in All : /\ thread[c] = "none" => thread'[c] = "none"
                          /\ thread[c] = "run" => c \in flagged
        /\ pc = "done" => /\ cancelled
                          /\ \A c \in All : thread[c] = "none" <=> rec[c] = "unexecuted"
<1>1. BatchInv /\ BatchInv' /\ StopInv /\ [Next]_vars => StopInv'
  BY StepStops
<1>2. ASSUME BatchInv, BatchInv', StopInv, [Next]_vars
      PROVE  Stops
  <2>1. NoStart
    BY <1>2, StepStops
  <2>2. ASSUME sent > cancels, NEW c \in All, thread[c] = "run"
        PROVE  c \in flagged
    <3>1. cancelled /\ pc # "wait"
      BY <1>2, <2>2 DEF StopInv, TakenPart
    <3> QED BY <1>2, <2>2, <3>1, ConfigFacts DEF StopInv, ToldPart
  <2>3. sent > cancels => cancelled
    BY <1>2 DEF StopInv, TakenPart
  <2>4. pc = "done" => \A c \in All : thread[c] = "none" <=> rec[c] = "unexecuted"
    BY <1>2 DEF StopInv, StartedPart
  <2> QED BY <2>1, <2>2, <2>3, <2>4 DEF NoStart
<1>3. BatchInv /\ BatchInv' /\ StopInv /\ [Next]_vars => [Stops]_vars
  BY <1>2
<1> QED BY <1>1, <1>3, InitStops, BatchInvariant, PTL DEF Spec, CancelStopsTheRun

-----------------------------------------------------------------------------
(* The session-config commands, from the asking thread through the session *)
(* thread to the worker's own copy.                                        *)

(* A session-config call that is not started has no execution thread.      *)
StartPart ==
  \A i \in 1..Len(Config) : i > next \/ (i = next /\ pc = "serial") => thread[Config[i]] = "none"

(* A call asks once, and its command is queued or applied, never both.     *)
AskPart ==
  /\ \A i, j \in 1..Len(asks) : asks[i] = asks[j] => i = j
  /\ \A i, j \in 1..Len(applied) : applied[i] = applied[j] => i = j
  /\ \A i \in 1..Len(asks), j \in 1..Len(applied) : asks[i] # applied[j]
  /\ \A i \in 1..Len(asks) : thread[asks[i]] \notin {"none", "run"}
  /\ \A i \in 1..Len(applied) : thread[applied[i]] \notin {"none", "run"}

(* A session-config call succeeds only after the session thread's change.  *)
ReplyPart ==
  \A c \in Serial :
    thread[c] = "replied" \/ (thread[c] = "sent" /\ result[c] = "ok") => Holds(applied, c)

(* What the worker has noted follows the session thread's changes, and the *)
(* change of the call under way, if it is made at all, comes after them.   *)
OrderPart ==
  /\ Follows(pending, applied) /\ Follows(mirrored, applied)
  /\ pc = "wait" => \A i \in 1..Len(pending), a, b \in 1..Len(applied) :
                      applied[a] = pending[i] /\ applied[b] = Current => a < b

ConfigInv == StartPart /\ AskPart /\ ReplyPart /\ OrderPart

LEMMA SeqFacts ==
  ASSUME NEW S, NEW s \in Seq(S), NEW e \in S
  PROVE  /\ Len(s) \in Nat /\ Append(s, e) \in Seq(S) /\ Len(Append(s, e)) = Len(s) + 1
         /\ \A i \in 1..Len(s) : Append(s, e)[i] = s[i] /\ s[i] \in S
         /\ Append(s, e)[Len(s) + 1] = e
  OBVIOUS

(* A change by a call that is not in the log yet keeps what follows it.    *)
LEMMA FollowsGrows ==
  ASSUME NEW log \in Seq(Serial), NEW s \in Seq(Serial), NEW c \in Serial,
         Follows(s, log), ~Holds(log, c)
  PROVE  Follows(s, Append(log, c))
<1> DEFINE big == Append(log, c)
<1>1. /\ Len(log) \in Nat /\ Len(big) = Len(log) + 1 /\ big[Len(log) + 1] = c
      /\ \A i \in 1..Len(log) : big[i] = log[i]
  BY SeqFacts
<1>2. \A i \in 1..Len(s) : s[i] # c
  BY DEF Follows, Holds
<1>3. \A i \in 1..Len(s), a \in 1..Len(big) : big[a] = s[i] => a \in 1..Len(log) /\ log[a] = s[i]
  BY <1>1, <1>2
<1> HIDE DEF big
<1>4. \A i \in 1..Len(s) : Holds(big, s[i])
  BY <1>1 DEF Follows, Holds
<1>5. \A i, j \in 1..Len(s), a, b \in 1..Len(big) :
        big[a] = s[i] /\ big[b] = s[j] => (i =< j <=> a =< b)
  BY <1>3 DEF Follows
<1>6. Follows(s, big)
  BY <1>4, <1>5 DEF Follows
<1> QED BY <1>6 DEF big

(* A change noted after all the others, whose place in the log is after    *)
(* theirs, is noted in order.                                              *)
LEMMA FollowsNoted ==
  ASSUME NEW log \in Seq(Serial), NEW s \in Seq(Serial), NEW c \in Serial,
         Follows(s, log), Holds(log, c),
         \A i, j \in 1..Len(log) : log[i] = log[j] => i = j,
         \A i \in 1..Len(s), a, b \in 1..Len(log) : log[a] = s[i] /\ log[b] = c => a < b
  PROVE  Follows(Append(s, c), log)
<1> DEFINE big == Append(s, c)
<1>1. /\ Len(s) \in Nat /\ Len(big) = Len(s) + 1 /\ big[Len(s) + 1] = c
      /\ \A i \in 1..Len(s) : big[i] = s[i]
  BY SeqFacts
<1>2. Len(log) \in Nat
  OBVIOUS
<1> HIDE DEF big
<1>3. \A i \in 1..Len(big) : Holds(log, big[i])
  BY <1>1 DEF Follows
<1>4. ASSUME NEW i \in 1..Len(big), NEW j \in 1..Len(big), NEW a \in 1..Len(log), NEW b \in 1..Len(log),
             log[a] = big[i], log[b] = big[j]
      PROVE  i =< j <=> a =< b
  <2>1. CASE i \in 1..Len(s) /\ j \in 1..Len(s)
    BY <1>1, <1>4, <2>1 DEF Follows
  <2>2. CASE i \in 1..Len(s) /\ j = Len(s) + 1
    BY <1>1, <1>2, <1>4, <2>2
  <2>3. CASE i = Len(s) + 1 /\ j \in 1..Len(s)
    BY <1>1, <1>2, <1>4, <2>3
  <2>4. CASE i = Len(s) + 1 /\ j = Len(s) + 1
    BY <1>1, <1>2, <1>4, <2>4
  <2> QED BY <1>1, <2>1, <2>2, <2>3, <2>4
<1>5. Follows(big, log)
  BY <1>3, <1>4 DEF Follows
<1> QED BY <1>5 DEF big

(* A thread that moves on without a command or a success of its own.       *)
LEMMA ConfigFrame ==
  ASSUME TypeOK, TypeOK', ConfigInv, UNCHANGED <<session, pending, mirrored, next>>, pc' = pc,
         \A c \in Serial : /\ thread[c] = "none" => thread'[c] = "none"
                           /\ thread[c] \notin {"none", "run"} => thread'[c] \notin {"none", "run"}
                           /\ thread'[c] = "replied" => thread[c] = "replied"
                           /\ thread'[c] = "sent" /\ result'[c] = "ok" =>
                                thread[c] = "replied" \/ (thread[c] = "sent" /\ result[c] = "ok")
  PROVE  ConfigInv'
<1>1. /\ \A i \in 1..Len(Config) : Config[i] \in Serial
      /\ \A i \in 1..Len(asks) : asks[i] \in Serial
      /\ \A i \in 1..Len(applied) : applied[i] \in Serial
  <2>1. asks \in Seq(Serial) /\ applied \in Seq(Serial)
    BY DEF TypeOK
  <2> QED BY <2>1, ConfigFacts
<1>2. StartPart'
  BY <1>1 DEF ConfigInv, StartPart
<1>3. AskPart'
  BY <1>1 DEF ConfigInv, AskPart, session
<1>4. ReplyPart'
  <2>1. applied' = applied
    BY DEF session
  <2>2. \A c \in Serial : thread[c] = "replied" \/ (thread[c] = "sent" /\ result[c] = "ok") => Holds(applied, c)
    BY DEF ConfigInv, ReplyPart
  <2>3. \A c \in Serial : thread'[c] = "replied" \/ (thread'[c] = "sent" /\ result'[c] = "ok") => Holds(applied, c)
    BY <2>2
  <2> QED BY <2>1, <2>3 DEF ReplyPart
<1>5. OrderPart'
  BY DEF ConfigInv, OrderPart, session, Follows, Holds, Current
<1> QED BY <1>2, <1>3, <1>4, <1>5 DEF ConfigInv

LEMMA ToolConfig ==
  ASSUME TypeOK, TypeOK', ConfigInv, NEW c \in All,
         ToolReturns(c) \/ ToolStops(c) \/ ToolEmitsImage(c) \/ ToolDies(c) \/ ToolAsks(c)
  PROVE  ConfigInv'
<1>0. /\ UNCHANGED <<pc, next, pending, mirrored>>
      /\ thread \in [All -> {"none", "run", "asked", "replied", "refused", "sent", "died"}]
      /\ Serial \subseteq All /\ Serial \cap Calls = {} /\ Cooperative \subseteq Calls
  BY ConfigFacts, CallsAssumption
     DEF ToolReturns, ToolStops, ToolEmitsImage, ToolDies, ToolAsks, worker, TypeOK
<1>1. CASE ToolReturns(c)
  <2>0. result \in [All -> Results]
    BY DEF TypeOK
  <2>1. /\ thread[c] \in {"run", "replied", "refused"} /\ thread' = [thread EXCEPT ![c] = "sent"]
        /\ UNCHANGED session
        /\ \A d \in Serial : d # c => result'[d] = result[d]
        /\ c \in Serial /\ result'[c] = "ok" => thread[c] = "replied"
    <3>1. UNCHANGED session
      BY <1>1 DEF ToolReturns
    <3>2. ASSUME NEW r, Return(c, r)
          PROVE  /\ thread' = [thread EXCEPT ![c] = "sent"] /\ result'[c] = r
                 /\ \A d \in Serial : d # c => result'[d] = result[d]
      BY <1>0, <2>0, <3>2 DEF Return
    <3>3. CASE c \in Calls /\ thread[c] = "run" /\ \E r \in {"ok", "error"} : Return(c, r)
      BY <1>0, <3>1, <3>2, <3>3
    <3>4. CASE thread[c] \in {"run", "refused"} /\ Return(c, "error")
      BY <3>1, <3>2, <3>4
    <3>5. CASE thread[c] = "replied" /\ Return(c, "ok")
      BY <3>1, <3>2, <3>5
    <3> QED BY <1>1, <3>3, <3>4, <3>5 DEF ToolReturns
  <2>2. \A d \in Serial : /\ thread[d] = "none" => thread'[d] = "none"
                          /\ thread[d] \notin {"none", "run"} => thread'[d] \notin {"none", "run"}
                          /\ thread'[d] = "replied" => thread[d] = "replied"
    BY <1>0, <2>1
  <2>3. \A d \in Serial : thread'[d] = "sent" /\ result'[d] = "ok" =>
                            thread[d] = "replied" \/ (thread[d] = "sent" /\ result[d] = "ok")
    BY <1>0, <2>0, <2>1
  <2> QED BY <1>0, <2>1, <2>2, <2>3, ConfigFrame
<1>2. CASE ToolStops(c)
  <2>1. UNCHANGED session /\ \A d \in Serial : thread'[d] = thread[d] /\ result'[d] = result[d]
    BY <1>0, <1>2 DEF ToolStops, Return, TypeOK
  <2> QED BY <1>0, <2>1, ConfigFrame
<1>3. CASE ToolEmitsImage(c)
  <2>1. UNCHANGED <<session, thread, result>>
    BY <1>3 DEF ToolEmitsImage
  <2> QED BY <1>0, <2>1, ConfigFrame
<1>4. CASE ToolDies(c)
  <2>1. /\ UNCHANGED <<session, result>> /\ thread[c] # "none"
        /\ thread' = [thread EXCEPT ![c] = "died"]
    BY <1>4 DEF ToolDies
  <2> QED BY <1>0, <2>1, ConfigFrame
<1>5. CASE ToolAsks(c)
  <2>1. /\ thread[c] = "run" /\ c \in Serial /\ thread' = [thread EXCEPT ![c] = "asked"]
        /\ asks' = Append(asks, c) /\ UNCHANGED <<applied, result>> /\ asks \in Seq(Serial)
        /\ applied \in Seq(Serial)
    BY <1>5 DEF ToolAsks, TypeOK
  <2>2. /\ Len(asks) \in Nat /\ Len(asks') = Len(asks) + 1 /\ asks'[Len(asks) + 1] = c
        /\ \A i \in 1..Len(asks) : asks'[i] = asks[i] /\ asks[i] \in Serial
        /\ \A i \in 1..Len(applied) : applied[i] \in Serial
    BY <2>1, SeqFacts
  <2>3. StartPart'
    BY <1>0, <2>1, ConfigFacts DEF ConfigInv, StartPart
  <2>4. /\ \A i \in 1..Len(asks) : asks[i] # c
        /\ \A i \in 1..Len(applied) : applied[i] # c
    BY <2>1 DEF ConfigInv, AskPart
  <2>5. AskPart'
    <3>1. \A i, j \in 1..Len(asks') : asks'[i] = asks'[j] => i = j
      BY <2>2, <2>4 DEF ConfigInv, AskPart
    <3>2. \A i \in 1..Len(asks'), j \in 1..Len(applied') : asks'[i] # applied'[j]
      BY <2>1, <2>2, <2>4 DEF ConfigInv, AskPart
    <3>3. \A d \in Serial : thread[d] \notin {"none", "run"} => thread'[d] \notin {"none", "run"}
      BY <1>0, <2>1
    <3>4. \A i \in 1..Len(asks') : thread'[asks'[i]] \notin {"none", "run"}
      BY <1>0, <2>1, <2>2, <3>3 DEF ConfigInv, AskPart
    <3> QED BY <2>1, <2>2, <3>1, <3>2, <3>3, <3>4 DEF ConfigInv, AskPart
  <2>6. ReplyPart'
    BY <1>0, <2>1 DEF ConfigInv, ReplyPart, Holds
  <2>7. OrderPart'
    BY <1>0, <2>1 DEF ConfigInv, OrderPart, Follows, Holds, Current
  <2> QED BY <2>3, <2>5, <2>6, <2>7 DEF ConfigInv
<1> QED BY <1>1, <1>2, <1>3, <1>4, <1>5

LEMMA CommandConfig ==
  ASSUME TypeOK, TypeOK', ConfigInv, ConfigCommand
  PROVE  ConfigInv'
<1> DEFINE c == Head(asks)
<1>0. /\ UNCHANGED <<pc, next, pending, mirrored, result>> /\ asks \in Seq(Serial) /\ asks # <<>>
      /\ applied \in Seq(Serial) /\ pending \in Seq(Serial) /\ mirrored \in Seq(Serial)
      /\ asks' = Tail(asks) /\ Serial \subseteq All
      /\ thread \in [All -> {"none", "run", "asked", "replied", "refused", "sent", "died"}]
  BY ConfigFacts DEF ConfigCommand, TypeOK, worker
<1>1. /\ c \in Serial /\ c = asks[1] /\ Len(asks) \in Nat /\ Len(asks) > 0
      /\ Len(asks') = Len(asks) - 1
      /\ \A i \in 1..Len(asks') : asks'[i] = asks[i + 1] /\ i + 1 \in 1..Len(asks) /\ asks[i + 1] \in Serial
      /\ \A i \in 1..Len(applied) : applied[i] \in Serial
      /\ Len(applied) \in Nat
  BY <1>0
<1>2. ~Holds(applied, c) /\ thread[c] \notin {"none", "run"}
  BY <1>1 DEF Holds, ConfigInv, AskPart
<1>3. \/ UNCHANGED applied /\ thread' = [thread EXCEPT ![c] = IF @ = "asked" THEN "refused" ELSE @]
      \/ /\ applied' = Append(applied, c)
         /\ thread' = [thread EXCEPT ![c] = IF @ = "asked" THEN "replied" ELSE @]
  BY DEF ConfigCommand
<1> HIDE DEF c
<1>4. /\ \A d \in Serial : d # c => thread'[d] = thread[d]
      /\ thread'[c] \notin {"none", "run"}
      /\ thread'[c] = "sent" => thread[c] = "sent"
  BY <1>0, <1>1, <1>2, <1>3
<1>5. /\ Len(applied') \in Nat
      /\ \A i \in 1..Len(applied) : applied'[i] = applied[i] /\ i \in 1..Len(applied')
      /\ \A i \in 1..Len(applied') : i \in 1..Len(applied)
                                     \/ (i = Len(applied) + 1 /\ applied'[i] = c)
      /\ \A i \in 1..Len(applied') : applied'[i] \in Serial
  <2>1. CASE applied' = applied
    <3>1. Len(applied') = Len(applied) /\ \A i \in 1..Len(applied) : applied'[i] = applied[i]
      BY <2>1
    <3> QED BY <1>1, <3>1
  <2>2. CASE applied' = Append(applied, c)
    <3>1. /\ Len(applied') = Len(applied) + 1 /\ applied'[Len(applied) + 1] = c
          /\ \A i \in 1..Len(applied) : applied'[i] = applied[i]
      BY <1>0, <1>1, <2>2, SeqFacts
    <3> QED BY <1>1, <3>1
  <2> QED BY <1>3, <2>1, <2>2
<1>6. StartPart'
  BY <1>0, <1>1, <1>2, <1>4, ConfigFacts DEF ConfigInv, StartPart
<1>7. AskPart'
  <2>0. \A i \in 1..Len(applied) : applied[i] # c
    BY <1>2 DEF Holds
  <2>1. \A i, j \in 1..Len(asks') : asks'[i] = asks'[j] => i = j
    BY <1>1 DEF ConfigInv, AskPart
  <2>2. \A i, j \in 1..Len(applied') : applied'[i] = applied'[j] => i = j
    BY <1>5, <2>0 DEF ConfigInv, AskPart
  <2>3. \A i \in 1..Len(asks') : asks'[i] # c
    BY <1>1 DEF ConfigInv, AskPart
  <2>4. \A i \in 1..Len(asks'), j \in 1..Len(applied') : asks'[i] # applied'[j]
    BY <1>1, <1>5, <2>3 DEF ConfigInv, AskPart
  <2>5. \A i \in 1..Len(asks') : thread'[asks'[i]] \notin {"none", "run"}
    BY <1>1, <1>4, <2>3 DEF ConfigInv, AskPart
  <2>6. \A i \in 1..Len(applied') : thread'[applied'[i]] \notin {"none", "run"}
    BY <1>1, <1>4, <1>5 DEF ConfigInv, AskPart
  <2> QED BY <2>1, <2>2, <2>4, <2>5, <2>6 DEF AskPart
<1>8. ReplyPart'
  <2>1. \A d \in Serial : Holds(applied, d) => Holds(applied', d)
    BY <1>5 DEF Holds
  <2>2. thread'[c] = "replied" => thread[c] = "replied" \/ Holds(applied', c)
    <3>1. CASE applied' = Append(applied, c)
      <4>1. Len(applied') = Len(applied) + 1 /\ applied'[Len(applied) + 1] = c
        BY <1>0, <1>1, <3>1, SeqFacts
      <4> QED BY <1>1, <4>1 DEF Holds
    <3>2. CASE UNCHANGED applied /\ thread' = [thread EXCEPT ![c] = IF @ = "asked" THEN "refused" ELSE @]
      BY <1>0, <1>1, <3>2
    <3> QED BY <1>3, <3>1, <3>2
  <2>3. ASSUME NEW d \in Serial, d # c,
               thread'[d] = "replied" \/ (thread'[d] = "sent" /\ result'[d] = "ok")
        PROVE  Holds(applied', d)
    BY <1>0, <1>4, <2>1, <2>3 DEF ConfigInv, ReplyPart
  <2>4. ASSUME thread'[c] = "replied" \/ (thread'[c] = "sent" /\ result'[c] = "ok")
        PROVE  Holds(applied', c)
    BY <1>0, <1>1, <1>4, <2>1, <2>2, <2>4 DEF ConfigInv, ReplyPart
  <2> QED BY <2>3, <2>4 DEF ReplyPart
<1>9. OrderPart'
  <2>1. Follows(pending', applied') /\ Follows(mirrored', applied')
    <3>1. CASE applied' = applied
      BY <1>0, <3>1 DEF ConfigInv, OrderPart
    <3>2. CASE applied' = Append(applied, c)
      BY <1>0, <1>1, <1>2, <3>2, FollowsGrows DEF ConfigInv, OrderPart
    <3> QED BY <1>3, <3>1, <3>2
  <2>2. ASSUME pc' = "wait", NEW i \in 1..Len(pending'), NEW a \in 1..Len(applied'), NEW b \in 1..Len(applied'),
               applied'[a] = pending'[i], applied'[b] = Current'
        PROVE  a < b
    <3>1. Holds(applied, pending[i]) /\ i \in 1..Len(pending)
      BY <1>0, <2>2 DEF ConfigInv, OrderPart, Follows
    <3>2. a \in 1..Len(applied) /\ applied[a] = pending[i]
      BY <1>0, <1>2, <1>5, <2>2, <3>1
    <3>3. CASE b \in 1..Len(applied)
      BY <1>0, <1>5, <2>2, <3>1, <3>2, <3>3 DEF ConfigInv, OrderPart, Current
    <3>4. CASE b = Len(applied) + 1
      BY <1>1, <3>2, <3>4
    <3> QED BY <1>5, <3>3, <3>4
  <2> QED BY <2>1, <2>2 DEF OrderPart
<1> QED BY <1>6, <1>7, <1>8, <1>9 DEF ConfigInv

(* The worker notes a change only after the session thread made it.        *)
LEMMA SerialConfig ==
  ASSUME TypeOK, TypeOK', SerialPart, ConfigInv,
         SerialCancelled \/ SerialStart \/ SerialResult \/ SerialCancel \/ SerialTimeout
  PROVE  ConfigInv'
<1>0. /\ Len(Config) \in Nat /\ next \in 1..(Len(Config) + 1) /\ Serial \subseteq All
      /\ applied \in Seq(Serial) /\ pending \in Seq(Serial) /\ mirrored \in Seq(Serial)
      /\ \A i \in 1..Len(asks) : asks[i] \in Serial
      /\ \A i \in 1..Len(applied) : applied[i] \in Serial
      /\ thread \in [All -> {"none", "run", "asked", "replied", "refused", "sent", "died"}]
  BY ConfigFacts DEF TypeOK
<1>1. CASE SerialCancelled
  <2>1. UNCHANGED <<next, pending, mirrored, thread, result, asks, applied>> /\ pc' = "mirror"
    BY <1>1 DEF SerialCancelled, tools, session
  <2>2. StartPart' /\ AskPart'
    BY <2>1 DEF ConfigInv, StartPart, AskPart
  <2>3. ReplyPart' /\ OrderPart'
    BY <2>1, Zenon DEF ConfigInv, ReplyPart, OrderPart
  <2> QED BY <2>2, <2>3 DEF ConfigInv
<1>2. CASE SerialStart
  <2>1. /\ UNCHANGED <<next, pending, mirrored, result, asks, applied>> /\ pc' = "wait" /\ pc = "serial"
        /\ next \in 1..Len(Config) /\ thread' = [thread EXCEPT ![Current] = "run"]
        /\ Current' = Current
    BY <1>0, <1>2 DEF SerialStart, session, Current
  <2>2. Current \in Serial /\ Current = Config[next] /\ thread[Current] = "none"
    BY <2>1, ConfigFacts DEF Current, ConfigInv, StartPart
  <2>3. /\ \A d \in Serial : d # Current => thread'[d] = thread[d]
        /\ thread'[Current] = "run"
    BY <1>0, <2>1, <2>2
  <2>4. /\ \A i \in 1..Len(asks) : asks[i] # Current
        /\ \A i \in 1..Len(applied) : applied[i] # Current
    BY <2>2 DEF ConfigInv, AskPart
  <2>5. StartPart'
    <3> SUFFICES ASSUME NEW i \in 1..Len(Config), i > next
                 PROVE  thread'[Config[i]] = "none"
      BY <2>1 DEF StartPart
    <3>1. Config[i] # Current /\ Config[i] \in Serial
      BY <1>0, <2>1, ConfigFacts DEF Current
    <3>2. thread[Config[i]] = "none"
      BY DEF ConfigInv, StartPart
    <3> QED BY <2>3, <3>1, <3>2
  <2>6. AskPart'
    BY <1>0, <2>1, <2>3, <2>4 DEF ConfigInv, AskPart
  <2>7. ReplyPart'
    BY <2>1, <2>3 DEF ConfigInv, ReplyPart, Holds
  <2>8. OrderPart'
    BY <2>1, <2>4 DEF ConfigInv, OrderPart, Follows, Holds
  <2> QED BY <2>5, <2>6, <2>7, <2>8 DEF ConfigInv
<1>3. CASE SerialResult \/ SerialCancel \/ SerialTimeout
  <2>1. /\ UNCHANGED <<mirrored, thread, result, asks, applied>> /\ pc = "wait"
        /\ pc' \in {"serial", "mirror"} /\ next' = next + 1
    BY <1>3 DEF SerialResult, SerialCancel, SerialTimeout, SerialRecord, tools, session
  <2>2. \/ pending' = pending
        \/ pending' = Append(pending, Current) /\ thread[Current] = "sent" /\ result[Current] = "ok"
    <3>0. ASSUME NEW out, NotePending(out), out # "ok" \/ (thread[Current] = "sent" /\ result[Current] = "ok")
          PROVE  \/ pending' = pending
                 \/ pending' = Append(pending, Current) /\ thread[Current] = "sent" /\ result[Current] = "ok"
      BY <3>0 DEF NotePending
    <3>1. CASE SerialResult
      BY <3>0, <3>1 DEF SerialResult, SerialRecord, FromChannel, Finished
    <3>2. CASE SerialCancel
      BY <3>0, <3>2 DEF SerialCancel, SerialRecord, Drained, FromChannel, Finished
    <3>3. CASE SerialTimeout
      BY <3>0, <3>3 DEF SerialTimeout, SerialRecord, Drained, FromChannel, Finished
    <3> QED BY <1>3, <3>1, <3>2, <3>3
  <2>3. Current \in Serial
    BY <2>1, CurrentFacts
  <2>4. StartPart'
    <3> SUFFICES ASSUME NEW i \in 1..Len(Config), i >= next'
                 PROVE  thread'[Config[i]] = "none"
      BY <1>0, <2>1 DEF StartPart
    <3>1. i > next
      BY <1>0, <2>1
    <3> QED BY <2>1, <3>1 DEF ConfigInv, StartPart
  <2>5. AskPart' /\ ReplyPart'
    BY <2>1 DEF ConfigInv, AskPart, ReplyPart, Holds
  <2>6. Follows(pending', applied)
    <3>1. CASE pending' = pending
      BY <3>1 DEF ConfigInv, OrderPart
    <3>2. CASE pending' = Append(pending, Current) /\ thread[Current] = "sent" /\ result[Current] = "ok"
      <4>1. Holds(applied, Current)
        BY <2>3, <3>2 DEF ConfigInv, ReplyPart
      <4>2. /\ Follows(pending, applied)
            /\ \A i, j \in 1..Len(applied) : applied[i] = applied[j] => i = j
            /\ \A i \in 1..Len(pending), a, b \in 1..Len(applied) :
                 applied[a] = pending[i] /\ applied[b] = Current => a < b
        BY <2>1 DEF ConfigInv, AskPart, OrderPart
      <4> QED BY <1>0, <2>3, <3>2, <4>1, <4>2, FollowsNoted
    <3> QED BY <2>2, <3>1, <3>2
  <2>7. OrderPart'
    BY <2>1, <2>6 DEF ConfigInv, OrderPart
  <2> QED BY <2>4, <2>5, <2>7 DEF ConfigInv
<1> QED BY <1>1, <1>2, <1>3

LEMMA StepConfig ==
  ASSUME BatchInv, BatchInv', ConfigInv, [Next]_vars
  PROVE  ConfigInv'
<1>0. TypeOK /\ TypeOK' /\ SerialPart
  BY DEF BatchInv
<1>1. CASE ToolStep
  BY <1>0, <1>1, ToolConfig DEF ToolStep
<1>2. CASE ConfigCommand
  BY <1>0, <1>2, CommandConfig
<1>3. CASE Cancel \/ LoopStep \/ UNCHANGED vars
  <2>1. UNCHANGED <<pc, next, pending, mirrored, thread, result, session>>
    BY <1>3 DEF Cancel, LoopStep, LoopResult, LoopKilled, LoopDeadline, LoopDies, Deliver, worker, tools, vars
  <2> QED BY <1>0, <2>1, ConfigFrame
<1>4. CASE SerialCancelled \/ SerialStart \/ SerialResult \/ SerialCancel \/ SerialTimeout
  BY <1>0, <1>4, SerialConfig
<1>5. CASE Dispatch
  <2>1. /\ UNCHANGED <<next, pending, mirrored, result, session>> /\ next > Len(Config)
        /\ pc' \in {"mirror", "collect"}
        /\ \A c \in Serial : thread'[c] = thread[c]
    BY <1>5, ConfigFacts DEF Dispatch
  <2>2. /\ \A i \in 1..Len(asks) : asks[i] \in Serial
        /\ \A i \in 1..Len(applied) : applied[i] \in Serial
        /\ Len(Config) \in Nat /\ next \in Nat
    BY <1>0, ConfigFacts DEF TypeOK
  <2>3. StartPart'
    BY <2>1, <2>2 DEF StartPart
  <2>4. AskPart'
    BY <2>1, <2>2 DEF AskPart, ConfigInv, session
  <2>5. ReplyPart' /\ OrderPart'
    BY <2>1, Zenon DEF ReplyPart, OrderPart, ConfigInv, session
  <2> QED BY <2>3, <2>4, <2>5 DEF ConfigInv
<1>6. CASE (\E h \in batch : Collect(h)) \/ CollectCancel \/ CollectDisconnected
  <2>1. /\ UNCHANGED <<next, pending, mirrored, thread, result, session>>
        /\ pc' \in {"collect", "drain", "mirror"}
    BY <1>6 DEF Collect, CollectCancel, CollectDisconnected, tools
  <2> QED BY <2>1 DEF ConfigInv, StartPart, AskPart, ReplyPart, OrderPart, Follows, Holds, session
<1>7. CASE Mirror
  <2>1. UNCHANGED <<next, pending, thread, result, session>> /\ pc' = "done" /\ mirrored' = pending
    BY <1>7 DEF Mirror, tools
  <2> QED BY <2>1 DEF ConfigInv, StartPart, AskPart, ReplyPart, OrderPart, Follows, Holds, session
<1> QED BY <1>1, <1>2, <1>3, <1>4, <1>5, <1>6, <1>7 DEF Next, WorkerStep

(* What the worker mirrors into its own copy of the configuration is a      *)
(* change the session thread made, in the session thread's order, although  *)
(* commands outlive the waits for them (pending_config_changes).            *)
THEOREM MirrorIsFaithful == Spec => []MirrorFollowsSession
<1>1. Init => ConfigInv
  <2> SUFFICES ASSUME Init PROVE ConfigInv
    OBVIOUS
  <2>1. /\ asks = <<>> /\ applied = <<>> /\ pending = <<>> /\ mirrored = <<>> /\ pc = "serial"
        /\ \A c \in All : thread[c] = "none"
    BY DEF Init
  <2>2. StartPart
    BY <2>1, ConfigFacts DEF StartPart
  <2>3. AskPart /\ OrderPart
    BY <2>1 DEF AskPart, OrderPart, Follows, Holds
  <2>4. ReplyPart
    BY <2>1, ConfigFacts DEF ReplyPart
  <2> QED BY <2>2, <2>3, <2>4 DEF ConfigInv
<1>2. BatchInv /\ BatchInv' /\ ConfigInv /\ [Next]_vars => ConfigInv'
  BY StepConfig
<1>3. ConfigInv => MirrorFollowsSession
  BY DEF ConfigInv, OrderPart, MirrorFollowsSession
<1> QED BY <1>1, <1>2, <1>3, BatchInvariant, PTL DEF Spec

=============================================================================
