-------------------------- MODULE CameraTimingProofs --------------------------
(* CameraTiming for every ring size, every number of deltas and any calls.     *)
EXTENDS CameraTiming, TLAPS

(* The worker's first message is the buffer, all later ones are triggers.      *)
InboxInv ==
  /\ \A i \in 1..Len(inbox) : inbox[i] = IF i = 1 /\ ~view THEN "init" ELSE "analyze"
  /\ isInitialized /\ ~view => inbox # <<>>

(* worker-bridge.ts:103-106 takes the slots in use for the room that is left,  *)
(* so writeFrameDeltas refuses everything from the empty ring on.              *)
NothingIsWritten == head = tail /\ \A i \in 1..Len(outbox) : outbox[i] # "result"

IInv == TypeOK /\ InboxInv /\ NothingIsWritten

(* In an empty ring the room that writeFrameDeltas sees is 0.                  *)
LEMMA EmptyRingHasNoRoom ==
  ASSUME NEW t \in 0..RingSize - 1
  PROVE  (t - t + RingSize) % RingSize = 0
<1>1. RingSize \in Nat \ {0}
  BY RingAssumption
<1>2. t - t + RingSize = RingSize
  BY <1>1
<1>3. RingSize % RingSize = 0
  BY <1>1
<1> QED
  BY <1>2, <1>3

LEMMA InitIInv == Init => IInv
<1> SUFFICES ASSUME Init PROVE IInv
  OBVIOUS
<1>1. TypeOK
  <2>1. head \in 0..RingSize - 1 /\ tail \in 0..RingSize - 1
    BY RingAssumption DEF Init
  <2>2. pc \in [Call -> {"idle", "collect", "result", "done"}]
    BY DEF Init
  <2>3. inbox \in Seq({"init", "analyze"}) /\ outbox \in Seq({"initialized", "result"})
    BY DEF Init
  <2> QED
    BY <2>1, <2>2, <2>3 DEF Init, TypeOK
<1>2. InboxInv /\ NothingIsWritten
  BY DEF Init, InboxInv, NothingIsWritten
<1> QED
  BY <1>1, <1>2 DEF IInv

LEMMA WriteIsRefused ==
  ASSUME IInv, NEW n \in DeltaCounts, WriteFrameDeltas(n)
  PROVE  tail' = tail
<1>1. tail \in 0..RingSize - 1 /\ head = tail
  BY DEF IInv, TypeOK, NothingIsWritten
<1>2. (tail - head + RingSize) % RingSize = 0
  BY <1>1, EmptyRingHasNoRoom
<1>3. n \in Nat
  BY RingAssumption
<1> QED
  BY <1>2, <1>3 DEF WriteFrameDeltas

LEMMA NextIInv == IInv /\ [Next]_vars => IInv'
<1> SUFFICES ASSUME IInv, [Next]_vars PROVE IInv'
  OBVIOUS
<1> USE RingAssumption DEF IInv, TypeOK, InboxInv, NothingIsWritten
<1>1. CASE Initialize
  <2>1. head' \in 0..RingSize - 1 /\ head' = tail'
    BY <1>1 DEF Initialize
  <2>2. inbox' \in Seq({"init", "analyze"}) /\ outbox' \in Seq({"initialized", "result"})
    BY <1>1 DEF Initialize
  <2>3. TypeOK'
    BY <1>1, <2>1, <2>2 DEF Initialize, collectorVars
  <2>4. InboxInv' /\ NothingIsWritten'
    BY <1>1, <2>1 DEF Initialize
  <2> QED
    BY <2>3, <2>4
<1>2. CASE Cleanup
  <2>1. inbox' \in Seq({"init", "analyze"}) /\ outbox' \in Seq({"initialized", "result"})
    BY <1>2 DEF Cleanup, Terminate
  <2>2. TypeOK'
    BY <1>2, <2>1 DEF Cleanup, Terminate
  <2>3. InboxInv' /\ NothingIsWritten'
    BY <1>2 DEF Cleanup, Terminate
  <2> QED
    BY <2>2, <2>3
<1>3. CASE Forget
  BY <1>3 DEF Forget, bridgeVars, collectorVars, workerVars
<1>4. ASSUME NEW c \in Call, Analyze(c) PROVE IInv'
  BY <1>4 DEF Analyze, bridgeVars, collectorVars, workerVars
<1>5. CASE FramesComplete
  BY <1>5 DEF FramesComplete, bridgeVars, workerVars
<1>6. ASSUME NEW c \in Call, Collected(c) PROVE IInv'
  <2>1. tail' = tail
    BY <1>6, WriteIsRefused DEF Collected
  <2>2. inbox' = IF isInitialized THEN Append(inbox, "analyze") ELSE inbox
    BY <1>6 DEF Collected
  <2>3. TypeOK'
    BY <1>6, <2>1, <2>2 DEF Collected, collectorVars
  <2>4. InboxInv'
    BY <1>6, <2>2 DEF Collected, collectorVars
  <2>5. NothingIsWritten'
    BY <1>6, <2>1 DEF Collected
  <2> QED
    BY <2>3, <2>4, <2>5
<1>7. CASE HandleWorkerMessage
  <2>1. Head(outbox) # "result" /\ pc' = pc
    BY <1>7 DEF HandleWorkerMessage
  <2> QED
    BY <1>7, <2>1 DEF HandleWorkerMessage, bridgeVars, collectorVars
<1>8. CASE WorkerInit
  BY <1>8 DEF WorkerInit, bridgeVars, collectorVars
<1>9. CASE WorkerAnalyze
  <2>1. view
    BY <1>9 DEF WorkerAnalyze
  <2> QED
    BY <1>9, <2>1 DEF WorkerAnalyze, bridgeVars, collectorVars
<1>10. CASE UNCHANGED vars
  BY <1>10 DEF vars, bridgeVars, collectorVars, workerVars
<1> QED
  BY <1>1, <1>2, <1>3, <1>4, <1>5, <1>6, <1>7, <1>8, <1>9, <1>10 DEF Next, Interval

LEMMA SpecIInv == Spec => []IInv
<1> QED
  BY InitIInv, NextIInv, PTL DEF Spec

(* Types, and nothing under way once the worker is gone.                       *)
THEOREM TypeCorrect == Spec => []TypeOK
<1>1. IInv => TypeOK
  BY DEF IInv
<1> QED
  BY <1>1, SpecIInv, PTL

(* Every worker is given its buffer before the first trigger (worker-bridge.ts *)
(* 34-70, 142-149, 174-184).                                                   *)
THEOREM BufferComesFirst == Spec => []BufferBeforeAnalysis
<1>1. IInv => BufferBeforeAnalysis
  BY DEF IInv, TypeOK, InboxInv, BufferBeforeAnalysis
<1> QED
  BY <1>1, SpecIInv, PTL

(* No ring is large enough and no array short enough for writeFrameDeltas to   *)
(* accept it, and no worker ever posts a result (worker-bridge.ts:103-106).    *)
THEOREM NoArrayIsEverWritten == Spec => []NothingIsWritten
<1>1. IInv => NothingIsWritten
  BY DEF IInv
<1> QED
  BY <1>1, SpecIInv, PTL

(* A call that waits for the worker waits for ever, whatever is called, cleaned *)
(* up and initialized after it; a call that does end found no SDK or no worker *)
(* (index.ts:606-677, worker-bridge.ts:103-106).                               *)
WaitsForEver == \A c \in Call : pc[c] = "result" => pc'[c] = "result"
EndsWithoutResult ==
  \A c \in Call : pc[c] # "done" /\ pc'[c] = "done" => ~lensInitialized \/ ~isInitialized

LEMMA NoCallIsAnswered == IInv /\ [Next]_vars => WaitsForEver /\ EndsWithoutResult
<1> SUFFICES ASSUME IInv, [Next]_vars PROVE WaitsForEver /\ EndsWithoutResult
  OBVIOUS
<1> USE DEF WaitsForEver, EndsWithoutResult
<1>1. pc \in [Call -> {"idle", "collect", "result", "done"}]
  BY DEF IInv, TypeOK
<1>2. ASSUME NEW c \in Call, Analyze(c) \/ Collected(c)
      PROVE  WaitsForEver /\ EndsWithoutResult
  BY <1>1, <1>2 DEF Analyze, Collected
<1>3. CASE HandleWorkerMessage
  <2>1. Head(outbox) # "result"
    BY <1>3 DEF HandleWorkerMessage, IInv, TypeOK, NothingIsWritten
  <2> QED
    BY <1>3, <2>1 DEF HandleWorkerMessage
<1>4. CASE UNCHANGED pc
  BY <1>4
<1> QED
  BY <1>2, <1>3, <1>4 DEF Next, Interval, Initialize, Cleanup, Forget, FramesComplete,
     WorkerInit, WorkerAnalyze, vars

(* For any ring, any number of samples and any schedule, no analysis returns   *)
(* what the worker makes of it (worker-bridge.ts:103-106).                     *)
THEOREM AnalysesAreNeverAnswered == Spec => [][WaitsForEver /\ EndsWithoutResult]_vars
<1>1. IInv /\ [Next]_vars => [WaitsForEver /\ EndsWithoutResult]_vars
  BY NoCallIsAnswered
<1> QED
  BY <1>1, SpecIInv, PTL DEF Spec

(* Calls share the collector, and none but a cleanup takes from another the    *)
(* frames it polls for (index.ts:201-205, 657-666, frame-collector.ts:31-41).  *)
THEOREM OnlyCleanupAbandons == Spec => AbandonedOnlyByCleanup
<1> DEFINE Step == \A c \in Call : ~Abandoned(c) /\ Abandoned(c)' => ~isInitialized'
<1>1. IInv /\ [Next]_vars => [Step]_vars
  <2> SUFFICES ASSUME IInv, Next, NEW c \in Call, ~Abandoned(c), Abandoned(c)'
               PROVE  ~isInitialized'
    OBVIOUS
  <2>0. pc \in [Call -> {"idle", "collect", "result", "done"}]
        /\ isComplete \in BOOLEAN /\ isCollecting \in BOOLEAN
    BY DEF IInv, TypeOK
  <2> USE DEF Abandoned
  <2>1. CASE Cleanup
    BY <2>1 DEF Cleanup, Terminate
  <2>2. CASE \E d \in Call : Analyze(d)
    BY <2>0, <2>2 DEF Analyze, collectorVars
  <2>3. CASE FramesComplete
    BY <2>3 DEF FramesComplete
  <2>4. CASE Interval
    BY <2>0, <2>4 DEF Interval, Collected, collectorVars
  <2>5. CASE HandleWorkerMessage
    <3>1. pc'[c] = "collect" => pc[c] = "collect"
      BY <2>0, <2>5 DEF HandleWorkerMessage
    <3> QED
      BY <2>5, <3>1 DEF HandleWorkerMessage, collectorVars
  <2>6. CASE Initialize \/ Forget \/ WorkerInit \/ WorkerAnalyze
    BY <2>6 DEF Initialize, Forget, WorkerInit, WorkerAnalyze, collectorVars
  <2> QED
    BY <2>1, <2>2, <2>3, <2>4, <2>5, <2>6 DEF Next
<1> QED
  BY <1>1, SpecIInv, PTL DEF Spec, AbandonedOnlyByCleanup

(* No analysis is begun.                                                       *)
NoNewCall == \A c \in Call : pc[c] = "idle" => pc'[c] = "idle"

LEMMA AbandonedStep ==
  ASSUME IInv, [Next]_vars, NoNewCall, NEW c \in Call, Abandoned(c)
  PROVE  Abandoned(c)'
<1> USE DEF Abandoned
<1>1. pc \in [Call -> {"idle", "collect", "result", "done"}]
  BY DEF IInv, TypeOK
<1>2. CASE Cleanup
  BY <1>2 DEF Cleanup
<1>3. ASSUME NEW d \in Call PROVE ~Analyze(d) /\ ~Collected(d)
  BY <1>1 DEF Analyze, Collected, NoNewCall
<1>4. CASE HandleWorkerMessage
  <2>1. Head(outbox) # "result"
    BY <1>4 DEF HandleWorkerMessage, IInv, TypeOK, NothingIsWritten
  <2> QED
    BY <1>4, <2>1 DEF HandleWorkerMessage, collectorVars
<1> QED
  BY <1>2, <1>3, <1>4 DEF Next, Interval, Initialize, Forget, FramesComplete, WorkerInit,
     WorkerAnalyze, vars, collectorVars

(* cleanup stops and resets the collector under an analysis that collects, and *)
(* its interval finds that it has not completed every 100 ms for ever, also    *)
(* after a new initialize: only an analysis begun later could end it           *)
(* (index.ts:657-666, frame-collector.ts:93-126).                              *)
THEOREM CleanupAbandonsAnalyses ==
  ASSUME NEW c \in Call
  PROVE  Spec => /\ [][Cleanup /\ pc[c] = "collect" => Abandoned(c)']_vars
                 /\ [](Abandoned(c) /\ [][NoNewCall]_vars => []Abandoned(c))
<1>1. Cleanup /\ pc[c] = "collect" => Abandoned(c)'
  BY DEF Cleanup, Abandoned
<1>2. IInv /\ [Next]_vars /\ [NoNewCall]_vars /\ Abandoned(c) => Abandoned(c)'
  <2>1. CASE UNCHANGED vars
    BY <2>1 DEF vars, collectorVars, Abandoned
  <2>2. CASE ~UNCHANGED vars
    BY <2>2, AbandonedStep
  <2> QED
    BY <2>1, <2>2
<1> QED
  BY <1>1, <1>2, SpecIInv, PTL DEF Spec
===============================================================================
