----------------------------- MODULE CameraTiming -----------------------------
(* analyzeCameraTiming of aegis-sdk: frame deltas from the collector go through *)
(* WorkerBridge's ring of slots in shared memory to a Web Worker, which answers *)
(* with a result. The main thread owns the tail, the worker the head.           *)
(*                                                                              *)
(* One action is what a thread does for one task: a call, a timer that fires, a *)
(* message. Each thread runs its tasks one by one; the two threads run at once. *)
(* The collector is FrameCollector, here only whether it has enough frames.     *)
EXTENDS Integers, Sequences

CONSTANTS
  Call,          \* calls of analyzeCameraTiming
  RingSize,      \* config.ringSize
  DeltaCounts,   \* how many deltas a collection may have
  Nil

ASSUME RingAssumption ==
  /\ RingSize \in Nat \ {0}
  /\ DeltaCounts \subseteq Nat
  /\ Nil \notin Call

VARIABLES
  lensInitialized,    \* AegisLens.isInitialized
  isInitialized,      \* the bridge has a worker and a buffer
  head, tail,         \* Int32View[HEAD_INDEX], [TAIL_INDEX]
  onResultCallback,   \* the call it resolves, or Nil: nobody's
  isCollecting,
  isComplete,         \* the collector has maxSamples frames
  pc,
  inbox,              \* messages to the worker
  view,               \* the worker has been given the buffer
  outbox              \* messages from the worker

bridgeVars == <<isInitialized, head, tail, onResultCallback>>
collectorVars == <<isCollecting, isComplete>>
workerVars == <<inbox, view, outbox>>
vars == <<lensInitialized, bridgeVars, collectorVars, pc, workerVars>>

-------------------------------------------------------------------------------
(* WorkerBridge *)

(* Mutant: the worker is not given the buffer.                                 *)
InitializeForgetsBuffer ==
  /\ ~lensInitialized
  /\ lensInitialized' = TRUE /\ isInitialized' = TRUE
  /\ head' = 0 /\ tail' = 0
  /\ onResultCallback' = Nil
  /\ inbox' = <<>> /\ view' = FALSE /\ outbox' = <<>>
  /\ UNCHANGED <<collectorVars, pc>>

(* A new buffer, a new worker; AegisLens then registers handleEntropyResult,   *)
(* which does nothing. That initialize and cleanup may overlap is AegisLens's. *)
Initialize ==
  /\ ~lensInitialized
  /\ lensInitialized' = TRUE /\ isInitialized' = TRUE
  /\ head' = 0 /\ tail' = 0
  /\ onResultCallback' = Nil
  /\ inbox' = <<"init">> /\ view' = FALSE /\ outbox' = <<>>
  /\ UNCHANGED <<collectorVars, pc>>

(* A delta takes two 32-bit words, an array one slot. "available" is the       *)
(* number of slots in use. Only this thread moves the tail, so the exchange    *)
(* succeeds at once.                                                           *)
WriteFrameDeltas(n) ==
  tail' = IF (tail - head + RingSize) % RingSize < 2 * n + 1
          THEN tail ELSE (tail + 1) % RingSize

(* Mutant: the worker's messages outlive it.                                   *)
TerminateKeepsInbox ==
  /\ isInitialized' = FALSE
  /\ onResultCallback' = Nil
  /\ view' = FALSE /\ outbox' = <<>>
  /\ UNCHANGED <<head, tail, inbox>>

(* terminate() kills the worker with all that is queued from and to it.        *)
Terminate ==
  /\ isInitialized' = FALSE
  /\ onResultCallback' = Nil
  /\ inbox' = <<>> /\ view' = FALSE /\ outbox' = <<>>
  /\ UNCHANGED <<head, tail>>

(* cleanup stops and resets the collector first. If webgazer was loaded it     *)
(* then waits for an import, and only Forget ends it.                          *)
Cleanup ==
  /\ isCollecting' = FALSE /\ isComplete' = FALSE
  /\ Terminate
  /\ lensInitialized' \in {FALSE, lensInitialized}
  /\ UNCHANGED pc

Forget ==
  /\ lensInitialized /\ ~isInitialized
  /\ lensInitialized' = FALSE
  /\ UNCHANGED <<bridgeVars, collectorVars, pc, workerVars>>

-------------------------------------------------------------------------------
(* analyzeCameraTiming *)

(* start() does nothing beside a collection that goes on.                      *)
Analyze(c) ==
  /\ pc[c] = "idle"
  /\ IF lensInitialized
     THEN /\ pc' = [pc EXCEPT ![c] = "collect"]
          /\ isCollecting' = TRUE
          /\ isComplete' = (isComplete /\ isCollecting)
     ELSE pc' = [pc EXCEPT ![c] = "done"] /\ UNCHANGED collectorVars
  /\ UNCHANGED <<lensInitialized, bridgeVars, workerVars>>

(* The last frame, and the callback after it that ends the collection.         *)
FramesComplete ==
  /\ isCollecting
  /\ isComplete' = TRUE /\ isCollecting' = ~isComplete
  /\ UNCHANGED <<lensInitialized, bridgeVars, pc, workerVars>>

(* Mutant: the collector is reset once its deltas have been read.              *)
CollectedResets(c) ==
  /\ pc[c] = "collect" /\ isComplete
  /\ IF isInitialized
     THEN /\ \E n \in DeltaCounts : WriteFrameDeltas(n)
          /\ inbox' = Append(inbox, "analyze")
          /\ onResultCallback' = c
          /\ pc' = [pc EXCEPT ![c] = "result"]
     ELSE pc' = [pc EXCEPT ![c] = "done"]
          /\ UNCHANGED <<tail, inbox, onResultCallback>>
  /\ isCollecting' = FALSE /\ isComplete' = FALSE
  /\ UNCHANGED <<lensInitialized, isInitialized, head, view, outbox>>

(* The interval finds the frames complete: write, trigger, and wait for the    *)
(* result in the place of whoever waited before. Without a worker it throws.   *)
Collected(c) ==
  /\ pc[c] = "collect" /\ isComplete
  /\ IF isInitialized
     THEN /\ \E n \in DeltaCounts : WriteFrameDeltas(n)
          /\ inbox' = Append(inbox, "analyze")
          /\ onResultCallback' = c
          /\ pc' = [pc EXCEPT ![c] = "result"]
     ELSE pc' = [pc EXCEPT ![c] = "done"]
          /\ UNCHANGED <<tail, inbox, onResultCallback>>
  /\ UNCHANGED <<lensInitialized, isInitialized, head, collectorVars, view,
                 outbox>>

(* handleWorkerMessage: "initialized" is nobody's business.                    *)
HandleWorkerMessage ==
  /\ outbox # <<>>
  /\ outbox' = Tail(outbox)
  /\ pc' = IF Head(outbox) = "result" /\ onResultCallback # Nil
           THEN [pc EXCEPT ![onResultCallback] = "done"]
           ELSE pc
  /\ UNCHANGED <<lensInitialized, bridgeVars, collectorVars, inbox, view>>

-------------------------------------------------------------------------------
(* The worker *)

(* The WASM module is fetched in the background, if there is one.              *)
WorkerInit ==
  /\ inbox # <<>> /\ Head(inbox) = "init"
  /\ inbox' = Tail(inbox)
  /\ view' = TRUE
  /\ outbox' = Append(outbox, "initialized")
  /\ UNCHANGED <<lensInitialized, bridgeVars, collectorVars, pc>>

(* The slots from head to tail are read, and one result answers them all.      *)
WorkerAnalyze ==
  /\ inbox # <<>> /\ Head(inbox) = "analyze"
  /\ inbox' = Tail(inbox)
  /\ IF ~view \/ head = tail
     THEN UNCHANGED <<head, outbox>>
     ELSE head' = tail /\ outbox' = Append(outbox, "result")
  /\ UNCHANGED <<lensInitialized, isInitialized, tail, onResultCallback,
                 collectorVars, pc, view>>

-------------------------------------------------------------------------------
Init ==
  /\ lensInitialized = FALSE /\ isInitialized = FALSE
  /\ head = 0 /\ tail = 0
  /\ onResultCallback = Nil
  /\ isCollecting = FALSE /\ isComplete = FALSE
  /\ pc = [c \in Call |-> "idle"]
  /\ inbox = <<>> /\ view = FALSE /\ outbox = <<>>

Interval == \E c \in Call : Collected(c)

Next ==
  \/ Initialize \/ Cleanup \/ Forget
  \/ \E c \in Call : Analyze(c)
  \/ FramesComplete \/ Interval
  \/ HandleWorkerMessage
  \/ WorkerInit \/ WorkerAnalyze

Spec == Init /\ [][Next]_vars

(* Timers fire, frames arrive (FrameCollector's CollectionEnds), both threads  *)
(* take up their messages. The host need not call anything.                    *)
FairSpec ==
  /\ Spec
  /\ WF_vars(FramesComplete)
  /\ \A c \in Call : WF_vars(Collected(c))
  /\ WF_vars(HandleWorkerMessage) /\ WF_vars(WorkerInit) /\ WF_vars(WorkerAnalyze)

-------------------------------------------------------------------------------
(* Properties *)

(* Types; the worker holds a buffer, and messages are under way, only while    *)
(* the bridge has a worker.                                                    *)
TypeOK ==
  /\ lensInitialized \in BOOLEAN /\ isInitialized \in BOOLEAN
  /\ isCollecting \in BOOLEAN /\ isComplete \in BOOLEAN /\ view \in BOOLEAN
  /\ head \in 0..RingSize - 1 /\ tail \in 0..RingSize - 1
  /\ onResultCallback \in Call \cup {Nil}
  /\ pc \in [Call -> {"idle", "collect", "result", "done"}]
  /\ inbox \in Seq({"init", "analyze"})
  /\ outbox \in Seq({"initialized", "result"})
  /\ (view \/ inbox # <<>> \/ outbox # <<>>) => isInitialized

(* No analysis reaches a worker before its buffer: init is the first message   *)
(* of every worker, over any number of cleanup and initialize calls            *)
(* (worker-bridge.ts:60, 148, 176).                                            *)
BufferBeforeAnalysis ==
  inbox # <<>> => (Head(inbox) = "analyze" <=> view)

(* The interval of a call polls a collector that neither has its frames nor    *)
(* collects any.                                                               *)
Abandoned(c) == pc[c] = "collect" /\ ~isCollecting /\ ~isComplete

(* Calls that collect at once share one collector: each may start it anew or   *)
(* take its frames while the others still poll, and yet nothing but a cleanup  *)
(* leaves one of them without frames to wait for (index.ts:201-205, 408-410,   *)
(* 657-666, frame-collector.ts:31-41).                                         *)
AbandonedOnlyByCleanup ==
  [][\A c \in Call : ~Abandoned(c) /\ Abandoned(c)' => ~isInitialized']_vars

(* worker-bridge.ts:4 "Passes frame delta arrays to Web Worker for WASM        *)
(* processing": a call that waits for the worker gets its result, unless       *)
(* cleanup or another call takes its place.                                    *)
DeltasAreAnalysed ==
  \A c \in Call : onResultCallback = c ~> pc[c] = "done" \/ onResultCallback # c
===============================================================================
