---------------------------- MODULE FrameCollector ----------------------------
(* FrameCollector of aegis-sdk: frame timestamps collected by a chain of       *)
(* callbacks, a frame callback that sets a timer that requests the next frame  *)
(* callback. stop() does not break the chain: it cannot cancel a video frame   *)
(* callback or a timer, which go on if start() is called before they fire.     *)
(*                                                                             *)
(* The browser is external. It presents a frame only after it has run every    *)
(* callback due in the one before; frames nobody waits for are left out.       *)
EXTENDS Integers, Sequences, FiniteSets

CONSTANTS
  MaxSamples,        \* config.maxSamples
  Gaps,              \* how far apart two frames may be
  Handles,           \* what the browser returns for a request; more than it needs
  Nil,
  MaxStarts          \* bound: how often start() begins a collection

ASSUME CollectorAssumption ==
  /\ MaxSamples \in Nat \ {0}
  /\ Gaps \subseteq Nat \ {0}
  /\ Nil \notin Nat \cup Handles
  /\ MaxStarts \in Nat

VARIABLES
  isCollecting,
  frameTimings,      \* the timestamps; a frameIndex is a position
  frameDeltas,
  lastTimestamp,
  animationFrameId,  \* the latest requestAnimationFrame, or Nil
  frames,            \* frame callbacks requested and neither run nor cancelled
  timers,            \* number of pending setTimeouts
  usesVideoFrames,   \* 'requestVideoFrameCallback' in videoElement, for good
  now,               \* presentation time of the latest frame
  starts             \* collections begun so far

browserVars == <<frames, timers, usesVideoFrames, now>>
vars == <<isCollecting, frameTimings, frameDeltas, lastTimestamp,
          animationFrameId, browserVars, starts>>

Callback == [id : Handles, since : Nat]   \* runs in the first frame after "since"

-------------------------------------------------------------------------------
(* Cancels an animation frame, never a video frame callback or a timer.        *)
Stop ==
  /\ isCollecting' = FALSE
  /\ frames' = {f \in frames : f.id # animationFrameId}
  /\ animationFrameId' = Nil

RequestFrame(pending) ==
  \E id \in Handles \ {animationFrameId} :
    /\ \A f \in pending : f.id # id
    /\ frames' = pending \cup {[id |-> id, since |-> now]}
    /\ animationFrameId' = IF usesVideoFrames THEN animationFrameId ELSE id

(* Mutant: start() keeps the last timestamp.                                   *)
StartKeepsLast ==
  /\ starts < MaxStarts
  /\ ~isCollecting
  /\ isCollecting' = TRUE
  /\ frameTimings' = <<>>
  /\ frameDeltas' = <<>>
  /\ UNCHANGED lastTimestamp
  /\ RequestFrame(frames)
  /\ starts' = starts + 1
  /\ UNCHANGED <<timers, usesVideoFrames, now>>

(* start(): ignored during a collection.                                       *)
Start ==
  /\ starts < MaxStarts
  /\ ~isCollecting
  /\ isCollecting' = TRUE
  /\ frameTimings' = <<>>
  /\ frameDeltas' = <<>>
  /\ lastTimestamp' = Nil
  /\ RequestFrame(frames)
  /\ starts' = starts + 1
  /\ UNCHANGED <<timers, usesVideoFrames, now>>

(* stop() called by the host.                                                  *)
HostStop ==
  /\ Stop
  /\ UNCHANGED <<frameTimings, frameDeltas, lastTimestamp, timers,
                 usesVideoFrames, now, starts>>

Reset ==
  /\ Stop
  /\ frameTimings' = <<>>
  /\ frameDeltas' = <<>>
  /\ lastTimestamp' = Nil
  /\ UNCHANGED <<timers, usesVideoFrames, now, starts>>

(* Mutant: the next frame is requested at once, beside the timer.              *)
HandleFrameRequestsToo(f) ==
  /\ f \in frames /\ f.since < now
  /\ isCollecting
  /\ RequestFrame(frames \ {f})
  /\ frameTimings' = Append(frameTimings, now)
  /\ frameDeltas' = IF lastTimestamp # Nil
                    THEN Append(frameDeltas, now - lastTimestamp) ELSE frameDeltas
  /\ lastTimestamp' = now
  /\ timers' = timers + 1
  /\ UNCHANGED <<isCollecting, usesVideoFrames, now, starts>>

(* handleVideoFrameCallback, handleAnimationFrame                              *)
HandleFrame(f) ==
  /\ f \in frames /\ f.since < now
  /\ frames' = frames \ {f}
  /\ IF isCollecting
     THEN /\ frameTimings' = Append(frameTimings, now)
          /\ frameDeltas' = IF lastTimestamp # Nil
                            THEN Append(frameDeltas, now - lastTimestamp)
                            ELSE frameDeltas
          /\ lastTimestamp' = now
          /\ timers' = timers + 1
     ELSE UNCHANGED <<frameTimings, frameDeltas, lastTimestamp, timers>>
  /\ UNCHANGED <<isCollecting, animationFrameId, usesVideoFrames, now, starts>>

(* Mutants: one sample too many; a full collection is not ended.               *)
TimerFiresLate ==
  /\ timers > 0
  /\ timers' = timers - 1
  /\ IF ~isCollecting \/ Len(frameTimings) > MaxSamples
     THEN Stop
     ELSE RequestFrame(frames) /\ UNCHANGED isCollecting
  /\ UNCHANGED <<frameTimings, frameDeltas, lastTimestamp, usesVideoFrames, now,
                 starts>>

TimerFiresAndLeaves ==
  /\ timers > 0
  /\ timers' = timers - 1
  /\ IF ~isCollecting \/ Len(frameTimings) >= MaxSamples
     THEN UNCHANGED <<isCollecting, frames, animationFrameId>>
     ELSE RequestFrame(frames) /\ UNCHANGED isCollecting
  /\ UNCHANGED <<frameTimings, frameDeltas, lastTimestamp, usesVideoFrames, now,
                 starts>>

(* collectFrame run by a timer, of this collection or of an earlier one.       *)
TimerFires ==
  /\ timers > 0
  /\ timers' = timers - 1
  /\ IF ~isCollecting \/ Len(frameTimings) >= MaxSamples
     THEN Stop
     ELSE RequestFrame(frames) /\ UNCHANGED isCollecting
  /\ UNCHANGED <<frameTimings, frameDeltas, lastTimestamp, usesVideoFrames, now,
                 starts>>

(* The browser presents the next frame that somebody waits for.                *)
Present ==
  /\ frames # {}
  /\ \A f \in frames : f.since = now
  /\ \E gap \in Gaps : now' = now + gap
  /\ UNCHANGED <<isCollecting, frameTimings, frameDeltas, lastTimestamp,
                 animationFrameId, frames, timers, usesVideoFrames, starts>>

Init ==
  /\ isCollecting = FALSE
  /\ frameTimings = <<>>
  /\ frameDeltas = <<>>
  /\ lastTimestamp = Nil
  /\ animationFrameId = Nil
  /\ frames = {}
  /\ timers = 0
  /\ usesVideoFrames \in BOOLEAN
  /\ now = 0
  /\ starts = 0

Browser == (\E f \in frames : HandleFrame(f)) \/ TimerFires \/ Present

Next == Start \/ HostStop \/ Reset \/ Browser

Spec == Init /\ [][Next]_vars

(* The event loop runs callbacks and timers, and the video plays.              *)
FairSpec == Spec /\ WF_vars(Browser)

-------------------------------------------------------------------------------
(* Properties *)

(* Types; and no more chains of callbacks than collections were begun.         *)
TypeOK ==
  /\ isCollecting \in BOOLEAN
  /\ frameTimings \in Seq(Nat)
  /\ frameDeltas \in Seq(Int)
  /\ lastTimestamp \in Nat \cup {Nil}
  /\ animationFrameId \in Handles \cup {Nil}
  /\ frames \in SUBSET Callback /\ IsFiniteSet(frames)
  /\ usesVideoFrames \in BOOLEAN
  /\ timers \in Nat /\ now \in Nat /\ starts \in Nat
  /\ Cardinality(frames) + timers <= starts

(* A delta is the distance of two neighbouring samples of one collection,      *)
(* although callbacks of an earlier collection may add samples to this one     *)
(* (frame-collector.ts:68-91).                                                 *)
DeltasMatchTimings ==
  /\ Len(frameDeltas) = IF frameTimings = <<>> THEN 0 ELSE Len(frameTimings) - 1
  /\ \A i \in 1 .. Len(frameDeltas) :
       frameDeltas[i] = frameTimings[i + 1] - frameTimings[i]

(* A collection overshoots maxSamples by at most one sample for each earlier   *)
(* collection whose callbacks are still about (frame-collector.ts:51-55).      *)
SamplesBounded ==
  Len(frameTimings) <= MaxSamples + IF starts = 0 THEN 0 ELSE starts - 1

(* In the first collection every sample is a frame of its own: no delta is 0.  *)
FirstRunHasDistinctFrames ==
  starts <= 1 => \A i \in 1 .. Len(frameDeltas) : frameDeltas[i] > 0

(* A collection ends: by itself, if the video plays and nobody stops it.       *)
CollectionEnds == isCollecting ~> ~isCollecting
===============================================================================
