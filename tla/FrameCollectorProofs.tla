------------------------- MODULE FrameCollectorProofs -------------------------
(* The frame collector, for every sample count and any number of restarts.     *)
EXTENDS FrameCollector, FiniteSetTheorems, TLAPS

USE CollectorAssumption

(* The last timestamp is that of the last sample.                              *)
LastInv ==
  /\ frameTimings = <<>> => lastTimestamp = Nil
  /\ frameTimings # <<>> => lastTimestamp = frameTimings[Len(frameTimings)]

(* A sample beyond the last wanted one has left a timer behind, and the first  *)
(* of these timers ends the collection.                                        *)
CountInv ==
  /\ isCollecting /\ Len(frameTimings) >= MaxSamples =>
       Len(frameTimings) <= MaxSamples - 1 + timers
  /\ Len(frameTimings) > 0 => Len(frameTimings) <= MaxSamples - 1 + starts
  /\ isCollecting \/ Len(frameTimings) > 0 => starts > 0

IInv == TypeOK /\ LastInv /\ DeltasMatchTimings /\ CountInv

-------------------------------------------------------------------------------
(* Requesting a frame adds one callback.                                       *)
LEMMA RequestAdds ==
  ASSUME NEW pending \in SUBSET Callback, IsFiniteSet(pending), now \in Nat,
         animationFrameId \in Handles \cup {Nil}, RequestFrame(pending)
  PROVE  /\ frames' \in SUBSET Callback /\ IsFiniteSet(frames')
         /\ Cardinality(frames') = Cardinality(pending) + 1
         /\ animationFrameId' \in Handles \cup {Nil}
<1>1. PICK id \in Handles :
        /\ \A f \in pending : f.id # id
        /\ frames' = pending \cup {[id |-> id, since |-> now]}
        /\ animationFrameId' = IF usesVideoFrames THEN animationFrameId ELSE id
  BY DEF RequestFrame
<1>2. [id |-> id, since |-> now] \notin pending
  BY <1>1
<1> QED
  BY <1>1, <1>2, FS_AddElement DEF Callback

(* Stopping cancels callbacks and adds none.                                   *)
LEMMA StopRemoves ==
  ASSUME TypeOK, Stop
  PROVE  /\ frames' \in SUBSET Callback /\ IsFiniteSet(frames')
         /\ Cardinality(frames') <= Cardinality(frames)
         /\ Cardinality(frames) \in Nat /\ Cardinality(frames') \in Nat
         /\ animationFrameId' \in Handles \cup {Nil}
         /\ isCollecting' \in BOOLEAN
<1>1. frames' \subseteq frames
  BY DEF Stop
<1> QED
  BY <1>1, FS_Subset, FS_CardinalityType DEF TypeOK, Stop

(* One more sample keeps samples and deltas in step.                           *)
LEMMA SampleKeepsDeltas ==
  ASSUME TypeOK, LastInv, DeltasMatchTimings,
         frameTimings' = Append(frameTimings, now),
         frameDeltas' = IF lastTimestamp # Nil
                        THEN Append(frameDeltas, now - lastTimestamp)
                        ELSE frameDeltas,
         lastTimestamp' = now
  PROVE  LastInv' /\ DeltasMatchTimings' /\ frameTimings' \in Seq(Nat)
         /\ frameDeltas' \in Seq(Int) /\ Len(frameTimings') = Len(frameTimings) + 1
<1> USE DEF TypeOK, LastInv, DeltasMatchTimings
<1>1. /\ frameTimings' \in Seq(Nat) /\ Len(frameTimings') = Len(frameTimings) + 1
      /\ frameTimings' # <<>> /\ frameTimings'[Len(frameTimings')] = now
      /\ \A i \in 1 .. Len(frameTimings) : frameTimings'[i] = frameTimings[i]
  OBVIOUS
<1>2. CASE frameTimings = <<>>
  <2>1. Len(frameDeltas) = 0 /\ lastTimestamp = Nil /\ Len(frameTimings) = 0
    BY <1>2
  <2>2. frameDeltas' = frameDeltas
    BY <2>1
  <2>3. LastInv'
    BY <1>1
  <2>4. DeltasMatchTimings'
    BY <1>1, <2>1, <2>2
  <2> QED
    BY <1>1, <2>2, <2>3, <2>4
<1>3. CASE frameTimings # <<>>
  <2> DEFINE n == Len(frameTimings)
  <2>1. n \in Nat /\ n > 0 /\ frameTimings[n] \in Nat /\ lastTimestamp = frameTimings[n]
    BY <1>3
  <2>2. /\ frameDeltas' = Append(frameDeltas, now - lastTimestamp)
        /\ now - lastTimestamp \in Int /\ Len(frameDeltas) = n - 1
    BY <1>3, <2>1
  <2>3. /\ frameDeltas' \in Seq(Int) /\ Len(frameDeltas') = n
        /\ frameDeltas'[n] = now - frameTimings[n]
        /\ \A i \in 1 .. n - 1 : frameDeltas'[i] = frameDeltas[i]
    BY <2>1, <2>2
  <2>4. \A i \in 1 .. n : frameDeltas'[i] = frameTimings'[i + 1] - frameTimings'[i]
    BY <1>1, <2>1, <2>2, <2>3
  <2>5. LastInv'
    BY <1>1
  <2>6. DeltasMatchTimings'
    <3>1. Len(frameDeltas') = Len(frameTimings') - 1 /\ frameTimings' # <<>>
      BY <1>1, <2>3
    <3> QED
      BY <1>1, <2>1, <2>3, <2>4, <3>1
  <2> QED
    BY <1>1, <2>3, <2>5, <2>6
<1> QED
  BY <1>2, <1>3

(* What concerns the samples alone is kept by a step that leaves them alone,   *)
(* and restored by one that empties them.                                      *)
LEMMA SamplesKept ==
  ASSUME LastInv, DeltasMatchTimings,
         UNCHANGED <<frameTimings, frameDeltas, lastTimestamp>>
  PROVE  LastInv' /\ DeltasMatchTimings'
<1>1. LastInv'
  BY DEF LastInv
<1>2. DeltasMatchTimings'
  BY DEF DeltasMatchTimings
<1> QED
  BY <1>1, <1>2

LEMMA SamplesEmptied ==
  ASSUME frameTimings' = <<>>, frameDeltas' = <<>>, lastTimestamp' = Nil
  PROVE  LastInv' /\ DeltasMatchTimings' /\ Len(frameTimings') = 0
<1>1. Len(frameDeltas') = 0 /\ Len(frameTimings') = 0
  OBVIOUS
<1>2. LastInv'
  BY DEF LastInv
<1>3. DeltasMatchTimings'
  BY <1>1 DEF DeltasMatchTimings
<1> QED
  BY <1>1, <1>2, <1>3

-------------------------------------------------------------------------------
LEMMA InitInv == Init => IInv
<1> SUFFICES ASSUME Init PROVE IInv
  OBVIOUS
<1>1. TypeOK
  <2>1. /\ IsFiniteSet(frames) /\ Cardinality(frames) = 0
        /\ isCollecting \in BOOLEAN
    BY FS_EmptySet DEF Init
  <2> QED
    BY <2>1 DEF Init, TypeOK
<1>2. LastInv /\ DeltasMatchTimings /\ CountInv
  BY DEF Init, LastInv, DeltasMatchTimings, CountInv
<1> QED
  BY <1>1, <1>2 DEF IInv

LEMMA StepInv == IInv /\ [Next]_vars => IInv'
<1> SUFFICES ASSUME IInv, [Next]_vars PROVE IInv'
  OBVIOUS
<1> USE DEF IInv
<1>0. /\ Cardinality(frames) \in Nat /\ Len(frameTimings) \in Nat
      /\ timers \in Nat /\ starts \in Nat
  BY FS_CardinalityType DEF TypeOK
<1>1. CASE Start
  <2>1. /\ frames' \in SUBSET Callback /\ IsFiniteSet(frames')
        /\ Cardinality(frames') = Cardinality(frames) + 1
        /\ animationFrameId' \in Handles \cup {Nil}
    BY <1>1, RequestAdds DEF Start, TypeOK
  <2>2. LastInv' /\ DeltasMatchTimings' /\ Len(frameTimings') = 0
    BY <1>1, SamplesEmptied DEF Start
  <2>3. TypeOK'
    BY <1>0, <1>1, <2>1 DEF Start, TypeOK
  <2>4. CountInv'
    BY <1>0, <1>1, <2>2 DEF Start, CountInv
  <2> QED
    BY <2>2, <2>3, <2>4
<1>2. CASE HostStop
  <2>1. LastInv' /\ DeltasMatchTimings'
    BY <1>2, SamplesKept DEF HostStop
  <2>2. /\ frames' \in SUBSET Callback /\ IsFiniteSet(frames')
        /\ Cardinality(frames') <= Cardinality(frames) /\ Cardinality(frames') \in Nat
        /\ animationFrameId' \in Handles \cup {Nil} /\ isCollecting' \in BOOLEAN
    BY <1>2, StopRemoves DEF HostStop
  <2>3. TypeOK'
    BY <1>0, <1>2, <2>2 DEF HostStop, TypeOK
  <2>4. CountInv'
    BY <1>2 DEF HostStop, Stop, CountInv
  <2> QED
    BY <2>1, <2>3, <2>4
<1>3. CASE Reset
  <2>1. LastInv' /\ DeltasMatchTimings' /\ Len(frameTimings') = 0
    BY <1>3, SamplesEmptied DEF Reset
  <2>2. /\ frames' \in SUBSET Callback /\ IsFiniteSet(frames')
        /\ Cardinality(frames') <= Cardinality(frames) /\ Cardinality(frames') \in Nat
        /\ animationFrameId' \in Handles \cup {Nil} /\ isCollecting' \in BOOLEAN
    BY <1>3, StopRemoves DEF Reset
  <2>3. TypeOK'
    BY <1>0, <1>3, <2>2 DEF Reset, TypeOK
  <2>4. CountInv'
    BY <1>3, <2>1 DEF Reset, Stop, CountInv
  <2> QED
    BY <2>1, <2>3, <2>4
<1>4. ASSUME NEW f \in frames, HandleFrame(f) PROVE IInv'
  <2>1. /\ frames' \in SUBSET Callback /\ IsFiniteSet(frames')
        /\ Cardinality(frames') = Cardinality(frames) - 1
    BY <1>4, FS_RemoveElement DEF HandleFrame, TypeOK
  <2>2. CASE isCollecting
    <3>1. LastInv' /\ DeltasMatchTimings' /\ frameTimings' \in Seq(Nat)
          /\ frameDeltas' \in Seq(Int) /\ Len(frameTimings') = Len(frameTimings) + 1
      BY <1>4, <2>2, SampleKeepsDeltas DEF HandleFrame
    <3>2. TypeOK'
      BY <1>0, <1>4, <2>1, <2>2, <3>1 DEF HandleFrame, TypeOK
    <3>3. CountInv'
      <4>1. timers' = timers + 1 /\ starts' = starts /\ isCollecting' = isCollecting
        BY <1>4, <2>2 DEF HandleFrame
      <4>2. timers' <= starts
        BY <3>2, <4>1, <2>1, FS_CardinalityType DEF TypeOK
      <4> QED
        BY <1>0, <2>2, <3>1, <4>1, <4>2 DEF CountInv
    <3> QED
      BY <3>1, <3>2, <3>3
  <2>3. CASE ~isCollecting
    <3>1. LastInv' /\ DeltasMatchTimings'
      BY <1>4, <2>3, SamplesKept DEF HandleFrame
    <3>2. TypeOK'
      BY <1>0, <1>4, <2>1, <2>3 DEF HandleFrame, TypeOK
    <3>3. CountInv'
      BY <1>4, <2>3 DEF HandleFrame, CountInv
    <3> QED
      BY <3>1, <3>2, <3>3
  <2> QED
    BY <2>2, <2>3
<1>5. CASE TimerFires
  <2>1. LastInv' /\ DeltasMatchTimings'
    BY <1>5, SamplesKept DEF TimerFires
  <2>2. CASE ~isCollecting \/ Len(frameTimings) >= MaxSamples
    <3>1. Stop
      BY <1>5, <2>2 DEF TimerFires
    <3>2. /\ frames' \in SUBSET Callback /\ IsFiniteSet(frames')
          /\ Cardinality(frames') <= Cardinality(frames) /\ Cardinality(frames') \in Nat
          /\ animationFrameId' \in Handles \cup {Nil} /\ isCollecting' \in BOOLEAN
      BY <3>1, StopRemoves
    <3>3. TypeOK'
      BY <1>0, <1>5, <3>2 DEF TimerFires, TypeOK
    <3>4. CountInv'
      <4>1. isCollecting' = FALSE /\ UNCHANGED <<frameTimings, starts>>
        BY <1>5, <3>1 DEF TimerFires, Stop
      <4> QED
        BY <4>1 DEF CountInv
    <3> QED
      BY <2>1, <3>3, <3>4
  <2>3. CASE isCollecting /\ Len(frameTimings) < MaxSamples
    <3>0. ~(~isCollecting \/ Len(frameTimings) >= MaxSamples)
      BY <1>0, <2>3
    <3>1. RequestFrame(frames) /\ UNCHANGED isCollecting
      BY <1>5, <3>0, Zenon DEF TimerFires
    <3>2. /\ frames' \in SUBSET Callback /\ IsFiniteSet(frames')
          /\ Cardinality(frames') = Cardinality(frames) + 1
          /\ animationFrameId' \in Handles \cup {Nil}
      BY <3>1, RequestAdds DEF TypeOK
    <3>3. TypeOK'
      BY <1>0, <1>5, <3>1, <3>2 DEF TimerFires, TypeOK
    <3>4. CountInv'
      BY <1>0, <1>5, <2>3, <3>1 DEF TimerFires, CountInv
    <3> QED
      BY <2>1, <3>3, <3>4
  <2> QED
    BY <1>0, <2>2, <2>3
<1>6. CASE Present
  <2>1. LastInv' /\ DeltasMatchTimings'
    BY <1>6, SamplesKept DEF Present
  <2>2. TypeOK'
    BY <1>6 DEF Present, TypeOK
  <2>3. CountInv'
    BY <1>6 DEF Present, CountInv
  <2> QED
    BY <2>1, <2>2, <2>3
<1>7. CASE UNCHANGED vars
  <2>1. LastInv' /\ DeltasMatchTimings'
    BY <1>7, SamplesKept DEF vars
  <2>2. TypeOK' /\ CountInv'
    BY <1>7 DEF vars, browserVars, TypeOK, CountInv
  <2> QED
    BY <2>1, <2>2
<1> QED
  BY <1>1, <1>2, <1>3, <1>4, <1>5, <1>6, <1>7 DEF Next, Browser

LEMMA Invariance == Spec => []IInv
BY InitInv, StepInv, PTL DEF Spec

(* Type correctness, and one chain of callbacks per collection at most.        *)
THEOREM TypeCorrect == Spec => []TypeOK
BY Invariance, PTL DEF IInv

(* Deltas are those of the samples of one collection, for any interleaving of  *)
(* restarts with callbacks and timers (frame-collector.ts:68-111).             *)
THEOREM DeltasAreOfTheTimings == Spec => []DeltasMatchTimings
BY Invariance, PTL DEF IInv

(* The overshoot is bounded by the number of restarts (frame-collector.ts:52). *)
THEOREM OvershootIsBounded == Spec => []SamplesBounded
<1>1. IInv => SamplesBounded
  BY DEF IInv, TypeOK, CountInv, SamplesBounded
<1> QED
  BY <1>1, Invariance, PTL

-------------------------------------------------------------------------------
(* With one collection there is one chain: the callback that waits was         *)
(* requested at or after the latest sample.                                    *)
ChainInv ==
  /\ lastTimestamp # Nil => lastTimestamp <= now
  /\ \A f \in frames : f.since <= now
  /\ starts <= 1 => \A f \in frames : lastTimestamp # Nil => lastTimestamp <= f.since
  /\ FirstRunHasDistinctFrames

LEMMA RequestKeepsChain ==
  ASSUME IInv, ChainInv, NEW pending, pending = frames, RequestFrame(pending),
         UNCHANGED <<frameTimings, frameDeltas, lastTimestamp, now, starts>>
  PROVE  ChainInv'
<1>1. PICK id \in Handles : frames' = frames \cup {[id |-> id, since |-> now]}
  BY DEF RequestFrame
<1> QED
  BY <1>1 DEF ChainInv, FirstRunHasDistinctFrames, IInv, TypeOK

LEMMA StopKeepsChain ==
  ASSUME ChainInv, Stop,
         UNCHANGED <<frameTimings, frameDeltas, lastTimestamp, now, starts>>
  PROVE  ChainInv'
BY DEF Stop, ChainInv, FirstRunHasDistinctFrames

LEMMA StepChain == IInv /\ ChainInv /\ [Next]_vars => ChainInv'
<1> SUFFICES ASSUME IInv, ChainInv, [Next]_vars PROVE ChainInv'
  OBVIOUS
<1>1. CASE Start
  <2>1. PICK id \in Handles : frames' = frames \cup {[id |-> id, since |-> now]}
    BY <1>1 DEF Start, RequestFrame
  <2>2. lastTimestamp' = Nil /\ frameDeltas' = <<>> /\ now' = now /\ now \in Nat
    BY <1>1 DEF Start, IInv, TypeOK
  <2>3. FirstRunHasDistinctFrames'
    BY <2>2 DEF FirstRunHasDistinctFrames
  <2> QED
    BY <2>1, <2>2, <2>3 DEF ChainInv
<1>2. CASE HostStop
  BY <1>2, StopKeepsChain DEF HostStop
<1>3. CASE Reset
  BY <1>3 DEF Reset, Stop, ChainInv, FirstRunHasDistinctFrames
<1>4. ASSUME NEW f \in frames, HandleFrame(f) PROVE ChainInv'
  <2>1. CASE isCollecting
    <3>1. /\ frames' = frames \ {f} /\ f.since < now /\ f.since \in Nat /\ now \in Nat
          /\ lastTimestamp' = now /\ now' = now /\ starts' = starts
          /\ frameDeltas' = IF lastTimestamp # Nil
                            THEN Append(frameDeltas, now - lastTimestamp) ELSE frameDeltas
      BY <1>4, <2>1 DEF HandleFrame, IInv, TypeOK, Callback
    <3>2. ASSUME starts <= 1 PROVE frames' = {} /\ FirstRunHasDistinctFrames'
      <4>1. Cardinality(frames) <= 1 /\ IsFiniteSet(frames) /\ Cardinality(frames) \in Nat
        BY <3>2, FS_CardinalityType DEF IInv, TypeOK
      <4>2. Cardinality(frames') = 0 /\ IsFiniteSet(frames')
        <5>1. IsFiniteSet(frames') /\ Cardinality(frames') = Cardinality(frames) - 1
          BY <1>4, <3>1, <4>1, FS_RemoveElement
        <5>2. Cardinality(frames') \in Nat
          BY <5>1, FS_CardinalityType
        <5> QED
          BY <4>1, <5>1, <5>2
      <4>3. frames' = {}
        BY <4>2, FS_EmptySet
      <4>4. lastTimestamp # Nil => lastTimestamp < now /\ lastTimestamp \in Nat
        BY <1>4, <3>1, <3>2 DEF ChainInv, IInv, TypeOK
      <4>5. /\ frameDeltas \in Seq(Int)
            /\ \A i \in 1 .. Len(frameDeltas) : frameDeltas[i] > 0
        BY <3>2 DEF ChainInv, FirstRunHasDistinctFrames, IInv, TypeOK
      <4>6. FirstRunHasDistinctFrames'
        <5>1. CASE lastTimestamp = Nil
          BY <3>1, <4>5, <5>1 DEF FirstRunHasDistinctFrames
        <5>2. CASE lastTimestamp # Nil
          BY <3>1, <4>4, <4>5, <5>2 DEF FirstRunHasDistinctFrames
        <5> QED
          BY <5>1, <5>2
      <4> QED
        BY <4>3, <4>6
    <3>3. starts \in Nat
      BY DEF IInv, TypeOK
    <3>4. CASE starts <= 1
      BY <3>1, <3>2, <3>4 DEF ChainInv
    <3>5. CASE ~(starts <= 1)
      BY <3>1, <3>5 DEF ChainInv, FirstRunHasDistinctFrames
    <3> QED
      BY <3>4, <3>5
  <2>2. CASE ~isCollecting
    BY <1>4, <2>2 DEF HandleFrame, ChainInv, FirstRunHasDistinctFrames
  <2> QED
    BY <2>1, <2>2
<1>5. CASE TimerFires
  <2>1. UNCHANGED <<frameTimings, frameDeltas, lastTimestamp, now, starts>>
    BY <1>5 DEF TimerFires
  <2>2. Stop \/ RequestFrame(frames)
    BY <1>5, Zenon DEF TimerFires
  <2> QED
    BY <2>1, <2>2, StopKeepsChain, RequestKeepsChain
<1>6. CASE Present
  <2>1. PICK gap \in Gaps : now' = now + gap
    BY <1>6 DEF Present
  <2>2. now < now' /\ now \in Nat /\ now' \in Nat
    BY <2>1 DEF IInv, TypeOK
  <2> QED
    BY <1>6, <2>2 DEF Present, ChainInv, FirstRunHasDistinctFrames, IInv, TypeOK, Callback
<1>7. CASE UNCHANGED vars
  BY <1>7 DEF vars, browserVars, ChainInv, FirstRunHasDistinctFrames
<1> QED
  BY <1>1, <1>2, <1>3, <1>4, <1>5, <1>6, <1>7 DEF Next, Browser

LEMMA ChainAlways == Spec => []ChainInv
<1>1. Init => ChainInv
  BY DEF Init, ChainInv, FirstRunHasDistinctFrames
<1> QED
  BY <1>1, StepChain, Invariance, PTL DEF Spec

(* One collection samples no frame twice (frame-collector.ts:75).              *)
THEOREM OneChainSamplesDistinctFrames == Spec => []FirstRunHasDistinctFrames
<1>1. ChainInv => FirstRunHasDistinctFrames
  BY DEF ChainInv
<1> QED
  BY <1>1, ChainAlways, PTL

-------------------------------------------------------------------------------
(* Why a collection ends: it never stalls, and each step of the browser brings *)
(* its end nearer.                                                             *)

(* A collection waits for a timer, for a callback that is due, or for the next *)
(* frame, which somebody has requested.                                        *)
NeverStalls ==
  isCollecting =>
    \/ timers > 0
    \/ \E f \in frames : f.since < now
    \/ frames # {} /\ \A f \in frames : f.since = now

(* The callbacks that run in the next frame at the earliest.                   *)
Fresh == {f \in frames : f.since = now}

ToCome == MaxSamples + starts - Len(frameTimings)  \* samples, at most
Waiting == 2 * timers + Cardinality(Fresh)

Nearer ==
  Browser /\ isCollecting /\ isCollecting' =>
    ToCome' < ToCome \/ (ToCome' = ToCome /\ Waiting' < Waiting)

StallInv == isCollecting => timers > 0 \/ frames # {}

LEMMA StallStep == IInv /\ StallInv /\ [Next]_vars => StallInv'
<1> SUFFICES ASSUME IInv, StallInv, [Next]_vars PROVE StallInv'
  OBVIOUS
<1>0. timers \in Nat
  BY DEF IInv, TypeOK
<1>1. ASSUME RequestFrame(frames) PROVE frames' # {}
  BY <1>1 DEF RequestFrame
<1>2. CASE Start
  BY <1>1, <1>2 DEF Start, StallInv
<1>3. CASE HostStop \/ Reset
  BY <1>3 DEF HostStop, Reset, Stop, StallInv
<1>4. ASSUME NEW f \in frames, HandleFrame(f) PROVE StallInv'
  BY <1>0, <1>4 DEF HandleFrame, StallInv
<1>5. CASE TimerFires
  <2>1. Stop \/ RequestFrame(frames)
    BY <1>5, Zenon DEF TimerFires
  <2> QED
    BY <1>1, <2>1 DEF Stop, StallInv
<1>6. CASE Present
  BY <1>6 DEF Present, StallInv
<1>7. CASE UNCHANGED vars
  BY <1>7 DEF vars, browserVars, StallInv
<1> QED
  BY <1>2, <1>3, <1>4, <1>5, <1>6, <1>7 DEF Next, Browser

(* Whatever is stopped, reset and started again, a collection always has       *)
(* something to wait for that the browser will do (frame-collector.ts:51-91).  *)
THEOREM CollectionNeverStalls == Spec => []NeverStalls
<1>1. Init => StallInv
  BY DEF Init, StallInv
<1>2. IInv /\ ChainInv /\ StallInv => NeverStalls
  BY DEF IInv, TypeOK, Callback, ChainInv, StallInv, NeverStalls
<1> QED
  BY <1>1, <1>2, StallStep, ChainAlways, Invariance, PTL DEF Spec

LEMMA BoundsOfVariant ==
  ASSUME IInv
  PROVE  /\ ToCome \in Int /\ (isCollecting => ToCome > 0)
         /\ IsFiniteSet(Fresh) /\ Cardinality(Fresh) \in Nat
         /\ Waiting \in Nat /\ Waiting <= 2 * starts
<1>1. /\ Len(frameTimings) \in Nat /\ starts \in Nat /\ timers \in Nat
      /\ IsFiniteSet(frames) /\ Cardinality(frames) + timers <= starts
  BY DEF IInv, TypeOK
<1>2. ToCome \in Int /\ (isCollecting => ToCome > 0)
  BY <1>1 DEF ToCome, IInv, CountInv
<1>3. Fresh \subseteq frames
  BY DEF Fresh
<1>4. IsFiniteSet(Fresh) /\ Cardinality(Fresh) <= Cardinality(frames)
      /\ Cardinality(Fresh) \in Nat /\ Cardinality(frames) \in Nat
  BY <1>1, <1>3, FS_Subset, FS_CardinalityType
<1> QED
  BY <1>1, <1>2, <1>4 DEF Waiting

(* What a collection still waits for is bounded, by its samples and by the     *)
(* chains of callbacks that earlier collections have left: it cannot come      *)
(* nearer to its end for ever (frame-collector.ts:51-91).                      *)
THEOREM EndIsInSight ==
  Spec => [](isCollecting => ToCome \in 1 .. MaxSamples + starts /\ Waiting \in 0 .. 2 * starts)
<1>1. IInv => (isCollecting => ToCome \in 1 .. MaxSamples + starts /\ Waiting \in 0 .. 2 * starts)
  <2> SUFFICES ASSUME IInv, isCollecting
               PROVE  ToCome \in 1 .. MaxSamples + starts /\ Waiting \in 0 .. 2 * starts
    OBVIOUS
  <2>1. Len(frameTimings) \in Nat /\ starts \in Nat
    BY DEF IInv, TypeOK
  <2>2. ToCome <= MaxSamples + starts
    BY <2>1 DEF ToCome
  <2> QED
    BY <2>1, <2>2, BoundsOfVariant
<1> QED
  BY <1>1, Invariance, PTL

LEMMA BrowserBringsNearer ==
  ASSUME IInv, IInv', Browser, isCollecting, isCollecting'
  PROVE  ToCome' < ToCome \/ (ToCome' = ToCome /\ Waiting' < Waiting)
<1>0. /\ Len(frameTimings) \in Nat /\ starts \in Nat /\ timers \in Nat
      /\ frameTimings \in Seq(Nat) /\ now \in Nat
      /\ IsFiniteSet(Fresh) /\ Cardinality(Fresh) \in Nat
  BY BoundsOfVariant DEF IInv, TypeOK
<1>1. ASSUME NEW f \in frames, HandleFrame(f) PROVE ToCome' < ToCome
  <2>1. Len(frameTimings') = Len(frameTimings) + 1 /\ starts' = starts
    BY <1>0, <1>1 DEF HandleFrame
  <2> QED
    BY <1>0, <2>1 DEF ToCome
<1>2. CASE TimerFires
  <2>1. /\ timers' = timers - 1 /\ UNCHANGED <<frameTimings, starts, now>>
        /\ RequestFrame(frames)
    <3>1. ~Stop
      BY DEF Stop
    <3> QED
      BY <1>2, <3>1, Zenon DEF TimerFires
  <2>2. PICK id \in Handles : /\ \A f \in frames : f.id # id
                              /\ frames' = frames \cup {[id |-> id, since |-> now]}
    BY <2>1 DEF RequestFrame
  <2>3. Fresh' = Fresh \cup {[id |-> id, since |-> now]}
        /\ [id |-> id, since |-> now] \notin Fresh
    BY <2>1, <2>2 DEF Fresh
  <2>4. Cardinality(Fresh') = Cardinality(Fresh) + 1
    BY <1>0, <2>3, FS_AddElement
  <2>5. ToCome' = ToCome
    BY <2>1 DEF ToCome
  <2>6. Waiting' < Waiting
    BY <1>0, <2>1, <2>4 DEF Waiting
  <2> QED
    BY <2>5, <2>6
<1>3. CASE Present
  <2>1. /\ frames # {} /\ \A f \in frames : f.since = now
        /\ UNCHANGED <<frameTimings, starts, timers, frames>>
    BY <1>3 DEF Present
  <2>2. now' # now
    BY <1>0, <1>3 DEF Present
  <2>3. Fresh = frames /\ Fresh' = {}
    BY <2>1, <2>2 DEF Fresh
  <2>4. Cardinality(Fresh) > 0 /\ Cardinality(Fresh') = 0
    BY <1>0, <2>1, <2>3, FS_EmptySet
  <2>5. ToCome' = ToCome
    BY <2>1 DEF ToCome
  <2>6. Waiting' < Waiting
    BY <1>0, <2>1, <2>4 DEF Waiting
  <2> QED
    BY <2>5, <2>6
<1> QED
  BY <1>1, <1>2, <1>3 DEF Browser

(* Every callback, timer and frame that does not end a collection brings it    *)
(* nearer to its end: a sample less to come, or a step less until the next one *)
(* (frame-collector.ts:51-91).                                                 *)
THEOREM EveryStepBringsTheEndNearer == Spec => [][Nearer]_vars
<1>1. IInv /\ IInv' /\ [Next]_vars => [Nearer]_vars
  <2> SUFFICES ASSUME IInv, IInv', Browser, isCollecting, isCollecting'
               PROVE  ToCome' < ToCome \/ (ToCome' = ToCome /\ Waiting' < Waiting)
    BY DEF Nearer
  <2> QED
    BY BrowserBringsNearer
<1> QED
  BY <1>1, Invariance, PTL DEF Spec
===============================================================================
