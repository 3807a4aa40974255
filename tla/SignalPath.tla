------------------------------ MODULE SignalPath -------------------------------
(* From what the SDK has watched to the verdict: the detectors of aegis-sdk    *)
(* reduce what they hold to readings and to an opinion of their own, and       *)
(* TelemetryPath takes the readings to the server's opinion. The opinion of    *)
(* the SDK is shown to the host and never sent.                                *)
(*                                                                             *)
(* What a detector holds is a history: the sums over its window that its       *)
(* result depends on, in milliseconds and hundredths. webgazer feeds the       *)
(* GlintDetector with gaze but nothing with luminance (addLuminance has no     *)
(* caller); the LipTracker is modelled as its interface allows, though at this *)
(* commit nothing sends frames to mediapipe or amplitudes to the tracker.      *)
EXTENDS TelemetryPath

CONSTANTS
  GazeHistories, LipHistories, CameraHistories   \* what the detectors may hold

MAX_FRAMES == 300
MinSamples == 10

(* samples: points in the window; fast: steps between them above the threshold *)
(* of velocity; sinceStart: from the first point ever, dropped or not, to the  *)
(* last; spread: of the points.                                                *)
GazeHistory ==
  [samples : 0..MAX_FRAMES, fast : 0 .. MAX_FRAMES - 1, sinceStart : Nat, spread : Nat]

(* lag: in frames, of the best correlation; correlation: at no lag; multi: a   *)
(* second face has been seen.                                                  *)
LipHistory ==
  [samples : 0..MAX_FRAMES, lag : 0 .. MAX_FRAMES - 1, correlation : -100..100,
   multi : BOOLEAN]

(* deltas: the number of frame deltas; the rest is what the statistics say.    *)
CameraHistory == [deltas : Nat, variance : Int, kl : Int, w : Int]

ASSUME HistoryAssumption ==
  /\ GazeHistories \subseteq GazeHistory
  /\ \A h \in GazeHistories : h.fast > 0 => h.fast < h.samples
  /\ LipHistories \subseteq LipHistory
  /\ CameraHistories \subseteq CameraHistory

-------------------------------------------------------------------------------
(* GlintDetector *)

(* The window drops its oldest points; the time counts on.                     *)
GazeDuration(h) == h.sinceStart

(* calculateMicrosaccadeRate, in hundredths a second, rounded down.            *)
MicrosaccadeRate(h) ==
  IF GazeDuration(h) > 0 THEN (h.fast * 100000) \div GazeDuration(h) ELSE 0

GlintReading(h) ==
  [rate |-> IF h.samples < MinSamples THEN 0 ELSE MicrosaccadeRate(h),
   parallax |-> IF h.samples < MinSamples THEN 0 ELSE h.spread,
   luminance |-> 0, rest |-> TRUE, status |-> NoStatus]

(* Mutant: half the rate will do.                                              *)
IsLiveGazeLax(h) ==
  /\ h.samples >= MinSamples
  /\ GazeDuration(h) > 0
  /\ 4000 * h.fast >= GazeDuration(h) /\ 1000 * h.fast <= 5 * GazeDuration(h)
  /\ h.spread >= 10

(* isLiveGaze: 0.5 to 5.0 steps a second, and a spread of 0.1.                 *)
IsLiveGaze(h) ==
  /\ h.samples >= MinSamples
  /\ GazeDuration(h) > 0
  /\ 2000 * h.fast >= GazeDuration(h) /\ 1000 * h.fast <= 5 * GazeDuration(h)
  /\ h.spread >= 10

(* LipTracker: a lag of n frames is n thirtieths of a second.                  *)
LipReading(h) ==
  IF h.samples < MinSamples
  THEN [drift |-> 0, velocity |-> 0, multi |-> FALSE, rest |-> TRUE, status |-> NoStatus]
  ELSE [drift |-> (h.lag * 100000) \div 30, velocity |-> h.correlation,
        multi |-> h.multi, rest |-> TRUE, status |-> NoStatus]

(* isLipSynced: at most 150 ms, a correlation of 0.6, one face.                *)
IsLipSynced(h) ==
  /\ h.samples >= MinSamples
  /\ h.lag * 1000 <= 150 * 30 /\ h.correlation >= 60 /\ ~h.multi

(* analyze of the entropy worker, and the verdict that analyzeWithJS adds;     *)
(* the compiled is_virtual_camera gives none of fewer than ten deltas.         *)
CameraReading(h) == [variance |-> h.variance, kl |-> h.kl, w |-> h.w, rest |-> TRUE]
IsVirtualCameraJS(h) == h.variance < 1200
IsVirtualCameraWasm(h) == h.deltas >= 10 /\ h.variance < 1200

(* What is measured, whatever is watched: a variance, a rate, a spread or a    *)
(* delay is not negative, no lip is ahead of its sound, and Pearson's          *)
(* correlations are at most 1. The worker's divergence and normality are       *)
(* within range in JavaScript; lib.rs compares with a histogram that is empty  *)
(* above the 13th bin and does not normalize the weights of the normality.     *)
MeasuredCamera(c) == c.variance >= 0 /\ c.kl >= 0 /\ c.w >= 0 /\ c.rest
MeasuredToF(a) == a.tof >= 0 /\ a.peak >= -100
MeasuredGlint(g) ==
  /\ g.rate >= 0 /\ g.parallax >= 0 /\ g.luminance \in -100 .. 100 /\ g.rest
MeasuredLips(l) == l.drift >= 0 /\ l.velocity \in -100 .. 100 /\ l.rest

ASSUME MeasuredAssumption ==
  \A c \in Clients :
    /\ MeasuredCamera(c.camera)
    /\ c.tof # Nil => MeasuredToF(c.tof)
    /\ c.glint # Nil => MeasuredGlint(c.glint)
    /\ c.lips # Nil => MeasuredLips(c.lips)

-------------------------------------------------------------------------------
(* Properties *)

OutOfRange(c) ==
  \/ c.camera.variance > MaxVariance \/ c.camera.kl > 1000 \/ c.camera.w > 100
  \/ c.tof # Nil /\ (c.tof.tof > MaxLagMs \/ c.tof.peak > 100 \/ ~c.tof.rest)
  \/ /\ c.glintDetectorAvailable /\ c.glint # Nil
     /\ c.glint.rate > MaxRate \/ c.glint.parallax > MaxParallax
  \/ c.mediapipeAvailable /\ c.lips # Nil /\ c.lips.drift > MaxLagMs

AboutGaze == {"LOW_MICROSACCADE_RATE", "ABSENT_GLINT_PARALLAX", "LOW_LUMINANCE_CORRELATION"}
AboutLips == {"EXCESSIVE_AV_DRIFT", "MULTI_PERSON_DETECTED", "LOW_LIP_VELOCITY_CORRELATION"}

Scored == stage = "done" /\ client # Nil

(* The SDK and the server judge by thresholds of their own, in other units and *)
(* with other comparisons. Where both have one they agree; where one of them   *)
(* has none, they differ in this and in nothing else:                          *)
(*   - against a gaze that the SDK calls live the server holds nothing but the *)
(*     luminance, for which the SDK has no threshold and sends 0               *)
(*     (glint-detector.ts:138, 187-196, engine.go:213-234);                    *)
(*   - against lips that the SDK calls synced it holds nothing                 *)
(*     (lip-tracker.ts:221-232, engine.go:247-267);                            *)
(*   - it blocks just the cameras that the SDK calls virtual in JavaScript,    *)
(*     and of the cameras it blocks the compiled detector, which alone counts  *)
(*     the deltas, passes only those with fewer than ten (index.ts:549, 573,   *)
(*     lib.rs:66-71, engine.go:140-142).                                       *)
JudgedAlike ==
  Scored =>
    /\ \A h \in GazeHistories :
         client.glint = GlintReading(h) /\ client.glintDetectorAvailable /\ IsLiveGaze(h) =>
           flags \cap AboutGaze \subseteq {"LOW_LUMINANCE_CORRELATION"}
    /\ \A h \in LipHistories :
         client.lips = LipReading(h) /\ client.mediapipeAvailable /\ IsLipSynced(h) =>
           flags \cap AboutLips = {}
    /\ \A h \in CameraHistories :
         client.camera = CameraReading(h) =>
           LET blocked == "LOW_VARIANCE_VIRTUAL_CAM" \in flags IN
           /\ blocked <=> IsVirtualCameraJS(h)
           /\ IsVirtualCameraWasm(h) => blocked
           /\ blocked /\ ~IsVirtualCameraWasm(h) => h.deltas < 10

(* validateTelemetry refuses an SDK's telemetry for what is above its ranges   *)
(* and for nothing else: jerky frames, the divergence and normality of lib.rs, *)
(* a delay, gaze, spread or drift beyond its bounds, a peak that findPeak      *)
(* interpolates above 1, and the 100000 samples that a recording no analysis   *)
(* clears has after two seconds (session-verify.go:102-190,                    *)
(* stats.rs:25-28,99-124, tof-analyzer.ts:60,126, audio-collector.ts:25-26,    *)
(* glint-detector.ts:107, lip-tracker.ts:155).                                 *)
SdkTelemetryIsValid ==
  client # Nil /\ stage # "validate" => (stage = "rejected" <=> OutOfRange(client))
===============================================================================
