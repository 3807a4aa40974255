----------------------------- MODULE ScoringEngine -----------------------------
(* validateTelemetry and ScoringEngine.Evaluate of aegis-backend: a telemetry  *)
(* payload is range-checked, its four signals are scored one after the other,  *)
(* and the sum becomes a confidence and a verdict.                             *)
(*                                                                             *)
(* A reading is an integer number of hundredths (12.0 is 1200): every          *)
(* threshold of the code is a whole number of hundredths. NaN and infinities   *)
(* have no JSON form, so no decoded payload holds one.                         *)
EXTENDS Integers

CONSTANTS
  Nil,        \* a signal that the payload does not carry
  Payloads    \* the payloads to evaluate

CameraTiming == [variance : Int, kl : Int, w : Int, rest : BOOLEAN]
Acoustic == [tof : Int, peak : Int, phase : BOOLEAN, rest : BOOLEAN]
NoStatus == ""   \* a status left out of the JSON

EyeTracking == [rate : Int, parallax : Int, luminance : Int, rest : BOOLEAN,
                status : {NoStatus, "unavailable"}]
LipSync == [drift : Int, velocity : Int, multi : BOOLEAN, rest : BOOLEAN,
            status : {NoStatus, "unavailable"}]

(* "rest": the readings that are range-checked but not scored are in range.    *)
Telemetry == [camera : CameraTiming \cup {Nil}, acoustic : Acoustic \cup {Nil},
              eye : EyeTracking \cup {Nil}, lip : LipSync \cup {Nil}]

ASSUME PayloadAssumption == Payloads \subseteq Telemetry
ASSUME NilAssumption ==
  Nil \notin CameraTiming \cup Acoustic \cup EyeTracking \cup LipSync

-------------------------------------------------------------------------------
(* validateTelemetry *)

(* The ends of its ranges, in hundredths.                                      *)
MaxVariance == 1000 * 1000 * 100
MaxLagMs == 1000 * 100
MaxRate == 100 * 100
MaxParallax == 100 * 100 * 100

(* Mutant: the range of the drift is a tenth of what it is.                    *)
ValidSmallDrift(t) ==
  t.lip # Nil => t.lip.drift \in -10000 .. 10000

Valid(t) ==
  /\ t.camera # Nil =>
       /\ t.camera.rest
       /\ t.camera.variance \in 0 .. MaxVariance
       /\ t.camera.kl \in 0 .. 1000
       /\ t.camera.w \in 0 .. 100
  /\ t.acoustic # Nil =>
       /\ t.acoustic.rest
       /\ t.acoustic.tof \in 0 .. MaxLagMs
       /\ t.acoustic.peak \in -100 .. 100
  /\ t.eye # Nil =>
       /\ t.eye.rest
       /\ t.eye.rate \in 0 .. MaxRate
       /\ t.eye.parallax \in 0 .. MaxParallax
       /\ t.eye.luminance \in -100 .. 100
  /\ t.lip # Nil =>
       /\ t.lip.rest
       /\ t.lip.drift \in -MaxLagMs .. MaxLagMs
       /\ t.lip.velocity \in -100 .. 100

-------------------------------------------------------------------------------
(* DefaultThresholds *)
VirtualCameraVarianceMax == 1200
PhysicalVarianceMin == 5000
PhysicalVarianceMax == 50000
AudioLoopbackMaxMs == 50
AudioDelayMaxMs == 1000
MicrosaccadeRateMin == 50
GlintParallaxVarianceMin == 10
AVDriftMaxMs == 15000

Raise(condition, flag) == IF condition THEN {flag} ELSE {}

(* evaluateCameraTiming *)
LowVariance(c) == c.variance < VirtualCameraVarianceMax
GoodVariance(c) == c.variance \in PhysicalVarianceMin .. PhysicalVarianceMax

CameraScore(c) ==
  (IF LowVariance(c) THEN -50 ELSE IF GoodVariance(c) THEN 10 ELSE -10)
  + (IF c.kl > 50 THEN -20 ELSE IF c.kl < 10 THEN 5 ELSE 0)
  + (IF c.w < 90 THEN -15 ELSE IF c.w > 95 THEN 5 ELSE 0)

(* Mutant: the divergence penalty raises no flag.                              *)
CameraFlagsSilentKL(c) ==
  Raise(LowVariance(c), "LOW_VARIANCE_VIRTUAL_CAM")
  \cup Raise(~LowVariance(c) /\ ~GoodVariance(c), "UNUSUAL_VARIANCE")
  \cup Raise(c.w < 90, "NON_GAUSSIAN_DISTRIBUTION")

CameraFlags(c) ==
  Raise(LowVariance(c), "LOW_VARIANCE_VIRTUAL_CAM")
  \cup Raise(~LowVariance(c) /\ ~GoodVariance(c), "UNUSUAL_VARIANCE")
  \cup Raise(c.kl > 50, "HIGH_KL_DIVERGENCE")
  \cup Raise(c.w < 90, "NON_GAUSSIAN_DISTRIBUTION")

(* evaluateAcoustic *)
AcousticScore(a) ==
  (IF a.tof < AudioLoopbackMaxMs THEN -40
   ELSE IF a.tof \in 300 .. 1000 THEN 10
   ELSE IF a.tof > AudioDelayMaxMs THEN -20 ELSE 0)
  + (IF a.phase THEN 5 ELSE -30)
  + (IF a.peak < 70 THEN -10 ELSE IF a.peak > 90 THEN 5 ELSE 0)

AcousticFlags(a) ==
  Raise(a.tof < AudioLoopbackMaxMs, "INSTANT_AUDIO_LOOPBACK")
  \cup Raise(a.tof > AudioDelayMaxMs, "EXCESSIVE_AUDIO_DELAY")
  \cup Raise(~a.phase, "INVALID_PHASE_SIGNATURE")
  \cup Raise(a.peak < 70, "LOW_CORRELATION_PEAK")

(* evaluateEyeTracking *)
EyeScore(e) ==
  (IF e.rate < MicrosaccadeRateMin THEN -25
   ELSE IF e.rate > 100 /\ e.rate < 300 THEN 10 ELSE 0)
  + (IF e.parallax < GlintParallaxVarianceMin THEN -35
     ELSE IF e.parallax > 50 THEN 10 ELSE 0)
  + (IF e.luminance < 50 THEN -15 ELSE IF e.luminance > 80 THEN 5 ELSE 0)

EyeFlags(e) ==
  Raise(e.rate < MicrosaccadeRateMin, "LOW_MICROSACCADE_RATE")
  \cup Raise(e.parallax < GlintParallaxVarianceMin, "ABSENT_GLINT_PARALLAX")
  \cup Raise(e.luminance < 50, "LOW_LUMINANCE_CORRELATION")

(* evaluateLipSync *)
LipScore(l) ==
  (IF l.drift > AVDriftMaxMs THEN -30 ELSE IF l.drift < 5000 THEN 10 ELSE 0)
  + (IF l.multi THEN -50 ELSE 0)
  + (IF l.velocity < 60 THEN -15 ELSE IF l.velocity > 85 THEN 5 ELSE 0)

LipFlags(l) ==
  Raise(l.drift > AVDriftMaxMs, "EXCESSIVE_AV_DRIFT")
  \cup Raise(l.multi, "MULTI_PERSON_DETECTED")
  \cup Raise(l.velocity < 60, "LOW_LIP_VELOCITY_CORRELATION")

(* determineVerdict and normalizeConfidence *)
CriticalFlags == {"MULTI_PERSON_DETECTED", "INSTANT_AUDIO_LOOPBACK",
                  "LOW_VARIANCE_VIRTUAL_CAM"}

DetermineVerdict(score, raised) ==
  IF raised \cap CriticalFlags # {} THEN "BLOCKED"
  ELSE IF score >= 80 THEN "CLEAR"
  ELSE IF score >= 50 THEN "SUSPICIOUS" ELSE "BLOCKED"

(* Mutant: no ceiling.                                                         *)
NormalizeConfidenceNoCeiling(score) == IF score < 0 THEN 0 ELSE score

NormalizeConfidence(score) ==
  IF score < 0 THEN 0 ELSE IF score > 100 THEN 100 ELSE score

-------------------------------------------------------------------------------
VARIABLES
  telemetry,   \* the payload of the request
  stage,       \* what happens next
  confidence,  \* the running score, then the normalized one
  flags,       \* the flags raised so far
  verdict      \* the verdict, "none" until the end

vars == <<telemetry, stage, confidence, flags, verdict>>

Init ==
  /\ telemetry \in Payloads
  /\ stage = "validate"
  /\ confidence = 100
  /\ flags = {}
  /\ verdict = "none"

(* session-verify.go answers invalid_telemetry before it evaluates.            *)
Validate ==
  /\ stage = "validate"
  /\ stage' = IF Valid(telemetry) THEN "camera" ELSE "rejected"
  /\ UNCHANGED <<telemetry, confidence, flags, verdict>>

Add(score, raised, next) ==
  /\ confidence' = confidence + score
  /\ flags' = flags \cup raised
  /\ stage' = next
  /\ UNCHANGED <<telemetry, verdict>>

EvaluateCamera ==
  /\ stage = "camera"
  /\ IF telemetry.camera # Nil
     THEN Add(CameraScore(telemetry.camera), CameraFlags(telemetry.camera), "acoustic")
     ELSE Add(0, {}, "acoustic")

EvaluateAcoustic ==
  /\ stage = "acoustic"
  /\ IF telemetry.acoustic # Nil
     THEN Add(AcousticScore(telemetry.acoustic), AcousticFlags(telemetry.acoustic), "eye")
     ELSE Add(0, {}, "eye")

(* Mutant: the zeros of an unavailable signal are scored.                      *)
EvaluateEyeIgnoresStatus ==
  /\ stage = "eye"
  /\ IF telemetry.eye = Nil THEN Add(0, {}, "lip")
     ELSE Add(EyeScore(telemetry.eye), EyeFlags(telemetry.eye), "lip")

EvaluateEye ==
  /\ stage = "eye"
  /\ IF telemetry.eye = Nil THEN Add(0, {}, "lip")
     ELSE IF telemetry.eye.status = "unavailable"
     THEN Add(0, {"EYE_TRACKING_UNAVAILABLE"}, "lip")
     ELSE Add(EyeScore(telemetry.eye), EyeFlags(telemetry.eye), "lip")

EvaluateLip ==
  /\ stage = "lip"
  /\ IF telemetry.lip = Nil THEN Add(0, {}, "verdict")
     ELSE IF telemetry.lip.status = "unavailable"
     THEN Add(0, {"LIP_SYNC_UNAVAILABLE"}, "verdict")
     ELSE Add(LipScore(telemetry.lip), LipFlags(telemetry.lip), "verdict")

Decide ==
  /\ stage = "verdict"
  /\ confidence' = NormalizeConfidence(confidence)
  /\ verdict' = DetermineVerdict(confidence', flags)
  /\ stage' = "done"
  /\ UNCHANGED <<telemetry, flags>>

Next == \/ Validate \/ EvaluateCamera \/ EvaluateAcoustic
        \/ EvaluateEye \/ EvaluateLip \/ Decide

Spec == Init /\ [][Next]_vars

-------------------------------------------------------------------------------
(* Properties *)

Stages == {"validate", "rejected", "camera", "acoustic", "eye", "lip", "verdict", "done"}
Verdicts == {"CLEAR", "SUSPICIOUS", "BLOCKED"}
AvailabilityFlags == {"EYE_TRACKING_UNAVAILABLE", "LIP_SYNC_UNAVAILABLE"}

(* Types, and the range of the confidence that a verdict reports.              *)
TypeOK ==
  /\ telemetry \in Telemetry
  /\ stage \in Stages
  /\ confidence \in Int
  /\ verdict \in Verdicts \cup {"none"}
  /\ verdict # "none" <=> stage = "done"
  /\ stage = "done" => confidence \in 0 .. 100

Usable(signal) == signal # Nil /\ signal.status # "unavailable"

(* A virtual camera, an instant loopback or a second person blocks, however    *)
(* many bonuses the other signals earn and whichever signal comes last         *)
(* (engine.go:274-286).                                                        *)
CriticalBlocks ==
  stage = "done" /\
  (\/ telemetry.camera # Nil /\ LowVariance(telemetry.camera)
   \/ telemetry.acoustic # Nil /\ telemetry.acoustic.tof < AudioLoopbackMaxMs
   \/ Usable(telemetry.lip) /\ telemetry.lip.multi)
    => verdict = "BLOCKED"

(* Nothing is deducted in silence: a verdict other than CLEAR, or a confidence *)
(* below 100, always comes with a flag that says why (engine.go:134-271).      *)
DeductionsAreFlagged ==
  stage = "done" /\ (verdict # "CLEAR" \/ confidence < 100)
    => flags \ AvailabilityFlags # {}

(* A signal marked unavailable weighs as much as one that was never sent: the  *)
(* outcome is that of the payload without it (engine.go:91-117).               *)
Outcome(c, a, e, l) ==
  LET score == NormalizeConfidence(100
                 + (IF c # Nil THEN CameraScore(c) ELSE 0)
                 + (IF a # Nil THEN AcousticScore(a) ELSE 0)
                 + (IF e # Nil THEN EyeScore(e) ELSE 0)
                 + (IF l # Nil THEN LipScore(l) ELSE 0))
      raised == (IF c # Nil THEN CameraFlags(c) ELSE {})
                \cup (IF a # Nil THEN AcousticFlags(a) ELSE {})
                \cup (IF e # Nil THEN EyeFlags(e) ELSE {})
                \cup (IF l # Nil THEN LipFlags(l) ELSE {})
  IN  <<score, DetermineVerdict(score, raised)>>

UnavailableIsNeutral ==
  stage = "done" =>
    <<confidence, verdict>> =
      Outcome(telemetry.camera, telemetry.acoustic,
              IF Usable(telemetry.eye) THEN telemetry.eye ELSE Nil,
              IF Usable(telemetry.lip) THEN telemetry.lip ELSE Nil)

(* A camera alone, or a lip signal alone, cannot block without a critical      *)
(* flag: its penalties stop at 45 (engine.go:134-169, 242-271).                *)
SoftSignalAloneDoesNotBlock ==
  stage = "done" /\ telemetry.acoustic = Nil /\ ~Usable(telemetry.eye)
    /\ (telemetry.camera = Nil \/ ~Usable(telemetry.lip))
    /\ flags \cap CriticalFlags = {}
    => verdict # "BLOCKED"
===============================================================================
