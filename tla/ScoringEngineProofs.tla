-------------------------- MODULE ScoringEngineProofs --------------------------
(* The scoring engine, for every payload of integer readings; and the path     *)
(* from the detectors to it, for whatever an SDK holds.                        *)
EXTENDS SignalPath, TLAPS

USE PayloadAssumption, NilAssumption

-------------------------------------------------------------------------------
(* What each signal contributes, as a function of the payload. *)

CameraPart == IF telemetry.camera # Nil THEN CameraScore(telemetry.camera) ELSE 0
AcousticPart == IF telemetry.acoustic # Nil THEN AcousticScore(telemetry.acoustic) ELSE 0
EyePart == IF Usable(telemetry.eye) THEN EyeScore(telemetry.eye) ELSE 0
LipPart == IF Usable(telemetry.lip) THEN LipScore(telemetry.lip) ELSE 0

CameraRaised == IF telemetry.camera # Nil THEN CameraFlags(telemetry.camera) ELSE {}
AcousticRaised == IF telemetry.acoustic # Nil THEN AcousticFlags(telemetry.acoustic) ELSE {}
EyeRaised ==
  IF telemetry.eye = Nil THEN {}
  ELSE IF Usable(telemetry.eye) THEN EyeFlags(telemetry.eye)
  ELSE {"EYE_TRACKING_UNAVAILABLE"}
LipRaised ==
  IF telemetry.lip = Nil THEN {}
  ELSE IF Usable(telemetry.lip) THEN LipFlags(telemetry.lip)
  ELSE {"LIP_SYNC_UNAVAILABLE"}

Total == 100 + CameraPart + AcousticPart + EyePart + LipPart
AllRaised == CameraRaised \cup AcousticRaised \cup EyeRaised \cup LipRaised

(* The inductive invariant: at every stage, the running score and the flags    *)
(* are the contributions of the signals behind it.                             *)
Progress ==
  /\ telemetry \in Telemetry
  /\ stage \in Stages
  /\ verdict # "none" <=> stage = "done"
  /\ stage \in {"validate", "rejected", "camera"} => confidence = 100 /\ flags = {}
  /\ stage = "acoustic" => confidence = 100 + CameraPart /\ flags = CameraRaised
  /\ stage = "eye" => /\ confidence = 100 + CameraPart + AcousticPart
                      /\ flags = CameraRaised \cup AcousticRaised
  /\ stage = "lip" => /\ confidence = 100 + CameraPart + AcousticPart + EyePart
                      /\ flags = CameraRaised \cup AcousticRaised \cup EyeRaised
  /\ stage = "verdict" => confidence = Total /\ flags = AllRaised
  /\ stage = "done" => /\ confidence = NormalizeConfidence(Total)
                       /\ flags = AllRaised
                       /\ verdict = DetermineVerdict(confidence, flags)

-------------------------------------------------------------------------------
(* Each signal can only add or subtract so much, and one that lowers the score *)
(* raises a flag that says so.                                                 *)
LEMMA CameraFacts ==
  ASSUME NEW c \in CameraTiming
  PROVE  CameraScore(c) \in -85 .. 20 /\ (CameraScore(c) < 0 => CameraFlags(c) # {})
BY DEF CameraScore, LowVariance, GoodVariance, CameraFlags, Raise, CameraTiming

LEMMA AcousticFacts ==
  ASSUME NEW a \in Acoustic
  PROVE  AcousticScore(a) \in -80 .. 20 /\ (AcousticScore(a) < 0 => AcousticFlags(a) # {})
<1> DEFINE delay == IF a.tof < AudioLoopbackMaxMs THEN -40
                    ELSE IF a.tof \in 300 .. 1000 THEN 10
                    ELSE IF a.tof > AudioDelayMaxMs THEN -20 ELSE 0
           phase == IF a.phase THEN 5 ELSE -30
           peak == IF a.peak < 70 THEN -10 ELSE IF a.peak > 90 THEN 5 ELSE 0
<1>1. a.tof \in Int /\ a.peak \in Int /\ a.phase \in BOOLEAN
  BY DEF Acoustic
<1>2. /\ delay \in -40 .. 10 /\ phase \in -30 .. 5 /\ peak \in -10 .. 5
      /\ delay < 0 \/ phase < 0 \/ peak < 0 => AcousticFlags(a) # {}
  BY <1>1 DEF AcousticFlags, Raise
<1>3. AcousticScore(a) = delay + phase + peak
  BY DEF AcousticScore
<1> HIDE DEF delay, phase, peak
<1> QED
  BY <1>2, <1>3

LEMMA EyeFacts ==
  ASSUME NEW e \in EyeTracking
  PROVE  EyeScore(e) \in -75 .. 25
         /\ (EyeScore(e) < 0 => EyeFlags(e) \ AvailabilityFlags # {})
<1> DEFINE rate == IF e.rate < MicrosaccadeRateMin THEN -25
                   ELSE IF e.rate > 100 /\ e.rate < 300 THEN 10 ELSE 0
           parallax == IF e.parallax < GlintParallaxVarianceMin THEN -35
                       ELSE IF e.parallax > 50 THEN 10 ELSE 0
           luminance == IF e.luminance < 50 THEN -15
                        ELSE IF e.luminance > 80 THEN 5 ELSE 0
<1>1. e.rate \in Int /\ e.parallax \in Int /\ e.luminance \in Int
  BY DEF EyeTracking
<1>2. /\ rate \in -25 .. 10 /\ parallax \in -35 .. 10 /\ luminance \in -15 .. 5
      /\ rate < 0 \/ parallax < 0 \/ luminance < 0 =>
           EyeFlags(e) \ AvailabilityFlags # {}
  BY <1>1 DEF EyeFlags, Raise, AvailabilityFlags
<1>3. EyeScore(e) = rate + parallax + luminance
  BY DEF EyeScore
<1> HIDE DEF rate, parallax, luminance
<1> QED
  BY <1>2, <1>3

LEMMA LipFacts ==
  ASSUME NEW l \in LipSync
  PROVE  /\ LipScore(l) \in -95 .. 15
         /\ LipScore(l) < 0 => LipFlags(l) \ AvailabilityFlags # {}
         /\ ~l.multi => LipScore(l) >= -45
<1> DEFINE drift == IF l.drift > AVDriftMaxMs THEN -30
                    ELSE IF l.drift < 5000 THEN 10 ELSE 0
           multi == IF l.multi THEN -50 ELSE 0
           velocity == IF l.velocity < 60 THEN -15
                       ELSE IF l.velocity > 85 THEN 5 ELSE 0
<1>1. l.drift \in Int /\ l.velocity \in Int /\ l.multi \in BOOLEAN
  BY DEF LipSync
<1>2. /\ drift \in -30 .. 10 /\ multi \in -50 .. 0 /\ velocity \in -15 .. 5
      /\ drift < 0 \/ multi < 0 \/ velocity < 0 =>
           LipFlags(l) \ AvailabilityFlags # {}
      /\ ~l.multi => multi = 0
  BY <1>1 DEF LipFlags, Raise, AvailabilityFlags
<1>3. LipScore(l) = drift + multi + velocity
  BY DEF LipScore
<1> HIDE DEF drift, multi, velocity
<1> QED
  BY <1>2, <1>3

LEMMA SignalTypes ==
  ASSUME telemetry \in Telemetry
  PROVE  /\ telemetry.camera # Nil => telemetry.camera \in CameraTiming
         /\ telemetry.acoustic # Nil => telemetry.acoustic \in Acoustic
         /\ Usable(telemetry.eye) => telemetry.eye \in EyeTracking
         /\ Usable(telemetry.lip) => telemetry.lip \in LipSync
BY DEF Telemetry, Usable

LEMMA PartRanges ==
  ASSUME telemetry \in Telemetry
  PROVE  /\ CameraPart \in -85 .. 20
         /\ AcousticPart \in -80 .. 20
         /\ EyePart \in -75 .. 25
         /\ LipPart \in -95 .. 15
BY SignalTypes, CameraFacts, AcousticFacts, EyeFacts, LipFacts
   DEF CameraPart, AcousticPart, EyePart, LipPart

LEMMA PartsAreFlagged ==
  ASSUME telemetry \in Telemetry
  PROVE  /\ CameraPart < 0 => CameraRaised # {}
         /\ AcousticPart < 0 => AcousticRaised # {}
         /\ EyePart < 0 => EyeRaised \ AvailabilityFlags # {}
         /\ LipPart < 0 => LipRaised \ AvailabilityFlags # {}
BY SignalTypes, CameraFacts, AcousticFacts, EyeFacts, LipFacts
   DEF CameraPart, AcousticPart, EyePart, LipPart,
       CameraRaised, AcousticRaised, EyeRaised, LipRaised, Usable

-------------------------------------------------------------------------------
LEMMA InitProgress == Init => Progress
BY DEF Init, Progress, Stages

LEMMA StepProgress == Progress /\ [Next]_vars => Progress'
<1> SUFFICES ASSUME Progress, [Next]_vars PROVE Progress'
  OBVIOUS
<1> USE DEF Progress, Stages, Add
<1>0. telemetry' = telemetry
  BY DEF Next, Validate, EvaluateCamera, EvaluateAcoustic, EvaluateEye, EvaluateLip,
         Decide, vars
<1>1. /\ UNCHANGED <<CameraPart, AcousticPart, EyePart, LipPart, Total>>
      /\ UNCHANGED <<CameraRaised, AcousticRaised, EyeRaised, LipRaised, AllRaised>>
  BY <1>0 DEF CameraPart, AcousticPart, EyePart, LipPart, Total, Usable,
              CameraRaised, AcousticRaised, EyeRaised, LipRaised, AllRaised
<1>2. /\ CameraPart \in Int /\ AcousticPart \in Int
      /\ EyePart \in Int /\ LipPart \in Int
  BY PartRanges
<1>3. CASE Validate
  BY <1>0, <1>1, <1>3 DEF Validate
<1>4. CASE EvaluateCamera
  BY <1>0, <1>1, <1>2, <1>4 DEF EvaluateCamera, CameraPart, CameraRaised
<1>5. CASE EvaluateAcoustic
  BY <1>0, <1>1, <1>2, <1>5 DEF EvaluateAcoustic, AcousticPart, AcousticRaised
<1>6. CASE EvaluateEye
  BY <1>0, <1>1, <1>2, <1>6 DEF EvaluateEye, EyePart, EyeRaised, Usable
<1>7. CASE EvaluateLip
  BY <1>0, <1>1, <1>2, <1>7 DEF EvaluateLip, LipPart, LipRaised, Usable, Total, AllRaised
<1>8. CASE Decide
  BY <1>0, <1>1, <1>8 DEF Decide, DetermineVerdict
<1>9. CASE UNCHANGED vars
  BY <1>1, <1>9 DEF vars
<1> QED
  BY <1>3, <1>4, <1>5, <1>6, <1>7, <1>8, <1>9 DEF Next

LEMMA ProgressHolds == Spec => []Progress
BY InitProgress, StepProgress, PTL DEF Spec

(* Type correctness; the confidence of a verdict is within 0..100.             *)
THEOREM TypeCorrect == Spec => []TypeOK
<1>1. Progress => TypeOK
  <2> SUFFICES ASSUME Progress PROVE TypeOK
    OBVIOUS
  <2>1. /\ CameraPart \in Int /\ AcousticPart \in Int
        /\ EyePart \in Int /\ LipPart \in Int
    BY PartRanges DEF Progress
  <2>2. NormalizeConfidence(Total) \in 0 .. 100 /\ Total \in Int
    BY <2>1 DEF Total, NormalizeConfidence
  <2> QED
    BY <2>1, <2>2 DEF Progress, TypeOK, Stages, Total, DetermineVerdict, Verdicts
<1> QED
  BY <1>1, ProgressHolds, PTL

(* A critical reading blocks, whatever the other signals (engine.go:274-286).  *)
THEOREM CriticalReadingsBlock == Spec => []CriticalBlocks
<1>1. Progress => CriticalBlocks
  <2> SUFFICES ASSUME Progress, stage = "done",
                      \/ telemetry.camera # Nil /\ LowVariance(telemetry.camera)
                      \/ telemetry.acoustic # Nil /\ telemetry.acoustic.tof < AudioLoopbackMaxMs
                      \/ Usable(telemetry.lip) /\ telemetry.lip.multi
      PROVE  verdict = "BLOCKED"
    BY DEF CriticalBlocks
  <2>1. AllRaised \cap CriticalFlags # {}
    <3>1. CASE telemetry.camera # Nil /\ LowVariance(telemetry.camera)
      BY <3>1 DEF AllRaised, CameraRaised, CameraFlags, Raise, CriticalFlags
    <3>2. CASE telemetry.acoustic # Nil /\ telemetry.acoustic.tof < AudioLoopbackMaxMs
      BY <3>2 DEF AllRaised, AcousticRaised, AcousticFlags, Raise, CriticalFlags
    <3>3. CASE Usable(telemetry.lip) /\ telemetry.lip.multi
      BY <3>3 DEF AllRaised, LipRaised, LipFlags, Raise, CriticalFlags, Usable
    <3> QED
      BY <3>1, <3>2, <3>3
  <2> QED
    BY <2>1 DEF Progress, DetermineVerdict
<1> QED
  BY <1>1, ProgressHolds, PTL

(* No deduction without a flag (engine.go:134-271).                            *)
THEOREM EveryDeductionIsFlagged == Spec => []DeductionsAreFlagged
<1>1. Progress => DeductionsAreFlagged
  <2> SUFFICES ASSUME Progress, stage = "done",
                      verdict # "CLEAR" \/ confidence < 100,
                      flags \ AvailabilityFlags = {}
      PROVE  FALSE
    BY DEF DeductionsAreFlagged
  <2>1. AllRaised \subseteq AvailabilityFlags
    BY DEF Progress
  <2>2. CameraRaised = {} /\ AcousticRaised = {}
    BY <2>1 DEF AllRaised, AvailabilityFlags, CameraRaised, CameraFlags,
                AcousticRaised, AcousticFlags, Raise
  <2>3. EyeRaised \ AvailabilityFlags = {} /\ LipRaised \ AvailabilityFlags = {}
    BY <2>1 DEF AllRaised
  <2>4. /\ CameraPart \in Int /\ AcousticPart \in Int /\ EyePart \in Int /\ LipPart \in Int
        /\ CameraPart >= 0 /\ AcousticPart >= 0 /\ EyePart >= 0 /\ LipPart >= 0
    BY <2>2, <2>3, PartRanges, PartsAreFlagged DEF Progress
  <2>5. NormalizeConfidence(Total) = 100
    BY <2>4 DEF Total, NormalizeConfidence
  <2>6. AllRaised \cap CriticalFlags = {}
    BY <2>1 DEF AvailabilityFlags, CriticalFlags
  <2> QED
    BY <2>5, <2>6 DEF Progress, DetermineVerdict
<1> QED
  BY <1>1, ProgressHolds, PTL

(* Marking a signal unavailable is the same as leaving it out                  *)
(* (engine.go:91-117).                                                         *)
THEOREM UnavailableWeighsNothing == Spec => []UnavailableIsNeutral
<1>1. Progress => UnavailableIsNeutral
  <2> SUFFICES ASSUME Progress, stage = "done"
      PROVE  <<confidence, verdict>> =
               Outcome(telemetry.camera, telemetry.acoustic,
                       IF Usable(telemetry.eye) THEN telemetry.eye ELSE Nil,
                       IF Usable(telemetry.lip) THEN telemetry.lip ELSE Nil)
    BY DEF UnavailableIsNeutral
  <2> DEFINE e == IF Usable(telemetry.eye) THEN telemetry.eye ELSE Nil
             l == IF Usable(telemetry.lip) THEN telemetry.lip ELSE Nil
             raised == CameraRaised \cup AcousticRaised
                       \cup (IF e # Nil THEN EyeFlags(e) ELSE {})
                       \cup (IF l # Nil THEN LipFlags(l) ELSE {})
  <2>1. /\ EyePart = IF e # Nil THEN EyeScore(e) ELSE 0
        /\ LipPart = IF l # Nil THEN LipScore(l) ELSE 0
    BY DEF EyePart, LipPart, Usable
  <2>2. AllRaised \cap CriticalFlags = raised \cap CriticalFlags
    BY DEF AllRaised, EyeRaised, LipRaised, Usable, CriticalFlags
  <2>3. DetermineVerdict(NormalizeConfidence(Total), AllRaised)
          = DetermineVerdict(NormalizeConfidence(Total), raised)
    BY <2>2 DEF DetermineVerdict
  <2>4. Outcome(telemetry.camera, telemetry.acoustic, e, l)
          = <<NormalizeConfidence(Total), DetermineVerdict(NormalizeConfidence(Total), raised)>>
    BY <2>1 DEF Outcome, Total, CameraPart, AcousticPart, CameraRaised, AcousticRaised
  <2> QED
    BY <2>3, <2>4 DEF Progress
<1> QED
  BY <1>1, ProgressHolds, PTL

(* A camera or a lip signal alone needs a critical flag to block.              *)
THEOREM SoftSignalsAloneDoNotBlock == Spec => []SoftSignalAloneDoesNotBlock
<1>1. Progress => SoftSignalAloneDoesNotBlock
  <2> SUFFICES ASSUME Progress, stage = "done", telemetry.acoustic = Nil,
                      ~Usable(telemetry.eye),
                      telemetry.camera = Nil \/ ~Usable(telemetry.lip),
                      flags \cap CriticalFlags = {}
      PROVE  verdict # "BLOCKED"
    BY DEF SoftSignalAloneDoesNotBlock
  <2>1. AcousticPart = 0 /\ EyePart = 0 /\ (CameraPart = 0 \/ LipPart = 0)
    BY DEF AcousticPart, EyePart, CameraPart, LipPart
  <2>2. CameraPart \in Int /\ CameraPart >= -45
    <3>1. telemetry.camera # Nil => ~LowVariance(telemetry.camera)
      BY DEF Progress, AllRaised, CameraRaised, CameraFlags, Raise, CriticalFlags
    <3> QED
      BY <3>1 DEF Progress, CameraPart, CameraScore, Telemetry, CameraTiming
  <2>3. LipPart \in Int /\ LipPart >= -45
    <3>1. Usable(telemetry.lip) => ~telemetry.lip.multi
      BY DEF Progress, AllRaised, LipRaised, LipFlags, Raise, CriticalFlags, Usable
    <3>2. Usable(telemetry.lip) => telemetry.lip \in LipSync
      BY SignalTypes DEF Progress
    <3> QED
      BY <3>1, <3>2, LipFacts DEF LipPart
  <2>4. NormalizeConfidence(Total) \in Int /\ NormalizeConfidence(Total) >= 50
    BY <2>1, <2>2, <2>3 DEF Total, NormalizeConfidence
  <2> QED
    BY <2>4 DEF Progress, DetermineVerdict
<1> QED
  BY <1>1, ProgressHolds, PTL

-------------------------------------------------------------------------------
(* The path from the SDK. *)

(* The payload of an SDK is what it built, as it was put on the wire.          *)
Carried ==
  /\ client \in Clients \cup {Nil}
  /\ client # Nil => telemetry = Wire(Build(client))

LEMMA PathIsSpec == PathSpec => Spec
<1>1. PathInit => Init
  BY DEF PathInit
<1>2. [PathNext]_pathVars => [Next]_vars
  BY DEF PathNext, pathVars
<1> QED
  BY <1>1, <1>2, PTL DEF PathSpec, Spec

LEMMA CarriedHolds == PathSpec => []Carried
<1>1. PathInit => Carried
  BY DEF PathInit, Carried
<1>2. Carried /\ [PathNext]_pathVars => Carried'
  BY DEF Carried, PathNext, pathVars, vars, Next, Validate, EvaluateCamera,
         EvaluateAcoustic, EvaluateEye, EvaluateLip, Decide, Add
<1> QED
  BY <1>1, <1>2, PTL DEF PathSpec

LEMMA StatusDiffers == NoStatus # "unavailable"
BY Zenon DEF NoStatus

(* A reading that carries no status crosses the wire as it is.                 *)
LEMMA WireKeeps ==
  ASSUME ClientAssumption, NEW c \in Clients
  PROVE  /\ c.glintDetectorAvailable => Wire(Build(c)).eye = c.glint
         /\ c.mediapipeAvailable => Wire(Build(c)).lip = c.lips
         /\ Wire(Build(c)).camera = c.camera /\ Wire(Build(c)).acoustic = c.tof
<1>1. /\ c \in Client /\ (c.glint # Nil => c.glint.status = NoStatus)
      /\ (c.lips # Nil => c.lips.status = NoStatus)
  BY DEF ClientAssumption
<1>2. /\ c.glint \in EyeTracking \cup {Nil} /\ c.lips \in LipSync \cup {Nil}
      /\ c.glintDetectorAvailable \in BOOLEAN /\ c.mediapipeAvailable \in BOOLEAN
  BY <1>1 DEF Client
<1>3. WireEye(c.glint) = c.glint
  BY <1>1, <1>2 DEF WireEye, EyeTracking
<1>4. WireLip(c.lips) = c.lips
  BY <1>1, <1>2 DEF WireLip, LipSync
<1> QED
  BY <1>2, <1>3, <1>4 DEF Wire, Build

(* With both libraries loaded, what was measured is what is scored             *)
(* (index.ts:297-335, api-client.ts:64-96).                                    *)
THEOREM MeasurementsAreScored == PathSpec => []MeasuredIsScored
<1> USE ClientAssumption
<1>1. UnavailableIsNeutral /\ Carried => MeasuredIsScored
  <2> SUFFICES ASSUME UnavailableIsNeutral, Carried, stage = "done", client # Nil,
                      client.glintDetectorAvailable, client.mediapipeAvailable
      PROVE  <<confidence, verdict>>
               = Outcome(client.camera, client.tof, client.glint, client.lips)
    BY DEF MeasuredIsScored
  <2>1. client \in Clients /\ telemetry = Wire(Build(client))
    BY DEF Carried
  <2>2. /\ telemetry.eye = client.glint /\ telemetry.lip = client.lips
        /\ telemetry.camera = client.camera /\ telemetry.acoustic = client.tof
    BY <2>1, WireKeeps
  <2>3. /\ (IF Usable(telemetry.eye) THEN telemetry.eye ELSE Nil) = client.glint
        /\ (IF Usable(telemetry.lip) THEN telemetry.lip ELSE Nil) = client.lips
    BY <2>1, <2>2, StatusDiffers DEF Usable, ClientAssumption
  <2> QED
    BY <2>2, <2>3 DEF UnavailableIsNeutral
<1> QED
  BY <1>1, UnavailableWeighsNothing, PathIsSpec, CarriedHolds, PTL

-------------------------------------------------------------------------------
(* The thresholds of the detectors and those of the server *)

LEMMA QuotientBelow ==
  ASSUME NEW a \in Nat, NEW d \in Nat \ {0}, NEW m \in Nat, a < m * d
  PROVE  a \div d \in Nat /\ a \div d < m
OBVIOUS

LEMMA QuotientAtLeast ==
  ASSUME NEW a \in Nat, NEW d \in Nat \ {0}, NEW m \in Nat, a >= m * d
  PROVE  a \div d \in Nat /\ a \div d >= m
OBVIOUS

(* The rate of a history, in hundredths, and when it is below one half.        *)
LEMMA RateFacts ==
  ASSUME NEW h \in GazeHistory
  PROVE  /\ MicrosaccadeRate(h) \in Nat
         /\ h.sinceStart > 2000 * (MAX_FRAMES - 1) => MicrosaccadeRate(h) < 50
         /\ GazeDuration(h) > 0 /\ 2000 * h.fast >= GazeDuration(h) => MicrosaccadeRate(h) >= 50
<1>1. h.fast \in Nat /\ h.fast <= 299 /\ h.sinceStart \in Nat
  BY DEF GazeHistory, MAX_FRAMES
<1>2. CASE h.sinceStart = 0
  BY <1>1, <1>2 DEF MicrosaccadeRate, GazeDuration, MAX_FRAMES
<1>3. CASE h.sinceStart # 0
  <2> DEFINE a == h.fast * 100000
             d == h.sinceStart
  <2>1. MicrosaccadeRate(h) = a \div d
    BY <1>1, <1>3 DEF MicrosaccadeRate, GazeDuration
  <2>2. a \in Nat /\ d \in Nat \ {0} /\ 50 \in Nat
    BY <1>1, <1>3
  <2>3. /\ a < 50 * d \/ a >= 50 * d
        /\ d > 2000 * (MAX_FRAMES - 1) => a < 50 * d
        /\ 2000 * h.fast >= d => a >= 50 * d
        /\ a < 50 * d <=> ~(a >= 50 * d)
    BY <1>1, <2>2 DEF MAX_FRAMES
  <2>4. GazeDuration(h) = d
    BY DEF GazeDuration
  <2> HIDE DEF a, d
  <2>5. a < 50 * d => a \div d \in Nat /\ a \div d < 50
    BY <2>2, QuotientBelow
  <2>6. a >= 50 * d => a \div d \in Nat /\ a \div d >= 50
    BY <2>2, QuotientAtLeast
  <2>7. h.sinceStart = d
    BY DEF d
  <2> QED
    BY <2>1, <2>3, <2>4, <2>5, <2>6, <2>7
<1> QED
  BY <1>1, <1>2, <1>3

LEMMA GlintReadingType ==
  ASSUME NEW h \in GazeHistory
  PROVE  GlintReading(h) \in EyeTracking /\ GlintReading(h).status = NoStatus
BY RateFacts DEF GlintReading, EyeTracking, GazeHistory

LEMMA LipReadingType ==
  ASSUME NEW h \in LipHistory
  PROVE  /\ LipReading(h) \in LipSync /\ LipReading(h).status = NoStatus
         /\ IsLipSynced(h) => /\ LipReading(h).drift <= 15000
                              /\ LipReading(h).velocity >= 60 /\ ~LipReading(h).multi
<1>1. h.lag \in Nat /\ h.correlation \in Int /\ h.multi \in BOOLEAN /\ h.samples \in Nat
  BY DEF LipHistory, MAX_FRAMES
<1>2. (h.lag * 100000) \div 30 \in Int
  BY <1>1
<1>3. h.lag * 1000 <= 150 * 30 => (h.lag * 100000) \div 30 <= 15000
  BY <1>1
<1> QED
  BY <1>1, <1>2, <1>3 DEF LipReading, LipSync, IsLipSynced, MinSamples

(* What the client measured stands in the telemetry, and its flags, and only   *)
(* its flags of that kind, in the verdict.                                     *)
LEMMA GazeIsScored ==
  ASSUME ClientAssumption, HistoryAssumption, Progress, Carried, Scored,
         NEW h \in GazeHistories, client.glint = GlintReading(h), client.glintDetectorAvailable
  PROVE  /\ EyeFlags(GlintReading(h)) \subseteq flags
         /\ flags \cap AboutGaze \subseteq EyeFlags(GlintReading(h))
<1>1. GlintReading(h) \in EyeTracking /\ GlintReading(h).status = NoStatus
  BY GlintReadingType DEF HistoryAssumption
<1>2. telemetry.eye = GlintReading(h)
  BY WireKeeps DEF Carried, Scored
<1>3. Usable(telemetry.eye)
  BY <1>1, <1>2, StatusDiffers DEF Usable
<1>4. flags = AllRaised /\ EyeRaised = EyeFlags(GlintReading(h))
  BY <1>2, <1>3 DEF Progress, Scored, EyeRaised, Usable
<1>5. (CameraRaised \cup AcousticRaised \cup LipRaised) \cap AboutGaze = {}
  BY DEF CameraRaised, AcousticRaised, LipRaised, CameraFlags, AcousticFlags, LipFlags,
         Raise, AboutGaze
<1> QED
  BY <1>4, <1>5 DEF AllRaised

LEMMA LipsAreScored ==
  ASSUME ClientAssumption, HistoryAssumption, Progress, Carried, Scored,
         NEW h \in LipHistories, client.lips = LipReading(h), client.mediapipeAvailable
  PROVE  flags \cap AboutLips \subseteq LipFlags(LipReading(h))
<1>1. LipReading(h) \in LipSync /\ LipReading(h).status = NoStatus
  BY LipReadingType DEF HistoryAssumption
<1>2. telemetry.lip = LipReading(h)
  BY WireKeeps DEF Carried, Scored
<1>3. flags = AllRaised /\ LipRaised = LipFlags(LipReading(h))
  BY <1>1, <1>2, StatusDiffers DEF Progress, Scored, LipRaised, Usable
<1>4. (CameraRaised \cup AcousticRaised \cup EyeRaised) \cap AboutLips = {}
  BY DEF CameraRaised, AcousticRaised, EyeRaised, CameraFlags, AcousticFlags, EyeFlags,
         Raise, AboutLips
<1> QED
  BY <1>3, <1>4 DEF AllRaised

(* The rate divides the steps of a window of 300 points by the time since the  *)
(* first point ever.                                                           *)
GazeDilutes ==
  Scored =>
    \A h \in GazeHistories :
      /\ client.glint = GlintReading(h) /\ client.glintDetectorAvailable
      /\ h.sinceStart > 2000 * (MAX_FRAMES - 1)
      => ~IsLiveGaze(h) /\ "LOW_MICROSACCADE_RATE" \in flags

(* Ten minutes after its first point no gaze is live, however it moves, and    *)
(* the server deducts for it (glint-detector.ts:84-112, engine.go:208-240).    *)
THEOREM OldGazesAreDiluted == PathSpec => []GazeDilutes
<1> USE ClientAssumption, HistoryAssumption
<1>1. Progress /\ Carried => GazeDilutes
  <2> SUFFICES ASSUME Progress, Carried, Scored, NEW h \in GazeHistories,
                      client.glint = GlintReading(h), client.glintDetectorAvailable,
                      h.sinceStart > 2000 * (MAX_FRAMES - 1)
               PROVE  ~IsLiveGaze(h) /\ "LOW_MICROSACCADE_RATE" \in flags
    BY DEF GazeDilutes
  <2>1. h \in GazeHistory
    BY DEF HistoryAssumption
  <2>2. MicrosaccadeRate(h) \in Nat /\ MicrosaccadeRate(h) < 50
    BY <2>1, RateFacts
  <2>3. ~IsLiveGaze(h)
    BY <2>1, <2>2, RateFacts DEF IsLiveGaze
  <2>4. GlintReading(h).rate < 50
    BY <2>2 DEF GlintReading
  <2>5. "LOW_MICROSACCADE_RATE" \in EyeFlags(GlintReading(h))
    BY <2>4 DEF EyeFlags, Raise, MicrosaccadeRateMin
  <2> QED
    BY <2>3, <2>5, GazeIsScored
<1> QED
  BY <1>1, ProgressHolds, PathIsSpec, CarriedHolds, PTL

(* Where the SDK and the server both have a threshold they agree, whatever the *)
(* windows hold; where one has none, they differ in the luminance of a live    *)
(* gaze and in cameras of fewer than ten deltas only (glint-detector.ts:138,   *)
(* 187-196, lip-tracker.ts:221-232, index.ts:573, lib.rs:66-71,                *)
(* engine.go:31-43, 232-234).                                                  *)
THEOREM DetectorsAndServerJudgeAlike == PathSpec => []JudgedAlike
<1> USE ClientAssumption, HistoryAssumption
<1>1. Progress /\ Carried => JudgedAlike
  <2> SUFFICES ASSUME Progress, Carried, Scored PROVE JudgedAlike
    BY DEF JudgedAlike
  <2>1. ASSUME NEW h \in GazeHistories, client.glint = GlintReading(h),
               client.glintDetectorAvailable, IsLiveGaze(h)
        PROVE  flags \cap AboutGaze \subseteq {"LOW_LUMINANCE_CORRELATION"}
    <3>1. h \in GazeHistory /\ h.samples >= MinSamples /\ h.spread >= 10
      BY <2>1 DEF HistoryAssumption, IsLiveGaze
    <3>2. MicrosaccadeRate(h) \in Nat /\ MicrosaccadeRate(h) >= 50
      BY <2>1, <3>1, RateFacts DEF IsLiveGaze
    <3>3. GlintReading(h).rate = MicrosaccadeRate(h) /\ GlintReading(h).parallax = h.spread
      BY <3>1 DEF GlintReading, GazeHistory, MinSamples, MAX_FRAMES
    <3>4. EyeFlags(GlintReading(h)) \cap AboutGaze \subseteq {"LOW_LUMINANCE_CORRELATION"}
      BY <3>1, <3>2, <3>3 DEF EyeFlags, Raise, AboutGaze, GazeHistory, MicrosaccadeRateMin,
                              GlintParallaxVarianceMin
    <3> QED
      BY <2>1, <3>4, GazeIsScored
  <2>2. ASSUME NEW h \in LipHistories, client.lips = LipReading(h),
               client.mediapipeAvailable, IsLipSynced(h)
        PROVE  flags \cap AboutLips = {}
    <3>1. /\ LipReading(h) \in LipSync /\ LipReading(h).drift <= 15000
          /\ LipReading(h).velocity >= 60 /\ ~LipReading(h).multi
      BY <2>2, LipReadingType DEF HistoryAssumption
    <3>2. LipFlags(LipReading(h)) = {}
      BY <3>1 DEF LipFlags, Raise, LipSync, AVDriftMaxMs
    <3> QED
      BY <2>2, <3>2, LipsAreScored
  <2>3. ASSUME NEW h \in CameraHistories, client.camera = CameraReading(h)
        PROVE  LET blocked == "LOW_VARIANCE_VIRTUAL_CAM" \in flags IN
               /\ blocked <=> IsVirtualCameraJS(h)
               /\ IsVirtualCameraWasm(h) => blocked
               /\ blocked /\ ~IsVirtualCameraWasm(h) => h.deltas < 10
    <3>1. telemetry.camera = CameraReading(h) /\ flags = AllRaised
      BY <2>3, WireKeeps DEF Carried, Scored, Progress
    <3>2. CameraReading(h) \in CameraTiming
      BY DEF HistoryAssumption, CameraHistory, CameraReading, CameraTiming
    <3>3. CameraRaised = CameraFlags(CameraReading(h))
      BY <3>1, <3>2 DEF CameraRaised
    <3>4. "LOW_VARIANCE_VIRTUAL_CAM" \notin AcousticRaised \cup EyeRaised \cup LipRaised
      BY DEF AcousticRaised, EyeRaised, LipRaised, AcousticFlags, EyeFlags, LipFlags, Raise
    <3>5. IsVirtualCameraJS(h) <=> "LOW_VARIANCE_VIRTUAL_CAM" \in CameraRaised
      BY <3>3 DEF CameraFlags, Raise, LowVariance, CameraReading, IsVirtualCameraJS,
                  VirtualCameraVarianceMax
    <3>6. IsVirtualCameraJS(h) <=> "LOW_VARIANCE_VIRTUAL_CAM" \in flags
      BY <3>1, <3>4, <3>5 DEF AllRaised
    <3>7. h.deltas \in Nat /\ h.variance \in Int
      BY DEF HistoryAssumption, CameraHistory
    <3> QED
      BY <3>6, <3>7 DEF IsVirtualCameraWasm, IsVirtualCameraJS
  <2> QED
    BY <2>1, <2>2, <2>3 DEF JudgedAlike
<1> QED
  BY <1>1, ProgressHolds, PathIsSpec, CarriedHolds, PTL

-------------------------------------------------------------------------------
(* What the server refuses of an SDK *)

(* Past the check of the ranges, the telemetry was within them.                *)
InRange == Valid(telemetry)

RangesDecide ==
  /\ stage = "rejected" => ~InRange
  /\ stage \notin {"validate", "rejected"} => InRange

LEMMA RangesDecideHolds == Spec => []RangesDecide
<1>1. Init => RangesDecide
  BY DEF Init, RangesDecide
<1>2. RangesDecide /\ [Next]_vars => RangesDecide'
  <2> SUFFICES ASSUME RangesDecide, [Next]_vars PROVE RangesDecide'
    OBVIOUS
  <2>1. telemetry' = telemetry
    BY DEF Next, Validate, EvaluateCamera, EvaluateAcoustic, EvaluateEye, EvaluateLip,
           Decide, Add, vars
  <2>2. InRange' <=> InRange
    BY <2>1 DEF InRange, Valid
  <2>3. Validate => stage' = IF InRange THEN "camera" ELSE "rejected"
    BY DEF Validate, InRange
  <2>4. \/ Validate
        \/ stage \notin {"validate", "rejected"} /\ stage' \notin {"validate", "rejected"}
        \/ stage' = stage
    BY DEF Next, EvaluateCamera, EvaluateAcoustic, EvaluateEye, EvaluateLip, Decide, Add, vars
  <2> QED
    BY <2>2, <2>3, <2>4 DEF RangesDecide
<1> QED
  BY <1>1, <1>2, PTL DEF Spec

(* On the wire a signal that is not available is a reading of zeros.           *)
LEMMA WireZeros ==
  ASSUME ClientAssumption, NEW c \in Clients
  PROVE  /\ ~c.glintDetectorAvailable =>
              Wire(Build(c)).eye = [rate |-> 0, parallax |-> 0, luminance |-> 0,
                                    rest |-> TRUE, status |-> NoStatus]
         /\ ~c.mediapipeAvailable =>
              Wire(Build(c)).lip = [drift |-> 0, velocity |-> 0, multi |-> FALSE,
                                    rest |-> TRUE, status |-> NoStatus]
<1>0. EyeUnavailable \in EyeTracking /\ LipUnavailable \in LipSync
  BY DEF EyeUnavailable, LipUnavailable, EyeTracking, LipSync
<1>1. EyeUnavailable # Nil /\ LipUnavailable # Nil
  BY <1>0
<1>2. WireEye(EyeUnavailable) = [rate |-> 0, parallax |-> 0, luminance |-> 0,
                                 rest |-> TRUE, status |-> NoStatus]
  BY <1>1 DEF WireEye, EyeUnavailable
<1>3. WireLip(LipUnavailable) = [drift |-> 0, velocity |-> 0, multi |-> FALSE,
                                 rest |-> TRUE, status |-> NoStatus]
  BY <1>1 DEF WireLip, LipUnavailable
<1> QED
  BY <1>2, <1>3 DEF Wire, Build

LEMMA EndsOfRanges ==
  /\ MaxVariance \in Nat /\ MaxLagMs \in Nat /\ MaxRate \in Nat /\ MaxParallax \in Nat
BY DEF MaxVariance, MaxLagMs, MaxRate, MaxParallax

(* What is in range of a reading, and what of one that was measured is not.    *)
CameraInRange(x) ==
  /\ x.rest /\ x.variance \in 0 .. MaxVariance /\ x.kl \in 0 .. 1000 /\ x.w \in 0 .. 100
AcousticInRange(x) == x.rest /\ x.tof \in 0 .. MaxLagMs /\ x.peak \in -100 .. 100
EyeInRange(x) ==
  /\ x.rest /\ x.rate \in 0 .. MaxRate
  /\ x.parallax \in 0 .. MaxParallax /\ x.luminance \in -100 .. 100
LipInRange(x) == x.rest /\ x.drift \in -MaxLagMs .. MaxLagMs /\ x.velocity \in -100 .. 100

LEMMA ValidInParts ==
  ASSUME NEW t
  PROVE  Valid(t) <=> /\ t.camera # Nil => CameraInRange(t.camera)
                      /\ t.acoustic # Nil => AcousticInRange(t.acoustic)
                      /\ t.eye # Nil => EyeInRange(t.eye)
                      /\ t.lip # Nil => LipInRange(t.lip)
BY DEF Valid, CameraInRange, AcousticInRange, EyeInRange, LipInRange

LEMMA CameraLimits ==
  ASSUME NEW x \in CameraTiming, MeasuredCamera(x)
  PROVE  CameraInRange(x) <=> ~(x.variance > MaxVariance \/ x.kl > 1000 \/ x.w > 100)
BY EndsOfRanges DEF CameraTiming, MeasuredCamera, CameraInRange

LEMMA AcousticLimits ==
  ASSUME NEW x \in Acoustic, MeasuredToF(x)
  PROVE  AcousticInRange(x) <=> ~(x.tof > MaxLagMs \/ x.peak > 100 \/ ~x.rest)
BY EndsOfRanges DEF Acoustic, MeasuredToF, AcousticInRange

LEMMA EyeLimits ==
  ASSUME NEW x \in EyeTracking, MeasuredGlint(x)
  PROVE  EyeInRange(x) <=> ~(x.rate > MaxRate \/ x.parallax > MaxParallax)
BY EndsOfRanges DEF EyeTracking, MeasuredGlint, EyeInRange

LEMMA LipLimits ==
  ASSUME NEW x \in LipSync, MeasuredLips(x)
  PROVE  LipInRange(x) <=> ~(x.drift > MaxLagMs)
BY EndsOfRanges DEF LipSync, MeasuredLips, LipInRange

LEMMA ClientRanges ==
  ASSUME ClientAssumption, MeasuredAssumption, NEW c \in Clients
  PROVE  Valid(Wire(Build(c))) <=> ~OutOfRange(c)
<1> DEFINE t == Wire(Build(c))
<1>1. /\ c \in Client
      /\ MeasuredCamera(c.camera)
      /\ c.tof # Nil => MeasuredToF(c.tof)
      /\ c.glint # Nil => MeasuredGlint(c.glint)
      /\ c.lips # Nil => MeasuredLips(c.lips)
  BY DEF ClientAssumption, MeasuredAssumption
<1>2. /\ c.camera \in CameraTiming /\ c.camera # Nil
      /\ c.tof # Nil => c.tof \in Acoustic
      /\ c.glint # Nil => c.glint \in EyeTracking
      /\ c.lips # Nil => c.lips \in LipSync
  BY <1>1 DEF Client
<1>3. t.camera = c.camera /\ t.acoustic = c.tof
  BY WireKeeps
<1>4. t.camera # Nil /\
      (CameraInRange(t.camera)
        <=> ~(\/ c.camera.variance > MaxVariance \/ c.camera.kl > 1000 \/ c.camera.w > 100))
  BY <1>1, <1>2, <1>3, CameraLimits
<1>5. (t.acoustic # Nil => AcousticInRange(t.acoustic))
      <=> ~(c.tof # Nil /\ (c.tof.tof > MaxLagMs \/ c.tof.peak > 100 \/ ~c.tof.rest))
  BY <1>1, <1>2, <1>3, AcousticLimits
<1>6. (t.eye # Nil => EyeInRange(t.eye))
      <=> ~(/\ c.glintDetectorAvailable /\ c.glint # Nil
            /\ c.glint.rate > MaxRate \/ c.glint.parallax > MaxParallax)
  <2>1. CASE c.glintDetectorAvailable
    BY <1>1, <1>2, <2>1, WireKeeps, EyeLimits
  <2>2. CASE ~c.glintDetectorAvailable
    <3> DEFINE zeros == [rate |-> 0, parallax |-> 0, luminance |-> 0,
                         rest |-> TRUE, status |-> NoStatus]
    <3>1. zeros.rest /\ zeros.rate = 0 /\ zeros.parallax = 0 /\ zeros.luminance = 0
      OBVIOUS
    <3>2. t.eye = zeros
      BY <2>2, WireZeros
    <3> HIDE DEF zeros, t
    <3> QED
      BY <2>2, <3>1, <3>2, EndsOfRanges DEF EyeInRange
  <2> QED
    BY <2>1, <2>2
<1>7. (t.lip # Nil => LipInRange(t.lip))
      <=> ~(c.mediapipeAvailable /\ c.lips # Nil /\ c.lips.drift > MaxLagMs)
  <2>1. CASE c.mediapipeAvailable
    BY <1>1, <1>2, <2>1, WireKeeps, LipLimits
  <2>2. CASE ~c.mediapipeAvailable
    <3> DEFINE zeros == [drift |-> 0, velocity |-> 0, multi |-> FALSE,
                         rest |-> TRUE, status |-> NoStatus]
    <3>1. zeros.rest /\ zeros.drift = 0 /\ zeros.velocity = 0
      OBVIOUS
    <3>2. t.lip = zeros
      BY <2>2, WireZeros
    <3> HIDE DEF zeros, t
    <3> QED
      BY <2>2, <3>1, <3>2, EndsOfRanges DEF LipInRange
  <2> QED
    BY <2>1, <2>2
<1> HIDE DEF t
<1>8. Valid(t) <=> ~OutOfRange(c)
  BY <1>4, <1>5, <1>6, <1>7, ValidInParts DEF OutOfRange
<1> QED
  BY <1>8 DEF t

(* What validateTelemetry refuses of an SDK's telemetry is above its ranges,   *)
(* and only that (session-verify.go:102-190).                                  *)
THEOREM OnlyTheExtremeIsRefused == PathSpec => []SdkTelemetryIsValid
<1> USE ClientAssumption, MeasuredAssumption
<1>1. Carried /\ RangesDecide => SdkTelemetryIsValid
  <2> SUFFICES ASSUME Carried, RangesDecide, client # Nil, stage # "validate"
               PROVE  stage = "rejected" <=> OutOfRange(client)
    BY DEF SdkTelemetryIsValid
  <2>1. client \in Clients /\ telemetry = Wire(Build(client))
    BY DEF Carried
  <2>2. Valid(telemetry) <=> ~OutOfRange(client)
    BY <2>1, ClientRanges
  <2> HIDE DEF Valid, OutOfRange
  <2> QED
    BY <2>2 DEF RangesDecide, InRange
<1> QED
  BY <1>1, RangesDecideHolds, PathIsSpec, CarriedHolds, PTL

-------------------------------------------------------------------------------
(* What a library that failed to load costs *)

(* A signal that the SDK marks unavailable reaches the server unmarked: its    *)
(* zeros cost 75 of a gaze and 5 of lips, with the flags of a gaze that is     *)
(* dead and of lips that do not follow the voice, and the flags that say       *)
(* "unavailable" are never raised for an SDK.                                  *)
EyesAreDead == {"LOW_MICROSACCADE_RATE", "ABSENT_GLINT_PARALLAX", "LOW_LUMINANCE_CORRELATION"}

UnavailableIsPenalised ==
  Scored =>
    /\ ~client.glintDetectorAvailable => EyesAreDead \subseteq flags /\ confidence <= 80
    /\ ~client.mediapipeAvailable => "LOW_LIP_VELOCITY_CORRELATION" \in flags
    /\ ~client.glintDetectorAvailable /\ ~client.mediapipeAvailable =>
         confidence <= 60 /\ verdict # "CLEAR"
    /\ AvailabilityFlags \cap flags = {}

LEMMA ZerosAreScored ==
  ASSUME ClientAssumption, Carried, client # Nil
  PROVE  /\ ~client.glintDetectorAvailable => EyePart = -75 /\ EyeRaised = EyesAreDead
         /\ ~client.mediapipeAvailable =>
              LipPart = -5 /\ LipRaised = {"LOW_LIP_VELOCITY_CORRELATION"}
<1>1. client \in Clients /\ telemetry = Wire(Build(client))
  BY DEF Carried
<1>2. ASSUME ~client.glintDetectorAvailable
      PROVE  EyePart = -75 /\ EyeRaised = EyesAreDead
  <2> DEFINE zeros == [rate |-> 0, parallax |-> 0, luminance |-> 0,
                       rest |-> TRUE, status |-> NoStatus]
  <2>1. telemetry.eye = zeros
    BY <1>1, <1>2, WireZeros
  <2>2. zeros \in EyeTracking
    BY DEF EyeTracking
  <2>3. /\ zeros.rate = 0 /\ zeros.parallax = 0 /\ zeros.luminance = 0
        /\ zeros.status = NoStatus
    OBVIOUS
  <2> HIDE DEF zeros
  <2>4. Usable(zeros) /\ zeros # Nil
    BY <2>2, <2>3, StatusDiffers DEF Usable
  <2>5. EyeScore(zeros) = -75 /\ EyeFlags(zeros) = EyesAreDead
    BY <2>3 DEF EyeScore, EyeFlags, Raise, MicrosaccadeRateMin, GlintParallaxVarianceMin,
                EyesAreDead
  <2> QED
    BY <2>1, <2>4, <2>5 DEF EyePart, EyeRaised
<1>3. ASSUME ~client.mediapipeAvailable
      PROVE  LipPart = -5 /\ LipRaised = {"LOW_LIP_VELOCITY_CORRELATION"}
  <2> DEFINE zeros == [drift |-> 0, velocity |-> 0, multi |-> FALSE,
                       rest |-> TRUE, status |-> NoStatus]
  <2>1. telemetry.lip = zeros
    BY <1>1, <1>3, WireZeros
  <2>2. zeros \in LipSync
    BY DEF LipSync
  <2>3. zeros.drift = 0 /\ zeros.velocity = 0 /\ ~zeros.multi /\ zeros.status = NoStatus
    OBVIOUS
  <2> HIDE DEF zeros
  <2>4. Usable(zeros) /\ zeros # Nil
    BY <2>2, <2>3, StatusDiffers DEF Usable
  <2>5. LipScore(zeros) = -5 /\ LipFlags(zeros) = {"LOW_LIP_VELOCITY_CORRELATION"}
    BY <2>3 DEF LipScore, LipFlags, Raise, AVDriftMaxMs
  <2> QED
    BY <2>1, <2>4, <2>5 DEF LipPart, LipRaised
<1> QED
  BY <1>2, <1>3

(* No SDK's signal is ever reported as unavailable: what is on the wire has    *)
(* no status.                                                                  *)
LEMMA WireHasNoStatus ==
  ASSUME ClientAssumption, Carried, client # Nil
  PROVE  /\ telemetry.eye # Nil => Usable(telemetry.eye)
         /\ telemetry.lip # Nil => Usable(telemetry.lip)
<1>1. client \in Clients /\ telemetry = Wire(Build(client))
  BY DEF Carried
<1>2. /\ client.glint # Nil => client.glint.status = NoStatus
      /\ client.lips # Nil => client.lips.status = NoStatus
  BY <1>1 DEF ClientAssumption
<1>3. telemetry.eye # Nil => telemetry.eye.status = NoStatus
  BY <1>1, <1>2, WireKeeps, WireZeros
<1>4. telemetry.lip # Nil => telemetry.lip.status = NoStatus
  BY <1>1, <1>2, WireKeeps, WireZeros
<1> QED
  BY <1>3, <1>4, StatusDiffers DEF Usable

(* For every client: without webgazer at most 80 is left, without either       *)
(* library at most 60 and never CLEAR, and the flags blame the user and not    *)
(* the library (index.ts:297-335, api-client.ts:85-96, engine.go:91-117).      *)
THEOREM MissingLibrariesArePenalised == PathSpec => []UnavailableIsPenalised
<1> USE ClientAssumption
<1>1. Progress /\ Carried => UnavailableIsPenalised
  <2> SUFFICES ASSUME Progress, Carried, Scored PROVE UnavailableIsPenalised
    BY DEF UnavailableIsPenalised
  <2>1. /\ stage = "done" /\ client # Nil /\ telemetry \in Telemetry
        /\ confidence = NormalizeConfidence(Total) /\ flags = AllRaised
        /\ verdict = DetermineVerdict(confidence, flags)
    BY DEF Scored, Progress
  <2>2. /\ CameraPart \in -85 .. 20 /\ AcousticPart \in -80 .. 20
        /\ EyePart \in -75 .. 25 /\ LipPart \in -95 .. 15
    BY <2>1, PartRanges
  <2>3. ~client.glintDetectorAvailable => EyePart = -75 /\ EyeRaised = EyesAreDead
    BY <2>1, ZerosAreScored
  <2>4. ~client.mediapipeAvailable =>
          LipPart = -5 /\ LipRaised = {"LOW_LIP_VELOCITY_CORRELATION"}
    BY <2>1, ZerosAreScored
  <2>5. ~client.glintDetectorAvailable => confidence <= 80
    <3> SUFFICES ASSUME ~client.glintDetectorAvailable PROVE confidence <= 80
      OBVIOUS
    <3>1. EyePart = -75
      BY <2>3
    <3>2. /\ CameraPart \in Int /\ AcousticPart \in Int /\ LipPart \in Int
          /\ CameraPart <= 20 /\ AcousticPart <= 20 /\ LipPart <= 15
      BY <2>2
    <3>3. Total \in Int /\ Total <= 80
      BY <3>1, <3>2 DEF Total
    <3> QED
      BY <2>1, <3>3 DEF NormalizeConfidence
  <2>6. ~client.glintDetectorAvailable /\ ~client.mediapipeAvailable =>
          confidence <= 60 /\ verdict # "CLEAR"
    <3>1. ~client.glintDetectorAvailable /\ ~client.mediapipeAvailable =>
            confidence \in Int /\ confidence <= 60
      BY <2>1, <2>2, <2>3, <2>4 DEF Total, NormalizeConfidence
    <3> QED
      BY <2>1, <3>1 DEF DetermineVerdict
  <2>7. AvailabilityFlags \cap flags = {}
    <3>1. AvailabilityFlags \cap (CameraRaised \cup AcousticRaised) = {}
      BY DEF AvailabilityFlags, CameraRaised, AcousticRaised, CameraFlags, AcousticFlags, Raise
    <3>2. AvailabilityFlags \cap (EyeRaised \cup LipRaised) = {}
      BY <2>1, WireHasNoStatus DEF AvailabilityFlags, EyeRaised, LipRaised, EyeFlags,
                                   LipFlags, Raise
    <3> QED
      BY <2>1, <3>1, <3>2 DEF AllRaised
  <2> QED
    BY <2>1, <2>3, <2>4, <2>5, <2>6, <2>7 DEF UnavailableIsPenalised, AllRaised
<1> QED
  BY <1>1, ProgressHolds, PathIsSpec, CarriedHolds, PTL
===============================================================================
