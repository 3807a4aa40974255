----------------------------- MODULE TelemetryPath -----------------------------
(* From the readings the SDK holds to the verdict: submitTelemetry builds a    *)
(* payload, PayloadBuilder marks what is unavailable, AegisApiClient rewrites  *)
(* it field by field for the wire, and ScoringEngine scores what arrives. The  *)
(* checks of session, nonce and signature are SessionService's.                *)
EXTENDS ScoringEngine

CONSTANT Clients   \* what an SDK may hold when submitTelemetry is called

(* A reading is Nil before the first analysis. "glint" and "lips" come without *)
(* a status; "available" is whether webgazer or mediapipe was loaded.          *)
Client ==
  [camera : CameraTiming, tof : Acoustic \cup {Nil},
   glintDetectorAvailable : BOOLEAN, glint : EyeTracking \cup {Nil},
   mediapipeAvailable : BOOLEAN, lips : LipSync \cup {Nil}]

ASSUME ClientAssumption ==
  /\ Clients \subseteq Client /\ Nil \notin Clients
  /\ \A c \in Clients : c.glint # Nil => c.glint.status = NoStatus
  /\ \A c \in Clients : c.lips # Nil => c.lips.status = NoStatus

EyeUnavailable ==
  [rate |-> 0, parallax |-> 0, luminance |-> 0, rest |-> TRUE, status |-> "unavailable"]
LipUnavailable ==
  [drift |-> 0, velocity |-> 0, multi |-> FALSE, rest |-> TRUE, status |-> "unavailable"]

(* Mutant: the acoustic reading is taken for absent when its delay is zero.    *)
BuildSkipsZeroDelay(c) ==
  [camera |-> c.camera,
   acoustic |-> IF c.tof # Nil /\ c.tof.tof = 0 THEN Nil ELSE c.tof,
   eye |-> IF ~c.glintDetectorAvailable THEN EyeUnavailable ELSE c.glint,
   lip |-> IF ~c.mediapipeAvailable THEN LipUnavailable ELSE c.lips]

(* submitTelemetry with PayloadBuilder: a library that failed to load is       *)
(* marked, one that was loaded but not asked is not.                           *)
Build(c) ==
  [camera |-> c.camera,
   acoustic |-> c.tof,
   eye |-> IF ~c.glintDetectorAvailable THEN EyeUnavailable ELSE c.glint,
   lip |-> IF ~c.mediapipeAvailable THEN LipUnavailable ELSE c.lips]

(* verifySession copies the readings of each signal, and no status or reason.  *)
WireEye(e) == IF e = Nil THEN Nil ELSE [e EXCEPT !.status = NoStatus]
WireLip(l) == IF l = Nil THEN Nil ELSE [l EXCEPT !.status = NoStatus]
Wire(t) == [t EXCEPT !.eye = WireEye(t.eye), !.lip = WireLip(t.lip)]

-------------------------------------------------------------------------------
VARIABLE client   \* Nil: the payload comes from no SDK, as attack-simulation.ts's do

pathVars == <<client, vars>>

PathInit ==
  /\ \/ client \in Clients /\ telemetry = Wire(Build(client))
     \/ client = Nil
  /\ Init

PathNext == Next /\ UNCHANGED client

PathSpec == PathInit /\ [][PathNext]_pathVars

-------------------------------------------------------------------------------
(* Properties *)

(* What the SDK measured is what the server scores: with both libraries loaded *)
(* nothing on the way from the detectors to the engine adds, drops or swaps a  *)
(* reading (index.ts:297-335, api-client.ts:64-96).                            *)
MeasuredIsScored ==
  stage = "done" /\ client # Nil
    /\ client.glintDetectorAvailable /\ client.mediapipeAvailable =>
    <<confidence, verdict>> = Outcome(client.camera, client.tof, client.glint, client.lips)

(* docs/BROWSER_COMPATIBILITY.md:94: "The scoring engine calculates verdicts   *)
(* based on available signals only".                                           *)
OnlyAvailableSignalsCount ==
  stage = "done" /\ client # Nil =>
    <<confidence, verdict>> =
      Outcome(client.camera, client.tof,
              IF client.glintDetectorAvailable THEN client.glint ELSE Nil,
              IF client.mediapipeAvailable THEN client.lips ELSE Nil)
===============================================================================
