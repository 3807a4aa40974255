------------------------------- MODULE AegisLens -------------------------------
(* The client facade of aegis-sdk (index.ts): its asynchronous methods share   *)
(* the fields of one object, and the host may call any of them while others    *)
(* wait. A call is cut into steps at its awaits; JavaScript runs the code      *)
(* between two awaits without interruption.                                    *)
(*                                                                             *)
(*   initialize       generateKeyPair, then bridge.initialize                  *)
(*   startSession     digest, then initSession, then webgazer (import, begin), *)
(*                    then mediapipe                                           *)
(*   submitTelemetry  signPayload, then verifySession                          *)
(*   cleanup          import webgazer, if it was loaded                        *)
(*                                                                             *)
(* The readings are TelemetryPath's, the analyses CameraTiming's. A key pair   *)
(* is named by the initialize call that generated it; a session, its nonce and *)
(* its fingerprint by the startSession call that opened it.                    *)

CONSTANTS
  Call,   \* calls the host makes
  Nil     \* null

(* What submitTelemetry builds from the fields of the client.                  *)
Submission == [session : Call, nonce : Call, fingerprint : Call, signer : Call]

ASSUME CallAssumption == Nil \notin Call /\ Nil \notin Submission

VARIABLES
  isInitialized,
  keyPair,
  sessionId,
  sessionNonce,
  deviceFingerprint,
  glintDetectorAvailable,
  mediapipeAvailable,
  faceMesh,
  gazing,       \* webgazer has the camera and calls the listener
  bridge,       \* workerBridge.isInitialized
  pc,           \* call -> what it waits for
  initKey,      \* startSession call -> the key its init request carries
  opened,       \* the init requests the server has answered with a session
  draft,        \* submitTelemetry call -> the telemetry it signs, and the key
  sent,         \* submitTelemetry call -> the public key it sends along
  (* History:                                                                *)
  returned,     \* startSession call -> what it has returned, if it has
  overlapped,   \* initialize or cleanup ran beside another call
  slipped       \* a call of webgazer failed while it ran

sessionVars == <<sessionId, sessionNonce, deviceFingerprint>>
gazeVars == <<gazing, slipped>>
libraryVars == <<glintDetectorAvailable, mediapipeAvailable, faceMesh, gazeVars>>
clientVars == <<isInitialized, keyPair, sessionVars, libraryVars, bridge>>
requestVars == <<initKey, opened, draft, sent, returned>>
vars == <<clientVars, pc, requestVars, overlapped>>

-------------------------------------------------------------------------------
Busy(c) == pc[c] \notin {"idle", "done"}

(* initialize and cleanup change what the other calls rely on.                 *)
Exclusive(c) == pc[c] \in {"keygen", "ready", "import"}

Begin(c, exclusive, next) ==
  /\ pc[c] = "idle"
  /\ pc' = [pc EXCEPT ![c] = next]
  /\ overlapped' = (overlapped \/ \E d \in Call : Busy(d) /\ (exclusive \/ Exclusive(d)))

Continue(c, from, next) ==
  /\ pc[c] = from
  /\ pc' = [pc EXCEPT ![c] = next]
  /\ UNCHANGED overlapped

-------------------------------------------------------------------------------
Initialize(c) ==
  /\ Begin(c, TRUE, IF isInitialized THEN "done" ELSE "keygen")
  /\ UNCHANGED <<clientVars, requestVars>>

(* The key pair is kept even if there is no SharedArrayBuffer and the worker   *)
(* bridge refuses.                                                             *)
KeyGenerated(c) ==
  /\ keyPair' = c
  /\ \/ Continue(c, "keygen", "ready") /\ bridge' = TRUE
     \/ ~bridge /\ Continue(c, "keygen", "done") /\ UNCHANGED bridge
  /\ UNCHANGED <<isInitialized, sessionVars, libraryVars, requestVars>>

BridgeReady(c) ==
  /\ Continue(c, "ready", "done")
  /\ isInitialized' = TRUE
  /\ UNCHANGED <<keyPair, sessionVars, libraryVars, bridge, requestVars>>

-------------------------------------------------------------------------------
StartSession(c) ==
  /\ Begin(c, FALSE, IF isInitialized THEN "digest" ELSE "done")
  /\ UNCHANGED <<clientVars, requestVars>>

(* The key is read only now: a cleanup may have taken it away (a TypeError).   *)
SendInit(c) ==
  /\ IF keyPair = Nil
     THEN Continue(c, "digest", "done") /\ UNCHANGED initKey
     ELSE Continue(c, "digest", "init") /\ initKey' = [initKey EXCEPT ![c] = keyPair]
  /\ UNCHANGED <<clientVars, opened, draft, sent, returned>>

(* The server opens a session with that key, whether or not the client still   *)
(* waits.                                                                      *)
ServerOpens(c) ==
  /\ initKey[c] # Nil /\ c \notin opened
  /\ opened' = opened \cup {c}
  /\ UNCHANGED <<clientVars, pc, initKey, draft, sent, returned, overlapped>>

(* Mutants: a nonce that is already there is kept; the id is not stored.       *)
InitAnsweredKeepsNonce(c) ==
  /\ c \in opened
  /\ Continue(c, "init", "webgazer")
  /\ sessionId' = c /\ deviceFingerprint' = c
  /\ sessionNonce' = IF sessionNonce = Nil THEN c ELSE sessionNonce
  /\ UNCHANGED <<isInitialized, keyPair, libraryVars, bridge, requestVars>>

InitAnsweredForgetsId(c) ==
  /\ c \in opened
  /\ Continue(c, "init", "webgazer")
  /\ sessionNonce' = c /\ deviceFingerprint' = c
  /\ UNCHANGED <<sessionId, isInitialized, keyPair, libraryVars, bridge, requestVars>>

InitAnswered(c) ==
  /\ c \in opened
  /\ Continue(c, "init", "webgazer")
  /\ sessionId' = c /\ sessionNonce' = c /\ deviceFingerprint' = c
  /\ UNCHANGED <<isInitialized, keyPair, libraryVars, bridge, requestVars>>

(* keygen, digest, sign or a request rejects: refused, timed out or lost.      *)
Rejected(c) ==
  /\ \E wait \in {"keygen", "digest", "init", "sign", "verify"} :
       Continue(c, wait, "done")
  /\ UNCHANGED <<clientVars, requestVars>>

(* The catch of startSession: what has the camera keeps it, though it is no    *)
(* longer known to run.                                                        *)
WebgazerFailed ==
  /\ glintDetectorAvailable' = FALSE
  /\ slipped' = (slipped \/ gazing)

(* The module is loaded, its listener set and begin() called; or it is not.    *)
WebgazerImported(c) ==
  /\ \/ Continue(c, "webgazer", "begin") /\ UNCHANGED <<glintDetectorAvailable, slipped>>
     \/ Continue(c, "webgazer", "mediapipe") /\ WebgazerFailed
  /\ UNCHANGED <<gazing, isInitialized, keyPair, sessionVars, mediapipeAvailable,
                 faceMesh, bridge, requestVars>>

(* The browser gives webgazer the camera while startSession waits for begin(). *)
CameraGiven(c) ==
  /\ pc[c] = "begin" /\ ~gazing
  /\ gazing' = TRUE
  /\ UNCHANGED <<isInitialized, keyPair, sessionVars, glintDetectorAvailable,
                 mediapipeAvailable, faceMesh, slipped, bridge, pc, requestVars, overlapped>>

(* Mutant: available if it was before.                                         *)
WebgazerBegunOnce(c) ==
  /\ Continue(c, "begin", "mediapipe")
  /\ \/ UNCHANGED <<glintDetectorAvailable, slipped>>
     \/ WebgazerFailed
  /\ UNCHANGED <<gazing, isInitialized, keyPair, sessionVars, mediapipeAvailable,
                 faceMesh, bridge, requestVars>>

(* begin() resolves and the preview is hidden; or begin() rejects, or hiding   *)
(* the preview of a webgazer that has begun throws. That it has the camera by  *)
(* then is left open: a cleanup may have ended it.                             *)
WebgazerBegun(c) ==
  /\ Continue(c, "begin", "mediapipe")
  /\ \/ glintDetectorAvailable' = TRUE /\ UNCHANGED slipped
     \/ WebgazerFailed
  /\ UNCHANGED <<gazing, isInitialized, keyPair, sessionVars, mediapipeAvailable,
                 faceMesh, bridge, requestVars>>

(* Returns this.sessionId, not the id this call was given.                     *)
MediapipeLoaded(c) ==
  /\ Continue(c, "mediapipe", "done")
  /\ \E loaded \in BOOLEAN :
       /\ mediapipeAvailable' = loaded
       /\ faceMesh' = (faceMesh \/ loaded)
  /\ returned' = [returned EXCEPT ![c] = {sessionId}]
  /\ UNCHANGED <<isInitialized, keyPair, sessionVars, glintDetectorAvailable, gazeVars,
                 bridge, initKey, opened, draft, sent>>

-------------------------------------------------------------------------------
(* Mutant: the key pair is not looked at.                                      *)
SubmitTelemetryUnchecked(c) ==
  /\ IF Nil \in {sessionId, sessionNonce, deviceFingerprint}
     THEN Begin(c, FALSE, "done") /\ UNCHANGED draft
     ELSE /\ Begin(c, FALSE, "sign")
          /\ draft' = [draft EXCEPT ![c] =
               [session |-> sessionId, nonce |-> sessionNonce,
                fingerprint |-> deviceFingerprint, signer |-> keyPair]]
  /\ UNCHANGED <<clientVars, initKey, opened, sent, returned>>

SubmitTelemetry(c) ==
  /\ IF Nil \in {sessionId, keyPair, sessionNonce, deviceFingerprint}
     THEN Begin(c, FALSE, "done") /\ UNCHANGED draft
     ELSE /\ Begin(c, FALSE, "sign")
          /\ draft' = [draft EXCEPT ![c] =
               [session |-> sessionId, nonce |-> sessionNonce,
                fingerprint |-> deviceFingerprint, signer |-> keyPair]]
  /\ UNCHANGED <<clientVars, initKey, opened, sent, returned>>

(* this.keyPair is read again after the signature is made.                     *)
SendVerify(c) ==
  /\ IF keyPair = Nil
     THEN Continue(c, "sign", "done") /\ UNCHANGED sent
     ELSE Continue(c, "sign", "verify") /\ sent' = [sent EXCEPT ![c] = keyPair]
  /\ UNCHANGED <<clientVars, initKey, opened, draft, returned>>

VerifyAnswered(c) ==
  /\ Continue(c, "verify", "done")
  /\ UNCHANGED <<clientVars, requestVars>>

-------------------------------------------------------------------------------
(* Mutant: the session outlives the key.                                       *)
ForgetKeepsSession ==
  /\ isInitialized' = FALSE
  /\ keyPair' = Nil
  /\ glintDetectorAvailable' = FALSE
  /\ mediapipeAvailable' = FALSE
  /\ faceMesh' = FALSE \/ UNCHANGED faceMesh
  /\ UNCHANGED sessionVars

(* The last part of cleanup; faceMesh.close() may throw. The nonce and the     *)
(* fingerprint are kept.                                                       *)
Forget ==
  /\ isInitialized' = FALSE
  /\ sessionId' = Nil
  /\ keyPair' = Nil
  /\ glintDetectorAvailable' = FALSE
  /\ mediapipeAvailable' = FALSE
  /\ faceMesh' = FALSE \/ UNCHANGED faceMesh
  /\ UNCHANGED <<sessionNonce, deviceFingerprint>>

Cleanup(c) ==
  /\ bridge' = FALSE
  /\ IF glintDetectorAvailable
     THEN /\ Begin(c, TRUE, "import")
          /\ UNCHANGED <<isInitialized, keyPair, sessionVars, libraryVars>>
     ELSE Begin(c, TRUE, "done") /\ Forget /\ UNCHANGED gazeVars
  /\ UNCHANGED requestVars

(* A webgazer that cannot be loaded again or ended is let be.                  *)
WebgazerEnded(c) ==
  /\ Continue(c, "import", "done")
  /\ \/ gazing' = FALSE /\ UNCHANGED slipped
     \/ slipped' = (slipped \/ gazing) /\ UNCHANGED gazing
  /\ Forget
  /\ UNCHANGED <<bridge, requestVars>>

-------------------------------------------------------------------------------
Init ==
  /\ isInitialized = FALSE
  /\ keyPair = Nil
  /\ sessionId = Nil /\ sessionNonce = Nil /\ deviceFingerprint = Nil
  /\ glintDetectorAvailable = FALSE /\ mediapipeAvailable = FALSE
  /\ faceMesh = FALSE /\ gazing = FALSE /\ slipped = FALSE
  /\ bridge = FALSE
  /\ pc = [c \in Call |-> "idle"]
  /\ initKey = [c \in Call |-> Nil]
  /\ opened = {}
  /\ draft = [c \in Call |-> Nil]
  /\ sent = [c \in Call |-> Nil]
  /\ returned = [c \in Call |-> {}]
  /\ overlapped = FALSE

Host(c) == Initialize(c) \/ StartSession(c) \/ SubmitTelemetry(c) \/ Cleanup(c)

Resume(c) ==
  \/ KeyGenerated(c) \/ BridgeReady(c)
  \/ SendInit(c) \/ InitAnswered(c)
  \/ WebgazerImported(c) \/ WebgazerBegun(c) \/ MediapipeLoaded(c)
  \/ SendVerify(c) \/ VerifyAnswered(c) \/ WebgazerEnded(c) \/ Rejected(c)

Next == \E c \in Call : Host(c) \/ Resume(c) \/ ServerOpens(c) \/ CameraGiven(c)

Spec == Init /\ [][Next]_vars

-------------------------------------------------------------------------------
(* Properties *)

PC == {"idle", "keygen", "ready", "digest", "init", "webgazer", "begin", "mediapipe",
       "sign", "verify", "import", "done"}

(* Types; and a submission is drafted only from a complete session.            *)
TypeOK ==
  /\ isInitialized \in BOOLEAN /\ bridge \in BOOLEAN /\ overlapped \in BOOLEAN
  /\ glintDetectorAvailable \in BOOLEAN /\ mediapipeAvailable \in BOOLEAN
  /\ faceMesh \in BOOLEAN /\ gazing \in BOOLEAN /\ slipped \in BOOLEAN
  /\ keyPair \in Call \cup {Nil} /\ sessionId \in Call \cup {Nil}
  /\ sessionNonce \in Call \cup {Nil} /\ deviceFingerprint \in Call \cup {Nil}
  /\ pc \in [Call -> PC]
  /\ initKey \in [Call -> Call \cup {Nil}]
  /\ opened \subseteq Call
  /\ draft \in [Call -> Submission \cup {Nil}]
  /\ sent \in [Call -> Call \cup {Nil}]
  /\ returned \in [Call -> SUBSET (Call \cup {Nil})]

(* A submission carries the id, the nonce and the fingerprint of one session   *)
(* that the server opened, however the calls of the host overlap: id, nonce    *)
(* and fingerprint are stored without an await between them (index.ts:110-112),*)
(* and cleanup, which keeps the nonce, takes away the id (index.ts:439).       *)
OneSessionPerSubmission ==
  \A c \in Call : draft[c] # Nil =>
    /\ draft[c].session \in opened
    /\ draft[c].nonce = draft[c].session
    /\ draft[c].fingerprint = draft[c].session

(* A submission is signed by, and sent with, the key its session was           *)
(* registered with, over any number of initialize and cleanup calls, if none   *)
(* of these ran beside another call (index.ts:82, 105, 338-343, 439-440).      *)
SubmittedUnderRegisteredKey ==
  ~overlapped =>
    \A c \in Call : sent[c] # Nil =>
      draft[c].signer = sent[c] /\ sent[c] = initKey[draft[c].session]

(* startSession returns a session the server opened, though it reads the id    *)
(* again after three awaits and another startSession may have replaced it, if  *)
(* no initialize or cleanup ran beside another call (index.ts:110, 193).       *)
StartReturnsAnOpenedSession ==
  ~overlapped => \A c \in Call : returned[c] \subseteq opened

(* Webgazer, which holds the camera and feeds the gaze points, runs only while *)
(* some startSession waits for begin() or the flag that cleanup asks is set,   *)
(* however calls overlap and sessions follow one another: a flag that a        *)
(* cleanup clears after its own await, though it was set meanwhile, is that of *)
(* a webgazer it has ended. It fails only after a call of webgazer has failed  *)
(* while webgazer had the camera: the import, begin or preview of a later or   *)
(* the same startSession, the import or end of a cleanup (index.ts:116-137,    *)
(* 413-421, 442).                                                              *)
WebgazerCanBeEnded ==
  gazing => glintDetectorAvailable \/ slipped \/ \E c \in Call : pc[c] = "begin"
===============================================================================
