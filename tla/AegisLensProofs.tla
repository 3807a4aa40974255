---------------------------- MODULE AegisLensProofs ----------------------------
(* The client facade for any number of calls.                                  *)
EXTENDS AegisLens, TLAPS

USE CallAssumption

(* The session the client holds is one the server opened, with its own nonce   *)
(* and fingerprint; an init request is sent once, and no draft or public key   *)
(* precedes its call.                                                          *)
SessionInv ==
  /\ sessionId # Nil =>
       /\ sessionId \in opened
       /\ sessionNonce = sessionId /\ deviceFingerprint = sessionId
  /\ \A c \in opened : initKey[c] # Nil
  /\ \A c \in Call :
       /\ pc[c] \in {"idle", "digest"} => initKey[c] = Nil
       /\ pc[c] = "idle" => sent[c] = Nil
       /\ pc[c] = "sign" => draft[c] # Nil
       /\ sent[c] # Nil => draft[c] # Nil

(* While the host lets initialize and cleanup run alone: a session and every   *)
(* request under way stand under the key the client holds.                     *)
KeyInv ==
  ~overlapped =>
    /\ \A c, d \in Call : Exclusive(c) /\ c # d => ~Busy(d)
    /\ sessionId # Nil => isInitialized /\ initKey[sessionId] = keyPair
    /\ \A c \in Call :
         /\ pc[c] \in {"keygen", "ready"} => ~isInitialized
         /\ pc[c] \in {"digest", "init", "webgazer", "begin", "mediapipe", "sign"} =>
              isInitialized
         /\ pc[c] = "init" => initKey[c] = keyPair
         /\ pc[c] \in {"webgazer", "begin", "mediapipe"} => sessionId # Nil
         /\ pc[c] = "sign" =>
              draft[c].signer = keyPair /\ initKey[draft[c].session] = keyPair

IInv ==
  /\ TypeOK /\ SessionInv /\ OneSessionPerSubmission
  /\ KeyInv /\ SubmittedUnderRegisteredKey /\ StartReturnsAnOpenedSession
  /\ WebgazerCanBeEnded

-------------------------------------------------------------------------------
(* What a call that begins, and one that goes on, does to pc and overlapped.   *)
LEMMA BeginMoves ==
  ASSUME TypeOK, NEW c \in Call, NEW exclusive \in BOOLEAN, NEW next \in PC,
         Begin(c, exclusive, next)
  PROVE  /\ pc' \in [Call -> PC] /\ overlapped' \in BOOLEAN
         /\ pc[c] = "idle" /\ pc'[c] = next
         /\ \A d \in Call : d # c => pc'[d] = pc[d]
         /\ ~overlapped' =>
              ~overlapped /\ \A d \in Call : Busy(d) => ~exclusive /\ ~Exclusive(d)
  BY DEF Begin, TypeOK

LEMMA ContinueMoves ==
  ASSUME TypeOK, NEW c \in Call, NEW from, NEW next \in PC, Continue(c, from, next)
  PROVE  /\ pc' \in [Call -> PC] /\ overlapped' = overlapped
         /\ pc[c] = from /\ pc'[c] = next
         /\ \A d \in Call : d # c => pc'[d] = pc[d]
  BY DEF Continue, TypeOK

(* An exclusive call that goes on is alone.                                    *)
LEMMA Alone ==
  ASSUME KeyInv, ~overlapped, NEW c \in Call, Exclusive(c)
  PROVE  \A d \in Call : d # c => pc[d] \in {"idle", "done"}
  BY DEF KeyInv, Busy

LEMMA InitIInv == Init => IInv
<1> SUFFICES ASSUME Init PROVE IInv
  OBVIOUS
<1>1. TypeOK
  BY DEF Init, TypeOK, PC
<1>2. SessionInv /\ OneSessionPerSubmission
  BY DEF Init, SessionInv, OneSessionPerSubmission
<1>3. KeyInv
  BY DEF Init, KeyInv, Exclusive
<1>4. SubmittedUnderRegisteredKey /\ StartReturnsAnOpenedSession /\ WebgazerCanBeEnded
  BY DEF Init, SubmittedUnderRegisteredKey, StartReturnsAnOpenedSession, WebgazerCanBeEnded
<1> QED
  BY <1>1, <1>2, <1>3, <1>4 DEF IInv

-------------------------------------------------------------------------------
(* One lemma per action. *)

LEMMA InitializeIInv ==
  ASSUME IInv, NEW c \in Call, Initialize(c)
  PROVE  IInv'
<1> USE DEF IInv
<1>1. /\ pc' \in [Call -> PC] /\ overlapped' \in BOOLEAN
      /\ pc[c] = "idle" /\ pc'[c] = IF isInitialized THEN "done" ELSE "keygen"
      /\ \A d \in Call : d # c => pc'[d] = pc[d]
      /\ ~overlapped' => ~overlapped /\ \A d \in Call : ~Busy(d)
  BY BeginMoves DEF Initialize, PC
<1>2. UNCHANGED <<clientVars, requestVars>>
  BY DEF Initialize
<1> USE <1>1, <1>2 DEF clientVars, sessionVars, libraryVars, gazeVars, requestVars
<1>3. TypeOK'
  BY DEF TypeOK
<1>4. SessionInv' /\ OneSessionPerSubmission'
  BY DEF TypeOK, SessionInv, OneSessionPerSubmission
<1>5. KeyInv'
  BY DEF TypeOK, KeyInv, Busy, Exclusive
<1>6. SubmittedUnderRegisteredKey' /\ StartReturnsAnOpenedSession'
  BY DEF TypeOK, SessionInv, OneSessionPerSubmission, KeyInv,
         SubmittedUnderRegisteredKey, StartReturnsAnOpenedSession
<1>7. WebgazerCanBeEnded'
  BY DEF WebgazerCanBeEnded
<1> QED
  BY <1>3, <1>4, <1>5, <1>6, <1>7

LEMMA KeyGeneratedIInv ==
  ASSUME IInv, NEW c \in Call, KeyGenerated(c)
  PROVE  IInv'
<1> USE DEF IInv
<1>1. /\ pc' \in [Call -> PC] /\ overlapped' = overlapped
      /\ pc[c] = "keygen" /\ pc'[c] = IF bridge' THEN "ready" ELSE "done"
      /\ \A d \in Call : d # c => pc'[d] = pc[d]
  BY ContinueMoves DEF KeyGenerated, PC
<1>2. keyPair' = c /\ bridge' \in BOOLEAN
      /\ UNCHANGED <<isInitialized, sessionVars, libraryVars, requestVars>>
  BY DEF KeyGenerated, TypeOK
<1> USE <1>1, <1>2 DEF clientVars, sessionVars, libraryVars, gazeVars, requestVars
<1>3. TypeOK'
  BY DEF TypeOK
<1>4. SessionInv' /\ OneSessionPerSubmission'
  BY DEF TypeOK, SessionInv, OneSessionPerSubmission
<1>5. KeyInv'
  BY DEF TypeOK, KeyInv, Busy, Exclusive
<1>6. SubmittedUnderRegisteredKey' /\ StartReturnsAnOpenedSession'
  BY DEF TypeOK, SessionInv, OneSessionPerSubmission, KeyInv,
         SubmittedUnderRegisteredKey, StartReturnsAnOpenedSession
<1>7. WebgazerCanBeEnded'
  BY DEF WebgazerCanBeEnded
<1> QED
  BY <1>3, <1>4, <1>5, <1>6, <1>7

LEMMA BridgeReadyIInv ==
  ASSUME IInv, NEW c \in Call, BridgeReady(c)
  PROVE  IInv'
<1> USE DEF IInv
<1>1. /\ pc' \in [Call -> PC] /\ overlapped' = overlapped
      /\ pc[c] = "ready" /\ pc'[c] = "done"
      /\ \A d \in Call : d # c => pc'[d] = pc[d]
  BY ContinueMoves DEF BridgeReady, PC
<1>2. isInitialized' = TRUE
      /\ UNCHANGED <<keyPair, sessionVars, libraryVars, bridge, requestVars>>
  BY DEF BridgeReady
<1> USE <1>1, <1>2 DEF clientVars, sessionVars, libraryVars, gazeVars, requestVars
<1>3. TypeOK'
  BY DEF TypeOK
<1>4. SessionInv' /\ OneSessionPerSubmission'
  BY DEF TypeOK, SessionInv, OneSessionPerSubmission
<1>5. KeyInv'
  BY DEF TypeOK, KeyInv, Busy, Exclusive
<1>6. SubmittedUnderRegisteredKey' /\ StartReturnsAnOpenedSession'
  BY DEF TypeOK, SessionInv, OneSessionPerSubmission, KeyInv,
         SubmittedUnderRegisteredKey, StartReturnsAnOpenedSession
<1>7. WebgazerCanBeEnded'
  BY DEF WebgazerCanBeEnded
<1> QED
  BY <1>3, <1>4, <1>5, <1>6, <1>7

LEMMA StartSessionIInv ==
  ASSUME IInv, NEW c \in Call, StartSession(c)
  PROVE  IInv'
<1> USE DEF IInv
<1>1. /\ pc' \in [Call -> PC] /\ overlapped' \in BOOLEAN
      /\ pc[c] = "idle" /\ pc'[c] = IF isInitialized THEN "digest" ELSE "done"
      /\ \A d \in Call : d # c => pc'[d] = pc[d]
      /\ ~overlapped' => ~overlapped /\ \A d \in Call : Busy(d) => ~Exclusive(d)
  BY BeginMoves DEF StartSession, PC
<1>2. UNCHANGED <<clientVars, requestVars>>
  BY DEF StartSession
<1> USE <1>1, <1>2 DEF clientVars, sessionVars, libraryVars, gazeVars, requestVars
<1>3. TypeOK'
  BY DEF TypeOK
<1>4. SessionInv' /\ OneSessionPerSubmission'
  BY DEF TypeOK, SessionInv, OneSessionPerSubmission
<1>5. KeyInv'
  BY DEF TypeOK, KeyInv, Busy, Exclusive
<1>6. SubmittedUnderRegisteredKey' /\ StartReturnsAnOpenedSession'
  BY DEF TypeOK, SessionInv, OneSessionPerSubmission, KeyInv,
         SubmittedUnderRegisteredKey, StartReturnsAnOpenedSession
<1>7. WebgazerCanBeEnded'
  BY DEF WebgazerCanBeEnded
<1> QED
  BY <1>3, <1>4, <1>5, <1>6, <1>7

LEMMA SendInitIInv ==
  ASSUME IInv, NEW c \in Call, SendInit(c)
  PROVE  IInv'
<1> USE DEF IInv
<1>1. /\ pc' \in [Call -> PC] /\ overlapped' = overlapped
      /\ pc[c] = "digest" /\ pc'[c] = IF keyPair = Nil THEN "done" ELSE "init"
      /\ \A d \in Call : d # c => pc'[d] = pc[d]
  BY ContinueMoves DEF SendInit, PC
<1>2. initKey' = (IF keyPair = Nil THEN initKey ELSE [initKey EXCEPT ![c] = keyPair])
      /\ UNCHANGED <<clientVars, opened, draft, sent, returned>>
  BY DEF SendInit
<1> USE <1>1, <1>2 DEF clientVars, sessionVars, libraryVars, gazeVars, requestVars
<1>3. TypeOK'
  BY DEF TypeOK
<1>4. SessionInv' /\ OneSessionPerSubmission'
  BY DEF TypeOK, SessionInv, OneSessionPerSubmission
<1>5. KeyInv'
  BY DEF TypeOK, KeyInv, Busy, Exclusive
<1>6. SubmittedUnderRegisteredKey' /\ StartReturnsAnOpenedSession'
  BY DEF TypeOK, SessionInv, OneSessionPerSubmission, KeyInv,
         SubmittedUnderRegisteredKey, StartReturnsAnOpenedSession
<1>7. WebgazerCanBeEnded'
  BY DEF WebgazerCanBeEnded
<1> QED
  BY <1>3, <1>4, <1>5, <1>6, <1>7

LEMMA ServerOpensIInv ==
  ASSUME IInv, NEW c \in Call, ServerOpens(c)
  PROVE  IInv'
<1> USE DEF IInv
<1>1. initKey[c] # Nil /\ opened' = opened \cup {c}
  BY DEF ServerOpens
<1>2. UNCHANGED <<clientVars, pc, initKey, draft, sent, returned, overlapped>>
  BY DEF ServerOpens
<1> USE <1>1, <1>2 DEF clientVars, sessionVars, libraryVars, gazeVars, requestVars
<1>3. TypeOK'
  BY DEF TypeOK
<1>4. SessionInv' /\ OneSessionPerSubmission'
  BY DEF TypeOK, SessionInv, OneSessionPerSubmission
<1>5. KeyInv'
  BY DEF TypeOK, KeyInv, Busy, Exclusive
<1>6. SubmittedUnderRegisteredKey' /\ StartReturnsAnOpenedSession'
  BY DEF TypeOK, SessionInv, OneSessionPerSubmission, KeyInv,
         SubmittedUnderRegisteredKey, StartReturnsAnOpenedSession
<1>7. WebgazerCanBeEnded'
  BY DEF WebgazerCanBeEnded
<1> QED
  BY <1>3, <1>4, <1>5, <1>6, <1>7

LEMMA InitAnsweredIInv ==
  ASSUME IInv, NEW c \in Call, InitAnswered(c)
  PROVE  IInv'
<1> USE DEF IInv
<1>1. /\ pc' \in [Call -> PC] /\ overlapped' = overlapped
      /\ pc[c] = "init" /\ pc'[c] = "webgazer"
      /\ \A d \in Call : d # c => pc'[d] = pc[d]
  BY ContinueMoves DEF InitAnswered, PC
<1>2. c \in opened /\ sessionId' = c /\ sessionNonce' = c /\ deviceFingerprint' = c
      /\ UNCHANGED <<isInitialized, keyPair, libraryVars, bridge, requestVars>>
  BY DEF InitAnswered
<1> USE <1>1, <1>2 DEF clientVars, sessionVars, libraryVars, gazeVars, requestVars
<1>3. TypeOK'
  BY DEF TypeOK
<1>4. SessionInv' /\ OneSessionPerSubmission'
  BY DEF TypeOK, SessionInv, OneSessionPerSubmission
<1>5. KeyInv'
  BY DEF TypeOK, KeyInv, Busy, Exclusive
<1>6. SubmittedUnderRegisteredKey' /\ StartReturnsAnOpenedSession'
  BY DEF TypeOK, SessionInv, OneSessionPerSubmission, KeyInv,
         SubmittedUnderRegisteredKey, StartReturnsAnOpenedSession
<1>7. WebgazerCanBeEnded'
  BY DEF WebgazerCanBeEnded
<1> QED
  BY <1>3, <1>4, <1>5, <1>6, <1>7

LEMMA RejectedIInv ==
  ASSUME IInv, NEW c \in Call, Rejected(c)
  PROVE  IInv'
<1> USE DEF IInv
<1>1. /\ pc' \in [Call -> PC] /\ overlapped' = overlapped
      /\ pc[c] \in {"keygen", "digest", "init", "sign", "verify"} /\ pc'[c] = "done"
      /\ \A d \in Call : d # c => pc'[d] = pc[d]
  BY ContinueMoves DEF Rejected, PC
<1>2. UNCHANGED <<clientVars, requestVars>>
  BY DEF Rejected
<1> USE <1>1, <1>2 DEF clientVars, sessionVars, libraryVars, gazeVars, requestVars
<1>3. TypeOK'
  BY DEF TypeOK
<1>4. SessionInv' /\ OneSessionPerSubmission'
  BY DEF TypeOK, SessionInv, OneSessionPerSubmission
<1>5. KeyInv'
  BY DEF TypeOK, KeyInv, Busy, Exclusive
<1>6. SubmittedUnderRegisteredKey' /\ StartReturnsAnOpenedSession'
  BY DEF TypeOK, SessionInv, OneSessionPerSubmission, KeyInv,
         SubmittedUnderRegisteredKey, StartReturnsAnOpenedSession
<1>7. WebgazerCanBeEnded'
  BY DEF WebgazerCanBeEnded
<1> QED
  BY <1>3, <1>4, <1>5, <1>6, <1>7

LEMMA WebgazerImportedIInv ==
  ASSUME IInv, NEW c \in Call, WebgazerImported(c)
  PROVE  IInv'
<1> USE DEF IInv
<1>1. /\ pc' \in [Call -> PC] /\ overlapped' = overlapped
      /\ pc[c] = "webgazer" /\ pc'[c] \in {"begin", "mediapipe"}
      /\ \A d \in Call : d # c => pc'[d] = pc[d]
  BY ContinueMoves DEF WebgazerImported, PC
<1>2. /\ gazing' = gazing
      /\ \/ glintDetectorAvailable' = glintDetectorAvailable /\ slipped' = slipped
         \/ glintDetectorAvailable' = FALSE /\ slipped' = (slipped \/ gazing)
      /\ UNCHANGED <<isInitialized, keyPair, sessionVars, mediapipeAvailable, faceMesh,
                     bridge, requestVars>>
  BY DEF WebgazerImported, WebgazerFailed
<1> USE <1>1, <1>2 DEF clientVars, sessionVars, libraryVars, gazeVars, requestVars
<1>3. TypeOK'
  BY DEF TypeOK
<1>4. SessionInv' /\ OneSessionPerSubmission'
  BY DEF TypeOK, SessionInv, OneSessionPerSubmission
<1>5. KeyInv'
  BY DEF TypeOK, KeyInv, Busy, Exclusive
<1>6. SubmittedUnderRegisteredKey' /\ StartReturnsAnOpenedSession'
  BY DEF TypeOK, SessionInv, OneSessionPerSubmission, KeyInv,
         SubmittedUnderRegisteredKey, StartReturnsAnOpenedSession
<1>7. WebgazerCanBeEnded'
  BY DEF WebgazerCanBeEnded
<1> QED
  BY <1>3, <1>4, <1>5, <1>6, <1>7

LEMMA CameraGivenIInv ==
  ASSUME IInv, NEW c \in Call, CameraGiven(c)
  PROVE  IInv'
<1> USE DEF IInv
<1>1. pc[c] = "begin" /\ gazing' = TRUE
  BY DEF CameraGiven
<1>2. UNCHANGED <<isInitialized, keyPair, sessionVars, glintDetectorAvailable,
                  mediapipeAvailable, faceMesh, slipped, bridge, pc, requestVars,
                  overlapped>>
  BY DEF CameraGiven
<1> USE <1>1, <1>2 DEF clientVars, sessionVars, libraryVars, gazeVars, requestVars
<1>3. TypeOK'
  BY DEF TypeOK
<1>4. SessionInv' /\ OneSessionPerSubmission'
  BY DEF TypeOK, SessionInv, OneSessionPerSubmission
<1>5. KeyInv'
  BY DEF TypeOK, KeyInv, Busy, Exclusive
<1>6. SubmittedUnderRegisteredKey' /\ StartReturnsAnOpenedSession'
  BY DEF TypeOK, SessionInv, OneSessionPerSubmission, KeyInv,
         SubmittedUnderRegisteredKey, StartReturnsAnOpenedSession
<1>7. WebgazerCanBeEnded'
  BY DEF WebgazerCanBeEnded
<1> QED
  BY <1>3, <1>4, <1>5, <1>6, <1>7

LEMMA WebgazerBegunIInv ==
  ASSUME IInv, NEW c \in Call, WebgazerBegun(c)
  PROVE  IInv'
<1> USE DEF IInv
<1>1. /\ pc' \in [Call -> PC] /\ overlapped' = overlapped
      /\ pc[c] = "begin" /\ pc'[c] = "mediapipe"
      /\ \A d \in Call : d # c => pc'[d] = pc[d]
  BY ContinueMoves DEF WebgazerBegun, PC
<1>2. /\ gazing' = gazing
      /\ \/ glintDetectorAvailable' = TRUE /\ slipped' = slipped
         \/ glintDetectorAvailable' = FALSE /\ slipped' = (slipped \/ gazing)
      /\ UNCHANGED <<isInitialized, keyPair, sessionVars, mediapipeAvailable, faceMesh,
                     bridge, requestVars>>
  BY DEF WebgazerBegun, WebgazerFailed
<1> USE <1>1, <1>2 DEF clientVars, sessionVars, libraryVars, gazeVars, requestVars
<1>3. TypeOK'
  BY DEF TypeOK
<1>4. SessionInv' /\ OneSessionPerSubmission'
  BY DEF TypeOK, SessionInv, OneSessionPerSubmission
<1>5. KeyInv'
  BY DEF TypeOK, KeyInv, Busy, Exclusive
<1>6. SubmittedUnderRegisteredKey' /\ StartReturnsAnOpenedSession'
  BY DEF TypeOK, SessionInv, OneSessionPerSubmission, KeyInv,
         SubmittedUnderRegisteredKey, StartReturnsAnOpenedSession
<1>7. WebgazerCanBeEnded'
  BY DEF WebgazerCanBeEnded
<1> QED
  BY <1>3, <1>4, <1>5, <1>6, <1>7

LEMMA MediapipeLoadedIInv ==
  ASSUME IInv, NEW c \in Call, MediapipeLoaded(c)
  PROVE  IInv'
<1> USE DEF IInv
<1>1. /\ pc' \in [Call -> PC] /\ overlapped' = overlapped
      /\ pc[c] = "mediapipe" /\ pc'[c] = "done"
      /\ \A d \in Call : d # c => pc'[d] = pc[d]
  BY ContinueMoves DEF MediapipeLoaded, PC
<1>2. mediapipeAvailable' \in BOOLEAN /\ faceMesh' \in BOOLEAN
      /\ returned' = [returned EXCEPT ![c] = {sessionId}]
      /\ UNCHANGED <<isInitialized, keyPair, sessionVars, glintDetectorAvailable, gazeVars,
                     bridge, initKey, opened, draft, sent>>
  BY DEF MediapipeLoaded, TypeOK
<1> USE <1>1, <1>2 DEF clientVars, sessionVars, libraryVars, gazeVars, requestVars
<1>3. TypeOK'
  BY DEF TypeOK
<1>4. SessionInv' /\ OneSessionPerSubmission'
  BY DEF TypeOK, SessionInv, OneSessionPerSubmission
<1>5. KeyInv'
  BY DEF TypeOK, KeyInv, Busy, Exclusive
<1>6. SubmittedUnderRegisteredKey' /\ StartReturnsAnOpenedSession'
  BY DEF TypeOK, SessionInv, OneSessionPerSubmission, KeyInv,
         SubmittedUnderRegisteredKey, StartReturnsAnOpenedSession
<1>7. WebgazerCanBeEnded'
  BY DEF WebgazerCanBeEnded
<1> QED
  BY <1>3, <1>4, <1>5, <1>6, <1>7

(* What a submission is made of. *)
Incomplete == Nil \in {sessionId, keyPair, sessionNonce, deviceFingerprint}
Drafted == [session |-> sessionId, nonce |-> sessionNonce,
            fingerprint |-> deviceFingerprint, signer |-> keyPair]

LEMMA SubmitTelemetryIInv ==
  ASSUME IInv, NEW c \in Call, SubmitTelemetry(c)
  PROVE  IInv'
<1> USE DEF IInv
<1>1. /\ pc' \in [Call -> PC] /\ overlapped' \in BOOLEAN
      /\ pc[c] = "idle" /\ pc'[c] = IF Incomplete THEN "done" ELSE "sign"
      /\ \A d \in Call : d # c => pc'[d] = pc[d]
      /\ ~overlapped' => ~overlapped /\ \A d \in Call : Busy(d) => ~Exclusive(d)
  BY BeginMoves DEF SubmitTelemetry, Incomplete, PC
<1>2. draft' = (IF Incomplete THEN draft ELSE [draft EXCEPT ![c] = Drafted])
      /\ UNCHANGED <<clientVars, initKey, opened, sent, returned>>
  BY DEF SubmitTelemetry, Incomplete, Drafted
<1> USE <1>1, <1>2 DEF clientVars, sessionVars, libraryVars, gazeVars, requestVars
<1>3. TypeOK'
  BY DEF TypeOK, Incomplete, Drafted, Submission
<1>4. SessionInv' /\ OneSessionPerSubmission'
  <2>1. CASE Incomplete
    BY <2>1 DEF SessionInv, OneSessionPerSubmission
  <2>2. CASE ~Incomplete
    <3>1. draft'[c] = Drafted /\ \A d \in Call : d # c => draft'[d] = draft[d]
      BY <2>2 DEF TypeOK
    <3>2. Drafted # Nil
      <4>1. Drafted \in Submission
        BY <2>2 DEF TypeOK, Drafted, Incomplete, Submission
      <4> QED
        BY <4>1
    <3>3. SessionInv'
      BY <3>1, <3>2 DEF SessionInv
    <3>4. OneSessionPerSubmission'
      BY <2>2, <3>1 DEF SessionInv, OneSessionPerSubmission, Incomplete, Drafted
    <3> QED
      BY <3>3, <3>4
  <2> QED
    BY <2>1, <2>2
<1>5. KeyInv'
  BY DEF TypeOK, KeyInv, Busy, Exclusive, Incomplete, Drafted, Submission
<1>6. SubmittedUnderRegisteredKey' /\ StartReturnsAnOpenedSession'
  BY DEF TypeOK, SessionInv, OneSessionPerSubmission, KeyInv,
         SubmittedUnderRegisteredKey, StartReturnsAnOpenedSession,
         Incomplete, Drafted, Submission
<1>7. WebgazerCanBeEnded'
  BY DEF WebgazerCanBeEnded
<1> QED
  BY <1>3, <1>4, <1>5, <1>6, <1>7

LEMMA SendVerifyIInv ==
  ASSUME IInv, NEW c \in Call, SendVerify(c)
  PROVE  IInv'
<1> USE DEF IInv
<1>1. /\ pc' \in [Call -> PC] /\ overlapped' = overlapped
      /\ pc[c] = "sign" /\ pc'[c] = IF keyPair = Nil THEN "done" ELSE "verify"
      /\ \A d \in Call : d # c => pc'[d] = pc[d]
  BY ContinueMoves DEF SendVerify, PC
<1>2. sent' = (IF keyPair = Nil THEN sent ELSE [sent EXCEPT ![c] = keyPair])
      /\ UNCHANGED <<clientVars, initKey, opened, draft, returned>>
  BY DEF SendVerify
<1> USE <1>1, <1>2 DEF clientVars, sessionVars, libraryVars, gazeVars, requestVars
<1>3. TypeOK'
  BY DEF TypeOK
<1>4. SessionInv' /\ OneSessionPerSubmission'
  BY DEF TypeOK, SessionInv, OneSessionPerSubmission
<1>5. KeyInv'
  BY DEF TypeOK, KeyInv, Busy, Exclusive
<1>6. SubmittedUnderRegisteredKey' /\ StartReturnsAnOpenedSession'
  BY DEF TypeOK, SessionInv, OneSessionPerSubmission, KeyInv,
         SubmittedUnderRegisteredKey, StartReturnsAnOpenedSession
<1>7. WebgazerCanBeEnded'
  BY DEF WebgazerCanBeEnded
<1> QED
  BY <1>3, <1>4, <1>5, <1>6, <1>7

LEMMA VerifyAnsweredIInv ==
  ASSUME IInv, NEW c \in Call, VerifyAnswered(c)
  PROVE  IInv'
<1> USE DEF IInv
<1>1. /\ pc' \in [Call -> PC] /\ overlapped' = overlapped
      /\ pc[c] = "verify" /\ pc'[c] = "done"
      /\ \A d \in Call : d # c => pc'[d] = pc[d]
  BY ContinueMoves DEF VerifyAnswered, PC
<1>2. UNCHANGED <<clientVars, requestVars>>
  BY DEF VerifyAnswered
<1> USE <1>1, <1>2 DEF clientVars, sessionVars, libraryVars, gazeVars, requestVars
<1>3. TypeOK'
  BY DEF TypeOK
<1>4. SessionInv' /\ OneSessionPerSubmission'
  BY DEF TypeOK, SessionInv, OneSessionPerSubmission
<1>5. KeyInv'
  BY DEF TypeOK, KeyInv, Busy, Exclusive
<1>6. SubmittedUnderRegisteredKey' /\ StartReturnsAnOpenedSession'
  BY DEF TypeOK, SessionInv, OneSessionPerSubmission, KeyInv,
         SubmittedUnderRegisteredKey, StartReturnsAnOpenedSession
<1>7. WebgazerCanBeEnded'
  BY DEF WebgazerCanBeEnded
<1> QED
  BY <1>3, <1>4, <1>5, <1>6, <1>7

LEMMA CleanupIInv ==
  ASSUME IInv, NEW c \in Call, Cleanup(c)
  PROVE  IInv'
<1> USE DEF IInv
<1>1. /\ pc' \in [Call -> PC] /\ overlapped' \in BOOLEAN
      /\ pc[c] = "idle" /\ pc'[c] = IF glintDetectorAvailable THEN "import" ELSE "done"
      /\ \A d \in Call : d # c => pc'[d] = pc[d]
      /\ ~overlapped' => ~overlapped /\ \A d \in Call : ~Busy(d)
  BY BeginMoves DEF Cleanup, PC
<1>2. bridge' = FALSE /\ UNCHANGED requestVars
      /\ IF glintDetectorAvailable
         THEN UNCHANGED <<isInitialized, keyPair, sessionVars, libraryVars>>
         ELSE Forget /\ UNCHANGED gazeVars
  BY DEF Cleanup
<1> USE <1>1, <1>2 DEF clientVars, sessionVars, libraryVars, gazeVars, requestVars
<1>3. TypeOK'
  BY DEF TypeOK, Forget
<1>4. SessionInv' /\ OneSessionPerSubmission'
  BY DEF TypeOK, SessionInv, OneSessionPerSubmission, Forget
<1>5. KeyInv'
  BY DEF TypeOK, KeyInv, Busy, Exclusive, Forget
<1>6. SubmittedUnderRegisteredKey' /\ StartReturnsAnOpenedSession'
  BY DEF TypeOK, SessionInv, OneSessionPerSubmission, KeyInv,
         SubmittedUnderRegisteredKey, StartReturnsAnOpenedSession, Forget
<1>7. WebgazerCanBeEnded'
  BY DEF WebgazerCanBeEnded, Forget
<1> QED
  BY <1>3, <1>4, <1>5, <1>6, <1>7

LEMMA WebgazerEndedIInv ==
  ASSUME IInv, NEW c \in Call, WebgazerEnded(c)
  PROVE  IInv'
<1> USE DEF IInv
<1>1. /\ pc' \in [Call -> PC] /\ overlapped' = overlapped
      /\ pc[c] = "import" /\ pc'[c] = "done"
      /\ \A d \in Call : d # c => pc'[d] = pc[d]
  BY ContinueMoves DEF WebgazerEnded, PC
<1>2. /\ Forget /\ UNCHANGED <<bridge, requestVars>>
      /\ \/ gazing' = FALSE /\ slipped' = slipped
         \/ slipped' = (slipped \/ gazing) /\ gazing' = gazing
  BY DEF WebgazerEnded
<1> USE <1>1, <1>2 DEF clientVars, sessionVars, libraryVars, gazeVars, requestVars
<1>3. TypeOK'
  BY DEF TypeOK, Forget
<1>4. SessionInv' /\ OneSessionPerSubmission'
  BY DEF TypeOK, SessionInv, OneSessionPerSubmission, Forget
<1>5. KeyInv'
  BY DEF TypeOK, KeyInv, Busy, Exclusive, Forget
<1>6. SubmittedUnderRegisteredKey' /\ StartReturnsAnOpenedSession'
  BY DEF TypeOK, SessionInv, OneSessionPerSubmission, KeyInv,
         SubmittedUnderRegisteredKey, StartReturnsAnOpenedSession, Forget
<1>7. WebgazerCanBeEnded'
  BY DEF WebgazerCanBeEnded, Forget
<1> QED
  BY <1>3, <1>4, <1>5, <1>6, <1>7

LEMMA StutterIInv ==
  ASSUME IInv, UNCHANGED vars
  PROVE  IInv'
<1> USE DEF IInv, vars, clientVars, sessionVars, libraryVars, gazeVars, requestVars
<1>1. TypeOK' /\ SessionInv' /\ OneSessionPerSubmission'
  BY DEF TypeOK, SessionInv, OneSessionPerSubmission
<1>2. KeyInv' /\ SubmittedUnderRegisteredKey' /\ StartReturnsAnOpenedSession'
  BY DEF KeyInv, Busy, Exclusive, SubmittedUnderRegisteredKey, StartReturnsAnOpenedSession
<1>3. WebgazerCanBeEnded'
  BY DEF WebgazerCanBeEnded
<1> QED
  BY <1>1, <1>2, <1>3

-------------------------------------------------------------------------------
LEMMA SpecIInv == Spec => []IInv
<1>1. IInv /\ [Next]_vars => IInv'
  <2> SUFFICES ASSUME IInv, [Next]_vars PROVE IInv'
    OBVIOUS
  <2>1. ASSUME NEW c \in Call, Host(c) PROVE IInv'
    BY <2>1, InitializeIInv, StartSessionIInv, SubmitTelemetryIInv, CleanupIInv DEF Host
  <2>2. ASSUME NEW c \in Call, Resume(c) PROVE IInv'
    BY <2>2, KeyGeneratedIInv, BridgeReadyIInv, SendInitIInv, InitAnsweredIInv,
       WebgazerImportedIInv, WebgazerBegunIInv, MediapipeLoadedIInv, SendVerifyIInv, VerifyAnsweredIInv,
       WebgazerEndedIInv, RejectedIInv DEF Resume
  <2>3. ASSUME NEW c \in Call, ServerOpens(c) PROVE IInv'
    BY <2>3, ServerOpensIInv
  <2>4. ASSUME NEW c \in Call, CameraGiven(c) PROVE IInv'
    BY <2>4, CameraGivenIInv
  <2> QED
    BY <2>1, <2>2, <2>3, <2>4, StutterIInv DEF Next
<1> QED
  BY <1>1, InitIInv, PTL DEF Spec

(* Types, and drafts of complete sessions only (index.ts:293).                 *)
THEOREM TypeCorrect == Spec => []TypeOK
<1>1. IInv => TypeOK
  BY DEF IInv
<1> QED
  BY <1>1, SpecIInv, PTL

(* However many calls overlap, a submission is of one session that the server  *)
(* opened (index.ts:110-112, 297).                                             *)
THEOREM SubmissionsAreOfOneSession == Spec => []OneSessionPerSubmission
<1>1. IInv => OneSessionPerSubmission
  BY DEF IInv
<1> QED
  BY <1>1, SpecIInv, PTL

(* A host that lets initialize and cleanup run alone submits under the key of  *)
(* the session only (index.ts:82, 105, 338-343).                               *)
THEOREM SubmissionsAreUnderTheKey == Spec => []SubmittedUnderRegisteredKey
<1>1. IInv => SubmittedUnderRegisteredKey
  BY DEF IInv
<1> QED
  BY <1>1, SpecIInv, PTL

(* And every startSession that returns to it returns an open session           *)
(* (index.ts:193).                                                             *)
THEOREM StartsAreOpened == Spec => []StartReturnsAnOpenedSession
<1>1. IInv => StartReturnsAnOpenedSession
  BY DEF IInv
<1> QED
  BY <1>1, SpecIInv, PTL

(* And webgazer runs only while a call waits for it to begin or cleanup knows  *)
(* of it, until a call of webgazer fails while it runs (index.ts:116-137,      *)
(* 413-421).                                                                   *)
THEOREM WebgazerIsKnownToRun == Spec => []WebgazerCanBeEnded
<1>1. IInv => WebgazerCanBeEnded
  BY DEF IInv
<1> QED
  BY <1>1, SpecIInv, PTL
===============================================================================
