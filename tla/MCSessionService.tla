--------------------------- MODULE MCSessionService ---------------------------
(* Small instances of SessionService for TLC.                                  *)
EXTENDS SessionService

CONSTANTS i1, v1, v2, k1, k2, badKey, f1, f2

MCKeys == {k1, k2, badKey}
MCParseable == {k1, k2}

Good(s, k) ==
  [session |-> s, nonce |-> s, key |-> k, fingerprint |-> f1, timestamp |-> 1,
   signer |-> k, defect |-> "none"]

(* One session opened with k1. Against it: the honest submission, and one      *)
(* submission for every check that can refuse it; what the SDK's own signature *)
(* gets is SdkSubmissions.                                                     *)
OneBodies ==
  {[client |-> "client", fingerprint |-> f1, key |-> k1],
   [client |-> Empty, fingerprint |-> f1, key |-> k1]}
OneSubmissions ==
  LET good == Good(i1, k1) IN
  {good,
   [good EXCEPT !.nonce = Empty],
   [good EXCEPT !.key = k2, !.signer = k2],
   [good EXCEPT !.fingerprint = f2],
   [good EXCEPT !.fingerprint = Empty],
   [good EXCEPT !.signer = k2],
   [good EXCEPT !.defect = "invalid_telemetry"]}

(* The honest submission as the SDK signs it.                                  *)
SdkSubmissions == {SdkSubmission(i1, k1, f1, 1)}

(* Honest submissions only.                                                    *)
HonestSubmissions == {Good(i1, k1)}
===============================================================================
