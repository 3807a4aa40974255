------------------------------ MODULE NonceGuard -------------------------------
(* What the session service promises about nonces, with no handlers, no Redis  *)
(* and no clock: a session opens once and closes for good, unless the storage  *)
(* is rolled back, and a verdict goes only to a request that saw its session   *)
(* open. It does not promise that only one request sees it.                    *)
EXTENDS Integers

CONSTANTS Session, VerifyReq, None

VARIABLES
  phase,     \* session -> "new", "open" or "closed"
  seen,      \* verify request -> the session it saw open, or None
  judged,    \* the requests that got a verdict
  rollbacks  \* how often the storage was rolled back

vars == <<phase, seen, judged, rollbacks>>

Init ==
  /\ phase = [s \in Session |-> "new"]
  /\ seen = [r \in VerifyReq |-> None]
  /\ judged = {}
  /\ rollbacks = 0

Issue(s) ==
  /\ phase[s] = "new"
  /\ phase' = [phase EXCEPT ![s] = "open"]
  /\ UNCHANGED <<seen, judged, rollbacks>>

(* By a burn, or by the loss of the records of several sessions at once.       *)
Close(S) ==
  /\ phase' = [s \in Session |->
                 IF s \in S /\ phase[s] = "open" THEN "closed" ELSE phase[s]]
  /\ UNCHANGED <<seen, judged, rollbacks>>

See(r, s) ==
  /\ seen[r] = None
  /\ phase[s] = "open"
  /\ seen' = [seen EXCEPT ![r] = s]
  /\ UNCHANGED <<phase, judged, rollbacks>>

Judge(r) ==
  /\ seen[r] # None
  /\ judged' = judged \cup {r}
  /\ UNCHANGED <<phase, seen, rollbacks>>

(* The storage restarts with an older state: a session that was issued may be  *)
(* open or closed again.                                                       *)
Rollback(S) ==
  /\ phase' = [s \in Session |->
                 IF phase[s] = "new" THEN "new"
                 ELSE IF s \in S THEN "open" ELSE "closed"]
  /\ rollbacks' = rollbacks + 1
  /\ UNCHANGED <<seen, judged>>

Next ==
  \/ \E s \in Session : Issue(s)
  \/ \E S \in SUBSET Session : Close(S) \/ Rollback(S)
  \/ \E r \in VerifyReq, s \in Session : See(r, s)
  \/ \E r \in VerifyReq : Judge(r)

Spec == Init /\ [][Next]_vars
===============================================================================
