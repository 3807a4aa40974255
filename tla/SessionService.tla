---------------------------- MODULE SessionService ----------------------------
(* The session service of aegis-backend: the init and verify handlers, each    *)
(* request a goroutine of its own, over the session records kept in Redis.     *)
(*                                                                             *)
(* A handler is cut into steps exactly at its Redis calls, because that is     *)
(* where other goroutines, other backend instances and Redis itself can act:   *)
(*                                                                             *)
(*   init    Arrive -> StoreSession -> answer                                  *)
(*   verify  Arrive -> GetSession -> checks -> StoreSession (burn) -> answer   *)
(*                                                                             *)
(* A session is named by the init request that creates it (uuid.New is         *)
(* fresh), and so is its 32-byte random nonce: the nonce of session s is s.    *)
(* Redis is external: a record expires, is evicted (allkeys-lru), or is rolled *)
(* back to the last synced append-only file by a restart; a write that failed  *)
(* for the caller may still take effect later.                                 *)
EXTENDS Integers

CONSTANTS
  InitReq,       \* requests to POST /api/v2/session/init
  VerifyReq,     \* requests to POST /api/v2/session/verify
  Key,           \* public keys in PEM
  ParseableKey,  \* those that parse as ECDSA P-256 keys; init checks none
  Fingerprint,   \* device fingerprints
  Empty,         \* the empty string
  Absent,        \* no record
  InitBodies,    \* the init bodies clients may send
  Submissions,   \* the verify bodies clients may send
  SessionTTL,    \* 5 minutes
  MaxClockSkew,  \* MAX_CLOCK_SKEW_SECONDS, 5 s by default
  MaxTime,       \* bound: the clock stops here
  MaxRestarts    \* bound: Redis restarts

Session == InitReq
Request == InitReq \cup VerifyReq

InitBody == [client : {Empty, "client"}, fingerprint : Fingerprint \cup {Empty},
             key : Key \cup {Empty}]

(* What ServeHTTP and validateTelemetry look at before the first Redis call is *)
(* kept as the error they would answer with, "none" if they pass.              *)
Defect == {"none", "method_not_allowed", "invalid_request", "missing_field",
           "invalid_telemetry"}

(* signer is the key the signature over this very payload verifies under, or   *)
(* "malformed" if it is not ASN.1 DER, or "none" if it verifies under no key.  *)
Submission ==
  [session : Session, nonce : Session \cup {Empty}, key : Key \cup {Empty},
   fingerprint : Fingerprint \cup {Empty}, timestamp : Int,
   signer : Key \cup {"malformed", "none"}, defect : Defect]

(* SessionData, without the ids and without ExpiresAt, which nothing reads.    *)
SessionData == [nonce : Session \cup {Empty}, key : Key,
                fingerprint : Fingerprint, created : Nat]

Entry == [data : SessionData, deadline : Nat]   \* a Redis key and its TTL
Write == [session : Session, data : SessionData, burn : BOOLEAN]

InitReplies == {"ok", "method_not_allowed", "invalid_request", "missing_field",
                "internal_error"}
VerifyReplies == (Defect \ {"none"})
  \cup {"invalid_session", "replay_attack", "key_mismatch", "device_mismatch",
        "clock_skew", "signature_error", "invalid_signature", "verdict"}

Never == -1

ASSUME IdAssumption ==
  /\ InitReq \cap VerifyReq = {}
  /\ Empty \notin InitReq
  /\ Empty \notin Key
  /\ Empty \notin Fingerprint
  /\ ParseableKey \subseteq Key
  /\ "malformed" \notin Key /\ "none" \notin Key
ASSUME AbsentAssumption ==
  Absent \notin Entry \cup SessionData \cup InitBody \cup Submission \cup Session
ASSUME InputAssumption ==
  /\ InitBodies \subseteq InitBody
  /\ Submissions \subseteq Submission
ASSUME TimeAssumption ==
  /\ SessionTTL \in Nat \ {0}
  /\ MaxClockSkew \in Nat
  /\ MaxTime \in Nat
  /\ MaxRestarts \in Nat

VARIABLES
  now,        \* the clock the backend and Redis share
  store,      \* Redis: session -> entry or Absent
  disk,       \* what a restart of Redis brings back
  late,       \* writes that failed for their caller and may yet take effect
  restarts,   \* Redis restarts so far
  pc,         \* request -> where its handler stands
  body,       \* request -> the decoded body, Absent before it arrives
  created,    \* session -> time.Now() of its init handler
  read,       \* verify request -> the record GetSession returned
  reply,      \* request -> the answer: "none" before, "aborted" if it was lost
  (* History, read by no handler:                                            *)
  landedAt,   \* session -> when its init write took effect
  burnt,      \* sessions one of whose burn writes took effect
  lostBurn,   \* sessions whose burn a restart of Redis undid
  gotAt,      \* verify request -> when GetSession answered
  burntAtGet  \* verify request -> whether the session was burnt by then

redisVars == <<store, disk, late, restarts>>
handlerVars == <<pc, body, created, read, reply>>
historyVars == <<landedAt, burnt, lostBurn, gotAt, burntAtGet>>
vars == <<now, redisVars, handlerVars, historyVars>>

-------------------------------------------------------------------------------
Open(e) == e # Absent /\ e.data.nonce # Empty

EntryOf(data) == [data |-> data, deadline |-> now + SessionTTL]

(* Mutant: the nonce is not put into the record.                               *)
InitDataWithoutNonce(s) ==
  [nonce |-> Empty, key |-> body[s].key, fingerprint |-> body[s].fingerprint,
   created |-> created[s]]

(* The record session-init.go builds from the request.                         *)
InitData(s) ==
  [nonce |-> s, key |-> body[s].key, fingerprint |-> body[s].fingerprint,
   created |-> created[s]]

(* Mutant: the burn writes the record back as it was read.                     *)
BurnDataKeepsNonce(r) == read[r]

(* session.Nonce = "" on the copy GetSession returned, everything else kept.   *)
BurnData(r) == [read[r] EXCEPT !.nonce = Empty]

WriteOf(r) ==
  IF r \in InitReq
  THEN [session |-> r, data |-> InitData(r), burn |-> FALSE]
  ELSE [session |-> body[r].session, data |-> BurnData(r), burn |-> TRUE]

(* SET key data EX ttl: the TTL starts afresh whatever was there before.       *)
Land(w) ==
  /\ store' = [store EXCEPT ![w.session] = EntryOf(w.data)]
  /\ IF w.burn
     THEN /\ burnt' = burnt \cup {w.session}
          /\ UNCHANGED landedAt
     ELSE /\ landedAt' = [landedAt EXCEPT ![w.session] = now]
          /\ UNCHANGED burnt

(* StoreSession returned nil.                                                  *)
StoreOk(r) == Land(WriteOf(r)) /\ UNCHANGED late

(* StoreSession returned an error (timeout, cancelled context, connection      *)
(* lost): the command was lost, or it is still under way.                      *)
StoreFails(r) ==
  /\ \/ UNCHANGED late
     \/ late' = late \cup {WriteOf(r)}
  /\ UNCHANGED <<store, landedAt, burnt>>

Answer(r, a) ==
  /\ reply' = [reply EXCEPT ![r] = a]
  /\ pc' = [pc EXCEPT ![r] = "done"]

Goto(r, l) == pc' = [pc EXCEPT ![r] = l] /\ UNCHANGED reply

-------------------------------------------------------------------------------
(* POST /api/v2/session/init                                                   *)

InitArrive(i, b) ==
  /\ pc[i] = "idle"
  /\ body' = [body EXCEPT ![i] = b]
  /\ created' = [created EXCEPT ![i] = now]
  /\ \/ \E e \in {"method_not_allowed", "invalid_request"} : Answer(i, e)
     \/ /\ Empty \in {b.client, b.fingerprint, b.key}
        /\ Answer(i, "missing_field")
     \/ /\ Empty \notin {b.client, b.fingerprint, b.key}
        /\ \/ Answer(i, "internal_error")          \* rand.Read failed
           \/ Goto(i, "store")
  /\ UNCHANGED <<now, redisVars, read, historyVars>>

InitStore(i) ==
  /\ pc[i] = "store"
  /\ \/ StoreOk(i) /\ Answer(i, "ok")
     \/ StoreFails(i) /\ Answer(i, "internal_error")
  /\ UNCHANGED <<now, disk, restarts, body, created, read,
                 lostBurn, gotAt, burntAtGet>>

-------------------------------------------------------------------------------
(* POST /api/v2/session/verify                                                 *)

(* 32 random bytes cannot be guessed: a nonce that is sent was received.       *)
Known(nonce) == nonce # Empty => reply[nonce] = "ok"

VerifyArrive(r, sub) ==
  /\ pc[r] = "idle"
  /\ Known(sub.nonce)
  /\ body' = [body EXCEPT ![r] = sub]
  /\ IF sub.defect = "none" THEN Goto(r, "get") ELSE Answer(r, sub.defect)
  /\ UNCHANGED <<now, redisVars, created, read, historyVars>>

(* Mutant: the error of GetSession is not looked at.                           *)
VerifyGetIgnoresError(r) ==
  /\ pc[r] = "get"
  /\ Goto(r, "check")
  /\ UNCHANGED <<now, redisVars, body, created, read, historyVars>>

(* Mutant: a missing record is waited for.                                     *)
VerifyGetWaits(r) ==
  LET s == body[r].session IN
  /\ pc[r] = "get"
  /\ store[s] # Absent
  /\ read' = [read EXCEPT ![r] = store[s].data]
  /\ gotAt' = [gotAt EXCEPT ![r] = now]
  /\ burntAtGet' = [burntAtGet EXCEPT ![r] = s \in burnt]
  /\ Goto(r, "check")
  /\ UNCHANGED <<now, redisVars, body, created, landedAt, burnt, lostBurn>>

(* A missing record and a Redis error get the same answer.                     *)
VerifyGet(r) ==
  LET s == body[r].session IN
  /\ pc[r] = "get"
  /\ \/ /\ Answer(r, "invalid_session")
        /\ UNCHANGED <<read, gotAt, burntAtGet>>
     \/ /\ store[s] # Absent
        /\ read' = [read EXCEPT ![r] = store[s].data]
        /\ gotAt' = [gotAt EXCEPT ![r] = now]
        /\ burntAtGet' = [burntAtGet EXCEPT ![r] = s \in burnt]
        /\ Goto(r, "check")
  /\ UNCHANGED <<now, redisVars, body, created, landedAt, burnt, lostBurn>>

Skewed(t) == now - t > MaxClockSkew \/ t - now > MaxClockSkew

(* VerifySignature: the key of the session, never the key of the request.      *)
SignatureOutcome(key, signer) ==
  IF key \notin ParseableKey \/ signer = "malformed" THEN "signature_error"
  ELSE IF signer # key THEN "invalid_signature"
  ELSE "none"

(* Mutants: a burnt nonce is compared like any other; the nonce is only looked *)
(* at for being burnt; the fingerprint is not compared.                        *)
CheckErrorIgnoresBurn(data, sub) ==
  IF sub.nonce # data.nonce THEN "replay_attack"
  ELSE IF data.key = Empty \/ sub.key # data.key THEN "key_mismatch"
  ELSE IF sub.fingerprint = Empty THEN "missing_field"
  ELSE IF sub.fingerprint # data.fingerprint THEN "device_mismatch"
  ELSE IF Skewed(sub.timestamp) THEN "clock_skew"
  ELSE SignatureOutcome(data.key, sub.signer)

CheckErrorAnyNonce(data, sub) ==
  IF data.nonce = Empty THEN "replay_attack"
  ELSE IF data.key = Empty \/ sub.key # data.key THEN "key_mismatch"
  ELSE IF sub.fingerprint = Empty THEN "missing_field"
  ELSE IF sub.fingerprint # data.fingerprint THEN "device_mismatch"
  ELSE IF Skewed(sub.timestamp) THEN "clock_skew"
  ELSE SignatureOutcome(data.key, sub.signer)

CheckErrorAnyDevice(data, sub) ==
  IF data.nonce = Empty \/ sub.nonce # data.nonce THEN "replay_attack"
  ELSE IF data.key = Empty \/ sub.key # data.key THEN "key_mismatch"
  ELSE IF Skewed(sub.timestamp) THEN "clock_skew"
  ELSE SignatureOutcome(data.key, sub.signer)

(* The checks in the order of the code; "none" if all of them pass.            *)
CheckError(data, sub) ==
  IF data.nonce = Empty \/ sub.nonce # data.nonce THEN "replay_attack"
  ELSE IF data.key = Empty \/ sub.key # data.key THEN "key_mismatch"
  ELSE IF sub.fingerprint = Empty THEN "missing_field"
  ELSE IF sub.fingerprint # data.fingerprint THEN "device_mismatch"
  ELSE IF Skewed(sub.timestamp) THEN "clock_skew"
  ELSE SignatureOutcome(data.key, sub.signer)

VerifyCheck(r) ==
  LET error == CheckError(read[r], body[r]) IN
  /\ pc[r] = "check"
  /\ IF error = "none" THEN Goto(r, "burn") ELSE Answer(r, error)
  /\ UNCHANGED <<now, redisVars, body, created, read, historyVars>>

(* The error of this StoreSession is swallowed: the verdict follows anyway.    *)
VerifyBurn(r) ==
  /\ pc[r] = "burn"
  /\ StoreOk(r) \/ StoreFails(r)
  /\ Goto(r, "respond")
  /\ UNCHANGED <<now, disk, restarts, body, created, read,
                 lostBurn, gotAt, burntAtGet>>

VerifyRespond(r) ==
  /\ pc[r] = "respond"
  /\ Answer(r, "verdict")
  /\ UNCHANGED <<now, redisVars, body, created, read, historyVars>>

(* What the SDK submits: WebCrypto signs as r || s, which is no ASN.1 DER.     *)
SdkSubmission(s, k, f, t) ==
  [session |-> s, nonce |-> s, key |-> k, fingerprint |-> f, timestamp |-> t,
   signer |-> "malformed", defect |-> "none"]

-------------------------------------------------------------------------------
InProgress(r) == pc[r] \notin {"idle", "done"}

(* The backend dies: every request under way goes unanswered, and a write it   *)
(* had sent may still reach Redis.                                             *)
BackendCrash ==
  LET writing == {r \in Request : pc[r] \in {"store", "burn"}} IN
  /\ \E r \in Request : InProgress(r)
  /\ pc' = [r \in Request |-> IF InProgress(r) THEN "done" ELSE pc[r]]
  /\ reply' = [r \in Request |-> IF InProgress(r) THEN "aborted" ELSE reply[r]]
  /\ \E sent \in SUBSET writing : late' = late \cup {WriteOf(r) : r \in sent}
  /\ UNCHANGED <<now, store, disk, restarts, body, created, read, historyVars>>

(* Redis, external *)

LandLate(w) ==
  /\ w \in late
  /\ Land(w)
  /\ late' = late \ {w}
  /\ UNCHANGED <<now, disk, restarts, handlerVars, lostBurn, gotAt, burntAtGet>>

Evict(s) ==
  /\ store[s] # Absent
  /\ store' = [store EXCEPT ![s] = Absent]
  /\ UNCHANGED <<now, disk, late, restarts, handlerVars, historyVars>>

(* appendfsync everysec.                                                       *)
Sync ==
  /\ disk' = store
  /\ UNCHANGED <<now, store, late, restarts, handlerVars, historyVars>>

Unexpired(e, t) == e # Absent /\ t < e.deadline

RedisRestart ==
  /\ restarts < MaxRestarts
  /\ restarts' = restarts + 1
  /\ store' = [s \in Session |-> IF Unexpired(disk[s], now) THEN disk[s] ELSE Absent]
  /\ late' = {}
  /\ lostBurn' = lostBurn \cup {s \in burnt : Open(disk[s])}
  /\ UNCHANGED <<now, disk, handlerVars, landedAt, burnt, gotAt, burntAtGet>>

(* Time passes, and Redis drops what has expired.                              *)
Tick ==
  /\ now < MaxTime
  /\ now' = now + 1
  /\ store' = [s \in Session |->
                 IF Unexpired(store[s], now + 1) THEN store[s] ELSE Absent]
  /\ UNCHANGED <<disk, late, restarts, handlerVars, historyVars>>

-------------------------------------------------------------------------------
Init ==
  /\ now = 0
  /\ store = [s \in Session |-> Absent]
  /\ disk = store
  /\ late = {}
  /\ restarts = 0
  /\ pc = [r \in Request |-> "idle"]
  /\ body = [r \in Request |-> Absent]
  /\ created = [s \in Session |-> 0]
  /\ read = [r \in VerifyReq |-> Absent]
  /\ reply = [r \in Request |-> "none"]
  /\ landedAt = [s \in Session |-> Never]
  /\ burnt = {}
  /\ lostBurn = {}
  /\ gotAt = [r \in VerifyReq |-> Never]
  /\ burntAtGet = [r \in VerifyReq |-> FALSE]

InitStep(i) == (\E b \in InitBodies : InitArrive(i, b)) \/ InitStore(i)

VerifyStep(r) ==
  \/ \E sub \in Submissions : VerifyArrive(r, sub)
  \/ VerifyGet(r) \/ VerifyCheck(r) \/ VerifyBurn(r) \/ VerifyRespond(r)

RedisStep ==
  \/ \E w \in late : LandLate(w)
  \/ \E s \in Session : Evict(s)
  \/ Sync \/ RedisRestart

Next ==
  \/ \E i \in InitReq : InitStep(i)
  \/ \E r \in VerifyReq : VerifyStep(r)
  \/ BackendCrash \/ RedisStep \/ Tick

Spec == Init /\ [][Next]_vars

(* The Go scheduler runs every goroutine, and every Redis call returns: the    *)
(* driver gives up after its dial, read and write timeouts. Nothing obliges a  *)
(* client to send, Redis to evict or restart, or the backend to crash.         *)
Fairness ==
  /\ \A i \in InitReq : WF_vars(InitStore(i))
  /\ \A r \in VerifyReq :
       WF_vars(VerifyGet(r) \/ VerifyCheck(r) \/ VerifyBurn(r) \/ VerifyRespond(r))

FairSpec == Spec /\ Fairness

-------------------------------------------------------------------------------
(* Properties *)

PC == {"idle", "store", "get", "check", "burn", "respond", "done"}

(* Every variable stays in its range, and a handler that has started has a     *)
(* body.                                                                       *)
TypeOK ==
  /\ now \in Nat
  /\ store \in [Session -> Entry \cup {Absent}]
  /\ disk \in [Session -> Entry \cup {Absent}]
  /\ late \subseteq Write
  /\ restarts \in Nat
  /\ pc \in [Request -> PC]
  /\ \A i \in InitReq : pc[i] \in {"idle", "store", "done"}
  /\ \A r \in VerifyReq : pc[r] # "store"
  /\ body \in [Request -> InitBody \cup Submission \cup {Absent}]
  /\ \A i \in InitReq : body[i] \in InitBody \/ body[i] = Absent
  /\ \A r \in VerifyReq : body[r] \in Submission \/ body[r] = Absent
  /\ \A r \in Request : pc[r] # "idle" => body[r] # Absent
  /\ created \in [Session -> Nat]
  /\ read \in [VerifyReq -> SessionData \cup {Absent}]
  /\ \A r \in VerifyReq : pc[r] \in {"check", "burn", "respond"} => read[r] # Absent
  /\ reply \in [Request -> InitReplies \cup VerifyReplies \cup {"none", "aborted"}]
  /\ landedAt \in [Session -> Nat \cup {Never}]
  /\ burnt \subseteq Session
  /\ lostBurn \subseteq Session
  /\ gotAt \in [VerifyReq -> Nat \cup {Never}]
  /\ burntAtGet \in [VerifyReq -> BOOLEAN]

Judged(r) == reply[r] = "verdict"

(* A verdict is given only against what the init request of that session sent: *)
(* its key, its fingerprint, a signature under its key, and after init had     *)
(* answered with the nonce (session-verify.go:266-330, session-init.go:128).   *)
AuthenticVerdict ==
  \A r \in VerifyReq : Judged(r) =>
    LET sub == body[r]
        opened == body[sub.session] IN
    /\ reply[sub.session] = "ok"
    /\ sub.nonce = sub.session
    /\ sub.key = opened.key
    /\ sub.fingerprint = opened.fingerprint
    /\ sub.signer = opened.key

(* A request whose GetSession comes after a burn of its session took effect is *)
(* refused, in whatever order the handlers, failed writes, expiry, eviction    *)
(* and crashes happen; only a Redis restart that loses the burn reopens the    *)
(* session. This is what session-verify.go:266-276 and 382-387 do achieve.     *)
NoReplayAfterBurn ==
  \A r \in VerifyReq :
    Judged(r) /\ burntAtGet[r] => body[r].session \in lostBurn

(* A verdict rests on a record read less than SessionTTL after init stored it, *)
(* although every burn starts a new TTL and a failed write may land long after *)
(* (redis.go:55).                                                              *)
FreshVerdict ==
  \A r \in VerifyReq :
    Judged(r) =>
      /\ landedAt[body[r].session] # Never
      /\ gotAt[r] < landedAt[body[r].session] + SessionTTL

(* A request that sends the right nonce of its session is refused as a replay  *)
(* only if the nonce has really been burnt (session-verify.go:266-286).        *)
RefusedOnlyIfBurnt ==
  \A r \in VerifyReq :
    reply[r] = "replay_attack" /\ body[r].nonce = body[r].session
      => body[r].session \in burnt

(* A session opens once: a record without a usable nonce never turns into one  *)
(* with a nonce again, except when a Redis restart rolls it back               *)
(* (session-verify.go:383-384, redis.go:47-60).                                *)
SessionOpensOnce ==
  [][\A s \in Session :
       ~Open(store[s]) /\ Open(store[s])' =>
         landedAt[s] = Never \/ restarts' > restarts]_vars

(* Every request that arrives is answered, or lost in a crash.                 *)
EveryRequestEnds ==
  \A r \in Request : InProgress(r) ~> pc[r] = "done"

(* session-verify.go:382 says of the burn "Delete nonce after successful       *)
(* verification to prevent replay": one session, one verdict.                  *)
AtMostOneVerdict ==
  \A r1, r2 \in VerifyReq :
    Judged(r1) /\ Judged(r2) /\ body[r1].session = body[r2].session => r1 = r2

(* docs/INTEGRATION.md:203 says of this endpoint "Submits telemetry data for   *)
(* validation and receives a verdict": no honest submission of the SDK may     *)
(* fail for the form of its signature.                                         *)
SdkSignatureIsReadable == \A r \in VerifyReq : reply[r] # "signature_error"

-------------------------------------------------------------------------------
(* What the handlers and Redis together implement: NonceGuard.                 *)

Phase == [s \in Session |->
            IF landedAt[s] = Never THEN "new"
            ELSE IF Open(store[s]) THEN "open" ELSE "closed"]

SawOpen(r) == gotAt[r] # Never /\ read[r].nonce # Empty

Seen == [r \in VerifyReq |-> IF SawOpen(r) THEN body[r].session ELSE Absent]

Guard == INSTANCE NonceGuard WITH
  phase <- Phase, seen <- Seen, judged <- {r \in VerifyReq : Judged(r)},
  rollbacks <- restarts, None <- Absent

(* The service implements the guard: a session opens once and closes for good  *)
(* unless Redis is rolled back, and verdicts go only to requests that saw it   *)
(* open (session-verify.go:253-411 over redis.go:47-79).                       *)
ImplementsGuard == Guard!Spec
===============================================================================
