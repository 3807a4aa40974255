----------------------- MODULE SessionRefinementProofs -------------------------
(* The session service implements NonceGuard, step by step.                    *)
EXTENDS SessionServiceProofs

USE IdAssumption, AbsentAssumption, InputAssumption, TimeAssumption

(* A write that opens a session is the first one to land for it.               *)
LEMMA LandOpens ==
  ASSUME IInv, NEW w, GoodWrite(w), Land(w), UNCHANGED now
  PROVE  /\ w.session \in Session
         /\ \A s \in Session : s # w.session => store'[s] = store[s]
         /\ w.burn => ~Open(store'[w.session]) /\ UNCHANGED landedAt
         /\ ~w.burn => /\ landedAt[w.session] = Never
                       /\ Open(store'[w.session])
                       /\ landedAt' = [landedAt EXCEPT ![w.session] = now]
<1>1. w.session \in Session /\ store \in [Session -> Entry \cup {Absent}]
      /\ w.data \in SessionData /\ now \in Nat
  BY DEF IInv, TypeOK, GoodWrite, Write
<1>2. EntryOf(w.data) \in Entry /\ EntryOf(w.data) # Absent
      /\ EntryOf(w.data).data = w.data
  BY <1>1 DEF EntryOf, Entry
<1>3. store' = [store EXCEPT ![w.session] = EntryOf(w.data)]
  BY DEF Land
<1>4. store'[w.session] = EntryOf(w.data)
  BY <1>1, <1>3
<1>5. w.burn => w.data.nonce = Empty
  BY DEF GoodWrite
<1>6. ~w.burn => w.data.nonce # Empty
  BY <1>1 DEF GoodWrite, InitData, Session
<1> QED
  BY <1>1, <1>2, <1>3, <1>4, <1>5, <1>6 DEF Land, GoodWrite, Open

(* Where the store changes: a write lands, or records are lost, or Redis       *)
(* restarts.                                                                   *)
LEMMA StoreChanges ==
  ASSUME IInv, [Next]_vars
  PROVE  \/ UNCHANGED <<store, landedAt, restarts>>
         \/ \E w : GoodWrite(w) /\ Land(w) /\ UNCHANGED <<now, restarts>>
         \/ /\ UNCHANGED <<landedAt, restarts>>
            /\ \A s \in Session : store'[s] = store[s] \/ store'[s] = Absent
         \/ RedisRestart
<1> USE DEF redisVars, handlerVars, historyVars
<1>1. ASSUME NEW i \in InitReq, InitStep(i)
      PROVE  \/ UNCHANGED <<store, landedAt, restarts>>
             \/ \E w : GoodWrite(w) /\ Land(w) /\ UNCHANGED <<now, restarts>>
  <2>1. CASE \E b \in InitBodies : InitArrive(i, b)
    BY <2>1 DEF InitArrive
  <2>2. CASE InitStore(i)
    <3>1. GoodWrite(WriteOf(i))
      BY <2>2, WriteOfGood DEF InitStore, Request
    <3> QED
      BY <2>2, <3>1 DEF InitStore, StoreOk, StoreFails
  <2> QED
    BY <1>1, <2>1, <2>2 DEF InitStep
<1>2. ASSUME NEW r \in VerifyReq, VerifyStep(r)
      PROVE  \/ UNCHANGED <<store, landedAt, restarts>>
             \/ \E w : GoodWrite(w) /\ Land(w) /\ UNCHANGED <<now, restarts>>
  <2>1. CASE VerifyBurn(r)
    <3>1. GoodWrite(WriteOf(r))
      BY <2>1, WriteOfGood DEF VerifyBurn, Request
    <3> QED
      BY <2>1, <3>1 DEF VerifyBurn, StoreOk, StoreFails
  <2>2. CASE ~VerifyBurn(r)
    BY <1>2, <2>2 DEF VerifyStep, VerifyArrive, VerifyGet, VerifyCheck, VerifyRespond
  <2> QED
    BY <2>1, <2>2
<1>3. CASE BackendCrash
  BY <1>3 DEF BackendCrash
<1>4. CASE RedisStep
  <2>1. ASSUME NEW w \in late, LandLate(w)
        PROVE  GoodWrite(w) /\ Land(w) /\ UNCHANGED <<now, restarts>>
    BY <2>1, LateGood DEF LandLate
  <2>2. ASSUME NEW s \in Session, Evict(s)
        PROVE  UNCHANGED <<landedAt, restarts>> /\
               \A t \in Session : store'[t] = store[t] \/ store'[t] = Absent
    BY <2>2 DEF Evict, IInv, TypeOK
  <2>3. CASE Sync
    BY <2>3 DEF Sync
  <2> QED
    BY <1>4, <2>1, <2>2, <2>3 DEF RedisStep
<1>5. CASE Tick
  BY <1>5 DEF Tick
<1>6. CASE UNCHANGED vars
  BY <1>6 DEF vars
<1> QED
  BY <1>1, <1>2, <1>3, <1>4, <1>5, <1>6 DEF Next

(* A session opens once: nothing but the landing of its init write, or a       *)
(* restart of Redis, makes its nonce usable (session-verify.go:383-384,        *)
(* redis.go:47-60).                                                            *)
THEOREM OpensOnce == Spec => SessionOpensOnce
<1> DEFINE A == \A s \in Session :
       ~Open(store[s]) /\ Open(store[s])' =>
         landedAt[s] = Never \/ restarts' > restarts
<1>1. IInv /\ [Next]_vars => A
  <2> SUFFICES ASSUME IInv, [Next]_vars, NEW s \in Session,
                      ~Open(store[s]), Open(store'[s])
      PROVE  landedAt[s] = Never \/ restarts' > restarts
    OBVIOUS
  <2>1. CASE \E w : GoodWrite(w) /\ Land(w) /\ UNCHANGED <<now, restarts>>
    BY <2>1, LandOpens
  <2>2. CASE RedisRestart
    BY <2>2 DEF RedisRestart, IInv, TypeOK
  <2> QED
    BY <2>1, <2>2, StoreChanges DEF Open
<1>2. IInv /\ [Next]_vars => [A]_vars
  BY <1>1
<1> QED
  BY <1>2, Invariance, PTL DEF Spec, SessionOpensOnce

-------------------------------------------------------------------------------
(* The refinement. *)

(* A session that is open has been issued, and a request that saw a session    *)
(* open still holds the record it read.                                        *)
LEMMA PhaseFacts ==
  ASSUME IInv
  PROVE  /\ DOMAIN Phase = Session
         /\ \A s \in Session : Phase[s] \in {"new", "open", "closed"}
         /\ \A s \in Session : Phase[s] = "open" <=> Open(store[s])
         /\ \A s \in Session : Phase[s] = "new" <=> landedAt[s] = Never
<1>1. \A s \in Session : Open(store[s]) => landedAt[s] # Never
  BY DEF IInv, StoreInv, EntryInv, Open
<1> QED
  BY <1>1 DEF Phase

(* What a step does to the phases of sessions is a step of the guard.          *)
LEMMA PhaseStep ==
  ASSUME IInv, IInv', [Next]_vars, UNCHANGED <<Seen, {r \in VerifyReq : Judged(r)}>>
  PROVE  [Guard!Next]_Guard!vars
<1>1. CASE UNCHANGED <<store, landedAt, restarts>>
  BY <1>1 DEF Phase, Guard!vars, Open
<1>2. CASE \E w : GoodWrite(w) /\ Land(w) /\ UNCHANGED <<now, restarts>>
  <2>1. PICK w : GoodWrite(w) /\ Land(w) /\ UNCHANGED <<now, restarts>>
    BY <1>2
  <2>2. CASE w.burn
    <3>1. Guard!Close({w.session})
      BY <2>1, <2>2, LandOpens, PhaseFacts DEF Phase, Guard!Close, Open
    <3> QED
      BY <2>1, <3>1, LandOpens DEF Guard!Next
  <2>3. CASE ~w.burn
    <3>1. Guard!Issue(w.session)
      BY <2>1, <2>3, LandOpens, PhaseFacts DEF Phase, Guard!Issue, Never, IInv, TypeOK
    <3> QED
      BY <2>1, <3>1, LandOpens DEF Guard!Next
  <2> QED
    BY <2>2, <2>3
<1>3. CASE /\ UNCHANGED <<landedAt, restarts>>
           /\ \A s \in Session : store'[s] = store[s] \/ store'[s] = Absent
  <2> DEFINE lost == {s \in Session : store'[s] = Absent}
  <2>1. Guard!Close(lost)
    BY <1>3, PhaseFacts DEF Phase, Guard!Close, Open
  <2> QED
    BY <2>1 DEF Guard!Next
<1>4. CASE RedisRestart
  <2> DEFINE back == {s \in Session : Open(store'[s])}
  <2>1. Guard!Rollback(back)
    BY <1>4, PhaseFacts DEF Phase, Guard!Rollback, Open, RedisRestart
  <2> QED
    BY <2>1 DEF Guard!Next
<1> QED
  BY <1>1, <1>2, <1>3, <1>4, StoreChanges

Verdicts == {r \in VerifyReq : Judged(r)}

(* Steps that neither read a record nor give a verdict change nothing the      *)
(* guard knows of requests.                                                    *)
LEMMA SeenKept ==
  ASSUME IInv, UNCHANGED <<read, gotAt>>,
         \A r \in VerifyReq : pc[r] # "idle" => body'[r] = body[r],
         \A r \in VerifyReq : Judged(r)' <=> Judged(r)
  PROVE  UNCHANGED <<Seen, Verdicts>>
<1>1. ASSUME NEW r \in VerifyReq PROVE Seen'[r] = Seen[r]
  <2>1. SawOpen(r)' <=> SawOpen(r)
    BY DEF SawOpen
  <2>2. SawOpen(r) => pc[r] # "idle"
    BY DEF SawOpen, IInv, ReadInv
  <2> QED
    BY <2>1, <2>2 DEF Seen
<1> QED
  BY <1>1 DEF Seen, Verdicts

LEMMA QuietSteps ==
  ASSUME IInv, [Next]_vars,
         \A r \in VerifyReq : ~VerifyGet(r) /\ ~VerifyRespond(r)
  PROVE  UNCHANGED <<Seen, Verdicts>>
<1> USE DEF redisVars, handlerVars, historyVars, Judged, Answer, Goto
<1>0. /\ pc \in [Request -> PC] /\ VerifyReq \subseteq Request /\ InitReq \subseteq Request
      /\ reply \in [Request -> InitReplies \cup VerifyReplies \cup {"none", "aborted"}]
      /\ body \in [Request -> InitBody \cup Submission \cup {Absent}]
      /\ \A r \in Request : pc[r] # "done" => reply[r] = "none"
  BY DEF IInv, TypeOK, RepliesInv, Request
<1>1. ASSUME NEW i \in InitReq, InitStep(i) PROVE UNCHANGED <<Seen, Verdicts>>
  <2>1. \A r \in VerifyReq : r # i /\ body'[r] = body[r] /\ reply'[r] = reply[r]
    BY <1>0, <1>1 DEF InitStep, InitArrive, InitStore
  <2> QED
    BY <1>1, <2>1, SeenKept DEF InitStep, InitArrive, InitStore
<1>2. ASSUME NEW r \in VerifyReq, VerifyStep(r) PROVE UNCHANGED <<Seen, Verdicts>>
  <2>1. CASE \E sub \in Submissions : VerifyArrive(r, sub)
    <3>1. \A q \in VerifyReq : pc[q] # "idle" => body'[q] = body[q]
      BY <1>0, <2>1 DEF VerifyArrive
    <3>2. \A q \in VerifyReq : Judged(q)' <=> Judged(q)
      BY <1>0, <2>1 DEF VerifyArrive, Submission, Defect
    <3> QED
      BY <2>1, <3>1, <3>2, SeenKept DEF VerifyArrive
  <2>2. CASE VerifyCheck(r)
    <3>1. \A q \in VerifyReq : Judged(q)' <=> Judged(q)
      BY <1>0, <2>2 DEF VerifyCheck, CheckError, SignatureOutcome
    <3> QED
      BY <2>2, <3>1, SeenKept DEF VerifyCheck
  <2>3. CASE VerifyBurn(r)
    BY <2>3, SeenKept DEF VerifyBurn
  <2> QED
    BY <1>2, <2>1, <2>2, <2>3 DEF VerifyStep
<1>3. CASE BackendCrash
  <2>1. \A r \in VerifyReq : Judged(r)' <=> Judged(r)
    BY <1>0, <1>3 DEF BackendCrash, InProgress
  <2> QED
    BY <1>3, <2>1, SeenKept DEF BackendCrash
<1>4. CASE RedisStep
  BY <1>4, SeenKept DEF RedisStep, LandLate, Evict, Sync, RedisRestart
<1>5. CASE Tick
  BY <1>5, SeenKept DEF Tick
<1>6. CASE UNCHANGED vars
  BY <1>6, SeenKept DEF vars
<1> QED
  BY <1>1, <1>2, <1>3, <1>4, <1>5, <1>6 DEF Next

(* A GetSession that returns a usable nonce is a See of the guard.             *)
LEMMA GetStep ==
  ASSUME IInv, NEW r \in VerifyReq, VerifyGet(r)
  PROVE  [Guard!Next]_Guard!vars
<1> DEFINE s == body[r].session
<1>1. /\ pc[r] = "get" /\ r \in Request /\ body[r] \in Submission /\ s \in Session
      /\ read[r] = Absent /\ gotAt[r] = Never /\ ~SawOpen(r) /\ reply[r] = "none"
  BY DEF VerifyGet, IInv, TypeOK, ReadInv, RepliesInv, SawOpen, Request, Submission
<1>2. UNCHANGED <<store, landedAt, body, restarts>> /\ UNCHANGED Phase
  BY DEF VerifyGet, redisVars, Phase
<1>3. Verdicts' = Verdicts
  <2>1. reply' = [reply EXCEPT ![r] = "invalid_session"] \/ UNCHANGED reply
    BY DEF VerifyGet, Answer, Goto
  <2>2. \A q \in VerifyReq : Judged(q)' <=> Judged(q)
    BY <1>1, <2>1 DEF Judged, IInv, TypeOK, Request
  <2> QED
    BY <2>2 DEF Verdicts
<1>4. CASE UNCHANGED <<read, gotAt>>
  <2>1. UNCHANGED Seen
    BY <1>2, <1>4 DEF Seen, SawOpen
  <2> QED
    BY <1>2, <1>3, <2>1 DEF Guard!vars, Verdicts
<1>5. CASE /\ store[s] # Absent
           /\ read' = [read EXCEPT ![r] = store[s].data]
           /\ gotAt' = [gotAt EXCEPT ![r] = now]
  <2>1. /\ read'[r] = store[s].data /\ gotAt'[r] = now /\ now # Never
        /\ \A q \in VerifyReq : q # r => read'[q] = read[q] /\ gotAt'[q] = gotAt[q]
    BY <1>5 DEF IInv, TypeOK, Never
  <2>2. SawOpen(r)' <=> Open(store[s])
    BY <1>5, <2>1 DEF SawOpen, Open
  <2>3. \A q \in VerifyReq : q # r => Seen'[q] = Seen[q]
    BY <1>2, <2>1 DEF Seen, SawOpen
  <2>4. CASE Open(store[s])
    <3>1. Seen' = [Seen EXCEPT ![r] = s] /\ Seen[r] = Absent
      BY <1>1, <1>2, <2>2, <2>3, <2>4 DEF Seen
    <3>2. Phase[s] = "open"
      BY <1>1, <2>4, PhaseFacts
    <3>3. Guard!See(r, s)
      BY <1>2, <1>3, <3>1, <3>2 DEF Guard!See, Verdicts
    <3> QED
      BY <1>1, <3>3 DEF Guard!Next
  <2>5. CASE ~Open(store[s])
    <3>1. UNCHANGED Seen
      BY <1>1, <2>2, <2>3, <2>5 DEF Seen
    <3> QED
      BY <1>2, <1>3, <3>1 DEF Guard!vars, Verdicts
  <2> QED
    BY <2>4, <2>5
<1> QED
  BY <1>4, <1>5 DEF VerifyGet

(* A verdict is a Judge of the guard.                                          *)
LEMMA RespondStep ==
  ASSUME IInv, NEW r \in VerifyReq, VerifyRespond(r)
  PROVE  [Guard!Next]_Guard!vars
<1>1. SawOpen(r) /\ body[r].session \in Session
  BY CheckedIsKnown DEF VerifyRespond, IInv, ReadInv, CheckedInv, SawOpen, Submission
<1>2. Seen[r] # Absent
  BY <1>1 DEF Seen
<1>3. UNCHANGED <<Phase, Seen, restarts>>
  BY DEF VerifyRespond, redisVars, historyVars, Phase, Seen, SawOpen
<1>4. Verdicts' = Verdicts \cup {r}
  BY DEF VerifyRespond, Answer, Verdicts, Judged, IInv, TypeOK, Request
<1>5. Guard!Judge(r)
  BY <1>2, <1>3, <1>4 DEF Guard!Judge, Verdicts
<1> QED
  BY <1>5 DEF Guard!Next

(* The handlers, the store and its faults together implement the guard: every  *)
(* step is a step of NonceGuard or changes nothing it sees                     *)
(* (session-verify.go:253-411, redis.go:47-79).                                *)
THEOREM Refinement == Spec => ImplementsGuard
<1>1. Init => Guard!Init
  BY DEF Init, Guard!Init, Phase, Seen, SawOpen, Judged, Request
<1>2. IInv /\ IInv' /\ [Next]_vars => [Guard!Next]_Guard!vars
  <2> SUFFICES ASSUME IInv, IInv', [Next]_vars PROVE [Guard!Next]_Guard!vars
    OBVIOUS
  <2>1. CASE \E r \in VerifyReq : VerifyGet(r) \/ VerifyRespond(r)
    BY <2>1, GetStep, RespondStep
  <2>2. CASE \A r \in VerifyReq : ~VerifyGet(r) /\ ~VerifyRespond(r)
    BY <2>2, QuietSteps, PhaseStep DEF Verdicts
  <2> QED
    BY <2>1, <2>2
<1> QED
  BY <1>1, <1>2, Invariance, PTL DEF Spec, ImplementsGuard, Guard!Spec
===============================================================================
