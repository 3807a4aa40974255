------------------------ MODULE SessionServiceProofs ---------------------------
(* The safety of the session service, for any number of sessions, requests,    *)
(* keys and submissions, any TTL and any number of Redis restarts.             *)
EXTENDS SessionService, TLAPS

-------------------------------------------------------------------------------
(* The inductive invariant. Each part says what one kind of state remembers of *)
(* how it came about; the properties follow from the parts about answers.      *)

(* A record of session s holds what the init request of s sent, and its nonce  *)
(* is the one issued or none.                                                  *)
Genuine(d, s) ==
  /\ pc[s] # "idle"
  /\ d.nonce \in {s, Empty}
  /\ d.key = body[s].key
  /\ d.fingerprint = body[s].fingerprint

(* A request is unanswered until it is done.                                   *)
RepliesInv == \A r \in Request : pc[r] # "done" => reply[r] = "none"

(* The init write of a session lands at most once, and once init has answered  *)
(* "ok" it has landed and no copy of it is under way.                          *)
InitWritesInv ==
  /\ \A i \in InitReq : pc[i] = "store" => Empty \notin {body[i].fingerprint, body[i].key}
  /\ \A i \in InitReq : pc[i] # "done" => landedAt[i] = Never
  /\ \A i \in InitReq : reply[i] = "ok" => landedAt[i] # Never
  /\ \A w \in late : ~w.burn =>
       pc[w.session] = "done" /\ landedAt[w.session] = Never

(* What is under way: the record init built, or a record without its nonce.    *)
LateInv ==
  \A w \in late :
    /\ Genuine(w.data, w.session)
    /\ w.burn => w.data.nonce = Empty /\ reply[w.session] = "ok"
    /\ ~w.burn => w.data = InitData(w.session)

(* What Redis holds, in memory or on disk.                                     *)
EntryInv(e, s) ==
  e # Absent =>
    /\ Genuine(e.data, s)
    /\ landedAt[s] # Never
    /\ e.data.nonce = Empty => s \in burnt
    /\ Open(e) => e.deadline = landedAt[s] + SessionTTL

StoreInv ==
  \A s \in Session :
    /\ EntryInv(store[s], s)
    /\ EntryInv(disk[s], s)
    /\ store[s] # Absent => now < store[s].deadline
    /\ s \in burnt => reply[s] = "ok"
    /\ s \in burnt /\ s \notin lostBurn => ~Open(store[s])

(* What a verify request holds between its Redis calls.                        *)
ReadInv ==
  \A r \in VerifyReq :
    LET s == body[r].session IN
    /\ pc[r] # "idle" /\ body[r].nonce # Empty => reply[body[r].nonce] = "ok"
    /\ read[r] # Absent =>
         /\ pc[r] \notin {"idle", "get"}
         /\ Genuine(read[r], s)
         /\ gotAt[r] # Never
         /\ landedAt[s] # Never
         /\ read[r].nonce = Empty => s \in burnt
         /\ read[r].nonce # Empty =>
              /\ gotAt[r] < landedAt[s] + SessionTTL
              /\ burntAtGet[r] => s \in lostBurn
    /\ gotAt[r] # Never => read[r] # Absent

(* What the checks have established once they are passed.                      *)
CheckedInv ==
  \A r \in VerifyReq :
    pc[r] \in {"burn", "respond"} \/ Judged(r) =>
      /\ read[r] # Absent
      /\ read[r].nonce # Empty
      /\ body[r].nonce = read[r].nonce
      /\ body[r].key = read[r].key
      /\ body[r].fingerprint = read[r].fingerprint
      /\ body[r].signer = read[r].key

IInv ==
  /\ TypeOK
  /\ RepliesInv
  /\ InitWritesInv
  /\ LateInv
  /\ StoreInv
  /\ ReadInv
  /\ CheckedInv
  /\ RefusedOnlyIfBurnt

-------------------------------------------------------------------------------
USE IdAssumption, AbsentAssumption, InputAssumption, TimeAssumption

(* The invariant holds when the backend starts on an empty Redis.              *)
LEMMA InitInv == Init => IInv
<1> SUFFICES ASSUME Init PROVE IInv
  OBVIOUS
<1> USE DEF Init
<1>1. TypeOK
  BY DEF TypeOK, Session, Request, PC, Never
<1>2. RepliesInv /\ InitWritesInv /\ LateInv /\ RefusedOnlyIfBurnt
  BY DEF RepliesInv, InitWritesInv, LateInv, RefusedOnlyIfBurnt, Session, Request
<1>3. StoreInv
  BY DEF StoreInv, EntryInv, Session, Open
<1>4. ReadInv /\ CheckedInv
  BY DEF ReadInv, CheckedInv, Judged, Request
<1> QED
  BY <1>1, <1>2, <1>3, <1>4 DEF IInv

LEMMA InitArriveInv ==
  ASSUME IInv, NEW i \in InitReq, NEW b \in InitBodies, InitArrive(i, b)
  PROVE  IInv'
<1> USE DEF IInv, InitArrive, Answer, Goto, redisVars, historyVars
<1>1. TypeOK'
  BY DEF TypeOK, Session, Request, PC, InitReplies
<1>2. RepliesInv'
  BY DEF TypeOK, RepliesInv, Request
<1>3. InitWritesInv'
  BY DEF TypeOK, InitWritesInv, RepliesInv, Request, InitBody, Write, Session
<1>4. LateInv'
  <2> SUFFICES ASSUME NEW w \in late
      PROVE  /\ Genuine(w.data, w.session)'
             /\ w.burn => w.data.nonce = Empty /\ reply'[w.session] = "ok"
             /\ ~w.burn => w.data = InitData(w.session)'
    BY DEF LateInv
  <2>1. w.session \in InitReq /\ pc[w.session] # "idle" /\ w.session # i
    BY DEF TypeOK, LateInv, Genuine, Write, Session
  <2>2. body'[w.session] = body[w.session] /\ created'[w.session] = created[w.session]
        /\ pc'[w.session] = pc[w.session] /\ reply'[w.session] = reply[w.session]
    BY <2>1 DEF TypeOK, Session, Request
  <2> QED
    BY <2>1, <2>2 DEF LateInv, Genuine, InitData
<1>5. StoreInv'
  BY DEF TypeOK, StoreInv, EntryInv, Genuine, RepliesInv, Open, Request, Session
<1>6. ReadInv'
  BY DEF TypeOK, ReadInv, Genuine, RepliesInv, Request, Session, Submission
<1>7. CheckedInv'
  BY DEF TypeOK, CheckedInv, Judged, Request, Session
<1>8. RefusedOnlyIfBurnt'
  BY DEF TypeOK, RefusedOnlyIfBurnt, Request, Session
<1> QED
  BY <1>1, <1>2, <1>3, <1>4, <1>5, <1>6, <1>7, <1>8

-------------------------------------------------------------------------------
(* Writes to Redis. A write is good if landing it now keeps the records honest *)

GoodWrite(w) ==
  /\ w \in Write
  /\ Genuine(w.data, w.session)
  /\ w.burn => w.data.nonce = Empty /\ reply[w.session] = "ok"
  /\ ~w.burn => w.data = InitData(w.session) /\ landedAt[w.session] = Never

(* Every write under way is good.                                              *)
LEMMA LateGood ==
  ASSUME IInv, NEW w \in late
  PROVE  GoodWrite(w)
BY DEF IInv, TypeOK, LateInv, InitWritesInv, GoodWrite

(* A record read from a live session carries the nonce its init handed out.    *)
LEMMA CheckedIsKnown ==
  ASSUME IInv, NEW r \in VerifyReq, pc[r] \in {"burn", "respond"} \/ Judged(r)
  PROVE  /\ body[r] \in Submission
         /\ read[r] \in SessionData
         /\ Genuine(read[r], body[r].session)
         /\ read[r].nonce = body[r].session
         /\ reply[body[r].session] = "ok"
<1>1. read[r] # Absent /\ read[r].nonce # Empty /\ body[r].nonce = read[r].nonce
  BY DEF IInv, CheckedInv
<1>2. pc[r] # "idle"
  BY <1>1 DEF IInv, ReadInv
<1>3. body[r] \in Submission /\ read[r] \in SessionData
  BY <1>1, <1>2 DEF IInv, TypeOK, Request
<1> QED
  BY <1>1, <1>2, <1>3 DEF IInv, ReadInv, Genuine, Submission

(* The write a handler is about to make is good.                               *)
LEMMA WriteOfGood ==
  ASSUME IInv, NEW r \in Request, pc[r] \in {"store", "burn"}
  PROVE  GoodWrite(WriteOf(r)) /\ (WriteOf(r).burn <=> r \in VerifyReq)
<1>1. CASE r \in InitReq
  <2>1. pc[r] = "store" /\ r \notin VerifyReq
    BY <1>1 DEF IInv, TypeOK
  <2>2. body[r] \in InitBody /\ Empty \notin {body[r].fingerprint, body[r].key}
    BY <1>1, <2>1 DEF IInv, TypeOK, InitWritesInv
  <2>3. InitData(r) \in SessionData /\ Genuine(InitData(r), r)
    BY <1>1, <2>1, <2>2
    DEF IInv, TypeOK, InitData, SessionData, Session, InitBody, Genuine
  <2>4. landedAt[r] = Never
    BY <1>1, <2>1 DEF IInv, InitWritesInv
  <2>5. WriteOf(r) = [session |-> r, data |-> InitData(r), burn |-> FALSE]
    BY <1>1 DEF WriteOf
  <2>7. WriteOf(r) \in Write /\ WriteOf(r).session = r
        /\ WriteOf(r).data = InitData(r) /\ WriteOf(r).burn = FALSE
    BY <1>1, <2>3, <2>5 DEF Write, Session
  <2>8. GoodWrite(WriteOf(r))
    BY <2>3, <2>4, <2>7 DEF GoodWrite
  <2> QED
    BY <2>1, <2>7, <2>8
<1>2. CASE r \in VerifyReq
  <2>1. pc[r] = "burn" /\ r \notin InitReq
    BY <1>2 DEF IInv, TypeOK
  <2>2. /\ body[r].session \in Session /\ reply[body[r].session] = "ok"
        /\ read[r] \in SessionData /\ Genuine(read[r], body[r].session)
    BY <1>2, <2>1, CheckedIsKnown DEF Submission
  <2>3. /\ BurnData(r) \in SessionData /\ BurnData(r).nonce = Empty
        /\ Genuine(BurnData(r), body[r].session)
    BY <2>2 DEF BurnData, SessionData, Genuine
  <2> QED
    BY <1>2, <2>1, <2>2, <2>3 DEF WriteOf, GoodWrite, Write
<1> QED
  BY <1>1, <1>2 DEF Request

(* Landing a good write keeps what Redis holds consistent.                     *)
LEMMA LandKeepsStore ==
  ASSUME IInv, NEW w, GoodWrite(w), Land(w),
         UNCHANGED <<now, disk, body, lostBurn>>,
         \A r \in Request : pc[r] # "idle" => pc'[r] # "idle",
         \A r \in Request : reply[r] = "ok" => reply'[r] = "ok"
  PROVE  /\ StoreInv'
         /\ store' \in [Session -> Entry \cup {Absent}]
         /\ landedAt' \in [Session -> Nat \cup {Never}]
         /\ burnt' \subseteq Session
         /\ burnt \subseteq burnt'
         /\ \A s \in Session : landedAt[s] # Never => landedAt'[s] = landedAt[s]
         /\ ~w.burn => landedAt'[w.session] # Never
         /\ \A s \in Session : w.burn \/ s # w.session => landedAt'[s] = landedAt[s]
<1>1. /\ w.session \in Session /\ w.data \in SessionData
      /\ w.burn \in BOOLEAN /\ now \in Nat
      /\ store \in [Session -> Entry \cup {Absent}]
      /\ disk \in [Session -> Entry \cup {Absent}]
      /\ landedAt \in [Session -> Nat \cup {Never}] /\ burnt \subseteq Session
  BY DEF GoodWrite, Write, IInv, TypeOK
<1>2. EntryOf(w.data) \in Entry /\ now < EntryOf(w.data).deadline
      /\ EntryOf(w.data).data = w.data /\ EntryOf(w.data).deadline = now + SessionTTL
      /\ EntryOf(w.data) # Absent
  BY <1>1 DEF EntryOf, Entry
<1>3. /\ burnt \subseteq burnt'
      /\ burnt' \subseteq Session
      /\ landedAt' \in [Session -> Nat \cup {Never}]
      /\ \A s \in Session : landedAt[s] # Never => landedAt'[s] = landedAt[s]
      /\ ~w.burn => landedAt'[w.session] = now
      /\ \A s \in Session : w.burn \/ s # w.session => landedAt'[s] = landedAt[s]
      /\ w.burn => burnt' = burnt \cup {w.session}
      /\ ~w.burn => burnt' = burnt
  BY <1>1 DEF Land, GoodWrite
<1>4. ASSUME NEW e, NEW s \in Session, EntryInv(e, s)
      PROVE  EntryInv(e, s)'
  BY <1>1, <1>3, <1>4 DEF EntryInv, Genuine, Open, Session, Request
<1>5. EntryInv(EntryOf(w.data), w.session)'
  <2>1. Genuine(w.data, w.session)'
    BY <1>1 DEF GoodWrite, Genuine, Session, Request
  <2>2. w.burn => landedAt[w.session] # Never
    BY <1>1 DEF GoodWrite, IInv, InitWritesInv, Session
  <2> QED
    BY <1>1, <1>2, <1>3, <2>1, <2>2, now # Never
    DEF EntryInv, EntryOf, GoodWrite, InitData, Open, Session, Never
<1>6. store' = [store EXCEPT ![w.session] = EntryOf(w.data)]
  BY DEF Land
<1>7. StoreInv'
  <2> SUFFICES ASSUME NEW s \in Session
      PROVE  /\ EntryInv(store[s], s)'
             /\ EntryInv(disk[s], s)'
             /\ store'[s] # Absent => now' < store'[s].deadline
             /\ s \in burnt' => reply'[s] = "ok"
             /\ s \in burnt' /\ s \notin lostBurn' => ~Open(store'[s])
    BY DEF StoreInv
  <2>1. EntryInv(disk[s], s)'
    BY <1>4 DEF IInv, StoreInv
  <2>2. s \in burnt /\ s \notin lostBurn => ~Open(store[s])
    BY DEF IInv, StoreInv
  <2>3. s \in burnt => reply'[s] = "ok"
    BY DEF IInv, StoreInv, Session, Request
  <2>4. CASE s = w.session
    <3>1. store'[s] = EntryOf(w.data)
      BY <1>1, <1>6, <2>4
    <3>2. EntryInv(store[s], s)'
      BY <1>5, <2>4, <3>1 DEF EntryOf
    <3>3. ~w.burn => s \notin burnt
      BY <2>4 DEF GoodWrite, IInv, StoreInv, InitWritesInv, Session
    <3>4. w.burn => reply'[s] = "ok" /\ ~Open(EntryOf(w.data))
      BY <1>1, <1>2, <2>4 DEF GoodWrite, Open, Session, Request
    <3> QED
      BY <1>1, <1>2, <1>3, <2>1, <2>3, <2>4, <3>1, <3>2, <3>3, <3>4
  <2>5. CASE s # w.session
    <3>1. store'[s] = store[s]
      BY <1>1, <1>6, <2>5
    <3>2. EntryInv(store[s], s)'
      BY <1>4, <3>1 DEF IInv, StoreInv
    <3> QED
      BY <1>1, <1>3, <2>1, <2>2, <2>3, <2>5, <3>1, <3>2 DEF IInv, StoreInv
  <2> QED
    BY <2>4, <2>5
<1> QED
  BY <1>1, <1>2, <1>3, <1>6, <1>7, now # Never DEF Never

-------------------------------------------------------------------------------
(* One lemma per action: it preserves the invariant.                           *)

LEMMA VerifyArriveInv ==
  ASSUME IInv, NEW r \in VerifyReq, NEW sub \in Submissions, VerifyArrive(r, sub)
  PROVE  IInv'
<1> USE DEF IInv, VerifyArrive, Answer, Goto, redisVars, historyVars
<1>1. TypeOK'
  BY DEF TypeOK, Session, Request, PC, InitReplies, VerifyReplies, Submission
<1>2. RepliesInv'
  BY DEF TypeOK, RepliesInv, Request
<1>3. InitWritesInv'
  BY DEF TypeOK, InitWritesInv, RepliesInv, Request, Write, Session
<1>4. LateInv'
  BY DEF TypeOK, LateInv, Genuine, InitData, RepliesInv, Request, Session, Write
<1>5. StoreInv'
  BY DEF TypeOK, StoreInv, EntryInv, Genuine, RepliesInv, Open, Request, Session
<1>6. ReadInv'
  BY DEF TypeOK, ReadInv, Genuine, RepliesInv, Request, Session, Submission, Known
<1>7. CheckedInv'
  BY DEF TypeOK, RepliesInv, CheckedInv, Judged, Request, Session, Submission, Defect
<1>8. RefusedOnlyIfBurnt'
  BY DEF TypeOK, RepliesInv, RefusedOnlyIfBurnt, Request, Session, Submission, Defect
<1> QED
  BY <1>1, <1>2, <1>3, <1>4, <1>5, <1>6, <1>7, <1>8

LEMMA VerifyGetInv ==
  ASSUME IInv, NEW r \in VerifyReq, VerifyGet(r)
  PROVE  IInv'
<1> DEFINE s == body[r].session
<1> USE DEF IInv, VerifyGet, Answer, Goto, redisVars
<1>0. /\ body[r] \in Submission /\ s \in Session
      /\ store[s] # Absent => store[s].data \in SessionData
  BY DEF TypeOK, Request, Submission, Entry
<1>1. TypeOK'
  <2>1. /\ pc' \in [Request -> PC] /\ pc'[r] \in {"check", "done"}
        /\ \A q \in Request : q # r => pc'[q] = pc[q]
        /\ reply' \in [Request -> InitReplies \cup VerifyReplies \cup {"none", "aborted"}]
    BY DEF TypeOK, Request, PC, InitReplies, VerifyReplies
  <2>2. /\ read' \in [VerifyReq -> SessionData \cup {Absent}]
        /\ \A q \in VerifyReq : q # r => read'[q] = read[q]
        /\ pc'[r] = "check" => read'[r] # Absent
        /\ gotAt' \in [VerifyReq -> Nat \cup {Never}]
        /\ burntAtGet' \in [VerifyReq -> BOOLEAN]
    <3>1. CASE UNCHANGED <<read, gotAt, burntAtGet>> /\ Answer(r, "invalid_session")
      BY <3>1 DEF TypeOK, Request
    <3>2. CASE /\ store[s] # Absent /\ read' = [read EXCEPT ![r] = store[s].data]
               /\ gotAt' = [gotAt EXCEPT ![r] = now]
               /\ burntAtGet' = [burntAtGet EXCEPT ![r] = s \in burnt]
      <4>1. read' \in [VerifyReq -> SessionData \cup {Absent}]
        BY <1>0, <3>2 DEF TypeOK
      <4>2. read'[r] # Absent /\ \A q \in VerifyReq : q # r => read'[q] = read[q]
        BY <1>0, <3>2 DEF TypeOK
      <4>3. gotAt' \in [VerifyReq -> Nat \cup {Never}]
        BY <3>2 DEF TypeOK
      <4>4. burntAtGet' \in [VerifyReq -> BOOLEAN]
        BY <3>2 DEF TypeOK
      <4> QED
        BY <4>1, <4>2, <4>3, <4>4
    <3> QED
      BY <3>1, <3>2
  <2> QED
    BY <1>0, <2>1, <2>2 DEF TypeOK, Request
<1>2. RepliesInv'
  BY DEF TypeOK, RepliesInv, Request
<1>3. InitWritesInv'
  BY DEF TypeOK, InitWritesInv, RepliesInv, Request, Write, Session
<1>4. LateInv'
  BY DEF TypeOK, LateInv, Genuine, InitData, RepliesInv, Request, Session, Write
<1>5. StoreInv'
  BY DEF TypeOK, StoreInv, EntryInv, Genuine, RepliesInv, Open, Request, Session
<1>6. ReadInv'
  <2>1. CASE store[s] # Absent /\ read' = [read EXCEPT ![r] = store[s].data]
             /\ gotAt' = [gotAt EXCEPT ![r] = now]
             /\ burntAtGet' = [burntAtGet EXCEPT ![r] = s \in burnt]
             /\ Goto(r, "check")
    <3>1. EntryInv(store[s], s) /\ now < store[s].deadline
          /\ (s \in burnt /\ s \notin lostBurn => ~Open(store[s]))
      BY <1>0, <2>1 DEF StoreInv
    <3>2. now # Never /\ Absent \notin SessionData
      BY DEF TypeOK, Never
    <3>3. /\ pc' = [pc EXCEPT ![r] = "check"] /\ UNCHANGED reply
          /\ pc \in [Request -> PC] /\ r \in Request /\ Session \subseteq Request
          /\ read'[r] = store[s].data /\ gotAt'[r] = now
          /\ burntAtGet'[r] = (s \in burnt)
          /\ pc'[r] = "check" /\ \A q \in Request : q # r => pc'[q] = pc[q]
          /\ s # r /\ pc[r] = "get"
          /\ \A q \in VerifyReq : q # r =>
               read'[q] = read[q] /\ gotAt'[q] = gotAt[q] /\ burntAtGet'[q] = burntAtGet[q]
      BY <1>0, <2>1 DEF TypeOK, Request, Session
    <3>4. ASSUME NEW d, NEW q \in Session, Genuine(d, q)
          PROVE  Genuine(d, q)'
      BY <3>3, <3>4 DEF Genuine
    <3>5. Genuine(store[s].data, s)'
      BY <1>0, <2>1, <3>1, <3>3 DEF Genuine, EntryInv
    <3>6. /\ read'[r] # Absent /\ read'[r].nonce = Empty => s \in burnt
          /\ read'[r].nonce # Empty => Open(store[s])
          /\ landedAt[s] # Never
          /\ body[r].nonce # Empty => reply[body[r].nonce] = "ok"
      BY <1>0, <2>1, <3>1, <3>3 DEF EntryInv, Open, ReadInv
    <3>7. read'[r].nonce # Empty =>
             gotAt'[r] < landedAt[s] + SessionTTL /\ (burntAtGet'[r] => s \in lostBurn)
      BY <3>1, <3>3, <3>6, <2>1 DEF EntryInv
    <3>8. SUFFICES ASSUME NEW q \in VerifyReq
          PROVE  LET t == body[q].session IN
            /\ pc'[q] # "idle" /\ body[q].nonce # Empty => reply'[body[q].nonce] = "ok"
            /\ read'[q] # Absent =>
                 /\ pc'[q] \notin {"idle", "get"}
                 /\ Genuine(read[q], t)'
                 /\ gotAt'[q] # Never
                 /\ landedAt'[t] # Never
                 /\ read'[q].nonce = Empty => t \in burnt'
                 /\ read'[q].nonce # Empty =>
                      /\ gotAt'[q] < landedAt'[t] + SessionTTL
                      /\ burntAtGet'[q] => t \in lostBurn'
            /\ gotAt'[q] # Never => read'[q] # Absent
      BY DEF ReadInv
    <3>9. CASE q = r
      <4>1. Genuine(read[q], s)'
        BY <3>3, <3>5, <3>9 DEF Genuine
      <4>2. read'[r] # Absent /\ gotAt'[r] # Never
        BY <1>0, <2>1, <3>2, <3>3
      <4> QED
        BY <3>3, <3>6, <3>7, <3>9, <4>1, <4>2
    <3>10. CASE q # r
      <4>1. read[q] # Absent => body[q].session \in Session
        BY DEF TypeOK, ReadInv, Submission, Request
      <4> QED
        BY <3>3, <3>4, <3>10, <4>1 DEF ReadInv, Genuine, Request
    <3> QED
      BY <3>9, <3>10
  <2>2. CASE Answer(r, "invalid_session") /\ UNCHANGED <<read, gotAt, burntAtGet>>
    BY <2>2 DEF TypeOK, ReadInv, Genuine, RepliesInv, Request, Session, Submission
  <2> QED
    BY <2>1, <2>2
<1>7. CheckedInv'
  BY DEF TypeOK, RepliesInv, CheckedInv, Judged, Request, Session
<1>8. RefusedOnlyIfBurnt'
  BY DEF TypeOK, RefusedOnlyIfBurnt, Request, Session
<1> QED
  BY <1>1, <1>2, <1>3, <1>4, <1>5, <1>6, <1>7, <1>8

LEMMA VerifyCheckInv ==
  ASSUME IInv, NEW r \in VerifyReq, VerifyCheck(r)
  PROVE  IInv'
<1> USE DEF IInv, VerifyCheck, Answer, Goto, redisVars, historyVars
<1>1. TypeOK'
  BY DEF TypeOK, Session, Request, PC, InitReplies, VerifyReplies, CheckError, SignatureOutcome
<1>2. RepliesInv'
  BY DEF TypeOK, RepliesInv, Request
<1>3. InitWritesInv'
  BY DEF TypeOK, InitWritesInv, RepliesInv, Request, Write, Session
<1>4. LateInv'
  BY DEF TypeOK, LateInv, Genuine, InitData, RepliesInv, Request, Session, Write
<1>5. StoreInv'
  BY DEF TypeOK, StoreInv, EntryInv, Genuine, RepliesInv, Open, Request, Session
<1>6. ReadInv'
  BY DEF TypeOK, ReadInv, Genuine, RepliesInv, Request, Session, Submission
<1>7. CheckedInv'
  BY DEF TypeOK, CheckedInv, Judged, Request, Session, CheckError, SignatureOutcome
<1>8. RefusedOnlyIfBurnt'
  BY DEF TypeOK, RefusedOnlyIfBurnt, Request, Session, CheckError, SignatureOutcome, ReadInv, Genuine, Submission
<1> QED
  BY <1>1, <1>2, <1>3, <1>4, <1>5, <1>6, <1>7, <1>8

LEMMA VerifyRespondInv ==
  ASSUME IInv, NEW r \in VerifyReq, VerifyRespond(r)
  PROVE  IInv'
<1> USE DEF IInv, VerifyRespond, Answer, redisVars, historyVars
<1>1. TypeOK'
  BY DEF TypeOK, Session, Request, PC, InitReplies, VerifyReplies
<1>2. RepliesInv'
  BY DEF TypeOK, RepliesInv, Request
<1>3. InitWritesInv'
  BY DEF TypeOK, InitWritesInv, RepliesInv, Request, Write, Session
<1>4. LateInv'
  BY DEF TypeOK, LateInv, Genuine, InitData, RepliesInv, Request, Session, Write
<1>5. StoreInv'
  BY DEF TypeOK, StoreInv, EntryInv, Genuine, RepliesInv, Open, Request, Session
<1>6. ReadInv'
  BY DEF TypeOK, ReadInv, Genuine, RepliesInv, Request, Session, Submission
<1>7. CheckedInv'
  BY DEF TypeOK, CheckedInv, Judged, Request, Session
<1>8. RefusedOnlyIfBurnt'
  BY DEF TypeOK, RefusedOnlyIfBurnt, Request, Session
<1> QED
  BY <1>1, <1>2, <1>3, <1>4, <1>5, <1>6, <1>7, <1>8

LEMMA BackendCrashInv ==
  ASSUME IInv, BackendCrash
  PROVE  IInv'
<1> USE DEF IInv, BackendCrash, historyVars, InProgress
<1> DEFINE writing == {r \in Request : pc[r] \in {"store", "burn"}}
<1>0. /\ \A w \in late' : w \in late \/ \E r \in writing : w = WriteOf(r)
      /\ \A w \in late' : GoodWrite(w)
  BY LateGood, WriteOfGood
<1>b. /\ pc' = [r \in Request |-> IF InProgress(r) THEN "done" ELSE pc[r]]
      /\ reply' = [r \in Request |-> IF InProgress(r) THEN "aborted" ELSE reply[r]]
  OBVIOUS
<1>a. /\ \A r \in Request : pc'[r] = IF pc[r] = "idle" THEN "idle" ELSE "done"
      /\ \A r \in Request : reply'[r] = reply[r] \/ (reply'[r] = "aborted" /\ pc[r] # "done")
      /\ \A r \in Request : reply[r] = "ok" => reply'[r] = "ok"
  <2> SUFFICES ASSUME NEW r \in Request
      PROVE  /\ pc'[r] = IF pc[r] = "idle" THEN "idle" ELSE "done"
             /\ reply'[r] = reply[r] \/ (reply'[r] = "aborted" /\ pc[r] # "done")
             /\ reply[r] = "ok" => reply'[r] = "ok"
    OBVIOUS
  <2>1. pc[r] # "done" => reply[r] = "none"
    BY DEF RepliesInv
  <2>2. CASE InProgress(r)
    BY <1>b, <2>1, <2>2
  <2>3. CASE ~InProgress(r)
    BY <1>b, <2>1, <2>3
  <2> QED
    BY <2>2, <2>3
<1>1. TypeOK'
  BY <1>0, <1>a DEF TypeOK, Session, Request, PC, InitReplies, VerifyReplies, GoodWrite
<1>2. RepliesInv'
  BY DEF TypeOK, RepliesInv, Request
<1>3. InitWritesInv'
  BY <1>0, <1>a DEF TypeOK, InitWritesInv, RepliesInv, LateInv, Request, Write, Session, GoodWrite, Genuine
<1>4. LateInv'
  BY <1>0, <1>a DEF TypeOK, LateInv, Genuine, InitData, Request, Session, Write, GoodWrite
<1>5. StoreInv'
  BY DEF TypeOK, StoreInv, EntryInv, Genuine, RepliesInv, Open, Request, Session
<1>6. ReadInv'
  BY DEF TypeOK, ReadInv, Genuine, RepliesInv, Request, Session, Submission
<1>7. CheckedInv'
  BY DEF TypeOK, CheckedInv, Judged, Request, Session
<1>8. RefusedOnlyIfBurnt'
  BY DEF TypeOK, RefusedOnlyIfBurnt, Request, Session
<1> QED
  BY <1>1, <1>2, <1>3, <1>4, <1>5, <1>6, <1>7, <1>8

LEMMA EvictInv ==
  ASSUME IInv, NEW s \in Session, Evict(s)
  PROVE  IInv'
<1> USE DEF IInv, Evict, handlerVars, historyVars
<1>1. TypeOK'
  BY DEF TypeOK, Session, Request, PC, InitReplies, VerifyReplies
<1>2. RepliesInv'
  BY DEF TypeOK, RepliesInv, Request
<1>3. InitWritesInv'
  BY DEF TypeOK, InitWritesInv, RepliesInv, Request, Write, Session
<1>4. LateInv'
  BY DEF TypeOK, LateInv, Genuine, InitData, RepliesInv, Request, Session, Write
<1>5. StoreInv'
  BY DEF TypeOK, StoreInv, EntryInv, Genuine, RepliesInv, Open, Request, Session
<1>6. ReadInv'
  BY DEF TypeOK, ReadInv, Genuine, RepliesInv, Request, Session, Submission
<1>7. CheckedInv'
  BY DEF TypeOK, CheckedInv, Judged, Request, Session
<1>8. RefusedOnlyIfBurnt'
  BY DEF TypeOK, RefusedOnlyIfBurnt, Request, Session
<1> QED
  BY <1>1, <1>2, <1>3, <1>4, <1>5, <1>6, <1>7, <1>8

LEMMA SyncInv ==
  ASSUME IInv, Sync
  PROVE  IInv'
<1> USE DEF IInv, Sync, handlerVars, historyVars
<1>1. TypeOK'
  BY DEF TypeOK, Session, Request, PC, InitReplies, VerifyReplies
<1>2. RepliesInv'
  BY DEF TypeOK, RepliesInv, Request
<1>3. InitWritesInv'
  BY DEF TypeOK, InitWritesInv, RepliesInv, Request, Write, Session
<1>4. LateInv'
  BY DEF TypeOK, LateInv, Genuine, InitData, RepliesInv, Request, Session, Write
<1>5. StoreInv'
  BY DEF TypeOK, StoreInv, EntryInv, Genuine, RepliesInv, Open, Request, Session
<1>6. ReadInv'
  BY DEF TypeOK, ReadInv, Genuine, RepliesInv, Request, Session, Submission
<1>7. CheckedInv'
  BY DEF TypeOK, CheckedInv, Judged, Request, Session
<1>8. RefusedOnlyIfBurnt'
  BY DEF TypeOK, RefusedOnlyIfBurnt, Request, Session
<1> QED
  BY <1>1, <1>2, <1>3, <1>4, <1>5, <1>6, <1>7, <1>8

LEMMA RedisRestartInv ==
  ASSUME IInv, RedisRestart
  PROVE  IInv'
<1> USE DEF IInv, RedisRestart, handlerVars, Unexpired
<1>1. TypeOK'
  BY DEF TypeOK, Session, Request, PC, InitReplies, VerifyReplies
<1>2. RepliesInv'
  BY DEF TypeOK, RepliesInv, Request
<1>3. InitWritesInv'
  BY DEF TypeOK, InitWritesInv, RepliesInv, Request, Write, Session
<1>4. LateInv'
  BY DEF TypeOK, LateInv, Genuine, InitData, RepliesInv, Request, Session, Write
<1>5. StoreInv'
  BY DEF TypeOK, StoreInv, EntryInv, Genuine, RepliesInv, Open, Request, Session
<1>6. ReadInv'
  BY DEF TypeOK, ReadInv, Genuine, RepliesInv, Request, Session, Submission
<1>7. CheckedInv'
  BY DEF TypeOK, CheckedInv, Judged, Request, Session
<1>8. RefusedOnlyIfBurnt'
  BY DEF TypeOK, RefusedOnlyIfBurnt, Request, Session
<1> QED
  BY <1>1, <1>2, <1>3, <1>4, <1>5, <1>6, <1>7, <1>8

LEMMA TickInv ==
  ASSUME IInv, Tick
  PROVE  IInv'
<1> USE DEF IInv, Tick, redisVars, handlerVars, historyVars, Unexpired
<1>1. TypeOK'
  BY DEF TypeOK, Session, Request, PC, InitReplies, VerifyReplies
<1>2. RepliesInv'
  BY DEF TypeOK, RepliesInv, Request
<1>3. InitWritesInv'
  BY DEF TypeOK, InitWritesInv, RepliesInv, Request, Write, Session
<1>4. LateInv'
  BY DEF TypeOK, LateInv, Genuine, InitData, RepliesInv, Request, Session, Write
<1>5. StoreInv'
  BY DEF TypeOK, StoreInv, EntryInv, Genuine, RepliesInv, Open, Request, Session
<1>6. ReadInv'
  BY DEF TypeOK, ReadInv, Genuine, RepliesInv, Request, Session, Submission
<1>7. CheckedInv'
  BY DEF TypeOK, CheckedInv, Judged, Request, Session
<1>8. RefusedOnlyIfBurnt'
  BY DEF TypeOK, RefusedOnlyIfBurnt, Request, Session
<1> QED
  BY <1>1, <1>2, <1>3, <1>4, <1>5, <1>6, <1>7, <1>8

LEMMA StutterInv ==
  ASSUME IInv, UNCHANGED vars
  PROVE  IInv'
<1> USE DEF IInv, vars, redisVars, handlerVars, historyVars
<1>1. TypeOK'
  BY DEF TypeOK, Session, Request, PC, InitReplies, VerifyReplies
<1>2. RepliesInv'
  BY DEF TypeOK, RepliesInv, Request
<1>3. InitWritesInv'
  BY DEF TypeOK, InitWritesInv, RepliesInv, Request, Write, Session
<1>4. LateInv'
  BY DEF TypeOK, LateInv, Genuine, InitData, RepliesInv, Request, Session, Write
<1>5. StoreInv'
  BY DEF TypeOK, StoreInv, EntryInv, Genuine, RepliesInv, Open, Request, Session
<1>6. ReadInv'
  BY DEF TypeOK, ReadInv, Genuine, RepliesInv, Request, Session, Submission
<1>7. CheckedInv'
  BY DEF TypeOK, CheckedInv, Judged, Request, Session
<1>8. RefusedOnlyIfBurnt'
  BY DEF TypeOK, RefusedOnlyIfBurnt, Request, Session
<1> QED
  BY <1>1, <1>2, <1>3, <1>4, <1>5, <1>6, <1>7, <1>8

LEMMA LandLateInv ==
  ASSUME IInv, NEW w \in late, LandLate(w)
  PROVE  IInv'
<1> USE DEF IInv, LandLate, handlerVars
<1>0. GoodWrite(w)
  BY LateGood
<1>a. /\ StoreInv'
      /\ store' \in [Session -> Entry \cup {Absent}]
      /\ landedAt' \in [Session -> Nat \cup {Never}]
      /\ burnt' \subseteq Session /\ burnt \subseteq burnt'
      /\ \A s \in Session : landedAt[s] # Never => landedAt'[s] = landedAt[s]
      /\ ~w.burn => landedAt'[w.session] # Never
      /\ \A s \in Session : w.burn \/ s # w.session => landedAt'[s] = landedAt[s]
  BY <1>0, LandKeepsStore
<1>1. TypeOK'
  BY <1>0, <1>a DEF TypeOK, Session, Request, PC, InitReplies, VerifyReplies, GoodWrite
<1>2. RepliesInv'
  BY <1>0, <1>a DEF TypeOK, RepliesInv, Request
<1>3. InitWritesInv'
  BY <1>0, <1>a DEF TypeOK, InitWritesInv, RepliesInv, LateInv, Request, Write, Session, GoodWrite, Genuine
<1>4. LateInv'
  <2> SUFFICES ASSUME NEW v \in late
      PROVE  /\ Genuine(v.data, v.session)'
             /\ v.burn => v.data.nonce = Empty /\ reply'[v.session] = "ok"
             /\ ~v.burn => v.data = InitData(v.session)'
    BY DEF LateInv
  <2> QED
    BY DEF LateInv, Genuine, InitData
<1>5. ReadInv'
  BY <1>0, <1>a DEF TypeOK, ReadInv, Genuine, RepliesInv, Request, Session, Submission
<1>6. CheckedInv'
  BY <1>0, <1>a DEF TypeOK, RepliesInv, CheckedInv, Judged, Request, Session
<1>7. RefusedOnlyIfBurnt'
  BY <1>0, <1>a DEF TypeOK, RepliesInv, RefusedOnlyIfBurnt, Request, Session, Submission
<1>8. StoreInv'
  BY <1>a
<1> QED
  BY <1>1, <1>2, <1>3, <1>4, <1>5, <1>6, <1>7, <1>8

LEMMA InitStoreInv ==
  ASSUME IInv, NEW i \in InitReq, InitStore(i)
  PROVE  IInv'
<1> USE DEF IInv, InitStore, Answer, Goto
<1> DEFINE w == WriteOf(i)
<1>0. /\ i \in Request /\ GoodWrite(w) /\ (w.burn <=> i \in VerifyReq)
      /\ \A v \in late' : v \in late \/ v = w
  BY WriteOfGood DEF Request, StoreOk, StoreFails
<1>b. /\ pc'[i] = "done" /\ reply'[i] \in {"ok", "internal_error"}
      /\ pc' \in [Request -> PC]
      /\ \A r \in Request : r # i => pc'[r] = pc[r] /\ reply'[r] = reply[r]
      /\ pc[i] \notin {"idle", "done"} /\ reply[i] = "none"
      /\ reply' \in [Request -> InitReplies \cup VerifyReplies \cup {"none", "aborted"}]
      /\ \A r \in Request : reply[r] = "ok" => reply'[r] = "ok"
  BY <1>0 DEF TypeOK, RepliesInv, PC, InitReplies
<1>c. UNCHANGED <<now, disk, body, created, read, lostBurn, gotAt, burntAtGet>>
  OBVIOUS
<1>a. /\ StoreInv'
      /\ store' \in [Session -> Entry \cup {Absent}]
      /\ landedAt' \in [Session -> Nat \cup {Never}]
      /\ burnt' \subseteq Session /\ burnt \subseteq burnt'
      /\ \A s \in Session : landedAt[s] # Never => landedAt'[s] = landedAt[s]
      /\ reply'[i] = "ok" => landedAt'[i] # Never
      /\ reply'[i] # "ok" => landedAt'[i] = Never
      /\ \A s \in Session : s # i => landedAt'[s] = landedAt[s]
      /\ reply'[i] = "ok" => UNCHANGED late
  <2>0. \A r \in Request : pc[r] # "idle" => pc'[r] # "idle"
    BY <1>b
  <2>1. CASE StoreOk(i) /\ Answer(i, "ok")
    <3>1. Land(w) /\ UNCHANGED late
      BY <2>1 DEF StoreOk
    <3>2. w.session = IF i \in InitReq THEN i ELSE body[i].session
      BY DEF WriteOf
    <3>3. /\ StoreInv'
          /\ store' \in [Session -> Entry \cup {Absent}]
          /\ landedAt' \in [Session -> Nat \cup {Never}]
          /\ burnt' \subseteq Session /\ burnt \subseteq burnt'
          /\ \A s \in Session : landedAt[s] # Never => landedAt'[s] = landedAt[s]
          /\ ~w.burn => landedAt'[w.session] # Never
          /\ \A s \in Session : w.burn \/ s # w.session => landedAt'[s] = landedAt[s]
      BY <1>0, <1>b, <1>c, <2>0, <3>1, LandKeepsStore
    <3>4. ~w.burn /\ w.session = i /\ reply'[i] = "ok"
      BY <1>0, <2>1, <3>2 DEF TypeOK
    <3> QED
      BY <3>1, <3>3, <3>4 DEF Session
  <2>2. CASE StoreFails(i) /\ Answer(i, "internal_error")
    <3>1. UNCHANGED <<store, landedAt, burnt>>
      BY <2>2 DEF StoreFails
    <3>2. StoreInv'
      BY <1>0, <1>b, <1>c, <2>0, <3>1
      DEF TypeOK, StoreInv, EntryInv, Genuine, Open, Request, Session
    <3>3. \A s \in InitReq : pc[s] = "store" => landedAt[s] = Never
      BY DEF InitWritesInv
    <3> QED
      BY <1>b, <2>2, <3>1, <3>2, <3>3 DEF TypeOK, Session
  <2> QED
    BY <2>1, <2>2
<1>1. TypeOK'
  <2>1. late' \subseteq Write
    BY <1>0 DEF TypeOK, GoodWrite
  <2> QED
    BY <1>0, <1>a, <1>b, <1>c, <2>1 DEF TypeOK, Session, Request
<1>2. RepliesInv'
  BY <1>b DEF RepliesInv
<1>3. InitWritesInv'
  BY <1>0, <1>a, <1>b, <1>c
  DEF TypeOK, InitWritesInv, LateInv, Request, Session, Write, WriteOf
<1>4. LateInv'
  <2> SUFFICES ASSUME NEW v \in late'
      PROVE  /\ Genuine(v.data, v.session)'
             /\ v.burn => v.data.nonce = Empty /\ reply'[v.session] = "ok"
             /\ ~v.burn => v.data = InitData(v.session)'
    BY DEF LateInv
  <2>1. GoodWrite(v)
    BY <1>0, LateGood
  <2> QED
    BY <1>0, <1>b, <2>1 DEF GoodWrite, Write, Genuine, InitData, Session, Request
<1>5. ReadInv'
  BY <1>0, <1>a, <1>b, <1>c DEF TypeOK, ReadInv, Genuine, Request, Session, Submission
<1>6. CheckedInv'
  BY <1>0, <1>b, <1>c DEF TypeOK, CheckedInv, Judged, Request
<1>7. RefusedOnlyIfBurnt'
  BY <1>0, <1>a, <1>b, <1>c DEF RefusedOnlyIfBurnt, Request
<1> QED
  BY <1>1, <1>2, <1>3, <1>4, <1>5, <1>6, <1>7, <1>a

LEMMA VerifyBurnInv ==
  ASSUME IInv, NEW r \in VerifyReq, VerifyBurn(r)
  PROVE  IInv'
<1> USE DEF IInv, VerifyBurn, Answer, Goto
<1> DEFINE w == WriteOf(r)
<1>0. /\ r \in Request /\ GoodWrite(w) /\ (w.burn <=> r \in VerifyReq)
      /\ \A v \in late' : v \in late \/ v = w
  BY WriteOfGood DEF Request, StoreOk, StoreFails
<1>b. /\ pc'[r] = "respond" /\ reply'[r] = "none"
      /\ pc' \in [Request -> PC]
      /\ \A q \in Request : q # r => pc'[q] = pc[q] /\ reply'[q] = reply[q]
      /\ pc[r] \notin {"idle", "done"} /\ reply[r] = "none"
      /\ reply' \in [Request -> InitReplies \cup VerifyReplies \cup {"none", "aborted"}]
      /\ \A q \in Request : reply[q] = "ok" => reply'[q] = "ok"
  BY <1>0 DEF TypeOK, RepliesInv, PC, InitReplies
<1>c. UNCHANGED <<now, disk, body, created, read, lostBurn, gotAt, burntAtGet>>
  OBVIOUS
<1>a. /\ StoreInv'
      /\ store' \in [Session -> Entry \cup {Absent}]
      /\ landedAt' \in [Session -> Nat \cup {Never}]
      /\ burnt' \subseteq Session /\ burnt \subseteq burnt'
      /\ \A s \in Session : landedAt[s] # Never => landedAt'[s] = landedAt[s]
      /\ UNCHANGED landedAt
  <2>0. \A q \in Request : pc[q] # "idle" => pc'[q] # "idle"
    BY <1>b
  <2>1. CASE StoreOk(r)
    <3>1. Land(w) /\ UNCHANGED late
      BY <2>1 DEF StoreOk
    <3>2. w.session = IF r \in InitReq THEN r ELSE body[r].session
      BY DEF WriteOf
    <3>3. /\ StoreInv'
          /\ store' \in [Session -> Entry \cup {Absent}]
          /\ landedAt' \in [Session -> Nat \cup {Never}]
          /\ burnt' \subseteq Session /\ burnt \subseteq burnt'
          /\ \A s \in Session : landedAt[s] # Never => landedAt'[s] = landedAt[s]
          /\ ~w.burn => landedAt'[w.session] # Never
          /\ \A s \in Session : w.burn \/ s # w.session => landedAt'[s] = landedAt[s]
      BY <1>0, <1>b, <1>c, <2>0, <3>1, LandKeepsStore
    <3> QED
      BY <1>0, <2>1, <3>1, <3>2, <3>3 DEF Land
  <2>2. CASE StoreFails(r)
    <3>1. UNCHANGED <<store, landedAt, burnt>>
      BY <2>2 DEF StoreFails
    <3>2. StoreInv'
      BY <1>0, <1>b, <1>c, <2>0, <3>1
      DEF TypeOK, StoreInv, EntryInv, Genuine, Open, Request, Session
    <3>3. \A s \in InitReq : pc[s] = "store" => landedAt[s] = Never
      BY DEF InitWritesInv
    <3> QED
      BY <1>b, <2>2, <3>1, <3>2, <3>3 DEF TypeOK, Session
  <2> QED
    BY <2>1, <2>2
<1>1. TypeOK'
  <2>1. late' \subseteq Write
    BY <1>0 DEF TypeOK, GoodWrite
  <2> QED
    BY <1>0, <1>a, <1>b, <1>c, <2>1 DEF TypeOK, Session, Request
<1>2. RepliesInv'
  BY <1>b DEF RepliesInv
<1>3. InitWritesInv'
  BY <1>0, <1>a, <1>b, <1>c
  DEF TypeOK, InitWritesInv, LateInv, Request, Session, Write, WriteOf
<1>4. LateInv'
  <2> SUFFICES ASSUME NEW v \in late'
      PROVE  /\ Genuine(v.data, v.session)'
             /\ v.burn => v.data.nonce = Empty /\ reply'[v.session] = "ok"
             /\ ~v.burn => v.data = InitData(v.session)'
    BY DEF LateInv
  <2>1. GoodWrite(v)
    BY <1>0, LateGood
  <2> QED
    BY <1>0, <1>b, <2>1 DEF GoodWrite, Write, Genuine, InitData, Session, Request
<1>5. ReadInv'
  BY <1>0, <1>a, <1>b, <1>c DEF TypeOK, ReadInv, Genuine, Request, Session, Submission
<1>6. CheckedInv'
  BY <1>0, <1>b, <1>c DEF TypeOK, CheckedInv, Judged, Request
<1>7. RefusedOnlyIfBurnt'
  BY <1>0, <1>a, <1>b, <1>c DEF RefusedOnlyIfBurnt, Request
<1> QED
  BY <1>1, <1>2, <1>3, <1>4, <1>5, <1>6, <1>7, <1>a

-------------------------------------------------------------------------------
(* The theorems *)

(* Every step of the service preserves the inductive invariant.                *)
LEMMA StepInv == IInv /\ [Next]_vars => IInv'
<1> SUFFICES ASSUME IInv, [Next]_vars PROVE IInv'
  OBVIOUS
<1>1. ASSUME NEW i \in InitReq, InitStep(i) PROVE IInv'
  BY <1>1, InitArriveInv, InitStoreInv DEF InitStep
<1>2. ASSUME NEW r \in VerifyReq, VerifyStep(r) PROVE IInv'
  BY <1>2, VerifyArriveInv, VerifyGetInv, VerifyCheckInv, VerifyBurnInv,
     VerifyRespondInv DEF VerifyStep
<1>3. CASE BackendCrash
  BY <1>3, BackendCrashInv
<1>4. CASE RedisStep
  BY <1>4, LandLateInv, EvictInv, SyncInv, RedisRestartInv DEF RedisStep
<1>5. CASE Tick
  BY <1>5, TickInv
<1>6. CASE UNCHANGED vars
  BY <1>6, StutterInv
<1> QED
  BY <1>1, <1>2, <1>3, <1>4, <1>5, <1>6 DEF Next

(* The inductive invariant holds of every reachable state.                     *)
THEOREM Invariance == Spec => []IInv
BY InitInv, StepInv, PTL DEF Spec

(* Type correctness, for every instance.                                       *)
THEOREM TypeCorrect == Spec => []TypeOK
<1>1. IInv => TypeOK
  BY DEF IInv
<1> QED
  BY <1>1, Invariance, PTL

(* Verdicts are authentic: each rests on the key, fingerprint and nonce of the *)
(* init request that opened the session (session-verify.go:266-380).           *)
THEOREM VerdictsAreAuthentic == Spec => []AuthenticVerdict
<1>1. IInv => AuthenticVerdict
  <2> SUFFICES ASSUME IInv, NEW r \in VerifyReq, Judged(r)
      PROVE  /\ reply[body[r].session] = "ok"
             /\ body[r].nonce = body[r].session
             /\ body[r].key = body[body[r].session].key
             /\ body[r].fingerprint = body[body[r].session].fingerprint
             /\ body[r].signer = body[body[r].session].key
    BY DEF AuthenticVerdict
  <2>1. /\ Genuine(read[r], body[r].session)
        /\ read[r].nonce = body[r].session
        /\ reply[body[r].session] = "ok"
    BY CheckedIsKnown
  <2> QED
    BY <2>1 DEF IInv, CheckedInv, Genuine
<1> QED
  BY <1>1, Invariance, PTL

(* A request that reads its session after a burn took effect gets no verdict,  *)
(* unless Redis lost the burn (session-verify.go:266-276, 382-387).            *)
THEOREM BurntSessionsStayBurnt == Spec => []NoReplayAfterBurn
<1>1. IInv => NoReplayAfterBurn
  BY DEF IInv, ReadInv, CheckedInv, NoReplayAfterBurn
<1> QED
  BY <1>1, Invariance, PTL

(* A verdict rests on a record less than SessionTTL old (redis.go:55).         *)
THEOREM VerdictsAreFresh == Spec => []FreshVerdict
<1>1. IInv => FreshVerdict
  BY DEF IInv, ReadInv, CheckedInv, FreshVerdict
<1> QED
  BY <1>1, Invariance, PTL

(* The right nonce is called a replay only after a burn took effect            *)
(* (session-verify.go:266-286).                                                *)
THEOREM ReplaysAreReplays == Spec => []RefusedOnlyIfBurnt
<1>1. IInv => RefusedOnlyIfBurnt
  BY DEF IInv
<1> QED
  BY <1>1, Invariance, PTL

-------------------------------------------------------------------------------
(* Where the one verdict of a session gets lost *)

LEMMA RestartsLoseBurns == Spec => [](restarts = 0 => lostBurn = {})
<1> DEFINE I == restarts \in Nat /\ (restarts = 0 => lostBurn = {})
<1>1. Init => I
  BY DEF Init
<1>2. I /\ [Next]_vars => I'
  BY DEF Next, InitStep, InitArrive, InitStore, VerifyStep, VerifyArrive, VerifyGet,
         VerifyCheck, VerifyBurn, VerifyRespond, BackendCrash, RedisStep, LandLate, Evict,
         Sync, RedisRestart, Tick, vars, redisVars, historyVars
<1> QED
  BY <1>1, <1>2, PTL DEF Spec

(* As long as Redis has not restarted, a request that reads its session after  *)
(* a burn took effect gets no verdict, whatever else happens                   *)
(* (session-verify.go:266-276).                                                *)
THEOREM NothingElseReopens ==
  Spec => [](restarts = 0 => \A r \in VerifyReq : Judged(r) => ~burntAtGet[r])
<1>1. NoReplayAfterBurn /\ (restarts = 0 => lostBurn = {}) =>
        (restarts = 0 => \A r \in VerifyReq : Judged(r) => ~burntAtGet[r])
  BY DEF NoReplayAfterBurn
<1> QED
  BY <1>1, BurntSessionsStayBurnt, RestartsLoseBurns, PTL

(* Two requests of a session are never under way at once, and a burn that the  *)
(* verdict follows has taken effect.                                           *)
Serial ==
  \A r1, r2 \in VerifyReq :
    /\ InProgress(r1) /\ InProgress(r2)
    /\ body[r1].session = body[r2].session
    => r1 = r2
BurnsLand ==
  \A r \in VerifyReq :
    pc[r] = "burn" /\ pc'[r] = "respond" => body[r].session \in burnt'

OneVerdictInv ==
  /\ \A r \in VerifyReq : pc[r] = "respond" \/ Judged(r) => body[r].session \in burnt
  /\ \A r1, r2 \in VerifyReq :
       /\ Judged(r1) /\ pc[r2] \in {"check", "burn", "respond"}
       /\ body[r1].session = body[r2].session
       => burntAtGet[r2]
  /\ AtMostOneVerdict

(* How a step of the service can move a verify request.                        *)
LEMMA RequestSteps ==
  ASSUME IInv, [Next]_vars, NEW r \in VerifyReq
  PROVE  /\ burnt \subseteq burnt'
         /\ pc[r] # "idle" => body'[r] = body[r]
         /\ Judged(r)' => Judged(r) \/ pc[r] = "respond"
         /\ pc'[r] = "respond" => pc[r] \in {"burn", "respond"}
         /\ pc'[r] \in {"check", "burn", "respond"} =>
              \/ /\ pc[r] \in {"check", "burn", "respond"}
                 /\ burntAtGet'[r] = burntAtGet[r]
              \/ /\ pc[r] = "get" /\ pc' = [pc EXCEPT ![r] = "check"]
                 /\ UNCHANGED <<burnt, reply>>
                 /\ burntAtGet'[r] = (body[r].session \in burnt)
         /\ Judged(r)' /\ ~Judged(r) => UNCHANGED <<burnt, body>>
<1>0. /\ r \notin InitReq /\ r \in Request
      /\ pc \in [Request -> PC] /\ DOMAIN reply = Request /\ DOMAIN body = Request
      /\ DOMAIN burntAtGet = VerifyReq
  BY DEF IInv, TypeOK, Request
<1> DEFINE Still == pc'[r] = pc[r] /\ body'[r] = body[r] /\ reply'[r] = reply[r]
                    /\ burntAtGet'[r] = burntAtGet[r]
<1>1. ASSUME NEW i \in InitReq, InitStep(i) PROVE burnt \subseteq burnt' /\ Still
  BY <1>0, <1>1 DEF InitStep, InitArrive, InitStore, Answer, Goto, StoreOk, StoreFails, Land,
                    WriteOf, redisVars, historyVars
<1>2. ASSUME NEW v \in VerifyReq, v # r, VerifyStep(v)
      PROVE  burnt \subseteq burnt' /\ Still
  BY <1>0, <1>2 DEF VerifyStep, VerifyArrive, VerifyGet, VerifyCheck, VerifyBurn,
                    VerifyRespond, Answer, Goto, StoreOk, StoreFails, Land, redisVars, historyVars
<1>3. ASSUME RedisStep \/ Tick \/ UNCHANGED vars PROVE burnt \subseteq burnt' /\ Still
  BY <1>3 DEF RedisStep, LandLate, Evict, Sync, RedisRestart, Tick, vars, Land, redisVars,
              handlerVars, historyVars
<1>4. CASE \/ \E i \in InitReq : InitStep(i)
           \/ \E v \in VerifyReq \ {r} : VerifyStep(v)
           \/ RedisStep \/ Tick \/ UNCHANGED vars
  <2>1. burnt \subseteq burnt' /\ Still
    BY <1>1, <1>2, <1>3, <1>4
  <2> QED
    BY <2>1 DEF Judged
<1>5. CASE BackendCrash
  BY <1>0, <1>5 DEF BackendCrash, InProgress, Judged, historyVars, PC
<1>6. ASSUME NEW sub \in Submissions, VerifyArrive(r, sub)
      PROVE  /\ pc[r] = "idle" /\ pc'[r] \in {"get", "done"} /\ UNCHANGED burnt
             /\ ~Judged(r)'
  BY <1>0, <1>6 DEF VerifyArrive, Answer, Goto, historyVars, Judged, IInv, RepliesInv,
                    InputAssumption, Submission, Defect
<1>7. CASE VerifyGet(r)
  BY <1>0, <1>7 DEF VerifyGet, Answer, Goto, Judged
<1>8. CASE VerifyCheck(r)
  <2>1. CheckError(read[r], body[r]) # "verdict"
    BY DEF CheckError, SignatureOutcome
  <2> QED
    BY <1>0, <1>8, <2>1 DEF VerifyCheck, Answer, Goto, Judged, historyVars
<1>9. CASE VerifyBurn(r)
  BY <1>0, <1>9 DEF VerifyBurn, Goto, StoreOk, StoreFails, Land, Judged
<1>10. CASE VerifyRespond(r)
  BY <1>0, <1>10 DEF VerifyRespond, Answer, Judged, historyVars
<1> QED
  BY <1>4, <1>5, <1>6, <1>7, <1>8, <1>9, <1>10 DEF Next, VerifyStep

LEMMA OneVerdictStep ==
  ASSUME IInv, IInv', [Next]_vars, Serial, Serial', [BurnsLand]_vars,
         lostBurn' = {}, OneVerdictInv
  PROVE  OneVerdictInv'
<1> DEFINE Held == {"check", "burn", "respond"}
<1>1. ASSUME NEW r \in VerifyReq, pc'[r] = "respond" \/ Judged(r)'
      PROVE  body'[r].session \in burnt' /\ body'[r] = body[r]
  <2>1. /\ burnt \subseteq burnt' /\ (pc[r] # "idle" => body'[r] = body[r])
        /\ Judged(r)' => Judged(r) \/ pc[r] = "respond"
        /\ pc'[r] = "respond" => pc[r] \in {"burn", "respond"}
    BY RequestSteps
  <2>2. Judged(r) => pc[r] # "idle"
    BY DEF IInv, RepliesInv, Judged, Request
  <2>3. body'[r] = body[r]
    BY <1>1, <2>1, <2>2
  <2>4. CASE pc[r] = "respond" \/ Judged(r)
    BY <2>1, <2>3, <2>4 DEF OneVerdictInv
  <2>5. CASE pc[r] = "burn" /\ pc'[r] = "respond"
    BY <2>3, <2>5 DEF BurnsLand, vars, handlerVars
  <2> QED
    BY <1>1, <2>1, <2>4, <2>5
<1>2. ASSUME NEW r1 \in VerifyReq, NEW r2 \in VerifyReq, Judged(r1)', pc'[r2] \in Held,
             body'[r1].session = body'[r2].session
      PROVE  burntAtGet'[r2]
  <2>1. /\ body'[r1] = body[r1] /\ (Judged(r1) \/ pc[r1] = "respond")
        /\ Judged(r1)' /\ ~Judged(r1) => UNCHANGED <<burnt, body>>
    BY <1>1, <1>2, RequestSteps
  <2>2. pc[r2] \in Held \cup {"get"} /\ body'[r2] = body[r2]
    BY <1>2, RequestSteps
  <2>3. body[r1].session = body[r2].session
    BY <1>2, <2>1, <2>2
  <2>4. Judged(r1)
    <3> SUFFICES ASSUME ~Judged(r1) PROVE FALSE
      OBVIOUS
    <3>1. pc[r1] = "respond"
      BY <2>1
    <3>2. InProgress(r1) /\ InProgress(r2)
      BY <2>2, <3>1 DEF InProgress
    <3>3. r1 = r2
      BY <2>3, <3>2 DEF Serial
    <3>4. pc'[r2] = "done"
      BY <1>2, <3>3 DEF IInv, RepliesInv, Judged, Request
    <3> QED
      BY <1>2, <3>4
  <2>5. CASE pc[r2] \in Held /\ burntAtGet'[r2] = burntAtGet[r2]
    BY <2>3, <2>4, <2>5 DEF OneVerdictInv
  <2>6. CASE pc[r2] = "get" /\ burntAtGet'[r2] = (body[r2].session \in burnt)
    BY <2>3, <2>4, <2>6 DEF OneVerdictInv
  <2> QED
    BY <1>2, <2>5, <2>6, RequestSteps
<1>3. ASSUME NEW r1 \in VerifyReq, NEW r2 \in VerifyReq, Judged(r1)', Judged(r2)',
             body'[r1].session = body'[r2].session, r1 # r2
      PROVE  FALSE
  <2>1. body[r1].session = body[r2].session
    BY <1>1, <1>3
  <2>2. /\ Judged(r1) \/ pc[r1] = "respond"
        /\ Judged(r2) \/ pc[r2] = "respond"
    BY <1>3, RequestSteps
  <2>3. ~(pc[r1] = "respond" /\ pc[r2] = "respond")
    BY <1>3, <2>1 DEF Serial, InProgress
  <2>4. ~(Judged(r1) /\ Judged(r2))
    BY <1>3, <2>1 DEF OneVerdictInv, AtMostOneVerdict
  <2>5. ASSUME NEW v \in {r1, r2}, NEW w \in {r1, r2}, Judged(v), pc[w] = "respond"
        PROVE  FALSE
    <3>1. burntAtGet[w]
      BY <2>1, <2>5 DEF OneVerdictInv
    <3>2. read[w] # Absent /\ read[w].nonce # Empty
      BY <2>5 DEF IInv, CheckedInv
    <3>3. body[w].session \in lostBurn
      BY <3>1, <3>2 DEF IInv, ReadInv
    <3>4. lostBurn \subseteq lostBurn'
      BY DEF Next, InitStep, InitArrive, InitStore, VerifyStep, VerifyArrive, VerifyGet,
             VerifyCheck, VerifyBurn, VerifyRespond, BackendCrash, RedisStep, LandLate,
             Evict, Sync, RedisRestart, Tick, vars, redisVars, historyVars
    <3> QED
      BY <3>3, <3>4
  <2> QED
    BY <2>2, <2>3, <2>4, <2>5
<1>4. AtMostOneVerdict'
  BY <1>3 DEF AtMostOneVerdict
<1> QED
  BY <1>1, <1>2, <1>4 DEF OneVerdictInv

(* "Delete nonce after successful verification to prevent replay" does hold    *)
(* where requests of one session never overlap, every burn takes effect before *)
(* its verdict, and Redis does not restart: crashes of the backend, expiry,    *)
(* eviction and late writes do no harm. Each of the three is needed            *)
(* (session-verify.go:266-276,382-387).                                        *)
THEOREM SerialRequestsGetOneVerdict ==
  Spec /\ []Serial /\ [][BurnsLand]_vars /\ [](restarts = 0) => []AtMostOneVerdict
<1>1. Init => OneVerdictInv
  BY DEF Init, OneVerdictInv, AtMostOneVerdict, Judged, Request
<1>2. /\ OneVerdictInv /\ [Next]_vars /\ [BurnsLand]_vars /\ IInv /\ IInv'
      /\ Serial /\ Serial' /\ (restarts = 0 => lostBurn = {})' /\ (restarts = 0)'
      => OneVerdictInv'
  BY OneVerdictStep
<1>3. OneVerdictInv => AtMostOneVerdict
  BY DEF OneVerdictInv
<1> QED
  BY <1>1, <1>2, <1>3, Invariance, RestartsLoseBurns, PTL DEF Spec

(* A request whose signature is in the form WebCrypto makes never passes the   *)
(* checks, whatever else it says: it gets no verdict and burns nothing         *)
(* (crypto.ts, session-verify.go:355-380).                                     *)
UnreadableNeverPasses ==
  \A r \in VerifyReq :
    body[r] # Absent /\ body[r].signer = "malformed" =>
      pc[r] \notin {"burn", "respond"} /\ ~Judged(r)

(* Every verdict the service ever gives goes to a request that no AegisLens    *)
(* client of this commit can make.                                             *)
THEOREM SdkSignaturesNeverPass == Spec => []UnreadableNeverPasses
<1>1. IInv => UnreadableNeverPasses
  <2> SUFFICES ASSUME IInv, NEW r \in VerifyReq, body[r].signer = "malformed",
                      pc[r] \in {"burn", "respond"} \/ Judged(r)
               PROVE  FALSE
    BY DEF UnreadableNeverPasses
  <2>1. read[r] \in SessionData /\ body[r].signer = read[r].key
    BY DEF IInv, TypeOK, CheckedInv
  <2> QED
    BY <2>1 DEF SessionData
<1> QED
  BY <1>1, Invariance, PTL

-------------------------------------------------------------------------------
(* The end of a request *)

(* A handler never goes back: every step of the service leaves a request where *)
(* it is or moves it on, and only VerifyArrive and InitArrive take an idle one *)
(* up.                                                                         *)
LEMMA HandlersMoveOn ==
  ASSUME IInv, [Next]_vars
  PROVE  /\ \A i \in InitReq : pc[i] = "store" => pc'[i] \in {"store", "done"}
         /\ \A r \in VerifyReq :
              /\ pc[r] = "get" => pc'[r] \in {"get", "check", "done"}
              /\ pc[r] = "check" => pc'[r] \in {"check", "burn", "done"}
              /\ pc[r] = "burn" => pc'[r] \in {"burn", "respond", "done"}
              /\ pc[r] = "respond" => pc'[r] \in {"respond", "done"}
<1>0. pc \in [Request -> PC] /\ Request = InitReq \cup VerifyReq
      /\ InitReq \cap VerifyReq = {}
  BY IdAssumption DEF IInv, TypeOK, Request
<1>1. ASSUME NEW i \in InitReq, InitStep(i)
      PROVE  \A r \in Request :
               \/ pc'[r] = pc[r]
               \/ r = i /\ pc[r] = "idle"
               \/ r = i /\ pc[r] = "store" /\ pc'[r] = "done"
  <2>1. ASSUME NEW b \in InitBodies, InitArrive(i, b)
        PROVE  pc[i] = "idle" /\ \E next : pc' = [pc EXCEPT ![i] = next]
    BY <2>1 DEF InitArrive, Answer, Goto
  <2>2. ASSUME InitStore(i)
        PROVE  pc[i] = "store" /\ pc' = [pc EXCEPT ![i] = "done"]
    BY <2>2 DEF InitStore, Answer
  <2> QED
    BY <1>0, <1>1, <2>1, <2>2 DEF InitStep
<1>2. ASSUME NEW v \in VerifyReq, VerifyStep(v)
      PROVE  \A r \in Request :
               \/ pc'[r] = pc[r]
               \/ r = v /\ pc[r] = "idle"
               \/ r = v /\ pc[r] = "get" /\ pc'[r] \in {"check", "done"}
               \/ r = v /\ pc[r] = "check" /\ pc'[r] \in {"burn", "done"}
               \/ r = v /\ pc[r] = "burn" /\ pc'[r] = "respond"
               \/ r = v /\ pc[r] = "respond" /\ pc'[r] = "done"
  <2>1. CASE \E sub \in Submissions : VerifyArrive(v, sub)
    BY <1>0, <2>1 DEF VerifyArrive, Answer, Goto
  <2>2. CASE VerifyGet(v)
    BY <1>0, <2>2 DEF VerifyGet, Answer, Goto
  <2>3. CASE VerifyCheck(v)
    BY <1>0, <2>3 DEF VerifyCheck, Answer, Goto
  <2>4. CASE VerifyBurn(v) \/ VerifyRespond(v)
    BY <1>0, <2>4 DEF VerifyBurn, VerifyRespond, Answer, Goto
  <2> QED
    BY <1>2, <2>1, <2>2, <2>3, <2>4 DEF VerifyStep
<1>3. CASE BackendCrash
  BY <1>0, <1>3 DEF BackendCrash, InProgress
<1>4. CASE RedisStep \/ Tick \/ UNCHANGED vars
  BY <1>0, <1>4 DEF RedisStep, LandLate, Evict, Sync, RedisRestart, Tick, vars, handlerVars
<1> QED
  BY <1>0, <1>1, <1>2, <1>3, <1>4 DEF Next

(* Weak fairness of a handler, where its guard stands for ENABLED: a handler   *)
(* that has begun can always take its next step, for every call to Redis       *)
(* returns.                                                                    *)
Verify(r) == VerifyGet(r) \/ VerifyCheck(r) \/ VerifyBurn(r) \/ VerifyRespond(r)
StoreRuns(i) == []<>(pc[i] # "store") \/ []<><<InitStore(i)>>_vars
VerifyRuns(r) ==
  []<>(pc[r] \notin {"get", "check", "burn", "respond"}) \/ []<><<Verify(r)>>_vars

LEMMA StoresEnd ==
  ASSUME NEW i \in InitReq
  PROVE  Spec /\ StoreRuns(i) => (InProgress(i) ~> pc[i] = "done")
<1> DEFINE Stores == pc[i] = "store"
           Done   == pc[i] = "done"
           Begun  == InProgress(i)
           Idles  == pc[i] # "store"
           Runs   == []<>Idles \/ []<><<InitStore(i)>>_vars
<1>1. IInv /\ Begun => Stores
  BY DEF IInv, TypeOK, InProgress
<1>2. IInv /\ [Next]_vars /\ Stores => Stores' \/ Done'
  BY HandlersMoveOn
<1>3. IInv /\ <<InitStore(i)>>_vars => ~Stores'
  BY DEF IInv, TypeOK, InitStore, Answer, Request
<1>4. Stores => ~Idles
  OBVIOUS
<1>5. StoreRuns(i) => Runs
  BY DEF StoreRuns
<1> HIDE DEF Stores, Done, Begun, Idles
<1>6. Spec /\ Runs => (Begun ~> Done)
  BY <1>1, <1>2, <1>3, <1>4, Invariance, PTL DEF Spec
<1> QED
  BY <1>5, <1>6 DEF Begun, Done

LEMMA VerifiesEnd ==
  ASSUME NEW r \in VerifyReq
  PROVE  Spec /\ VerifyRuns(r) => (InProgress(r) ~> pc[r] = "done")
<1> DEFINE Gets   == pc[r] = "get"
           Checks == pc[r] = "check"
           Burns  == pc[r] = "burn"
           Tells  == pc[r] = "respond"
           Done   == pc[r] = "done"
           Begun  == InProgress(r)
           Idles  == pc[r] \notin {"get", "check", "burn", "respond"}
           Runs   == []<>Idles \/ []<><<Verify(r)>>_vars
<1>1. IInv /\ Begun => Gets \/ Checks \/ Burns \/ Tells
  BY DEF IInv, TypeOK, InProgress, PC, Request
<1>2. IInv /\ [Next]_vars => /\ Gets => Gets' \/ Checks' \/ Done'
                             /\ Checks => Checks' \/ Burns' \/ Done'
                             /\ Burns => Burns' \/ Tells' \/ Done'
                             /\ Tells => Tells' \/ Done'
  BY HandlersMoveOn
<1>3. IInv /\ <<Verify(r)>>_vars => /\ Gets => ~Gets'
                                    /\ Checks => ~Checks'
                                    /\ Burns => ~Burns'
                                    /\ Tells => ~Tells'
  BY DEF IInv, TypeOK, Verify, VerifyGet, VerifyCheck, VerifyBurn, VerifyRespond, Answer,
         Goto, Request
<1>4. Gets \/ Checks \/ Burns \/ Tells => ~Idles
  OBVIOUS
<1>5. VerifyRuns(r) => Runs
  BY DEF VerifyRuns
<1> HIDE DEF Gets, Checks, Burns, Tells, Done, Begun, Idles
<1>6. Spec /\ Runs => (Begun ~> Done)
  BY <1>1, <1>2, <1>3, <1>4, Invariance, PTL DEF Spec
<1> QED
  BY <1>5, <1>6 DEF Begun, Done

(* Every request that arrives ends, where the handlers run: whatever Redis     *)
(* answers, and whatever restarts, evictions and crashes there are between its *)
(* steps (session-init.go:42-108, session-verify.go:208-413).                  *)
THEOREM RequestsEnd ==
  Spec /\ (\A i \in InitReq : StoreRuns(i)) /\ (\A r \in VerifyReq : VerifyRuns(r))
    => EveryRequestEnds
<1> DEFINE Ends(r) == InProgress(r) ~> pc[r] = "done"
<1>1. ASSUME NEW i \in InitReq PROVE Spec /\ StoreRuns(i) => Ends(i)
  BY StoresEnd
<1>2. ASSUME NEW r \in VerifyReq PROVE Spec /\ VerifyRuns(r) => Ends(r)
  BY VerifiesEnd
<1> HIDE DEF Ends
<1>3. Spec /\ (\A i \in InitReq : StoreRuns(i)) /\ (\A r \in VerifyReq : VerifyRuns(r))
        => \A r \in Request : Ends(r)
  BY <1>1, <1>2 DEF Request
<1> QED
  BY <1>3 DEF EveryRequestEnds, Ends
===============================================================================
