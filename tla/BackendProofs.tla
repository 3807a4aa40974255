----------------------------- MODULE BackendProofs -----------------------------
(* The backend's process, for any requests, addresses and limits, and for any  *)
(* number of restarts: the limiters bound what they let pass, and no handler   *)
(* outlives the clients it calls.                                              *)
EXTENDS Backend, FiniteSetTheorems, TLAPS

USE RequestAssumption, AddressAssumption, LimitAssumption, BoundAssumption

Types ==
  /\ phase \in Booting \cup Ended
       \cup {"serving", "draining", "closeTimescale", "closeRedis"}
  /\ clients \subseteq Server
  /\ now \in 0..MaxTicks
  /\ limiters \in [Class -> [Address -> Request \cup {Nil}]]
  /\ tokens \in [Request -> Nat]
  /\ pc \in [Request -> PC]
  /\ from \in [Request -> Address] /\ path \in [Request -> Path]
  /\ limiter \in [Request -> Request \cup {Nil}]
  /\ up \subseteq Server /\ schema \in BOOLEAN
  /\ faults \in 0..MaxFaults
  /\ admittedAt \in [Request -> 0..MaxTicks \cup {Nil}]
  /\ forced \in BOOLEAN

(* Which clients are open, and that requests run only while it serves.         *)
PhaseInv ==
  /\ phase \in {"redis"} \cup Ended => clients = {}
  /\ phase = "timescale" => clients = {"redis"}
  /\ phase \in {"schema", "listen", "serving", "draining"} => clients = Server
  /\ (\E r \in Request : Active(r)) => phase \in {"serving", "draining"}

ProcessInv == Types /\ PhaseInv /\ CutOnlyByForce

-------------------------------------------------------------------------------
LEMMA ProcessInit == Init => ProcessInv
<1> SUFFICES ASSUME Init PROVE ProcessInv
  OBVIOUS
<1> USE DEF Init
<1>1. (CHOOSE a \in Address : TRUE) \in Address
  OBVIOUS
<1>2. from \in [Request -> Address]
  BY <1>1
<1>3. pc \in [Request -> PC] /\ path \in [Request -> Path]
  BY DEF PC, Path
<1>4. limiters \in [Class -> [Address -> Request \cup {Nil}]]
  OBVIOUS
<1>5. Types
  <2>1. tokens \in [Request -> Nat] /\ limiter \in [Request -> Request \cup {Nil}]
    OBVIOUS
  <2>2. admittedAt \in [Request -> 0..MaxTicks \cup {Nil}]
    OBVIOUS
  <2>3. now \in 0..MaxTicks /\ faults \in 0..MaxFaults
    OBVIOUS
  <2>4. phase \in Booting /\ clients \subseteq Server /\ up \subseteq Server
        /\ schema \in BOOLEAN /\ forced \in BOOLEAN
    BY DEF Booting
  <2> HIDE DEF Init
  <2> QED
    BY <1>2, <1>3, <1>4, <2>1, <2>2, <2>3, <2>4 DEF Types
<1>6. \A r \in Request : pc[r] = "idle" /\ ~Active(r)
  BY DEF Active
<1>7. PhaseInv
  BY <1>6 DEF PhaseInv
<1>8. CutOnlyByForce
  BY <1>6 DEF CutOnlyByForce
<1> QED
  BY <1>5, <1>7, <1>8 DEF ProcessInv

(* The end of the process keeps the types and leaves no request active.        *)
LEMMA EndKeeps ==
  ASSUME ProcessInv, NEW how \in Ended, End(how), forced' \in BOOLEAN,
         forced => forced', faults' \in 0..MaxFaults,
         forced' \/ \A r \in Request : ~Active(r)
  PROVE  ProcessInv'
<1> USE DEF ProcessInv, Types, End
<1>1. pc' \in [Request -> PC]
  BY DEF PC
<1>2. Types'
  BY <1>1 DEF Ended, requestVars, limiterVars, serverVars
<1>3. \A r \in Request : ~Active(r)'
  BY DEF Active
<1>4. PhaseInv'
  BY <1>3 DEF PhaseInv, Ended
<1>5. CutOnlyByForce'
  BY DEF CutOnlyByForce, Active
<1> QED
  BY <1>2, <1>4, <1>5

(* A step of a request moves its own control, and to an active place only      *)
(* from one or while the process serves.                                       *)
LEMMA ServeKeeps ==
  ASSUME ProcessInv, NEW r \in Request, Serve(r)
  PROVE  ProcessInv'
<1> USE DEF ProcessInv, Types, Goto
<1>1. UNCHANGED <<phase, clients, now, up, schema, faults, forced>>
  BY DEF Serve, Arrive, LoadLimiter, Allow, CallRedis, CallRedisAgain, Health, serverVars
<1>2. /\ \E next \in PC \ {"idle", "cut"} : pc' = [pc EXCEPT ![r] = next]
      /\ Active(r) \/ phase = "serving"
  BY DEF Serve, Arrive, LoadLimiter, Allow, CallRedis, CallRedisAgain, Health, Active, PC,
         Handler
<1>3. from' \in [Request -> Address] /\ path' \in [Request -> Path]
  BY DEF Serve, Arrive, LoadLimiter, Allow, CallRedis, CallRedisAgain, Health
<1>4. ClassOf(path[r]) \in Class
  BY DEF ClassOf, Class
<1>5. limiters' \in [Class -> [Address -> Request \cup {Nil}]]
  <2>1. CASE LoadLimiter(r)
    <3> DEFINE k == ClassOf(path[r])
               row == [limiters[k] EXCEPT ![from[r]] = r]
    <3>1. limiters' = limiters \/ limiters' = [limiters EXCEPT ![k] = row]
      BY <2>1 DEF LoadLimiter
    <3>2. k \in Class /\ limiters \in [Class -> [Address -> Request \cup {Nil}]]
      BY <1>4
    <3>3. row \in [Address -> Request \cup {Nil}]
      BY <3>2
    <3> HIDE DEF k, row, ProcessInv, Types
    <3> QED
      BY <3>1, <3>2, <3>3
  <2>2. CASE ~LoadLimiter(r)
    BY <2>2 DEF Serve, Arrive, Allow, CallRedis, CallRedisAgain, Health, limiterVars
  <2> QED
    BY <2>1, <2>2
<1>6. limiter' \in [Request -> Request \cup {Nil}]
  <2>1. CASE LoadLimiter(r)
    <3> DEFINE held == limiters[ClassOf(path[r])][from[r]]
    <3>1. held \in Request \cup {Nil}
      BY <1>4
    <3> QED
      BY <2>1, <3>1 DEF LoadLimiter
  <2>2. CASE ~LoadLimiter(r)
    BY <2>2 DEF Serve, Arrive, Allow, CallRedis, CallRedisAgain, Health, limiterVars
  <2> QED
    BY <2>1, <2>2
<1>7. tokens' \in [Request -> Nat]
  <2>1. CASE LoadLimiter(r)
    BY <2>1, <1>4 DEF LoadLimiter
  <2>2. CASE Allow(r)
    <3>1. CASE tokens[limiter[r]] = 0
      BY <2>2, <3>1 DEF Allow
    <3>2. CASE tokens[limiter[r]] # 0
      <4>1. \A t \in Request : tokens'[t] = IF t = limiter[r] THEN tokens[t] - 1 ELSE tokens[t]
        BY <2>2, <3>2 DEF Allow
      <4>2. \A t \in Request : tokens'[t] \in Nat
        <5>1. \A t \in Request : tokens[t] \in Nat /\ (t = limiter[r] => tokens[t] # 0)
          BY <3>2
        <5> HIDE DEF ProcessInv, Types
        <5> QED
          BY <4>1, <5>1
      <4>3. tokens' = [tokens EXCEPT ![limiter[r]] = @ - 1]
        BY <2>2, <3>2 DEF Allow
      <4> QED
        BY <4>2, <4>3
    <3> QED
      BY <3>1, <3>2
  <2>3. CASE ~LoadLimiter(r) /\ ~Allow(r)
    BY <2>3 DEF Serve, Arrive, CallRedis, CallRedisAgain, Health, limiterVars
  <2> QED
    BY <2>1, <2>2, <2>3
<1>8. admittedAt' \in [Request -> 0..MaxTicks \cup {Nil}]
  <2>1. CASE Allow(r)
    BY <2>1 DEF Allow
  <2>2. CASE ~Allow(r)
    BY <2>2 DEF Serve, Arrive, LoadLimiter, CallRedis, CallRedisAgain, Health, limiterVars
  <2> QED
    BY <2>1, <2>2
<1>9. Types'
  <2>1. pc' \in [Request -> PC]
    BY <1>2
  <2> QED
    BY <2>1, <1>1, <1>3, <1>5, <1>6, <1>7, <1>8
<1>10. PhaseInv'
  BY <1>1, <1>2 DEF PhaseInv, Active
<1>11. CutOnlyByForce'
  BY <1>1, <1>2 DEF CutOnlyByForce
<1> QED
  BY <1>9, <1>10, <1>11

(* A step that leaves the requests alone.                                      *)
LEMMA QuietKeeps ==
  ASSUME ProcessInv, UNCHANGED <<requestVars, forced>>, now' = now,
         faults' \in 0..MaxFaults, up' \subseteq Server, schema' \in BOOLEAN,
         clients' \subseteq Server,
         <<phase, phase'>> \in {<<"redis", "timescale">>, <<"timescale", "schema">>,
           <<"schema", "listen">>, <<"listen", "serving">>, <<"listen", "draining">>,
           <<"serving", "draining">>, <<"draining", "closeTimescale">>,
           <<"closeTimescale", "closeRedis">>},
         phase' = "timescale" => clients' = {"redis"},
         phase' \in {"schema", "listen", "serving", "draining"} => clients' = Server,
         phase' = "closeTimescale" => \A r \in Request : ~Active(r)
  PROVE  ProcessInv'
<1> USE DEF requestVars, limiterVars
<1>1. Types'
  BY DEF ProcessInv, Types, Booting
<1>2. \A r \in Request : Active(r)' <=> Active(r)
  BY DEF Active
<1>3. PhaseInv'
  BY <1>2 DEF ProcessInv, PhaseInv, Ended
<1>4. CutOnlyByForce'
  BY DEF ProcessInv, CutOnlyByForce
<1> QED
  BY <1>1, <1>3, <1>4 DEF ProcessInv

LEMMA ProcessStep == ProcessInv /\ [Next]_vars => ProcessInv'
<1> SUFFICES ASSUME ProcessInv, [Next]_vars PROVE ProcessInv'
  OBVIOUS
<1>t. Types /\ PhaseInv
  BY DEF ProcessInv
<1>a. phase \in Booting \cup Ended => \A r \in Request : ~Active(r)
  BY <1>t DEF PhaseInv, Booting, Ended
<1>b. "failed" \in Ended /\ "exited" \in Ended
  BY DEF Ended
<1>f. faults \in 0..MaxFaults /\ forced \in BOOLEAN /\ clients \subseteq Server
      /\ up \subseteq Server /\ schema \in BOOLEAN
  BY <1>t DEF Types
<1>1. CASE Connect("redis", "timescale")
  <2>1. CASE "redis" \in up
    BY <1>1, <2>1, <1>t, <1>f, QuietKeeps DEF Connect, serverVars, Server, PhaseInv
  <2>2. CASE "redis" \notin up
    BY <1>1, <2>2, <1>a, <1>b, <1>f, EndKeeps DEF Connect, Fatal, Booting
  <2> QED
    BY <2>1, <2>2
<1>2. CASE Connect("timescale", "schema")
  <2>1. CASE "timescale" \in up
    BY <1>2, <2>1, <1>t, <1>f, QuietKeeps DEF Connect, serverVars, Server, PhaseInv
  <2>2. CASE "timescale" \notin up
    BY <1>2, <2>2, <1>a, <1>b, <1>f, EndKeeps DEF Connect, Fatal, Booting
  <2> QED
    BY <2>1, <2>2
<1>3. CASE InitializeSchema
  <2>1. CASE "timescale" \in up /\ schema
    BY <1>3, <2>1, <1>t, <1>f, QuietKeeps DEF InitializeSchema, serverVars, PhaseInv
  <2>2. CASE ~("timescale" \in up /\ schema)
    BY <1>3, <2>2, <1>a, <1>b, <1>f, EndKeeps DEF InitializeSchema, Fatal, Booting
  <2> QED
    BY <2>1, <2>2
<1>4. CASE Listen
  BY <1>4, <1>t, <1>f, QuietKeeps DEF Listen, serverVars, PhaseInv
<1>5. CASE Restart
  <2>1. Types'
    BY <1>5, <1>t DEF Restart, Types, serverVars, Booting
  <2>2. \A r \in Request : ~Active(r) /\ ~Active(r)'
    BY <1>5, <1>a DEF Restart, Active
  <2>3. PhaseInv'
    BY <1>5, <1>t, <2>2 DEF Restart, PhaseInv
  <2>4. CutOnlyByForce'
    BY <1>5 DEF Restart, CutOnlyByForce, ProcessInv
  <2> QED
    BY <2>1, <2>3, <2>4 DEF ProcessInv
<1>6. CASE Drained
  BY <1>6, <1>f, QuietKeeps DEF Drained, serverVars
<1>7. CASE CloseTimescale
  BY <1>7, <1>f, QuietKeeps DEF CloseTimescale, serverVars
<1>8. CASE CloseRedis
  <2>1. \A r \in Request : ~Active(r)
    BY <1>8, <1>t DEF CloseRedis, PhaseInv
  <2> QED
    BY <1>8, <2>1, <1>b, <1>f, EndKeeps DEF CloseRedis
<1>9. CASE Deadline
  BY <1>9, <1>b, <1>f, EndKeeps DEF Deadline
<1>10. CASE \E r \in Request : Serve(r)
  BY <1>10, ServeKeeps
<1>11. CASE Tick
  <2>1. tokens' \in [Request -> Nat]
    <3>1. \A t \in Request : tokens[t] \in Nat /\ Limit[ClassOf(path[t])] \in Nat
                             /\ Burst[ClassOf(path[t])] \in Nat
      BY <1>t DEF Types, ClassOf, Class
    <3> QED
      BY <1>11, <3>1 DEF Tick
  <2>2. Types'
    BY <1>11, <1>t, <2>1 DEF Tick, Types, serverVars
  <2>3. PhaseInv' /\ CutOnlyByForce'
    BY <1>11 DEF Tick, PhaseInv, CutOnlyByForce, Active, ProcessInv
  <2> QED
    BY <2>2, <2>3 DEF ProcessInv
<1>12. CASE ServersChange \/ Migrate
  <2>1. Types'
    BY <1>12, <1>t DEF ServersChange, Migrate, Types, requestVars, limiterVars
  <2>2. PhaseInv' /\ CutOnlyByForce'
    BY <1>12 DEF ServersChange, Migrate, requestVars, PhaseInv, CutOnlyByForce, Active, ProcessInv
  <2> QED
    BY <2>1, <2>2 DEF ProcessInv
<1>13. CASE Signal
  <2>1. faults' \in 0..MaxFaults
    BY <1>13, <1>f DEF Signal, Fault
  <2> QED
    BY <1>13, <2>1, <1>t, <1>f, QuietKeeps DEF Signal, serverVars, PhaseInv
<1>14. CASE Killed
  <2>1. faults' \in 0..MaxFaults
    BY <1>14, <1>f DEF Killed, Fault
  <2> QED
    BY <1>14, <2>1, <1>b, <1>f, EndKeeps DEF Killed
<1>15. CASE ListenFails
  <2>1. faults' \in 0..MaxFaults
    BY <1>15, <1>f DEF ListenFails, Fault
  <2> QED
    BY <1>15, <2>1, <1>a, <1>b, <1>f, EndKeeps DEF ListenFails, Booting
<1>16. CASE UNCHANGED vars
  BY <1>16 DEF vars, requestVars, limiterVars, serverVars, ProcessInv, Types, PhaseInv,
     CutOnlyByForce, Active
<1> QED
  BY <1>1, <1>2, <1>3, <1>4, <1>5, <1>6, <1>7, <1>8, <1>9, <1>10, <1>11, <1>12, <1>13,
     <1>14, <1>15, <1>16 DEF Next, Boot, Stop, Environment

LEMMA ProcessAlways == Spec => []ProcessInv
<1> QED
  BY ProcessInit, ProcessStep, PTL DEF Spec

(* The types; and a process that serves has both of its clients (main.go:44-59). *)
THEOREM TypeCorrect == Spec => []TypeOK
<1>1. ProcessInv => TypeOK
  BY DEF ProcessInv, Types, PhaseInv, TypeOK
<1> QED
  BY <1>1, ProcessAlways, PTL

(* No handler calls a closed client, over any number of requests, faults and   *)
(* restarts (main.go:48, 54, 316-321).                                         *)
THEOREM NoHandlerCallsAClosedClient == Spec => []NoCallAfterClose
<1>1. ProcessInv => NoCallAfterClose
  BY DEF ProcessInv, PhaseInv, NoCallAfterClose, Needs, Active, Server
<1> QED
  BY <1>1, ProcessAlways, PTL

(* A request is cut only if a process was killed, lost its listener, or was    *)
(* late to stop (main.go:298-307, 316-321).                                    *)
THEOREM RequestsAreCutOnlyByForce == Spec => []CutOnlyByForce
<1>1. ProcessInv => CutOnlyByForce
  BY DEF ProcessInv
<1> QED
  BY <1>1, ProcessAlways, PTL

-------------------------------------------------------------------------------
(* The limiters. What a stored limiter still holds, and what has passed since  *)
(* any earlier moment, stay within its burst and its gains since that moment.  *)
Passed(k, a, t0) == Cardinality(AdmittedIn(k, a, t0, now))

StoredInv ==
  \A k \in Class, a \in Address :
    IF limiters[k][a] = Nil
    THEN \A t0 \in 0..MaxTicks : AdmittedIn(k, a, t0, now) = {}
    ELSE LET t == limiters[k][a] IN
         /\ ClassOf(path[t]) = k /\ from[t] = a /\ pc[t] \notin {"idle", "load"}
         /\ tokens[t] <= Burst[k]
         /\ \A t0 \in 0..now : Passed(k, a, t0) + tokens[t] <= Burst[k] + Limit[k] * (now - t0)

(* A request asks the limiter that is stored for it.                           *)
HeldInv ==
  \A r \in Request : pc[r] = "allow" =>
    /\ limiter[r] # Nil
    /\ limiter[r] = limiters[ClassOf(path[r])][from[r]]

(* Nothing passes before it has asked, nor later than now.                     *)
TimeInv ==
  \A r \in Request :
    /\ pc[r] \in {"idle", "load", "allow"} => admittedAt[r] = Nil
    /\ admittedAt[r] # Nil => admittedAt[r] \in 0..now

LimiterInv == ProcessInv /\ TimeInv /\ HeldInv /\ StoredInv /\ AdmittedBounded

LEMMA AdmittedFinite ==
  ASSUME NEW k, NEW a, NEW t0, NEW t1
  PROVE  /\ IsFiniteSet(AdmittedIn(k, a, t0, t1))
         /\ Cardinality(AdmittedIn(k, a, t0, t1)) \in Nat
<1>1. AdmittedIn(k, a, t0, t1) \subseteq Request
  BY DEF AdmittedIn
<1> QED
  BY <1>1, FS_Subset, FS_CardinalityType

LEMMA BoundsAreNumbers ==
  ASSUME NEW k \in Class, NEW t0 \in Int, NEW t1 \in Int
  PROVE  /\ Burst[k] \in Nat /\ Limit[k] \in Nat
         /\ Burst[k] + Limit[k] * (t1 - t0) \in Int
         /\ t0 <= t1 => Burst[k] + Limit[k] * (t1 - t0) >= Burst[k]
         /\ Limit[k] * (t1 + 1 - t0) = Limit[k] * (t1 - t0) + Limit[k]
<1>1. Burst[k] \in Nat /\ Limit[k] \in Nat
  OBVIOUS
<1>2. \A n \in Nat : Burst[k] + n >= Burst[k]
  BY <1>1
<1>3. \A l \in Nat, n \in Int : l * n \in Int /\ l * (n + 1) = l * n + l
  OBVIOUS
<1>4. \A l, n \in Nat : l * n \in Nat
  OBVIOUS
<1>5. t0 <= t1 => t1 - t0 \in Nat
  OBVIOUS
<1>6. t1 - t0 \in Int /\ t1 + 1 - t0 = (t1 - t0) + 1
  OBVIOUS
<1> QED
  BY <1>1, <1>2, <1>3, <1>4, <1>5, <1>6

LEMMA LimiterInit == Init => LimiterInv
<1> SUFFICES ASSUME Init PROVE LimiterInv
  OBVIOUS
<1>1. ProcessInv
  BY ProcessInit
<1>2. \A r \in Request : pc[r] = "idle" /\ admittedAt[r] = Nil
  BY DEF Init
<1>3. TimeInv /\ HeldInv
  BY <1>2 DEF TimeInv, HeldInv
<1>4. \A k \in Class, a \in Address : \A t0, t1 : AdmittedIn(k, a, t0, t1) = {}
  BY <1>2 DEF AdmittedIn
<1>5. \A k \in Class, a \in Address : limiters[k][a] = Nil
  BY DEF Init
<1>6. StoredInv
  BY <1>4, <1>5 DEF StoredInv
<1>7. AdmittedBounded
  <2> SUFFICES ASSUME NEW k \in Class, NEW a \in Address,
                      NEW t0 \in 0..MaxTicks, NEW t1 \in 0..MaxTicks, t0 <= t1
               PROVE  Cardinality(AdmittedIn(k, a, t0, t1)) <= Burst[k] + Limit[k] * (t1 - t0)
    BY DEF AdmittedBounded
  <2>1. Cardinality(AdmittedIn(k, a, t0, t1)) = 0
    BY <1>4, FS_EmptySet
  <2>2. Burst[k] \in Nat /\ Burst[k] + Limit[k] * (t1 - t0) >= Burst[k]
        /\ Burst[k] + Limit[k] * (t1 - t0) \in Int
    BY BoundsAreNumbers
  <2> QED
    BY <2>1, <2>2
<1> QED
  BY <1>1, <1>3, <1>6, <1>7 DEF LimiterInv

(* Steps that touch neither the limiters nor the clock: a request that has not *)
(* passed may take its address and path, and none comes to ask a limiter.      *)
LEMMA OtherStepsKeep ==
  ASSUME LimiterInv, ProcessInv', UNCHANGED <<now, limiters, tokens, admittedAt>>,
         \A r \in Request : pc'[r] = pc[r] \/ (pc'[r] \notin {"idle", "allow"}),
         \A r \in Request : pc'[r] = "load" => pc[r] \in {"idle", "load"},
         \A r \in Request : pc[r] # "idle" => path'[r] = path[r] /\ from'[r] = from[r],
         \A r \in Request : pc'[r] = "allow" => limiter'[r] = limiter[r]
  PROVE  LimiterInv'
<1> USE DEF LimiterInv
<1>1. TimeInv'
  BY DEF TimeInv
<1>2. \A k \in Class, a \in Address : \A t0, t1 :
        AdmittedIn(k, a, t0, t1)' = AdmittedIn(k, a, t0, t1)
  BY DEF AdmittedIn, TimeInv
<1>3. HeldInv'
  BY DEF HeldInv
<1>4. StoredInv'
  BY <1>2 DEF StoredInv, Passed, ProcessInv, Types
<1>5. AdmittedBounded'
  BY <1>2 DEF AdmittedBounded
<1> QED
  BY <1>1, <1>3, <1>4, <1>5

(* The first request of an address stores a full limiter.                      *)
LEMMA LoadKeeps ==
  ASSUME LimiterInv, ProcessInv', NEW r \in Request, LoadLimiter(r)
  PROVE  LimiterInv'
<1> DEFINE k == ClassOf(path[r])
           a == from[r]
<1>t. Types
  BY DEF LimiterInv, ProcessInv
<1>1. k \in Class /\ a \in Address
  BY <1>t DEF Types, ClassOf, Class
<1>2. /\ pc[r] = "load" /\ pc' = [pc EXCEPT ![r] = "allow"]
      /\ UNCHANGED <<now, from, path, admittedAt>>
  BY DEF LoadLimiter, Goto
<1>3. \A kk, aa, t0, t1 : AdmittedIn(kk, aa, t0, t1)' = AdmittedIn(kk, aa, t0, t1)
  BY <1>2 DEF AdmittedIn
<1>4. TimeInv'
  BY <1>t, <1>2 DEF TimeInv, LimiterInv, Types
<1>5. AdmittedBounded'
  BY <1>3 DEF AdmittedBounded, LimiterInv
<1>6. CASE limiters[k][a] # Nil
  <2>1. limiter' = [limiter EXCEPT ![r] = limiters[k][a]] /\ UNCHANGED <<limiters, tokens>>
    BY <1>6 DEF LoadLimiter
  <2>2. HeldInv'
    BY <1>t, <1>1, <1>2, <1>6, <2>1 DEF HeldInv, LimiterInv, Types
  <2>3. StoredInv'
    BY <1>t, <1>1, <1>2, <1>3, <2>1 DEF StoredInv, LimiterInv, Passed, Types
  <2> QED
    BY <1>4, <1>5, <2>2, <2>3 DEF LimiterInv
<1>7. CASE limiters[k][a] = Nil
  <2>1. /\ limiters' = [limiters EXCEPT ![k][a] = r]
        /\ tokens' = [tokens EXCEPT ![r] = Burst[k]]
        /\ limiter' = [limiter EXCEPT ![r] = r]
    BY <1>7 DEF LoadLimiter
  <2>2. \A kk \in Class, aa \in Address :
          limiters'[kk][aa] = IF kk = k /\ aa = a THEN r ELSE limiters[kk][aa]
    BY <1>t, <1>1, <2>1 DEF Types
  <2>3. HeldInv'
    <3> SUFFICES ASSUME NEW q \in Request, pc'[q] = "allow"
                 PROVE  /\ limiter'[q] # Nil
                        /\ limiter'[q] = limiters'[ClassOf(path'[q])][from'[q]]
      BY DEF HeldInv
    <3>1. ClassOf(path[q]) \in Class /\ from[q] \in Address
      BY <1>t DEF Types, ClassOf, Class
    <3>2. CASE q = r
      BY <3>1, <3>2, <2>1, <2>2, <1>1, <1>2, <1>t DEF Types
    <3>3. CASE q # r
      <4>1. pc[q] = "allow" /\ limiter'[q] = limiter[q]
        BY <3>3, <1>2, <2>1, <1>t DEF Types
      <4>2. limiter[q] # Nil /\ limiter[q] = limiters[ClassOf(path[q])][from[q]]
        BY <4>1 DEF HeldInv, LimiterInv
      <4>3. ~(ClassOf(path[q]) = k /\ from[q] = a)
        BY <4>2, <1>7
      <4> QED
        BY <3>1, <4>1, <4>2, <4>3, <2>2, <1>2
    <3> QED
      BY <3>2, <3>3
  <2>4. StoredInv'
    <3> SUFFICES ASSUME NEW kk \in Class, NEW aa \in Address
                 PROVE  IF limiters'[kk][aa] = Nil
                        THEN \A t0 \in 0..MaxTicks : AdmittedIn(kk, aa, t0, now)' = {}
                        ELSE LET t == limiters'[kk][aa] IN
                             /\ ClassOf(path'[t]) = kk /\ from'[t] = aa
                             /\ pc'[t] \notin {"idle", "load"}
                             /\ tokens'[t] <= Burst[kk]
                             /\ \A t0 \in 0..now' :
                                  Passed(kk, aa, t0)' + tokens'[t]
                                    <= Burst[kk] + Limit[kk] * (now' - t0)
      BY DEF StoredInv
    <3>1. CASE kk = k /\ aa = a
      <4>1. limiters'[kk][aa] = r /\ tokens'[r] = Burst[kk]
        BY <3>1, <2>1, <2>2, <1>t DEF Types
      <4>2. \A t0 \in 0..MaxTicks : AdmittedIn(kk, aa, t0, now) = {}
        BY <3>1, <1>7 DEF LimiterInv, StoredInv
      <4>3. \A t0 \in 0..now' : t0 \in 0..MaxTicks /\ t0 \in Int /\ t0 <= now' /\ now' \in Int
        BY <1>2, <1>t DEF Types
      <4>4. \A t0 \in 0..now' : Passed(kk, aa, t0)' = 0
        <5>1. \A t0 \in 0..now' : AdmittedIn(kk, aa, t0, now) = {}
          BY <4>2, <4>3
        <5>2. \A t0 : Passed(kk, aa, t0)' = Passed(kk, aa, t0)
          BY <1>2, <1>3 DEF Passed
        <5> QED
          BY <5>1, <5>2, FS_EmptySet DEF Passed
      <4>5. ASSUME NEW t0 \in 0..now'
            PROVE  0 + Burst[kk] <= Burst[kk] + Limit[kk] * (now' - t0)
        <5>1. t0 \in Int /\ now' \in Int /\ t0 <= now'
          BY <4>3
        <5>2. /\ Burst[kk] \in Nat /\ Burst[kk] + Limit[kk] * (now' - t0) \in Int
              /\ Burst[kk] + Limit[kk] * (now' - t0) >= Burst[kk]
          BY <5>1, BoundsAreNumbers
        <5> QED
          BY <5>2
      <4>6. Burst[kk] \in Nat
        OBVIOUS
      <4> QED
        BY <3>1, <4>1, <4>4, <4>5, <4>6, <1>2, <1>t DEF Types
    <3>2. CASE ~(kk = k /\ aa = a)
      <4>1. limiters'[kk][aa] = limiters[kk][aa]
        BY <3>2, <2>2
      <4>2. CASE limiters[kk][aa] = Nil
        BY <4>1, <4>2, <1>2, <1>3 DEF LimiterInv, StoredInv
      <4>3. CASE limiters[kk][aa] # Nil
        <5> DEFINE t == limiters[kk][aa]
        <5>1. /\ ClassOf(path[t]) = kk /\ from[t] = aa /\ pc[t] \notin {"idle", "load"}
              /\ tokens[t] <= Burst[kk]
              /\ \A t0 \in 0..now : Passed(kk, aa, t0) + tokens[t] <= Burst[kk] + Limit[kk] * (now - t0)
          BY <4>3 DEF LimiterInv, StoredInv
        <5>2. t \in Request /\ t # r
          BY <5>1, <4>3, <1>2, <1>t DEF Types
        <5>3. tokens'[t] = tokens[t] /\ pc'[t] = pc[t]
          BY <5>2, <2>1, <1>2, <1>t DEF Types
        <5>4. \A t0 : Passed(kk, aa, t0)' = Passed(kk, aa, t0)
          BY <1>2, <1>3 DEF Passed
        <5> QED
          BY <4>1, <4>3, <5>1, <5>3, <5>4, <1>2
      <4> QED
        BY <4>2, <4>3
    <3> QED
      BY <3>1, <3>2
  <2> QED
    BY <1>4, <1>5, <2>3, <2>4 DEF LimiterInv
<1> QED
  BY <1>6, <1>7 DEF LimiterInv

(* A request that passes costs its limiter a token, at the present moment.     *)
LEMMA AllowKeeps ==
  ASSUME LimiterInv, ProcessInv', NEW r \in Request, Allow(r)
  PROVE  LimiterInv'
<1> DEFINE k == ClassOf(path[r])
           a == from[r]
           l == limiters[k][a]
<1>t. Types /\ TimeInv
  BY DEF LimiterInv, ProcessInv
<1>1. k \in Class /\ a \in Address
  BY <1>t DEF Types, ClassOf, Class
<1>2. /\ pc[r] = "allow"
      /\ \E next \in {"answered", "redis", "pingRedis"} : pc' = [pc EXCEPT ![r] = next]
      /\ \A q \in Request : pc'[q] = IF q = r THEN pc'[r] ELSE pc[q]
      /\ pc'[r] \in {"answered", "redis", "pingRedis"}
      /\ UNCHANGED <<now, from, path, limiters>>
      /\ \A q \in Request : q # r => limiter'[q] = limiter[q]
  BY <1>t DEF Allow, Goto, Handler, Types
<1>3. l \in Request /\ limiter[r] = l
  BY <1>1, <1>2, <1>t DEF LimiterInv, HeldInv, Types
<1>4. HeldInv'
  BY <1>2 DEF HeldInv, LimiterInv
<1>5. CASE tokens[l] = 0
  <2>1. UNCHANGED <<tokens, admittedAt>>
    BY <1>3, <1>5 DEF Allow
  <2>2. \A kk, aa, t0, t1 : AdmittedIn(kk, aa, t0, t1)' = AdmittedIn(kk, aa, t0, t1)
    BY <1>2, <2>1 DEF AdmittedIn
  <2>3. TimeInv'
    BY <1>2, <1>t, <2>1 DEF TimeInv
  <2>4. StoredInv'
    BY <1>2, <1>t, <2>1, <2>2 DEF StoredInv, LimiterInv, Passed, Types
  <2>5. AdmittedBounded'
    BY <2>2 DEF AdmittedBounded, LimiterInv
  <2> QED
    BY <1>4, <2>3, <2>4, <2>5 DEF LimiterInv
<1>6. CASE tokens[l] # 0
  <2>1. /\ tokens' = [tokens EXCEPT ![l] = tokens[l] - 1]
        /\ admittedAt' = [admittedAt EXCEPT ![r] = now]
    BY <1>3, <1>6 DEF Allow
  <2>2. admittedAt[r] = Nil /\ now \in Nat /\ now \in 0..MaxTicks
    BY <1>2, <1>t DEF TimeInv, Types
  <2>3. \A q \in Request : admittedAt'[q] = IF q = r THEN now ELSE admittedAt[q]
    BY <2>1, <1>t DEF Types
  <2>4. TimeInv'
    BY <1>2, <1>t, <2>2, <2>3 DEF TimeInv
  <2>5. \A kk \in Class, aa \in Address : \A t0, t1 :
          ~(kk = k /\ aa = a) \/ now \notin t0..t1 =>
            AdmittedIn(kk, aa, t0, t1)' = AdmittedIn(kk, aa, t0, t1)
    BY <1>2, <2>2, <2>3 DEF AdmittedIn
  <2>6. \A t0, t1 : now \in t0..t1 =>
          /\ AdmittedIn(k, a, t0, t1)' = AdmittedIn(k, a, t0, t1) \cup {r}
          /\ r \notin AdmittedIn(k, a, t0, t1)
    BY <1>2, <2>2, <2>3 DEF AdmittedIn
  <2>7. \A t0, t1 : now \in t0..t1 =>
          Cardinality(AdmittedIn(k, a, t0, t1)') = Cardinality(AdmittedIn(k, a, t0, t1)) + 1
    BY <2>6, AdmittedFinite, FS_AddElement
  <2>8. /\ pc[l] \notin {"idle", "load"} /\ tokens[l] \in Nat /\ tokens[l] <= Burst[k]
        /\ ClassOf(path[l]) = k /\ from[l] = a
        /\ \A t0 \in 0..now : Passed(k, a, t0) + tokens[l] <= Burst[k] + Limit[k] * (now - t0)
    BY <1>1, <1>3, <1>t DEF LimiterInv, StoredInv, Types
  <2>9. \A t0 \in 0..now :
          Passed(k, a, t0)' + tokens'[l] <= Burst[k] + Limit[k] * (now' - t0)
    <3> SUFFICES ASSUME NEW t0 \in 0..now
                 PROVE  Passed(k, a, t0)' + tokens'[l] <= Burst[k] + Limit[k] * (now' - t0)
      OBVIOUS
    <3>1. now \in t0..now
      BY <2>2
    <3>2. Passed(k, a, t0)' = Passed(k, a, t0) + 1
      BY <1>2, <2>7, <3>1 DEF Passed
    <3>3. Passed(k, a, t0) \in Nat
      BY AdmittedFinite DEF Passed
    <3>4. tokens'[l] = tokens[l] - 1
      BY <1>3, <2>1, <1>t DEF Types
    <3>5. Passed(k, a, t0)' + tokens'[l] = Passed(k, a, t0) + tokens[l]
      BY <2>8, <3>2, <3>3, <3>4
    <3> QED
      BY <2>8, <3>5, <1>2
  <2>10. StoredInv'
    <3> SUFFICES ASSUME NEW kk \in Class, NEW aa \in Address
                 PROVE  IF limiters'[kk][aa] = Nil
                        THEN \A t0 \in 0..MaxTicks : AdmittedIn(kk, aa, t0, now)' = {}
                        ELSE LET t == limiters'[kk][aa] IN
                             /\ ClassOf(path'[t]) = kk /\ from'[t] = aa
                             /\ pc'[t] \notin {"idle", "load"}
                             /\ tokens'[t] <= Burst[kk]
                             /\ \A t0 \in 0..now' :
                                  Passed(kk, aa, t0)' + tokens'[t]
                                    <= Burst[kk] + Limit[kk] * (now' - t0)
      BY DEF StoredInv
    <3>1. CASE kk = k /\ aa = a
      <4>1. tokens'[l] = tokens[l] - 1 /\ tokens'[l] <= Burst[k]
        BY <1>1, <1>3, <2>1, <2>8, <1>t DEF Types
      <4>2. pc'[l] \notin {"idle", "load"}
        BY <1>2, <1>3, <2>8
      <4>3. l # Nil
        BY <1>3
      <4> QED
        BY <3>1, <4>1, <4>2, <4>3, <2>8, <2>9, <1>2
    <3>2. CASE ~(kk = k /\ aa = a)
      <4>1. \A t0 : AdmittedIn(kk, aa, t0, now)' = AdmittedIn(kk, aa, t0, now)
        BY <3>2, <2>5, <1>2
      <4>2. CASE limiters[kk][aa] = Nil
        BY <4>1, <4>2, <1>2 DEF LimiterInv, StoredInv
      <4>3. CASE limiters[kk][aa] # Nil
        <5> DEFINE t == limiters[kk][aa]
        <5>1. /\ ClassOf(path[t]) = kk /\ from[t] = aa /\ pc[t] \notin {"idle", "load"}
              /\ tokens[t] <= Burst[kk]
              /\ \A t0 \in 0..now : Passed(kk, aa, t0) + tokens[t] <= Burst[kk] + Limit[kk] * (now - t0)
          BY <4>3 DEF LimiterInv, StoredInv
        <5>2. t \in Request /\ t # l
          BY <3>2, <4>3, <5>1, <2>8, <1>t DEF Types
        <5>3. tokens'[t] = tokens[t] /\ pc'[t] \notin {"idle", "load"}
          BY <5>1, <5>2, <2>1, <1>2, <1>t DEF Types
        <5>4. \A t0 : Passed(kk, aa, t0)' = Passed(kk, aa, t0)
          BY <4>1 DEF Passed
        <5> QED
          BY <4>3, <5>1, <5>3, <5>4, <1>2
      <4> QED
        BY <4>2, <4>3
    <3> QED
      BY <3>1, <3>2
  <2>11. AdmittedBounded'
    <3> SUFFICES ASSUME NEW kk \in Class, NEW aa \in Address,
                        NEW t0 \in 0..MaxTicks, NEW t1 \in 0..MaxTicks, t0 <= t1
                 PROVE  Cardinality(AdmittedIn(kk, aa, t0, t1)') <= Burst[kk] + Limit[kk] * (t1 - t0)
      BY DEF AdmittedBounded
    <3>1. CASE ~(kk = k /\ aa = a) \/ now \notin t0..t1
      BY <3>1, <2>5 DEF AdmittedBounded, LimiterInv
    <3>2. CASE kk = k /\ aa = a /\ now \in t0..t1
      <4>1. t0 \in 0..now /\ now <= t1 /\ t0 \in Int /\ t1 \in Int /\ now \in Int
        BY <3>2, <2>2
      <4>2. AdmittedIn(k, a, t0, t1)' = AdmittedIn(k, a, t0, now)'
        <5>1. \A q \in Request : admittedAt'[q] # Nil => admittedAt'[q] \in 0..now
          BY <2>4, <1>2 DEF TimeInv
        <5> QED
          BY <5>1, <4>1, <1>2 DEF AdmittedIn
      <4>3. Cardinality(AdmittedIn(k, a, t0, t1)') = Passed(k, a, t0)'
        BY <4>2 DEF Passed
      <4>4. tokens'[l] \in Nat /\ Passed(k, a, t0)' \in Nat
        <5>1. tokens'[l] = tokens[l] - 1 /\ tokens[l] \in Nat \ {0}
          BY <1>3, <1>6, <2>1, <2>8, <1>t DEF Types
        <5>2. Cardinality(AdmittedIn(k, a, t0, now)') \in Nat
          BY <4>1, <2>2, <2>7, AdmittedFinite, <1>2
        <5> QED
          BY <5>1, <5>2 DEF Passed
      <4>5. Limit[k] * (now - t0) <= Limit[k] * (t1 - t0)
        <5>1. Limit[k] \in Nat /\ now - t0 \in Nat /\ t1 - t0 \in Nat /\ now - t0 <= t1 - t0
          BY <1>1, <4>1
        <5>2. \A p, x, y \in Nat : x <= y => p * x <= p * y
          OBVIOUS
        <5> QED
          BY <5>1, <5>2
      <4>6. Burst[k] + Limit[k] * (now - t0) \in Int /\ Burst[k] + Limit[k] * (t1 - t0) \in Int
            /\ Limit[k] * (now - t0) \in Int /\ Limit[k] * (t1 - t0) \in Int /\ Burst[k] \in Int
        BY <1>1, <4>1, BoundsAreNumbers
      <4>7. Passed(k, a, t0)' + tokens'[l] <= Burst[k] + Limit[k] * (now - t0)
        BY <2>9, <4>1, <1>2
      <4>8. Passed(k, a, t0)' <= Burst[k] + Limit[k] * (t1 - t0)
        <5>1. \A p, t \in Nat, b, x, y \in Int :
                p + t <= b + x /\ x <= y => p <= b + y
          OBVIOUS
        <5> DEFINE p == Passed(k, a, t0)'
                   t == tokens'[l]
                   b == Burst[k]
                   x == Limit[k] * (now - t0)
                   y == Limit[k] * (t1 - t0)
        <5>2. p \in Nat /\ t \in Nat /\ b \in Int /\ x \in Int /\ y \in Int
              /\ p + t <= b + x /\ x <= y
          BY <4>4, <4>5, <4>6, <4>7
        <5> HIDE DEF p, t, b, x, y
        <5>3. p <= b + y
          BY <5>1, <5>2
        <5> QED
          BY <5>3 DEF p, b, y
      <4> QED
        BY <3>2, <4>3, <4>8, <1>2
    <3> QED
      BY <3>1, <3>2
  <2> QED
    BY <1>4, <2>4, <2>10, <2>11 DEF LimiterInv
<1> QED
  BY <1>5, <1>6

(* A tick gives a limiter its rate, and a window one more tick of it.          *)
LEMMA TickKeeps ==
  ASSUME LimiterInv, ProcessInv', Tick
  PROVE  LimiterInv'
<1>t. Types /\ TimeInv
  BY DEF LimiterInv, ProcessInv
<1>1. /\ now' = now + 1 /\ now \in Nat /\ now' \in 0..MaxTicks
      /\ UNCHANGED <<pc, from, path, limiters, limiter, admittedAt>>
  BY <1>t DEF Tick, Types
<1>2. \A kk, aa, t0, t1 : AdmittedIn(kk, aa, t0, t1)' = AdmittedIn(kk, aa, t0, t1)
  BY <1>1 DEF AdmittedIn
<1>3. TimeInv'
  BY <1>1, <1>t DEF TimeInv
<1>4. HeldInv'
  BY <1>1 DEF HeldInv, LimiterInv
<1>5. AdmittedBounded'
  BY <1>2 DEF AdmittedBounded, LimiterInv
<1>6. \A kk, aa, t0 : AdmittedIn(kk, aa, t0, now + 1) = AdmittedIn(kk, aa, t0, now)
  BY <1>1, <1>t DEF AdmittedIn, TimeInv
<1>7. \A kk, aa : AdmittedIn(kk, aa, now + 1, now + 1) = {}
  BY <1>1, <1>t DEF AdmittedIn, TimeInv
<1>8. StoredInv'
  <2> SUFFICES ASSUME NEW kk \in Class, NEW aa \in Address
               PROVE  IF limiters'[kk][aa] = Nil
                      THEN \A t0 \in 0..MaxTicks : AdmittedIn(kk, aa, t0, now)' = {}
                      ELSE LET t == limiters'[kk][aa] IN
                           /\ ClassOf(path'[t]) = kk /\ from'[t] = aa
                           /\ pc'[t] \notin {"idle", "load"}
                           /\ tokens'[t] <= Burst[kk]
                           /\ \A t0 \in 0..now' :
                                Passed(kk, aa, t0)' + tokens'[t]
                                  <= Burst[kk] + Limit[kk] * (now' - t0)
    BY DEF StoredInv
  <2>1. CASE limiters[kk][aa] = Nil
    BY <2>1, <1>1, <1>2, <1>6 DEF LimiterInv, StoredInv
  <2>2. CASE limiters[kk][aa] # Nil
    <3> DEFINE t == limiters[kk][aa]
    <3>1. /\ ClassOf(path[t]) = kk /\ from[t] = aa /\ pc[t] \notin {"idle", "load"}
          /\ tokens[t] <= Burst[kk]
          /\ \A t0 \in 0..now : Passed(kk, aa, t0) + tokens[t] <= Burst[kk] + Limit[kk] * (now - t0)
      BY <2>2 DEF LimiterInv, StoredInv
    <3>2. t \in Request /\ tokens[t] \in Nat /\ Burst[kk] \in Nat /\ Limit[kk] \in Nat
      BY <2>2, <1>t DEF Types
    <3>3. tokens'[t] = IF tokens[t] + Limit[kk] > Burst[kk] THEN Burst[kk] ELSE tokens[t] + Limit[kk]
      BY <3>1, <3>2 DEF Tick
    <3>4. tokens'[t] \in Nat /\ tokens'[t] <= Burst[kk] /\ tokens'[t] <= tokens[t] + Limit[kk]
      BY <3>2, <3>3
    <3>5. ASSUME NEW t0 \in 0..now'
          PROVE  Passed(kk, aa, t0)' + tokens'[t] <= Burst[kk] + Limit[kk] * (now' - t0)
      <4>1. CASE t0 = now + 1
        <5>1. Passed(kk, aa, t0)' = 0
          BY <4>1, <1>1, <1>2, <1>7, FS_EmptySet DEF Passed
        <5>2. Burst[kk] + Limit[kk] * (now' - t0) >= Burst[kk]
              /\ Burst[kk] + Limit[kk] * (now' - t0) \in Int
          BY <4>1, <1>1, BoundsAreNumbers
        <5> QED
          BY <5>1, <5>2, <3>2, <3>4
      <4>2. CASE t0 \in 0..now
        <5>1. Passed(kk, aa, t0)' = Passed(kk, aa, t0)
          BY <1>1, <1>2, <1>6 DEF Passed
        <5>2. Passed(kk, aa, t0) \in Nat
          BY AdmittedFinite DEF Passed
        <5>3. Passed(kk, aa, t0) + tokens[t] <= Burst[kk] + Limit[kk] * (now - t0)
          BY <4>2, <3>1
        <5>4. Limit[kk] * (now' - t0) = Limit[kk] * (now - t0) + Limit[kk]
              /\ Limit[kk] * (now - t0) \in Int
          <6>1. t0 \in Int /\ now \in Int
            BY <1>1
          <6>2. Limit[kk] * (now + 1 - t0) = Limit[kk] * (now - t0) + Limit[kk]
            BY <6>1, BoundsAreNumbers
          <6>3. \A l \in Nat, n \in Int : l * n \in Int
            OBVIOUS
          <6> QED
            BY <6>1, <6>2, <6>3, <3>2, <1>1
        <5> HIDE DEF t
        <5> QED
          BY <5>1, <5>2, <5>3, <5>4, <3>2, <3>4
      <4> QED
        BY <4>1, <4>2, <1>1
    <3> QED
      BY <2>2, <3>1, <3>4, <3>5, <1>1
  <2> QED
    BY <2>1, <2>2
<1> QED
  BY <1>3, <1>4, <1>5, <1>8 DEF LimiterInv

(* A new process has no limiter, and has let nothing pass.                     *)
LEMMA RestartKeeps ==
  ASSUME LimiterInv, ProcessInv', Restart
  PROVE  LimiterInv'
<1>1. \A k \in Class, a \in Address : limiters'[k][a] = Nil
  BY DEF Restart
<1>2. \A r \in Request : admittedAt'[r] = Nil /\ pc'[r] = pc[r] /\ ~Active(r)
  BY DEF Restart, LimiterInv, ProcessInv, PhaseInv, Ended
<1>3. \A k, a, t0, t1 : AdmittedIn(k, a, t0, t1)' = {}
  BY <1>2 DEF AdmittedIn
<1>4. TimeInv' /\ HeldInv'
  BY <1>2 DEF TimeInv, HeldInv, Active
<1>5. StoredInv'
  BY <1>1, <1>3 DEF StoredInv
<1>6. AdmittedBounded'
  <2> SUFFICES ASSUME NEW k \in Class, NEW a \in Address,
                      NEW t0 \in 0..MaxTicks, NEW t1 \in 0..MaxTicks, t0 <= t1
               PROVE  Cardinality(AdmittedIn(k, a, t0, t1)') <= Burst[k] + Limit[k] * (t1 - t0)
    BY DEF AdmittedBounded
  <2>1. Cardinality(AdmittedIn(k, a, t0, t1)') = 0
    BY <1>3, FS_EmptySet
  <2>2. Burst[k] \in Nat /\ Burst[k] + Limit[k] * (t1 - t0) >= Burst[k]
        /\ Burst[k] + Limit[k] * (t1 - t0) \in Int
    BY BoundsAreNumbers
  <2> QED
    BY <2>1, <2>2
<1> QED
  BY <1>4, <1>5, <1>6 DEF LimiterInv

LEMMA LimiterStep == LimiterInv /\ [Next]_vars => LimiterInv'
<1> SUFFICES ASSUME LimiterInv, [Next]_vars PROVE LimiterInv'
  OBVIOUS
<1>1. ProcessInv'
  BY ProcessStep DEF LimiterInv
<1>t. Types
  BY DEF LimiterInv, ProcessInv
<1>2. CASE \E r \in Request : Serve(r)
  <2> PICK r \in Request : Serve(r)
    BY <1>2
  <2>1. CASE LoadLimiter(r)
    BY <2>1, <1>1, LoadKeeps
  <2>2. CASE Allow(r)
    BY <2>2, <1>1, AllowKeeps
  <2>3. CASE Arrive(r)
    <3>1. UNCHANGED <<now, limiters, tokens, admittedAt, limiter>> /\ pc[r] = "idle"
      BY <2>3 DEF Arrive, limiterVars
    <3>2. \A q \in Request : q # r => pc'[q] = pc[q] /\ path'[q] = path[q] /\ from'[q] = from[q]
      BY <2>3, <1>t DEF Arrive, Goto, Types
    <3>3. pc'[r] \in {"answered", "load"}
      BY <2>3, <1>t DEF Arrive, Goto, Types
    <3> QED
      BY <3>1, <3>2, <3>3, <1>1, OtherStepsKeep
  <2>4. CASE CallRedis(r) \/ CallRedisAgain(r) \/ Health(r)
    <3>1. UNCHANGED <<now, limiters, tokens, admittedAt, limiter, path, from>>
      BY <2>4 DEF CallRedis, CallRedisAgain, Health, limiterVars
    <3>2. /\ \A q \in Request : q # r => pc'[q] = pc[q]
          /\ pc'[r] \notin {"idle", "load", "allow"}
      BY <2>4, <1>t DEF CallRedis, CallRedisAgain, Health, Goto, Types
    <3> QED
      BY <3>1, <3>2, <1>1, OtherStepsKeep
  <2> QED
    BY <2>1, <2>2, <2>3, <2>4 DEF Serve
<1>3. CASE Tick
  BY <1>3, <1>1, TickKeeps
<1>4. CASE Restart
  BY <1>4, <1>1, RestartKeeps
<1>5. CASE \E how \in Ended : End(how)
  <2>1. UNCHANGED <<now, limiters, tokens, admittedAt, limiter, path, from>>
    BY <1>5 DEF End, limiterVars
  <2>2. \A r \in Request : pc'[r] = pc[r] \/ pc'[r] = "cut"
    BY <1>5 DEF End
  <2> QED
    BY <2>1, <2>2, <1>1, OtherStepsKeep
<1>6. CASE UNCHANGED <<now, requestVars>>
  BY <1>6, <1>1, OtherStepsKeep DEF requestVars, limiterVars
<1> QED
  BY <1>2, <1>3, <1>4, <1>5, <1>6
  DEF Next, Boot, Stop, Environment, vars, Connect, InitializeSchema, Listen, Fatal, Drained,
      CloseTimescale, CloseRedis, Deadline, ServersChange, Migrate, Signal, Killed,
      ListenFails, Ended

(* A process lets at most its burst and its rate times the stretch of time     *)
(* pass, of each address and class (main.go:127-146).                          *)
THEOREM LimitersBoundWhatPasses == Spec => []AdmittedBounded
<1>1. LimiterInv => AdmittedBounded
  BY DEF LimiterInv
<1> QED
  BY <1>1, LimiterInit, LimiterStep, PTL DEF Spec

-------------------------------------------------------------------------------
(* The refinement. *)

(* A limiter that is stored is asked by the requests of its address and class  *)
(* alone, and a request is numbered among those that passed by its own address *)
(* and class.                                                                  *)
LEMMA BucketFacts ==
  ASSUME LimiterInv
  PROVE  /\ Bucket \in [Class -> [Address -> Nat]]
         /\ \A k \in Class, a \in Address : limiters[k][a] \in Request \cup {Nil}
         /\ \A k \in Class, a \in Address : limiters[k][a] # Nil =>
              ClassOf(path[limiters[k][a]]) = k /\ from[limiters[k][a]] = a
         /\ \A r \in Request : ClassOf(path[r]) \in Class /\ from[r] \in Address
<1>t. Types
  BY DEF LimiterInv, ProcessInv
<1>1. \A k \in Class, a \in Address : limiters[k][a] \in Request \cup {Nil}
  BY <1>t DEF Types
<1>2. \A k \in Class, a \in Address :
        (IF limiters[k][a] = Nil THEN Burst[k] ELSE tokens[limiters[k][a]]) \in Nat
  BY <1>t, <1>1 DEF Types
<1>3. Bucket \in [Class -> [Address -> Nat]]
  BY <1>2 DEF Bucket
<1>4. \A r \in Request : ClassOf(path[r]) \in Class /\ from[r] \in Address
  BY <1>t DEF Types, ClassOf, Class
<1> QED
  BY <1>1, <1>3, <1>4 DEF LimiterInv, StoredInv

(* A step that leaves the stored limiters, their tokens and the admissions     *)
(* alone is none of the abstract limiter.                                      *)
LEMMA BucketsKept ==
  ASSUME LimiterInv, UNCHANGED <<limiters, tokens, admittedAt>>,
         \A r \in Request : pc[r] # "idle" => path'[r] = path[r] /\ from'[r] = from[r]
  PROVE  UNCHANGED Limiter!vars
<1>1. Bucket' = Bucket
  BY DEF Bucket
<1>2. \A r \in Request : admittedAt[r] # Nil => PassedOf(r)' = PassedOf(r)
  BY DEF PassedOf, LimiterInv, TimeInv
<1>3. Passes' = Passes
  BY <1>2 DEF Passes
<1> QED
  BY <1>1, <1>3 DEF Limiter!vars

(* To store a full limiter changes no bucket: until then it counted as full.   *)
LEMMA LoadStutters ==
  ASSUME LimiterInv, NEW r \in Request, LoadLimiter(r)
  PROVE  UNCHANGED Limiter!vars
<1> DEFINE k == ClassOf(path[r])
           a == from[r]
<1>t. Types
  BY DEF LimiterInv, ProcessInv
<1>1. k \in Class /\ a \in Address /\ pc[r] = "load"
  BY BucketFacts DEF LoadLimiter
<1>2. CASE limiters[k][a] # Nil
  BY <1>2, BucketsKept DEF LoadLimiter
<1>3. CASE limiters[k][a] = Nil
  <2>1. /\ limiters' = [limiters EXCEPT ![k][a] = r]
        /\ tokens' = [tokens EXCEPT ![r] = Burst[k]]
        /\ UNCHANGED <<from, path, admittedAt>>
    BY <1>3 DEF LoadLimiter
  <2>2. Passes' = Passes
    BY <2>1 DEF Passes, PassedOf
  <2>3. ASSUME NEW kk \in Class, NEW aa \in Address
        PROVE  Bucket'[kk][aa] = Bucket[kk][aa]
    <3>1. limiters'[kk][aa] = IF kk = k /\ aa = a THEN r ELSE limiters[kk][aa]
      BY <2>1, <1>1, <1>t DEF Types
    <3>2. CASE kk = k /\ aa = a
      BY <3>1, <3>2, <2>1, <1>3, <1>t DEF Bucket, Types
    <3>3. CASE ~(kk = k /\ aa = a)
      <4>1. limiters[kk][aa] # Nil => limiters[kk][aa] # r
        BY <1>1 DEF LimiterInv, StoredInv
      <4> QED
        BY <3>1, <3>3, <4>1, <2>1, <1>t DEF Bucket, Types
    <3> QED
      BY <3>2, <3>3
  <2>4. Bucket' = Bucket
    BY <2>3 DEF Bucket
  <2> QED
    BY <2>2, <2>4 DEF Limiter!vars
<1> QED
  BY <1>2, <1>3

(* When a change of one entry is what makes one table of two keys another.      *)
LEMMA OneEntryChanges ==
  ASSUME NEW D, NEW E, NEW f, NEW g, NEW x \in D, NEW y \in E, NEW v,
         f = [d \in D |-> [e \in E |-> f[d][e]]],
         g = [d \in D |-> [e \in E |-> g[d][e]]],
         \A d \in D, e \in E : g[d][e] = IF d = x /\ e = y THEN v ELSE f[d][e]
  PROVE  g = [f EXCEPT ![x][y] = v]
<1>1. \A d \in D : f[d] = [e \in E |-> f[d][e]]
  BY Zenon
<1>2. \A d \in D : g[d] = [e \in E |-> g[d][e]]
  BY Zenon
<1> DEFINE h == [f EXCEPT ![x][y] = v]
<1>3. \A d \in D : g[d] = h[d]
  <2>1. ASSUME NEW d \in D, d # x PROVE g[d] = h[d]
    <3>1. h[d] = f[d]
      BY <2>1
    <3>2. \A e \in E : g[d][e] = f[d][e]
      BY <2>1
    <3> QED
      BY <1>1, <1>2, <3>1, <3>2
  <2>2. g[x] = h[x]
    <3>1. h[x] = [f[x] EXCEPT ![y] = v]
      BY x \in DOMAIN f
    <3>2. h[x] = [e \in E |-> IF e = y THEN v ELSE f[x][e]]
      BY <1>1, <3>1
    <3>3. g[x] = [e \in E |-> IF e = y THEN v ELSE f[x][e]]
      BY <1>2
    <3> QED
      BY <3>2, <3>3
  <2> QED
    BY <2>1, <2>2
<1>4. DOMAIN f = D /\ DOMAIN g = D
  OBVIOUS
<1>5. h = [d \in D |-> h[d]]
  BY <1>4
<1> HIDE DEF h
<1>6. g = h
  BY <1>3, <1>4, <1>5
<1> QED
  BY <1>6 DEF h

(* What passes pays one token of the bucket of its class and address.          *)
LEMMA AllowPasses ==
  ASSUME LimiterInv, NEW r \in Request, Allow(r)
  PROVE  [Limiter!Next]_Limiter!vars
<1> DEFINE k == ClassOf(path[r])
           a == from[r]
           l == limiters[k][a]
<1>t. Types
  BY DEF LimiterInv, ProcessInv
<1>1. k \in Class /\ a \in Address /\ pc[r] = "allow"
  BY BucketFacts DEF Allow
<1>2. l \in Request /\ limiter[r] = l /\ UNCHANGED <<from, path, limiters>>
  BY <1>1, BucketFacts DEF LimiterInv, HeldInv, Allow
<1>3. CASE tokens[l] = 0
  BY <1>2, <1>3, BucketsKept DEF Allow
<1>4. CASE tokens[l] # 0
  <2>1. /\ tokens' = [tokens EXCEPT ![l] = tokens[l] - 1]
        /\ admittedAt' = [admittedAt EXCEPT ![r] = now]
    BY <1>2, <1>4 DEF Allow
  <2>2. Bucket[k][a] = tokens[l] /\ tokens[l] > 0
    BY <1>1, <1>2, <1>4, <1>t DEF Bucket, Types
  <2>3. PassedOf(r) \notin Passes
    BY <1>1 DEF Passes, PassedOf, LimiterInv, TimeInv
  <2>4. Passes' = Passes \cup {<<r, k, a>>}
    <3>1. {q \in Request : admittedAt'[q] # Nil} = {q \in Request : admittedAt[q] # Nil} \cup {r}
      BY <2>1, <1>t DEF Types
    <3>2. \A q : PassedOf(q)' = PassedOf(q)
      BY <1>2 DEF PassedOf
    <3> QED
      BY <3>1, <3>2 DEF Passes, PassedOf
  <2>5. ASSUME NEW kk \in Class, NEW aa \in Address
        PROVE  Bucket'[kk][aa] = IF kk = k /\ aa = a THEN Bucket[k][a] - 1 ELSE Bucket[kk][aa]
    <3>1. CASE kk = k /\ aa = a
      BY <3>1, <1>2, <2>1, <2>2, <1>t DEF Bucket, Types
    <3>2. CASE ~(kk = k /\ aa = a)
      <4>1. limiters[kk][aa] # Nil => limiters[kk][aa] # l
        BY <3>2, <1>1, <1>2, BucketFacts
      <4>2. limiters[kk][aa] # Nil => tokens'[limiters[kk][aa]] = tokens[limiters[kk][aa]]
        BY <4>1, <2>1, <1>t DEF Types
      <4> QED
        BY <3>2, <4>2, <1>2 DEF Bucket
    <3> QED
      BY <3>1, <3>2
  <2>6. Bucket' = [Bucket EXCEPT ![k][a] = Bucket[k][a] - 1]
    <3>1. Bucket = [kk \in Class |-> [aa \in Address |-> Bucket[kk][aa]]]
      BY DEF Bucket
    <3>2. Bucket' = [kk \in Class |-> [aa \in Address |-> Bucket'[kk][aa]]]
      BY DEF Bucket
    <3> HIDE DEF k, a
    <3> QED
      BY <2>5, <3>1, <3>2, <1>1, OneEntryChanges
  <2>7. Limiter!Pass(r, k, a)
    BY <1>1, <2>2, <2>3, <2>4, <2>6 DEF Limiter!Pass, PassedOf
  <2> QED
    BY <1>1, <2>7 DEF Limiter!Next
<1> QED
  BY <1>3, <1>4

LEMMA TickRefills ==
  ASSUME LimiterInv, Tick
  PROVE  Limiter!Refill
<1>t. Types
  BY DEF LimiterInv, ProcessInv
<1>1. Passes' = Passes
  BY DEF Tick, Passes, PassedOf
<1>2. ASSUME NEW k \in Class, NEW a \in Address
      PROVE  Bucket'[k][a] = IF Bucket[k][a] + Limit[k] > Burst[k]
                             THEN Burst[k] ELSE Bucket[k][a] + Limit[k]
  <2>1. CASE limiters[k][a] = Nil
    BY <2>1 DEF Tick, Bucket
  <2>2. CASE limiters[k][a] # Nil
    <3> DEFINE t == limiters[k][a]
    <3>1. t \in Request /\ ClassOf(path[t]) = k
      BY <2>2, BucketFacts
    <3>2. tokens'[t] = IF tokens[t] + Limit[k] > Burst[k] THEN Burst[k] ELSE tokens[t] + Limit[k]
      BY <3>1 DEF Tick
    <3> QED
      BY <2>2, <3>2 DEF Tick, Bucket
  <2> QED
    BY <2>1, <2>2
<1>3. Bucket' = [k \in Class |-> [a \in Address |->
        IF Bucket[k][a] + Limit[k] > Burst[k] THEN Burst[k] ELSE Bucket[k][a] + Limit[k]]]
  BY <1>2 DEF Bucket
<1> QED
  BY <1>1, <1>3 DEF Limiter!Refill

(* The limiters implement one bucket for each address and class: every step of *)
(* the process is a step of RateLimit or changes nothing it sees               *)
(* (main.go:116-148).                                                          *)
THEOREM LimitersImplementBuckets == Spec => ImplementsBuckets
<1>1. Init => Limiter!Init
  <2> SUFFICES ASSUME Init PROVE Limiter!Init
    OBVIOUS
  <2>1. Passes = {}
    BY DEF Init, Passes
  <2>2. Bucket = [k \in Class |-> [a \in Address |-> Burst[k]]]
    BY DEF Init, Bucket
  <2> QED
    BY <2>1, <2>2 DEF Limiter!Init, Limiter!Full
<1>2. LimiterInv /\ [Next]_vars => [Limiter!Next]_Limiter!vars
  <2> SUFFICES ASSUME LimiterInv, [Next]_vars PROVE [Limiter!Next]_Limiter!vars
    OBVIOUS
  <2>t. Types
    BY DEF LimiterInv, ProcessInv
  <2>1. CASE \E r \in Request : Serve(r)
    <3> PICK r \in Request : Serve(r)
      BY <2>1
    <3>1. CASE LoadLimiter(r)
      BY <3>1, LoadStutters
    <3>2. CASE Allow(r)
      BY <3>2, AllowPasses
    <3>3. CASE Arrive(r)
      <4>1. UNCHANGED <<limiters, tokens, admittedAt>> /\ pc[r] = "idle"
        BY <3>3 DEF Arrive, limiterVars
      <4>2. \A q \in Request : q # r => path'[q] = path[q] /\ from'[q] = from[q]
        BY <3>3, <2>t DEF Arrive, Types
      <4> QED
        BY <4>1, <4>2, BucketsKept
    <3>4. CASE CallRedis(r) \/ CallRedisAgain(r) \/ Health(r)
      BY <3>4, BucketsKept DEF CallRedis, CallRedisAgain, Health, limiterVars
    <3> QED
      BY <3>1, <3>2, <3>3, <3>4 DEF Serve
  <2>2. CASE Tick
    BY <2>2, TickRefills DEF Limiter!Next
  <2>3. CASE Restart
    <3>1. Passes' = {}
      BY <2>3 DEF Restart, Passes
    <3>2. Bucket' = [k \in Class |-> [a \in Address |-> Burst[k]]]
      BY <2>3 DEF Restart, Bucket
    <3> QED
      BY <3>1, <3>2 DEF Limiter!Next, Limiter!NewProcess, Limiter!Full
  <2>4. CASE \E how \in Ended : End(how)
    BY <2>4, BucketsKept DEF End, limiterVars
  <2>5. CASE UNCHANGED requestVars
    BY <2>5, BucketsKept DEF requestVars, limiterVars
  <2> QED
    BY <2>1, <2>2, <2>3, <2>4, <2>5
    DEF Next, Boot, Stop, Environment, vars, Connect, InitializeSchema, Listen, Fatal,
        Drained, CloseTimescale, CloseRedis, Deadline, ServersChange, Migrate, Signal,
        Killed, ListenFails, Ended
<1> QED
  BY <1>1, <1>2, LimiterInit, LimiterStep, PTL DEF Spec, ImplementsBuckets, Limiter!Spec

(* A request is turned away only when the bucket of its address and class is   *)
(* empty: no limiter made beside it, and no other address or class, costs it   *)
(* its place (main.go:131-145).                                                *)
THEOREM RefusedOnlyIfEmpty ==
  Spec => [][\A r \in Request :
               pc[r] = "allow" /\ pc'[r] = "answered" /\ admittedAt'[r] = Nil
                 => Bucket[ClassOf(path[r])][from[r]] = 0]_vars
<1> DEFINE Empty(r) == Bucket[ClassOf(path[r])][from[r]] = 0
           A == \A r \in Request :
                  pc[r] = "allow" /\ pc'[r] = "answered" /\ admittedAt'[r] = Nil => Empty(r)
<1>1. LimiterInv /\ [Next]_vars => [A]_vars
  <2> SUFFICES ASSUME LimiterInv, [Next]_vars, NEW r \in Request, pc[r] = "allow",
                      pc'[r] = "answered", admittedAt'[r] = Nil
               PROVE  Empty(r)
    OBVIOUS
  <2>t. Types
    BY DEF LimiterInv, ProcessInv
  <2>1. Allow(r)
    <3>1. CASE \E q \in Request : Serve(q)
      <4> PICK q \in Request : Serve(q)
        BY <3>1
      <4>1. \E next : pc' = [pc EXCEPT ![q] = next]
        BY DEF Serve, Arrive, LoadLimiter, Allow, CallRedis, CallRedisAgain, Health, Goto
      <4>2. q = r
        BY <4>1, <2>t DEF Types
      <4> QED
        BY <4>2 DEF Serve, Arrive, LoadLimiter, CallRedis, CallRedisAgain, Health
    <3>2. CASE \E how \in Ended : End(how)
      BY <3>2 DEF End
    <3>3. CASE UNCHANGED pc
      BY <3>3
    <3> QED
      BY <3>1, <3>2, <3>3
      DEF Next, Boot, Stop, Environment, vars, Connect, InitializeSchema, Listen, Fatal,
          Drained, CloseTimescale, CloseRedis, Deadline, ServersChange, Migrate, Signal,
          Killed, ListenFails, Ended, requestVars, Restart, Tick
  <2>2. ClassOf(path[r]) \in Class /\ from[r] \in Address
    BY BucketFacts
  <2>3. limiter[r] # Nil /\ limiter[r] = limiters[ClassOf(path[r])][from[r]]
    BY DEF LimiterInv, HeldInv
  <2>4. tokens[limiter[r]] = 0
    BY <2>1, <2>t DEF Allow, Types
  <2> QED
    BY <2>2, <2>3, <2>4 DEF Bucket
<1> HIDE DEF A
<1>2. Spec => [][A]_vars
  BY <1>1, LimiterInit, LimiterStep, PTL DEF Spec
<1> QED
  BY <1>2 DEF A

-------------------------------------------------------------------------------
(* Stopping and starting again *)

Stopping == {"draining", "closeTimescale", "closeRedis"}

(* How the phase may change in a step.                                         *)
LEMMA PhaseSteps ==
  ASSUME ProcessInv, [Next]_vars
  PROVE  /\ phase = "draining" => phase' \in {"draining", "closeTimescale", "failed"}
         /\ phase = "closeTimescale" => phase' \in {"closeTimescale", "closeRedis", "failed"}
         /\ phase = "closeRedis" => phase' \in {"closeRedis", "exited", "failed"}
<1> USE DEF Ended, Booting
<1>1. ASSUME NEW r \in Request, Serve(r) PROVE phase' = phase
  BY <1>1 DEF Serve, Arrive, LoadLimiter, Allow, CallRedis, CallRedisAgain, Health
<1>2. CASE Boot
  BY <1>2 DEF Boot, Connect, InitializeSchema, Listen, Restart, Fatal, End
<1>3. CASE Stop
  BY <1>3 DEF Stop, Drained, CloseTimescale, CloseRedis, Deadline, End
<1>4. CASE Environment
  BY <1>4 DEF Environment, Tick, ServersChange, Migrate, Signal, Killed, ListenFails, Fatal, End
<1> QED
  BY <1>1, <1>2, <1>3, <1>4 DEF Next, vars

(* Weak fairness of Stop, where its guard stands for ENABLED: main, while it   *)
(* stops, can always take one of the steps of Stop.                            *)
StopRuns == []<>(phase \notin Stopping) \/ []<><<Stop>>_vars

(* A shutdown that main and the timer carry out ends (main.go:316-321).        *)
THEOREM ShutdownsEnd == Spec /\ StopRuns => ShutdownEnds
<1> DEFINE Drains == phase = "draining"
           Closes == phase = "closeTimescale"
           Leaves == phase = "closeRedis"
           Over   == phase \in Ended
           Done   == phase \notin Stopping
           Works  == []<>Done \/ []<><<Stop>>_vars
<1>1. ProcessInv /\ [Next]_vars /\ Drains => Drains' \/ Closes' \/ Over'
  BY PhaseSteps DEF Ended
<1>2. ProcessInv /\ [Next]_vars /\ Closes => Closes' \/ Leaves' \/ Over'
  BY PhaseSteps DEF Ended
<1>3. ProcessInv /\ [Next]_vars /\ Leaves => Leaves' \/ Over'
  BY PhaseSteps DEF Ended
<1>4. <<Stop>>_vars => /\ Drains => ~Drains'
                       /\ Closes => ~Closes'
                       /\ Leaves => ~Leaves'
  BY DEF Stop, Drained, CloseTimescale, CloseRedis, Deadline, End
<1>5. Drains \/ Closes \/ Leaves => ~Done
  BY DEF Stopping
<1>6. StopRuns => Works
  BY DEF StopRuns
<1> HIDE DEF Drains, Closes, Leaves, Over, Done
<1>7. Spec /\ Works => (Drains ~> Over)
  BY <1>1, <1>2, <1>3, <1>4, <1>5, ProcessAlways, PTL DEF Spec
<1> QED
  BY <1>6, <1>7 DEF ShutdownEnds, Drains, Over

(* The same of Boot: until it serves, a process can take its next step.        *)
BootRuns == []<>(phase \notin Booting \cup Ended) \/ []<><<Boot>>_vars

(* No step but a restart leads from the end of a process to the next one, and  *)
(* while both servers answer every step of a start leads on.                   *)
LEMMA StartSteps ==
  ASSUME ProcessInv, [Next]_vars, up = Server, schema, faults' = faults
  PROVE  /\ phase \in Ended => phase' \in Ended \cup {"redis"}
         /\ phase = "redis" => phase' \in {"redis", "timescale"}
         /\ phase = "timescale" => phase' \in {"timescale", "schema"}
         /\ phase = "schema" => phase' \in {"schema", "listen"}
         /\ phase = "listen" => phase' \in {"listen", "serving"}
         /\ phase = "serving" => phase' = "serving"
<1> USE DEF Ended, Booting
<1>1. ASSUME NEW r \in Request, Serve(r) PROVE phase' = phase
  BY <1>1 DEF Serve, Arrive, LoadLimiter, Allow, CallRedis, CallRedisAgain, Health
<1>2. CASE Boot
  BY <1>2 DEF Boot, Connect, InitializeSchema, Listen, Restart, Fatal, End, Server
<1>3. CASE Stop
  BY <1>3 DEF Stop, Drained, CloseTimescale, CloseRedis, Deadline, End
<1>4. CASE Environment
  <2>1. faults \in Nat
    BY DEF ProcessInv, Types
  <2>2. ~Fault
    BY <2>1 DEF Fault
  <2> QED
    BY <1>4, <2>2 DEF Environment, Tick, ServersChange, Migrate, Signal, Killed, ListenFails
<1> QED
  BY <1>1, <1>2, <1>3, <1>4 DEF Next, vars

(* Once the servers answer for good and the schema is there, a backend that is *)
(* stopped and killed only finitely often comes to serve, and serves for good, *)
(* in whichever step of its start or of its shutdown they find it              *)
(* (main.go:44-59, docker-compose.yml:80).                                     *)
THEOREM ServesAfterOutages ==
  Spec /\ StopRuns /\ BootRuns /\ <>[][UNCHANGED faults]_vars => ServesAgain
<1> DEFINE Drains == phase = "draining"
           Closes == phase = "closeTimescale"
           Leaves == phase = "closeRedis"
           Over   == phase \in Ended
           P1     == phase = "redis"
           P2     == phase = "timescale"
           P3     == phase = "schema"
           P4     == phase = "listen"
           Serves == phase = "serving"
           Good   == up = Server /\ schema
           Quiet  == UNCHANGED faults
           Idle   == phase \notin Stopping
           Up     == phase \notin Booting \cup Ended
           StopWorks == []<>Idle \/ []<><<Stop>>_vars
           BootWorks == []<>Up \/ []<><<Boot>>_vars
<1>1. ProcessInv /\ [Next]_vars => /\ Drains => Drains' \/ Closes' \/ Over'
                                   /\ Closes => Closes' \/ Leaves' \/ Over'
                                   /\ Leaves => Leaves' \/ Over'
  BY PhaseSteps DEF Ended
<1>2. <<Stop>>_vars => /\ Drains => ~Drains'
                       /\ Closes => ~Closes'
                       /\ Leaves => ~Leaves'
  BY DEF Stop, Drained, CloseTimescale, CloseRedis, Deadline, End
<1>3. Drains \/ Closes \/ Leaves => ~Idle
  BY DEF Stopping
<1>4. ProcessInv /\ [Next]_vars /\ Good /\ [Quiet]_vars =>
        /\ Over => Over' \/ P1'
        /\ P1 => P1' \/ P2'
        /\ P2 => P2' \/ P3'
        /\ P3 => P3' \/ P4'
        /\ P4 => P4' \/ Serves'
        /\ Serves => Serves'
  BY StartSteps DEF vars
<1>5. <<Boot>>_vars /\ Good => /\ Over => ~Over'
                               /\ P1 => ~P1'
                               /\ P2 => ~P2'
                               /\ P3 => ~P3'
                               /\ P4 => ~P4'
  BY DEF Boot, Connect, InitializeSchema, Listen, Restart, Server, Ended
<1>6. Over \/ P1 \/ P2 \/ P3 \/ P4 => ~Up
  BY DEF Booting
<1>7. ProcessInv => Drains \/ Closes \/ Leaves \/ Over \/ P1 \/ P2 \/ P3 \/ P4 \/ Serves
  BY DEF ProcessInv, Types, Booting
<1>8. StopRuns /\ BootRuns => StopWorks /\ BootWorks
  BY DEF StopRuns, BootRuns
<1> HIDE DEF Drains, Closes, Leaves, Over, P1, P2, P3, P4, Serves, Good, Quiet, Idle, Up
<1>9. Spec /\ StopWorks /\ BootWorks /\ <>[][Quiet]_vars => (<>[]Good => <>[]Serves)
  BY <1>1, <1>2, <1>3, <1>4, <1>5, <1>6, <1>7, ProcessAlways, PTL DEF Spec
<1> QED
  BY <1>8, <1>9 DEF ServesAgain, Good, Serves, Quiet
===============================================================================
