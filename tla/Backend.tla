-------------------------------- MODULE Backend --------------------------------
(* The process of aegis-backend (main.go): it connects to Redis and to         *)
(* TimescaleDB or dies, serves requests behind a rate limiter, and on a signal *)
(* waits for the requests under way before it closes its clients. Its          *)
(* container is started again whenever it has ended (docker-compose.yml).      *)
(*                                                                             *)
(*   redis -> timescale -> schema -> listen -> serving -> draining             *)
(*     -> closeTimescale -> closeRedis -> exited            or, anywhere, failed *)
(*                                                                             *)
(* What the handlers of sessions do is SessionService's matter: here they call *)
(* Redis. The limiters are golang.org/x/time/rate's, one per address and class *)
(* of paths, in the memory of the process. net/http, the two servers, their    *)
(* clients and the orchestrator are external.                                  *)
EXTENDS Integers, FiniteSets

CONSTANTS
  Request,    \* requests that ever reach the backend
  Address,    \* the addresses they come from
  Burst,      \* class -> tokens a limiter holds
  Limit,      \* class -> tokens a limiter gains in a tick
  Nil,
  MaxTicks,   \* bound: ticks of the clock in the life of one process
  MaxFaults   \* bound: signals, kills and failures of the listener

Class == {"init", "other"}
Path == {"init", "verify", "health"}
Server == {"redis", "timescale"}

ASSUME RequestAssumption == IsFiniteSet(Request) /\ Nil \notin Request \cup Nat
ASSUME AddressAssumption == Address # {}
ASSUME LimitAssumption ==
  Burst \in [Class -> Nat] /\ Limit \in [Class -> Nat]
ASSUME BoundAssumption == MaxTicks \in Nat /\ MaxFaults \in Nat

VARIABLES
  phase,
  clients,    \* the clients that are open
  now,        \* ticks since the process began to serve
  limiters,   \* class -> address -> the limiter stored for it, or Nil
  tokens,     \* limiter -> its tokens
  pc,         \* request -> what it is about to do
  from, path, \* request -> the address it came from, and its path
  limiter,    \* request -> the limiter it has loaded and will ask
  up,         \* the servers that answer
  schema,     \* the migrations have run
  faults,
  (* History:                                                                *)
  admittedAt, \* request -> when this process's limiter let it pass, or Nil
  forced      \* a process was killed or lost its listener while it served, or
              \* its shutdown ran out of time

limiterVars == <<limiters, tokens, limiter, admittedAt>>
requestVars == <<pc, from, path, limiterVars>>
serverVars == <<up, schema>>
vars == <<phase, clients, now, requestVars, serverVars, faults, forced>>

ClassOf(p) == IF p = "init" THEN "init" ELSE "other"

Active(r) == pc[r] \notin {"idle", "answered", "cut"}

-------------------------------------------------------------------------------
(* Starting, and dying *)

Booting == {"redis", "timescale", "schema", "listen"}
Ended == {"exited", "failed"}

(* The end of the process: its memory and its connections go with it.          *)
End(how) ==
  /\ phase' = how
  /\ clients' = {}
  /\ pc' = [r \in Request |-> IF Active(r) THEN "cut" ELSE pc[r]]
  /\ UNCHANGED <<now, from, path, limiterVars, serverVars>>

Fatal == End("failed") /\ UNCHANGED forced

(* Mutant: a ping that fails is only logged.                                   *)
ConnectAnyway(server, next) ==
  /\ phase = server
  /\ phase' = next
  /\ clients' = IF server \in up THEN clients \cup {server} ELSE clients
  /\ UNCHANGED <<now, requestVars, serverVars, faults, forced>>

(* NewRedisClient, NewTimescaleClient: open the pool, ping the server.         *)
Connect(server, next) ==
  /\ phase = server
  /\ IF server \in up
     THEN /\ phase' = next
          /\ clients' = clients \cup {server}
          /\ UNCHANGED <<now, requestVars, serverVars, forced>>
     ELSE Fatal
  /\ UNCHANGED faults

(* InitializeSchema only looks whether the table of sessions is there.         *)
InitializeSchema ==
  /\ phase = "schema"
  /\ IF "timescale" \in up /\ schema
     THEN /\ phase' = "listen"
          /\ UNCHANGED <<clients, now, requestVars, serverVars, forced>>
     ELSE Fatal
  /\ UNCHANGED faults

Listen ==
  /\ phase = "listen"
  /\ phase' = "serving"
  /\ UNCHANGED <<clients, now, requestVars, serverVars, faults, forced>>

Fault == faults < MaxFaults /\ faults' = faults + 1

(* The port is taken, the certificate cannot be read, or, while requests are   *)
(* served, no further connection can be accepted.                              *)
ListenFails ==
  /\ phase \in {"listen", "serving"} /\ Fault
  /\ End("failed")
  /\ forced' = (forced \/ phase = "serving")

Killed ==
  /\ phase \notin Ended
  /\ Fault
  /\ End("failed")
  /\ forced' = TRUE

(* Mutant: restart: on-failure.                                                *)
RestartOnFailure ==
  /\ phase = "failed"
  /\ phase' = "redis"
  /\ now' = 0
  /\ limiters' = [k \in Class |-> [a \in Address |-> Nil]]
  /\ limiter' = [r \in Request |-> Nil]
  /\ tokens' = [r \in Request |-> 0]
  /\ admittedAt' = [r \in Request |-> Nil]
  /\ UNCHANGED <<clients, pc, from, path, serverVars, faults, forced>>

Restart ==
  /\ phase \in Ended
  /\ phase' = "redis"
  /\ now' = 0
  /\ limiters' = [k \in Class |-> [a \in Address |-> Nil]]
  /\ limiter' = [r \in Request |-> Nil]
  /\ tokens' = [r \in Request |-> 0]
  /\ admittedAt' = [r \in Request |-> Nil]
  /\ UNCHANGED <<clients, pc, from, path, serverVars, faults, forced>>

-------------------------------------------------------------------------------
(* A request passes the middleware, then its handler runs *)

Goto(r, next) == pc' = [pc EXCEPT ![r] = next]

(* A preflight is answered before it comes to the limiter.                     *)
Arrive(r) ==
  /\ phase = "serving" /\ pc[r] = "idle"
  /\ \/ Goto(r, "answered") /\ UNCHANGED <<from, path>>
     \/ /\ Goto(r, "load")
        /\ \E a \in Address, p \in Path :
             from' = [from EXCEPT ![r] = a] /\ path' = [path EXCEPT ![r] = p]
  /\ UNCHANGED <<phase, clients, now, limiterVars, serverVars, faults, forced>>

(* Mutant: the limiter of the request replaces the one that is there.          *)
StoreLimiter(r) ==
  /\ pc[r] = "load" /\ Goto(r, "allow")
  /\ LET k == ClassOf(path[r]) IN
       /\ limiters' = [limiters EXCEPT ![k][from[r]] = r]
       /\ tokens' = [tokens EXCEPT ![r] = Burst[k]]
       /\ limiter' = [limiter EXCEPT ![r] = r]
  /\ UNCHANGED <<phase, clients, now, from, path, admittedAt, serverVars, faults, forced>>

(* LoadOrStore: a limiter is named by the request that brought it.             *)
LoadLimiter(r) ==
  /\ pc[r] = "load" /\ Goto(r, "allow")
  /\ LET k == ClassOf(path[r])
         held == limiters[k][from[r]] IN
       IF held # Nil
       THEN limiter' = [limiter EXCEPT ![r] = held] /\ UNCHANGED <<limiters, tokens>>
       ELSE /\ limiters' = [limiters EXCEPT ![k][from[r]] = r]
            /\ tokens' = [tokens EXCEPT ![r] = Burst[k]]
            /\ limiter' = [limiter EXCEPT ![r] = r]
  /\ UNCHANGED <<phase, clients, now, from, path, admittedAt, serverVars, faults, forced>>

Handler(p) == IF p = "health" THEN "pingRedis" ELSE "redis"

(* 429 without a token; 415 for a POST that is not JSON, and 400 from a        *)
(* handler that refuses before it calls Redis.                                 *)
Allow(r) ==
  /\ pc[r] = "allow"
  /\ IF tokens[limiter[r]] = 0
     THEN Goto(r, "answered") /\ UNCHANGED <<tokens, admittedAt>>
     ELSE /\ tokens' = [tokens EXCEPT ![limiter[r]] = @ - 1]
          /\ admittedAt' = [admittedAt EXCEPT ![r] = now]
          /\ \/ Goto(r, Handler(path[r]))
             \/ path[r] # "health" /\ Goto(r, "answered")
  /\ limiter' = [limiter EXCEPT ![r] = Nil]
  /\ UNCHANGED <<phase, clients, now, from, path, limiters, serverVars, faults, forced>>

(* A limiter reckons its tokens from the clock, up to its burst.               *)
Tick ==
  /\ phase \in {"serving", "draining"} /\ now < MaxTicks
  /\ now' = now + 1
  /\ tokens' = [t \in Request |->
       LET k == ClassOf(path[t]) IN
       IF tokens[t] + Limit[k] > Burst[k] THEN Burst[k] ELSE tokens[t] + Limit[k]]
  /\ UNCHANGED <<phase, clients, pc, from, path, limiters, limiter, admittedAt,
                 serverVars, faults, forced>>

(* A handler of sessions: StoreSession; or GetSession and, if it answered,     *)
(* UpdateSession.                                                              *)
CallRedis(r) ==
  /\ pc[r] = "redis"
  /\ \/ Goto(r, "answered")
     \/ path[r] = "verify" /\ "redis" \in up /\ Goto(r, "redisAgain")
  /\ UNCHANGED <<phase, clients, now, from, path, limiterVars, serverVars, faults, forced>>

CallRedisAgain(r) ==
  /\ pc[r] = "redisAgain" /\ Goto(r, "answered")
  /\ UNCHANGED <<phase, clients, now, from, path, limiterVars, serverVars, faults, forced>>

(* /health asks both servers, whatever the first has answered; the version of  *)
(* the schema only of a database that answers.                                 *)
Health(r) ==
  /\ \/ pc[r] = "pingRedis" /\ Goto(r, "pingTimescale")
     \/ pc[r] = "pingTimescale"
        /\ Goto(r, IF "timescale" \in up THEN "version" ELSE "answered")
     \/ pc[r] = "version" /\ Goto(r, "answered")
  /\ UNCHANGED <<phase, clients, now, from, path, limiterVars, serverVars, faults, forced>>

-------------------------------------------------------------------------------
(* Stopping *)

(* Mutant: the clients are closed, and then the requests are waited for.       *)
SignalCloses ==
  /\ phase \in {"listen", "serving"}
  /\ Fault
  /\ phase' = "draining" /\ clients' = {}
  /\ UNCHANGED <<now, requestVars, serverVars, forced>>

(* SIGINT or SIGTERM. Until signal.Notify the process dies of it.              *)
Signal ==
  /\ phase \in {"listen", "serving"}
  /\ Fault
  /\ phase' = "draining"
  /\ UNCHANGED <<clients, now, requestVars, serverVars, forced>>

(* Mutant: main returns as soon as the listener is closed.                     *)
DrainedAtOnce ==
  /\ phase = "draining"
  /\ phase' = "closeTimescale"
  /\ UNCHANGED <<clients, now, requestVars, serverVars, faults, forced>>

(* Shutdown returns when no connection is active; then the deferred calls run, *)
(* the last deferred first.                                                    *)
Drained ==
  /\ phase = "draining"
  /\ \A r \in Request : ~Active(r)
  /\ phase' = "closeTimescale"
  /\ UNCHANGED <<clients, now, requestVars, serverVars, faults, forced>>

CloseTimescale ==
  /\ phase = "closeTimescale"
  /\ phase' = "closeRedis" /\ clients' = clients \ {"timescale"}
  /\ UNCHANGED <<now, requestVars, serverVars, faults, forced>>

CloseRedis ==
  /\ phase = "closeRedis"
  /\ End("exited")
  /\ UNCHANGED <<faults, forced>>

(* Mutant: Shutdown is given a context that never ends.                        *)
DeadlineNever == FALSE /\ UNCHANGED vars

(* Thirty seconds have passed; the deferred calls are not run.                 *)
Deadline ==
  /\ phase = "draining"
  /\ \E r \in Request : Active(r)
  /\ End("failed")
  /\ forced' = TRUE
  /\ UNCHANGED faults

-------------------------------------------------------------------------------
(* The servers and their orchestrator *)

ServersChange ==
  /\ up' \in SUBSET Server \ {up}
  /\ UNCHANGED <<phase, clients, now, requestVars, schema, faults, forced>>

Migrate ==
  /\ ~schema /\ "timescale" \in up
  /\ schema' = TRUE
  /\ UNCHANGED <<phase, clients, now, requestVars, up, faults, forced>>

-------------------------------------------------------------------------------
Init ==
  /\ phase = "redis"
  /\ clients = {}
  /\ now = 0
  /\ limiters = [k \in Class |-> [a \in Address |-> Nil]]
  /\ tokens = [r \in Request |-> 0]
  /\ pc = [r \in Request |-> "idle"]
  /\ from \in [Request -> {CHOOSE a \in Address : TRUE}]
  /\ path = [r \in Request |-> "health"]
  /\ limiter = [r \in Request |-> Nil]
  /\ up \in SUBSET Server
  /\ schema \in BOOLEAN
  /\ faults = 0
  /\ admittedAt = [r \in Request |-> Nil]
  /\ forced = FALSE

Boot ==
  \/ Connect("redis", "timescale") \/ Connect("timescale", "schema")
  \/ InitializeSchema \/ Listen \/ Restart

Stop == Drained \/ CloseTimescale \/ CloseRedis \/ Deadline

Serve(r) ==
  Arrive(r) \/ LoadLimiter(r) \/ Allow(r) \/ CallRedis(r) \/ CallRedisAgain(r) \/ Health(r)

Environment == Tick \/ ServersChange \/ Migrate \/ Signal \/ Killed \/ ListenFails

Next == Boot \/ Stop \/ (\E r \in Request : Serve(r)) \/ Environment

Spec == Init /\ [][Next]_vars

(* main goes on, the timer of Shutdown fires, and the container is restarted.  *)
(* Nothing is asked of the requests, nor of the servers.                       *)
FairSpec == Spec /\ WF_vars(Boot) /\ WF_vars(Stop)

-------------------------------------------------------------------------------
(* Properties *)

PC == {"idle", "load", "allow", "redis", "redisAgain", "pingRedis", "pingTimescale",
       "version", "answered", "cut"}

(* Types; a process that serves has both clients.                              *)
TypeOK ==
  /\ phase \in Booting \cup Ended
       \cup {"serving", "draining", "closeTimescale", "closeRedis"}
  /\ clients \subseteq Server
  /\ now \in 0..MaxTicks
  /\ limiters \in [Class -> [Address -> Request \cup {Nil}]]
  /\ tokens \in [Request -> Nat]
  /\ pc \in [Request -> PC]
  /\ from \in [Request -> Address] /\ path \in [Request -> Path]
  /\ limiter \in [Request -> Request \cup {Nil}]
  /\ up \subseteq Server /\ schema \in BOOLEAN
  /\ faults \in 0..MaxFaults
  /\ admittedAt \in [Request -> 0..MaxTicks \cup {Nil}]
  /\ forced \in BOOLEAN
  /\ phase = "serving" => clients = Server

AdmittedIn(k, a, t0, t1) ==
  {r \in Request : /\ admittedAt[r] # Nil /\ admittedAt[r] \in t0..t1
                   /\ ClassOf(path[r]) = k /\ from[r] = a}

(* In any stretch of time one process lets at most its burst and its rate      *)
(* times that stretch of the requests of one address and class pass, though    *)
(* requests run beside each other and the first ones each bring a limiter of   *)
(* their own (main.go:127-146).                                                *)
AdmittedBounded ==
  \A k \in Class, a \in Address, t0, t1 \in 0..MaxTicks :
    t0 <= t1 =>
      Cardinality(AdmittedIn(k, a, t0, t1)) <= Burst[k] + Limit[k] * (t1 - t0)

Needs(r) ==
  CASE pc[r] \in {"redis", "redisAgain", "pingRedis"} -> {"redis"}
    [] pc[r] \in {"pingTimescale", "version"} -> {"timescale"}
    [] OTHER -> {}

(* No handler calls a client that has been closed: the clients are closed by   *)
(* the deferred calls of main, which returns only after Shutdown has waited    *)
(* for every handler (main.go:48, 54, 316-321).                                *)
NoCallAfterClose == \A r \in Request : Needs(r) \subseteq clients

(* The handler of a request that was let in runs to its end unless the process *)
(* was killed, its listener broke or the thirty seconds of its shutdown were   *)
(* over (main.go:298-307, 316-321). What the handler writes after the ten      *)
(* seconds of WriteTimeout (main.go:292) is lost all the same.                 *)
CutOnlyByForce == (\E r \in Request : pc[r] = "cut") => forced

(* A shutdown ends, though its requests may not (main.go:316).                 *)
ShutdownEnds == phase = "draining" ~> phase \in Ended

(* Once both servers answer for good and the schema is there, the backend      *)
(* serves for good, whatever it has died of before: every error of its start   *)
(* ends it, and its container is restarted (main.go:44-59,                     *)
(* docker-compose.yml:80).                                                     *)
ServesAgain == <>[](up = Server /\ schema) => <>[](phase = "serving")

-------------------------------------------------------------------------------
(* What the middleware implements: RateLimit.                                  *)

(* The bucket of an address is full until a request has stored its limiter.    *)
Bucket == [k \in Class |-> [a \in Address |->
  IF limiters[k][a] = Nil THEN Burst[k] ELSE tokens[limiters[k][a]]]]

PassedOf(r) == <<r, ClassOf(path[r]), from[r]>>
Passes == {PassedOf(r) : r \in {q \in Request : admittedAt[q] # Nil}}

Limiter == INSTANCE RateLimit WITH bucket <- Bucket, passed <- Passes

(* The limiters, stored on demand by requests that race each other and asked   *)
(* in a later step, amount to one bucket for each address and class: whatever  *)
(* passes is paid for from it, once (main.go:116-148).                         *)
ImplementsBuckets == Limiter!Spec
===============================================================================
