------------------------------- MODULE RateLimit -------------------------------
(* What the middleware of the backend promises about rates, with no requests   *)
(* that race and no limiters made on demand: one bucket of tokens for each     *)
(* address and class of paths, from which every request that passes pays one   *)
(* token, once. A new process begins with full buckets.                        *)
EXTENDS Integers

CONSTANTS Request, Class, Address, Burst, Limit

VARIABLES
  bucket,  \* class -> address -> tokens
  passed   \* the requests that passed, each with its class and address

vars == <<bucket, passed>>

Full == [k \in Class |-> [a \in Address |-> Burst[k]]]

Init == bucket = Full /\ passed = {}

Pass(r, k, a) ==
  /\ <<r, k, a>> \notin passed
  /\ passed' = passed \cup {<<r, k, a>>}
  /\ bucket[k][a] > 0
  /\ bucket' = [bucket EXCEPT ![k][a] = @ - 1]

Refill ==
  /\ bucket' = [k \in Class |-> [a \in Address |->
       IF bucket[k][a] + Limit[k] > Burst[k] THEN Burst[k] ELSE bucket[k][a] + Limit[k]]]
  /\ UNCHANGED passed

NewProcess == bucket' = Full /\ passed' = {}

Next ==
  \/ \E r \in Request, k \in Class, a \in Address : Pass(r, k, a)
  \/ Refill \/ NewProcess

Spec == Init /\ [][Next]_vars
===============================================================================
