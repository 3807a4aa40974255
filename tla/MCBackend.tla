------------------------------- MODULE MCBackend -------------------------------
(* Small limiters: what matters is that a burst can be used up.                *)
EXTENDS Backend

CheckBurst == [init |-> 1, other |-> 2]
CheckLimit == [init |-> 1, other |-> 1]
===============================================================================
