---------------------------- MODULE MCEventSupport ----------------------------
(* Instances of EventSupport for TLC: two threads, two listeners. *)
EXTENDS EventSupport

CONSTANTS a, b, l, m

\* Each listener is registered by one thread, or by any.
OneEach == (l :> {a} @@ m :> {b})
Anywhere == [x \in Listeners |-> Threads]
===============================================================================
