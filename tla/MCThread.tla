------------------------------- MODULE MCThread -------------------------------
(* Instances of Thread for TLC. *)
EXTENDS Thread, TLC

CONSTANTS c1, c2, e1, e2, t1, t2

\* The delays of the timed events: t1 is due before t2 when posted together.
MCDelay == (t1 :> 1 @@ t2 :> 2)
MCDelayNone == <<>>
\* The handler of e1 posts e2, or arms t1 and posts e1 again and again.
Nothing == [e \in Events |-> <<>>]
Follow == [e \in Events |-> IF e = e1 THEN <<e2>> ELSE <<>>]
Repost == [e \in Events |-> IF e = e1 THEN <<t1, e1>> ELSE <<>>]
===============================================================================
