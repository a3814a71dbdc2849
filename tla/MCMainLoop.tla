------------------------------ MODULE MCMainLoop ------------------------------
(* Instances of MainLoop for TLC: a posts x1 and x2, b posts y1, the main   *)
(* thread m1; y1 with a delay (x2 too, where the cfg makes it timed).        *)
EXTENDS MainLoop

CONSTANTS a, b, x1, x2, y1, m1

MCSender ==
  [e \in Events |-> CASE e \in {x1, x2} -> a [] e = y1 -> b [] OTHER -> Main]
MCDelay == [e \in TimedEvents |-> IF e = y1 THEN 2 ELSE 1]
===============================================================================
