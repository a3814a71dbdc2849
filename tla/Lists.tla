-------------------------------- MODULE Lists --------------------------------
(***************************************************************************)
(* Lists made of other lists, as functions of how much of the list is read *)
(* (SelectSeq and FlattenSeq, in a form that can be reasoned about).       *)
(***************************************************************************)
EXTENDS Naturals, Sequences

(* The elements of s that are in S, in their order. *)
Kept(s, S) ==
  LET upTo[n \in 0 .. Len(s)] ==
        IF n = 0 THEN <<>>
        ELSE IF s[n] \in S THEN Append(upTo[n - 1], s[n]) ELSE upTo[n - 1]
  IN  upTo[Len(s)]

(* The lists of which ss is one, one after the other. *)
Joined(ss) ==
  LET upTo[n \in 0 .. Len(ss)] == IF n = 0 THEN <<>> ELSE upTo[n - 1] \o ss[n]
  IN  upTo[Len(ss)]
==============================================================================
