------------------------ MODULE ListComponents_proofs ------------------------
(***************************************************************************)
(* Theorems about the popup and the task lists in Components, for every    *)
(* value of their constants: the components whose steps make lists of      *)
(* lists (Lists), and first what is made of them.  A step of the           *)
(* composition is one of a single component (the lemmas ...Moves), so an   *)
(* invariant of a component is one of the composition.                     *)
(***************************************************************************)
EXTENDS Components, Lists, FiniteSetTheorems, SequenceTheorems,
        WellFoundedInduction, TLAPS

-----------------------------------------------------------------------------
(* What Kept and Joined make of lists. *)

\* A set of numbers that is not empty has a least one.
LEMMA LeastNumber ==
  ASSUME NEW T, T \subseteq Nat, T # {}
  PROVE  \E x \in T : \A y \in T : x =< y
<1>. DEFINE Less == OpToRel(<, Nat)
<1>1. IsWellFoundedOn(Less, Nat)
  BY NatLessThanWellFounded
<1>2. \A x, y \in Nat : <<x, y>> \in Less <=> x < y
  BY DEF OpToRel
<1>. HIDE DEF Less
<1>3. PICK x \in T : \A y \in T : ~ (<<y, x>> \in Less)
  BY <1>1, WFMin
<1>4. \A y \in T : ~ (y < x)
  BY <1>2, <1>3
<1>5. \A y \in T : x =< y
  <2>. TAKE y \in T
  <2>1. x \in Nat /\ y \in Nat /\ ~ (y < x)
    BY <1>4
  <2> QED
    BY <2>1
<1> QED
  BY <1>5

\* What holds of 0, and of n where it holds of n - 1, holds up to N.
LEMMA UpTo ==
  ASSUME NEW N \in Nat, NEW T, 0 \in T,
         \A n \in 1 .. N : n - 1 \in T => n \in T
  PROVE  0 .. N \subseteq T
<1>. DEFINE U == (0 .. N) \ T
<1>1. ASSUME U # {} PROVE FALSE
  <2>1. U \subseteq Nat
    OBVIOUS
  <2>. HIDE DEF U
  <2>2. PICK x \in U : \A y \in U : x =< y
    BY <1>1, <2>1, LeastNumber
  <2>. USE DEF U
  <2>3. x \in 1 .. N /\ x - 1 \in 0 .. N /\ x - 1 \notin U
    BY <2>2
  <2>. QED
    BY <2>3
<1>. QED
  BY <1>1

\* f is defined by recursion on the numbers up to N: a for 0, then step by
\* step of what it was before.
StepsIn(step, V, N) == step \in [V \X (1 .. N) -> V]

Runs(f, V, a, step, N) ==
  f \in [0 .. N -> V] /\ f[0] = a /\ \A n \in 1 .. N : f[n] = step[<<f[n - 1], n>>]

LEMMA Recursion ==
  ASSUME NEW N \in Nat, NEW V, NEW a \in V, NEW step, StepsIn(step, V, N)
  PROVE  \E f : Runs(f, V, a, step, N)
<1>. USE DEF StepsIn
<1>. DEFINE Upto(m) == \E f \in [0 .. m -> V] : f[0] = a /\ \A n \in 1 .. m : f[n] = step[<<f[n - 1], n>>]
            T == {m \in 0 .. N : Upto(m)}
<1>1. 0 \in T
  <2>. DEFINE g == [n \in 0 .. 0 |-> a]
  <2>1. g \in [0 .. 0 -> V] /\ g[0] = a /\ 1 .. 0 = {}
    OBVIOUS
  <2>. HIDE DEF g
  <2>2. Upto(0)
    BY <2>1
  <2>. QED
    BY <2>2
<1>2. ASSUME NEW n \in 1 .. N, n - 1 \in T PROVE n \in T
  <2>1. PICK f \in [0 .. n - 1 -> V] : f[0] = a /\ \A i \in 1 .. n - 1 : f[i] = step[<<f[i - 1], i>>]
    BY <1>2
  <2>. DEFINE g == [i \in 0 .. n |-> IF i = n THEN step[<<f[n - 1], n>>] ELSE f[i]]
  <2>2. f[n - 1] \in V /\ step[<<f[n - 1], n>>] \in V
    OBVIOUS
  <2>3. g \in [0 .. n -> V] /\ g[0] = a
    BY <2>1, <2>2
  <2>4. ASSUME NEW i \in 1 .. n PROVE g[i] = step[<<g[i - 1], i>>]
    <3>1. i - 1 \in 0 .. n /\ i - 1 # n /\ g[i - 1] = f[i - 1]
      OBVIOUS
    <3>. QED
      BY <2>1, <3>1, SMTT(60)
  <2>5. Upto(n)
    BY <2>3, <2>4
  <2>. QED
    BY <2>5
<1>. HIDE DEF T
<1>3. 0 .. N \subseteq T
  BY <1>1, <1>2, UpTo
<1>4. N \in T
  BY <1>3
<1>. QED
  BY <1>4 DEF T, Runs

\* Whatever takes these steps from a is what the recursion makes.
LEMMA StepsRun ==
  ASSUME NEW N \in Nat, NEW V, NEW a \in V, NEW step, StepsIn(step, V, N),
         NEW g, DOMAIN g = 0 .. N, g = [n \in 0 .. N |-> g[n]], g[0] = a,
         \A n \in 1 .. N : g[n - 1] \in V => g[n] = step[<<g[n - 1], n>>]
  PROVE  Runs(g, V, a, step, N)
<1>. DEFINE T == {n \in 0 .. N : g[n] \in V}
<1>1. 0 \in T
  OBVIOUS
<1>2. ASSUME NEW n \in 1 .. N, n - 1 \in T PROVE n \in T
  <2>1. n \in 0 .. N /\ <<g[n - 1], n>> \in V \X (1 .. N)
    BY <1>2
  <2>2. step[<<g[n - 1], n>>] \in V
    BY <2>1 DEF StepsIn
  <2>. QED
    BY <1>2, <2>1, <2>2
<1>. HIDE DEF T
<1>3. 0 .. N \subseteq T
  BY <1>1, <1>2, UpTo
<1>4. \A n \in 0 .. N : g[n] \in V
  BY <1>3 DEF T
<1>5. \A n \in 1 .. N : n - 1 \in 0 .. N
  OBVIOUS
<1>. QED
  BY <1>4, <1>5 DEF Runs

\* The recursive definition of Kept makes a function.
Keeps(f, s, S, E) ==
  /\ f \in [0 .. Len(s) -> Seq(S \cap E)] /\ f[0] = <<>> /\ f[Len(s)] = Kept(s, S)
  /\ \A n \in 1 .. Len(s) : f[n] = IF s[n] \in S THEN Append(f[n - 1], s[n]) ELSE f[n - 1]

LEMMA KeptRuns ==
  ASSUME NEW E, NEW s \in Seq(E), NEW S
  PROVE  \E f : Keeps(f, s, S, E)
<1>. DEFINE N == Len(s)
            V == Seq(S \cap E)
            step == [p \in V \X (1 .. N) |-> IF s[p[2]] \in S THEN Append(p[1], s[p[2]]) ELSE p[1]]
            Makes(f) == f = [n \in 0 .. Len(s) |->
               IF n = 0 THEN <<>> ELSE IF s[n] \in S THEN Append(f[n - 1], s[n]) ELSE f[n - 1]]
<1>1. N \in Nat /\ <<>> \in V /\ StepsIn(step, V, N)
  BY DEF StepsIn
<1>2. PICK f : Runs(f, V, <<>>, step, N)
  <2>. HIDE DEF N, V, step, Makes
  <2>. QED
    BY <1>1, Recursion
<1>2a. /\ f \in [0 .. N -> V] /\ f[0] = <<>>
       /\ \A n \in 1 .. N : f[n] = step[<<f[n - 1], n>>]
  BY <1>2 DEF Runs
<1>3. \A n \in 1 .. N : f[n] = IF s[n] \in S THEN Append(f[n - 1], s[n]) ELSE f[n - 1]
  <2>. TAKE n \in 1 .. N
  <2>1. <<f[n - 1], n>> \in V \X (1 .. N) /\ f[n] = step[<<f[n - 1], n>>]
    <3>1. n - 1 \in 0 .. N
      OBVIOUS
    <3>. HIDE DEF V, N
    <3>. QED
      BY <1>2a, <3>1
  <2>. QED
    BY <2>1
<1>4. Makes(f)
  <2>1. \A n \in 0 .. N : f[n] =
           IF n = 0 THEN <<>> ELSE IF s[n] \in S THEN Append(f[n - 1], s[n]) ELSE f[n - 1]
    <3>1. \A n \in 0 .. N : n = 0 \/ n \in 1 .. N
      OBVIOUS
    <3>. HIDE DEF N
    <3>. QED
      BY <1>2a, <1>3, <3>1
  <2>2. DOMAIN f = 0 .. N /\ f = [n \in 0 .. N |-> f[n]]
    BY <1>2a
  <2>. QED
    BY <2>1, <2>2
<1>. DEFINE upTo == CHOOSE g : Makes(g)
<1>5. Makes(upTo)
  BY <1>4
<1>6. Kept(s, S) = upTo[Len(s)]
  BY DEF Kept
<1>7. \A n \in 0 .. N : upTo[n] = f[n]
  <2>. DEFINE T == {n \in 0 .. N : upTo[n] = f[n]}
  <2>1. /\ DOMAIN upTo = 0 .. N /\ upTo[0] = <<>> 
        /\ \A n \in 1 .. N : upTo[n] = IF s[n] \in S THEN Append(upTo[n - 1], s[n]) ELSE upTo[n - 1]
    <3>. HIDE DEF upTo
    <3>1. DOMAIN upTo = 0 .. N /\ \A n \in 0 .. N : upTo[n] =
            IF n = 0 THEN <<>> ELSE IF s[n] \in S THEN Append(upTo[n - 1], s[n]) ELSE upTo[n - 1]
      BY <1>5
    <3>2. 0 \in 0 .. N /\ \A n \in 1 .. N : n # 0 /\ n \in 0 .. N
      BY <1>1
    <3>. HIDE DEF N
    <3>. QED
      BY <3>1, <3>2
  <2>. HIDE DEF upTo
  <2>2. 0 \in T
    BY <1>1, <1>2a, <2>1
  <2>3. ASSUME NEW n \in 1 .. N, n - 1 \in T PROVE n \in T
    BY <1>3, <2>1, <2>3
  <2>. HIDE DEF T, N
  <2>4. 0 .. N \subseteq T
    BY <1>1, <2>2, <2>3, UpTo
  <2>. QED
    BY <2>4 DEF T
<1>8. upTo[N] = f[N]
  <2>1. N \in 0 .. N
    BY <1>1
  <2>. HIDE DEF N, upTo
  <2>. QED
    BY <1>7, <2>1
<1>. QED
  BY <1>2a, <1>3, <1>6, <1>8 DEF Keeps

LEMMA KeptTyped ==
  ASSUME NEW E, NEW s \in Seq(E), NEW S
  PROVE  Kept(s, S) \in Seq(S \cap E)
<1>. USE DEF Keeps
<1>1. PICK f : Keeps(f, s, S, E)
  <2>. HIDE DEF Keeps
  <2>. QED
    BY KeptRuns
<1>2. Len(s) \in 0 .. Len(s)
  OBVIOUS
<1>. QED
  BY <1>1, <1>2

LEMMA KeptOfNone ==
  ASSUME NEW E, NEW s \in Seq(E), NEW S, \A n \in 1 .. Len(s) : s[n] \notin S
  PROVE  Kept(s, S) = <<>>
<1>. USE DEF Keeps
<1>1. PICK f : Keeps(f, s, S, E)
  <2>. HIDE DEF Keeps
  <2>. QED
    BY KeptRuns
<1>. DEFINE N == Len(s)
            T == {n \in 0 .. N : f[n] = <<>>}
<1>2. N \in Nat /\ N \in 0 .. N /\ 0 \in 0 .. N
  OBVIOUS
<1>3. ASSUME NEW n \in 1 .. N, n - 1 \in T PROVE n \in T
  BY <1>1, <1>3
<1>. HIDE DEF N
<1>4. 0 \in T
  BY <1>1, <1>2
<1>. HIDE DEF T
<1>5. 0 .. N \subseteq T
  BY <1>2, <1>3, <1>4, UpTo
<1>. QED
  BY <1>1, <1>2, <1>5 DEF T, N

LEMMA KeptOfEmpty ==
  ASSUME NEW S
  PROVE  Kept(<<>>, S) = <<>>
<1>1. <<>> \in Seq({}) /\ Len(<<>>) = 0 /\ 1 .. 0 = {}
  OBVIOUS
<1>. QED
  BY <1>1, KeptOfNone

LEMMA KeptOfAppended ==
  ASSUME NEW E, NEW s \in Seq(E), NEW x \in E, NEW S
  PROVE  /\ x \in S => Kept(Append(s, x), S) = Append(Kept(s, S), x)
         /\ x \notin S => Kept(Append(s, x), S) = Kept(s, S)
<1>. USE DEF Keeps
<1>1. PICK f : Keeps(f, s, S, E)
  <2>. HIDE DEF Keeps
  <2>. QED
    BY KeptRuns
<1>. PICK l : l = Append(s, x)
  OBVIOUS
<1>. PICK N \in Nat : N = Len(s)
  OBVIOUS
<1>2. l \in Seq(E) /\ Len(l) = N + 1 /\ l[N + 1] = x /\ \A n \in 1 .. N : l[n] = s[n]
  OBVIOUS
<1>3. PICK g : Keeps(g, l, S, E)
  <2>. HIDE DEF Keeps
  <2>. QED
    BY <1>2, KeptRuns
<1>. DEFINE T == {n \in 0 .. N : g[n] = f[n]}
<1>4. 0 \in T
  BY <1>1, <1>3
<1>5. ASSUME NEW n \in 1 .. N, n - 1 \in T PROVE n \in T
  <2>1. n \in 1 .. Len(l) /\ l[n] = s[n] /\ g[n - 1] = f[n - 1]
    BY <1>2, <1>5
  <2>2. g[n] = f[n]
    BY <1>1, <1>3, <2>1
  <2>. QED
    BY <2>2
<1>. HIDE DEF T
<1>6. 0 .. N \subseteq T
  BY <1>4, <1>5, UpTo
<1>7. g[N] = f[N]
  BY <1>6 DEF T
<1>8. N + 1 \in 1 .. Len(l) /\ (N + 1) - 1 = N
  BY <1>2
<1>9. Kept(s, S) = f[N]
  BY <1>1
<1>10. Kept(l, S) = g[N + 1]
  BY <1>2, <1>3
<1>11. g[N + 1] = IF x \in S THEN Append(g[N], x) ELSE g[N]
  BY <1>2, <1>3, <1>8
<1>. QED
  BY ONLY l = Append(s, x), <1>7, <1>9, <1>10, <1>11

\* Two lists one after the other: what is kept of them is, too.
LEMMA KeptOfBoth ==
  ASSUME NEW E, NEW s \in Seq(E), NEW t \in Seq(E), NEW S
  PROVE  Kept(s \o t, S) = Kept(s, S) \o Kept(t, S)
<1>. DEFINE Both(u) == Kept(s \o u, S) = Kept(s, S) \o Kept(u, S)
            T == {n \in Nat : \A u \in Seq(E) : Len(u) = n => Both(u)}
<1>1. 0 \in T
  <2>. SUFFICES ASSUME NEW u \in Seq(E), Len(u) = 0 PROVE Both(u)
    OBVIOUS
  <2>1. u = <<>> /\ s \o u = s /\ Kept(s, S) \in Seq(S \cap E)
    BY KeptTyped
  <2>2. Kept(u, S) = <<>>
    BY <2>1, KeptOfEmpty
  <2>. QED
    BY <2>1, <2>2
<1>2. ASSUME NEW n \in 1 .. Len(t), n - 1 \in T PROVE n \in T
  <2>. SUFFICES ASSUME NEW u \in Seq(E), Len(u) = n PROVE Both(u)
    OBVIOUS
  <2>. PICK v : v = SubSeq(u, 1, n - 1)
    OBVIOUS
  <2>. PICK x : x = u[n]
    OBVIOUS
  <2>1. v \in Seq(E) /\ x \in E /\ u = Append(v, x) /\ Len(v) = n - 1
    OBVIOUS
  <2>2. s \o v \in Seq(E) /\ s \o u = Append(s \o v, x)
    BY <2>1
  <2>3. Both(v)
    BY <1>2, <2>1
  <2>4. /\ x \in S => Kept(s \o u, S) = Append(Kept(s \o v, S), x)
        /\ x \notin S => Kept(s \o u, S) = Kept(s \o v, S)
    <3>. PICK w : w = s \o v
      OBVIOUS
    <3>1. w \in Seq(E) /\ x \in E
      BY <2>1, <2>2
    <3>2. /\ x \in S => Kept(Append(w, x), S) = Append(Kept(w, S), x)
          /\ x \notin S => Kept(Append(w, x), S) = Kept(w, S)
      BY ONLY <3>1, KeptOfAppended
    <3>. QED
      BY <2>2, <3>2, Zenon
  <2>5. /\ x \in S => Kept(u, S) = Append(Kept(v, S), x)
        /\ x \notin S => Kept(u, S) = Kept(v, S)
    <3>1. /\ x \in S => Kept(Append(v, x), S) = Append(Kept(v, S), x)
          /\ x \notin S => Kept(Append(v, x), S) = Kept(v, S)
      BY ONLY <2>1, KeptOfAppended
    <3>. QED
      BY <2>1, <3>1, Zenon
  <2>6. Kept(s, S) \in Seq(S \cap E) /\ Kept(v, S) \in Seq(S \cap E)
    BY <2>1, KeptTyped
  <2>7. x \in S => Kept(s, S) \o Append(Kept(v, S), x) = Append(Kept(s, S) \o Kept(v, S), x)
    BY <2>1, <2>6
  <2>. QED
    BY <2>3, <2>4, <2>5, <2>7
<1>3. Len(t) \in Nat /\ Len(t) \in 0 .. Len(t)
  OBVIOUS
<1>. HIDE DEF T
<1>4. 0 .. Len(t) \subseteq T
  BY <1>1, <1>2, <1>3, UpTo
<1>. QED
  BY <1>3, <1>4 DEF T

\* The recursive definition of Joined makes a function.
Joins(f, ss, E) ==
  /\ f \in [0 .. Len(ss) -> Seq(E)] /\ f[0] = <<>> /\ f[Len(ss)] = Joined(ss)
  /\ \A n \in 1 .. Len(ss) : f[n] = f[n - 1] \o ss[n]

LEMMA JoinedRuns ==
  ASSUME NEW E, NEW ss \in Seq(Seq(E))
  PROVE  \E f : Joins(f, ss, E)
<1>. DEFINE N == Len(ss)
            V == Seq(E)
            step == [p \in V \X (1 .. N) |-> p[1] \o ss[p[2]]]
            Makes(f) == f = [n \in 0 .. Len(ss) |-> IF n = 0 THEN <<>> ELSE f[n - 1] \o ss[n]]
            upTo == CHOOSE g : Makes(g)
<1>1. N \in Nat /\ <<>> \in V /\ \A n \in 1 .. N : ss[n] \in V
  OBVIOUS
<1>2. StepsIn(step, V, N)
  <2>1. \A p \in V \X (1 .. N) : p[1] \o ss[p[2]] \in V
    <3>. TAKE p \in V \X (1 .. N)
    <3>1. p[1] \in Seq(E) /\ ss[p[2]] \in Seq(E)
      BY <1>1
    <3>. QED
      BY <3>1, ConcatProperties
  <2>. QED
    BY <2>1 DEF StepsIn
<1>3. PICK f : Runs(f, V, <<>>, step, N)
  <2>. HIDE DEF N, V, step
  <2>. QED
    BY <1>1, <1>2, Recursion
<1>4. \A v \in V, n \in 1 .. N : step[<<v, n>>] = v \o ss[n]
  OBVIOUS
<1>5. Makes(f)
  <2>1. \A n \in 0 .. N : n # 0 => n \in 1 .. N /\ n - 1 \in 0 .. N
    BY <1>1
  <2>2. \A n \in 0 .. N : f[n] = IF n = 0 THEN <<>> ELSE f[n - 1] \o ss[n]
    <3>. HIDE DEF N, V, step
    <3>. QED
      BY <1>3, <1>4, <2>1 DEF Runs
  <2>. QED
    BY <1>3, <2>2 DEF Runs
<1>6. Makes(upTo)
  BY <1>5
<1>7. Joined(ss) = upTo[N]
  BY DEF Joined
<1>. HIDE DEF upTo
<1>8. /\ DOMAIN upTo = 0 .. N /\ upTo = [n \in 0 .. N |-> upTo[n]] /\ upTo[0] = <<>>
      /\ \A n \in 1 .. N : upTo[n] = upTo[n - 1] \o ss[n]
  <2>1. 0 \in 0 .. N /\ \A n \in 1 .. N : n # 0 /\ n \in 0 .. N
    BY <1>1
  <2>. QED
    BY <1>6, <2>1
<1>. HIDE DEF Makes, step, V, N
<1>9. \A n \in 1 .. N : upTo[n - 1] \in V => upTo[n] = step[<<upTo[n - 1], n>>]
  BY <1>4, <1>8
<1>10. Runs(upTo, V, <<>>, step, N)
  BY <1>1, <1>2, <1>8, <1>9, StepsRun
<1>. QED
  BY <1>7, <1>8, <1>10 DEF Runs, Joins, N, V

LEMMA JoinedTyped ==
  ASSUME NEW E, NEW ss \in Seq(Seq(E))
  PROVE  Joined(ss) \in Seq(E)
<1>1. PICK f : Joins(f, ss, E)
  BY JoinedRuns
<1>2. Len(ss) \in 0 .. Len(ss)
  OBVIOUS
<1>. QED
  BY <1>1, <1>2 DEF Joins

LEMMA JoinedOfEmpty == Joined(<<>>) = <<>>
<1>1. <<>> \in Seq(Seq({})) /\ Len(<<>>) = 0
  OBVIOUS
<1>2. PICK f : Joins(f, <<>>, {})
  BY <1>1, JoinedRuns
<1>. QED
  BY <1>1, <1>2 DEF Joins

LEMMA JoinedOfAppended ==
  ASSUME NEW E, NEW ss \in Seq(Seq(E)), NEW x \in Seq(E)
  PROVE  Joined(Append(ss, x)) = Joined(ss) \o x
<1>1. PICK f : Joins(f, ss, E)
  BY JoinedRuns
<1>. PICK l : l = Append(ss, x)
  OBVIOUS
<1>. PICK N \in Nat : N = Len(ss)
  OBVIOUS
<1>2. l \in Seq(Seq(E)) /\ Len(l) = N + 1 /\ l[N + 1] = x /\ \A n \in 1 .. N : l[n] = ss[n]
  BY AppendProperties
<1>3. PICK g : Joins(g, l, E)
  BY <1>2, JoinedRuns
<1>. DEFINE T == {n \in 0 .. N : g[n] = f[n]}
<1>4. 0 \in T
  BY <1>1, <1>3 DEF Joins
<1>5. ASSUME NEW n \in 1 .. N, n - 1 \in T PROVE n \in T
  <2>1. n \in 1 .. Len(l) /\ n \in 0 .. N /\ l[n] = ss[n] /\ g[n - 1] = f[n - 1]
    BY <1>2, <1>5
  <2>2. g[n] = f[n]
    BY <1>1, <1>3, <2>1 DEF Joins
  <2>. QED
    BY <2>1, <2>2
<1>. HIDE DEF T
<1>6. 0 .. N \subseteq T
  BY <1>4, <1>5, UpTo
<1>7. g[N] = f[N]
  BY <1>6 DEF T
<1>8. N + 1 \in 1 .. Len(l) /\ (N + 1) - 1 = N
  BY <1>2
<1>9. Joined(ss) = f[N] /\ Joined(l) = g[N + 1]
  BY <1>1, <1>2, <1>3 DEF Joins
<1>10. g[N + 1] = g[N] \o x
  BY <1>2, <1>3, <1>8 DEF Joins
<1>. QED
  BY ONLY l = Append(ss, x), <1>7, <1>9, <1>10

-----------------------------------------------------------------------------
(* Popup. *)

\* What Popup calls Kept and Cardinality is so.
LEMMA AskKept == ASSUME NEW s, NEW S PROVE Ask!Kept(s, S) = Kept(s, S)
BY DEF Ask!Kept, Kept

LEMMA AskCardinality == ASSUME NEW S PROVE Ask!Cardinality(S) = Cardinality(S)
BY DEF Ask!Cardinality, Cardinality

\* Places in lists.

At(x, list) == \E k \in DOMAIN list : list[k] = x

Once(list) == \A i, j \in DOMAIN list : list[i] = list[j] => i = j

\* t is list s with x at its end, without its head, or without its k-th element.
Lengthened(s, t, x, S) ==
  /\ t \in Seq(S)
  /\ Once(s) /\ ~At(x, s) => Once(t)
  /\ \A y : At(y, t) <=> At(y, s) \/ y = x

Shortened(s, t, x, S) ==
  /\ x \in S /\ t \in Seq(S) /\ At(x, s)
  /\ Once(s) => Once(t) /\ ~At(x, t)
  /\ \A y : y # x => (At(y, t) <=> At(y, s))

LEMMA AppendLengthens ==
  ASSUME NEW S, NEW s \in Seq(S), NEW x \in S
  PROVE  Lengthened(s, Append(s, x), x, S)
<1>. PICK t : t = Append(s, x)
  OBVIOUS
<1>. PICK N \in Nat : N = Len(s)
  OBVIOUS
<1>1. /\ t \in Seq(S) /\ DOMAIN s = 1 .. N /\ DOMAIN t = 1 .. N + 1
      /\ t[N + 1] = x /\ \A k \in 1 .. N : t[k] = s[k]
  OBVIOUS
<1>2. ASSUME Once(s), ~At(x, s) PROVE Once(t)
  BY <1>1, <1>2 DEF Once, At
<1>3. ASSUME NEW y PROVE At(y, t) <=> At(y, s) \/ y = x
  BY <1>1 DEF At
<1>. QED
  BY <1>1, <1>2, <1>3 DEF Lengthened

LEMMA RemoveAtIs ==
  ASSUME NEW S, NEW s \in Seq(S), NEW k \in DOMAIN s
  PROVE  Ask!RemoveAt(s, k) \in Seq(S) /\ Len(Ask!RemoveAt(s, k)) = Len(s) - 1
         /\ \A i \in 1 .. Len(s) - 1 : Ask!RemoveAt(s, k)[i] = IF i < k THEN s[i] ELSE s[i + 1]
<1>. PICK u : u = SubSeq(s, 1, k - 1)
  OBVIOUS
<1>. PICK v : v = SubSeq(s, k + 1, Len(s))
  OBVIOUS
<1>. PICK N \in Nat : N = Len(s)
  OBVIOUS
<1>1. k \in 1 .. N
  OBVIOUS
<1>2. u \in Seq(S) /\ Len(u) = k - 1 /\ \A i \in 1 .. k - 1 : u[i] = s[i]
  BY <1>1, SubSeqProperties
<1>3. v \in Seq(S) /\ Len(v) = N - k /\ \A i \in 1 .. N - k : v[i] = s[k + i]
  <2>1. PICK m \in Int : m = k + 1
    BY <1>1
  <2>2. \A i \in m .. N : s[i] \in S
    BY <1>1, <2>1
  <2>3. /\ v \in Seq(S) /\ Len(v) = IF m <= N THEN N - m + 1 ELSE 0
        /\ \A i \in 1 .. N - m + 1 : v[i] = s[m + i - 1]
    BY <2>1, <2>2, SubSeqProperties
  <2>4. N - m + 1 = N - k /\ (~(m <= N) => N - k = 0) /\ \A i \in 1 .. N - k : m + i - 1 = k + i
    BY ONLY N \in Nat, <1>1, <2>1
  <2>. QED
    BY <2>3, <2>4
<1>4. PICK w : w = u \o v
  OBVIOUS
<1>5. w \in Seq(S) /\ Len(w) = N - 1
      /\ \A i \in 1 .. N - 1 : w[i] = IF i <= k - 1 THEN u[i] ELSE v[i - (k - 1)]
  <2>1. /\ w \in Seq(S) /\ Len(w) = Len(u) + Len(v)
        /\ \A i \in 1 .. Len(u) + Len(v) : w[i] = IF i <= Len(u) THEN u[i] ELSE v[i - Len(u)]
    BY ONLY u \in Seq(S), v \in Seq(S), <1>2, <1>3, <1>4, ConcatProperties
  <2>2. (k - 1) + (N - k) = N - 1
    BY <1>1
  <2>. QED
    BY <1>2, <1>3, <2>1, <2>2
<1>6. ASSUME NEW i \in 1 .. N - 1 PROVE w[i] = IF i < k THEN s[i] ELSE s[i + 1]
  <2>1. CASE i < k
    BY <1>1, <1>2, <1>5, <2>1
  <2>2. CASE ~(i < k)
    <3>1. PICK j \in 1 .. N - k : j = i - (k - 1) /\ k + j = i + 1
      <4>1. i - (k - 1) \in 1 .. N - k /\ k + (i - (k - 1)) = i + 1
        BY ONLY N \in Nat, i \in 1 .. N - 1, <1>1, <2>2
      <4>. QED
        BY ONLY <4>1
    <3>2. w[i] = v[j] /\ v[j] = s[k + j]
      <4>1. ~(i <= k - 1)
        BY ONLY N \in Nat, i \in 1 .. N - 1, <1>1, <2>2
      <4>. QED
        BY ONLY <1>3, <1>5, <3>1, <4>1, i \in 1 .. N - 1, j \in 1 .. N - k
    <3>. QED
      BY ONLY <2>2, <3>1, <3>2
  <2>. QED
    BY <2>1, <2>2
<1>7. Ask!RemoveAt(s, k) = w
  BY <1>4 DEF Ask!RemoveAt
<1>. QED
  BY <1>5, <1>6, <1>7

LEMMA RemoveShortens ==
  ASSUME NEW S, NEW s \in Seq(S), NEW k \in DOMAIN s
  PROVE  Shortened(s, Ask!RemoveAt(s, k), s[k], S)
<1>. PICK t : t = Ask!RemoveAt(s, k)
  OBVIOUS
<1>. PICK N \in Nat : N = Len(s)
  OBVIOUS
<1>1. /\ t \in Seq(S) /\ DOMAIN s = 1 .. N /\ DOMAIN t = 1 .. N - 1 /\ k \in 1 .. N
      /\ \A i \in 1 .. N - 1 : t[i] = IF i < k THEN s[i] ELSE s[i + 1]
  BY RemoveAtIs
<1>2. ASSUME NEW i \in DOMAIN t
      PROVE  \E j \in DOMAIN s : j # k /\ j = (IF i < k THEN i ELSE i + 1) /\ t[i] = s[j]
  <2>1. CASE i < k
    BY <1>1, <2>1
  <2>2. CASE ~(i < k)
    BY <1>1, <2>2
  <2>. QED
    BY <2>1, <2>2
<1>3. ASSUME NEW j \in DOMAIN s, j # k PROVE \E i \in DOMAIN t : t[i] = s[j]
  <2>1. CASE j < k
    BY <1>1, <2>1
  <2>2. CASE ~(j < k)
    <3>1. j - 1 \in DOMAIN t /\ ~(j - 1 < k) /\ (j - 1) + 1 = j
      BY <1>1, <1>3, <2>2
    <3>. QED
      BY <1>1, <3>1
  <2>. QED
    BY <2>1, <2>2
<1>4. ASSUME Once(s) PROVE Once(t) /\ ~At(s[k], t)
  <2>1. Once(t)
    <3>. SUFFICES ASSUME NEW i \in DOMAIN t, NEW j \in DOMAIN t, t[i] = t[j] PROVE i = j
      BY DEF Once
    <3>1. (IF i < k THEN i ELSE i + 1) = (IF j < k THEN j ELSE j + 1)
      BY <1>2, <1>4 DEF Once
    <3>. QED
      BY <1>1, <3>1
  <2>2. ~At(s[k], t)
    BY <1>1, <1>2, <1>4 DEF Once, At
  <2>. QED
    BY <2>1, <2>2
<1>5. ASSUME NEW y, y # s[k] PROVE At(y, t) <=> At(y, s)
  BY <1>2, <1>3, <1>5 DEF At
<1>6. s[k] \in S /\ At(s[k], s)
  BY DEF At
<1>. QED
  BY <1>1, <1>4, <1>5, <1>6 DEF Shortened

LEMMA TailShortens ==
  ASSUME NEW S, NEW s \in Seq(S), s # <<>>
  PROVE  Shortened(s, Tail(s), Head(s), S)
<1>1. 1 \in DOMAIN s /\ Head(s) = s[1]
  OBVIOUS
<1>2. Shortened(s, Ask!RemoveAt(s, 1), s[1], S)
  BY <1>1, RemoveShortens
<1>3. Tail(s) = Ask!RemoveAt(s, 1)
  <2>1. /\ Ask!RemoveAt(s, 1) \in Seq(S) /\ Len(Ask!RemoveAt(s, 1)) = Len(s) - 1
        /\ \A i \in 1 .. Len(s) - 1 : Ask!RemoveAt(s, 1)[i] = s[i + 1]
    BY <1>1, RemoveAtIs
  <2>2. Tail(s) \in Seq(S) /\ Len(Tail(s)) = Len(s) - 1 /\ \A i \in 1 .. Len(s) - 1 : Tail(s)[i] = s[i + 1]
    OBVIOUS
  <2>. QED
    BY <2>1, <2>2
<1>. QED
  BY <1>1, <1>2, <1>3

\* An element of a list in which each is once is at one place.
LEMMA OnePlace ==
  ASSUME NEW list, Once(list), NEW x
  PROVE  Cardinality({k \in DOMAIN list : list[k] = x}) = IF At(x, list) THEN 1 ELSE 0
<1>1. CASE At(x, list)
  <2>1. PICK k \in DOMAIN list : list[k] = x
    BY <1>1 DEF At
  <2>2. {i \in DOMAIN list : list[i] = x} = {k}
    BY <2>1 DEF Once
  <2>. QED
    BY <1>1, <2>2, FS_Singleton
<1>2. CASE ~At(x, list)
  <2>1. {i \in DOMAIN list : list[i] = x} = {}
    BY <1>2 DEF At
  <2>. QED
    BY <1>2, <2>1, FS_EmptySet
<1>. QED
  BY <1>1, <1>2

-----------------------------------------------------------------------------
\* The deletion of the widgets of a popup.
Leftovers ==
  {s \in [alive : SUBSET DOMAIN created, held : SUBSET DOMAIN created, misused : {FALSE}] :
     s.alive = s.held}

LEMMA DeletedIsGone ==
  ASSUME NEW s \in Leftovers, NEW k
  PROVE  /\ Ask!DeleteIfValid(s, k) \in Leftovers
         /\ Ask!DeleteIfValid(s, k).alive \subseteq s.alive \ {k}
<1>1. CASE k \notin s.held
  BY <1>1 DEF Ask!DeleteIfValid, Leftovers
<1>2. CASE k \in s.held
  <2>. DEFINE gone == Ask!Family(k) \cap s.alive
  <2>1. k \in s.alive /\ k \in DOMAIN created
    BY <1>2 DEF Leftovers
  <2>2. k \in gone
    BY <2>1 DEF Ask!Family
  <2>. HIDE DEF gone
  <2>3. Ask!DeleteIfValid(s, k) = [alive |-> s.alive \ gone, held |-> s.held \ gone, misused |-> s.misused \/ k \notin s.alive]
    BY <1>2 DEF Ask!DeleteIfValid, Ask!OnDelEvent, gone
  <2>4. (s.misused \/ k \notin s.alive) = FALSE
    BY <2>1 DEF Leftovers
  <2>. PICK rest : rest = s.alive \ gone
    OBVIOUS
  <2>5. rest \in SUBSET DOMAIN created /\ rest \subseteq s.alive \ {k} /\ s.held \ gone = rest
    BY <2>2 DEF Leftovers
  <2>6. Ask!DeleteIfValid(s, k) = [alive |-> rest, held |-> rest, misused |-> FALSE]
    BY <2>3, <2>4, <2>5
  <2>. QED
    BY <2>5, <2>6 DEF Leftovers
<1>. QED
  BY <1>1, <1>2

LEMMA NothingIsLeft ==
  ASSUME NEW N \in Nat, DOMAIN created = 1 .. N, Len(created) = N,
         widgetsAlive = 1 .. N, held = 1 .. N, misused = FALSE
  PROVE  Ask!AllDeleted.alive = {} /\ Ask!AllDeleted.misused = FALSE
<1>. DEFINE start == [alive |-> widgetsAlive, held |-> held, misused |-> misused]
            step == [q \in Leftovers \X (1 .. N) |-> Ask!DeleteIfValid(q[1], q[2])]
            Makes(f) == f = [n \in 0 .. Len(created) |-> IF n = 0 THEN start ELSE Ask!DeleteIfValid(f[n - 1], n)]
            upTo == CHOOSE f : Makes(f)
<1>1. start \in Leftovers
  BY DEF Leftovers
<1>2. StepsIn(step, Leftovers, N)
  BY DeletedIsGone DEF StepsIn
<1>3. PICK f : Runs(f, Leftovers, start, step, N)
  <2>. HIDE DEF start, step
  <2>. QED
    BY <1>1, <1>2, Recursion
<1>4. \A v \in Leftovers, n \in 1 .. N : step[<<v, n>>] = Ask!DeleteIfValid(v, n)
  OBVIOUS
<1>5. Makes(f)
  <2>. HIDE DEF start, step
  <2>1. \A n \in 0 .. N : n # 0 => n \in 1 .. N /\ n - 1 \in 0 .. N
    OBVIOUS
  <2>2. \A n \in 0 .. N : f[n] = IF n = 0 THEN start ELSE Ask!DeleteIfValid(f[n - 1], n)
    BY <1>3, <1>4, <2>1 DEF Runs
  <2>. QED
    BY <1>3, <2>2 DEF Runs
<1>6. Makes(upTo)
  BY <1>5
<1>7. Ask!AllDeleted = upTo[N]
  BY DEF Ask!AllDeleted
<1>. HIDE DEF upTo, start
<1>8. /\ DOMAIN upTo = 0 .. N /\ upTo = [n \in 0 .. N |-> upTo[n]] /\ upTo[0] = start
      /\ \A n \in 1 .. N : upTo[n] = Ask!DeleteIfValid(upTo[n - 1], n)
  <2>1. 0 \in 0 .. N /\ \A n \in 1 .. N : n # 0 /\ n \in 0 .. N
    OBVIOUS
  <2>. QED
    BY <1>6, <2>1
<1>. HIDE DEF Makes, step
<1>9. \A n \in 1 .. N : upTo[n - 1] \in Leftovers => upTo[n] = step[<<upTo[n - 1], n>>]
  BY <1>4, <1>8
<1>10. Runs(upTo, Leftovers, start, step, N)
  BY <1>1, <1>2, <1>8, <1>9, StepsRun
<1>11. upTo \in [0 .. N -> Leftovers]
  BY <1>10 DEF Runs
<1>. DEFINE T == {n \in 0 .. N : upTo[n].alive \cap 1 .. n = {}}
<1>12. 0 \in T
  OBVIOUS
<1>13. ASSUME NEW n \in 1 .. N, n - 1 \in T PROVE n \in T
  <2>1. n - 1 \in 0 .. N /\ n \in 0 .. N /\ 1 .. n = 1 .. (n - 1) \cup {n}
    OBVIOUS
  <2>2. upTo[n - 1] \in Leftovers /\ upTo[n] = Ask!DeleteIfValid(upTo[n - 1], n)
    BY <1>8, <1>11, <2>1
  <2>3. upTo[n].alive \subseteq upTo[n - 1].alive \ {n}
    BY <2>2, DeletedIsGone
  <2>4. upTo[n - 1].alive \cap 1 .. (n - 1) = {}
    BY <1>13
  <2>5. upTo[n].alive \cap 1 .. n = {}
    BY <2>1, <2>3, <2>4
  <2>. QED
    BY <2>1, <2>5
<1>. HIDE DEF T
<1>14. 0 .. N \subseteq T
  BY <1>12, <1>13, UpTo
<1>15. upTo[N].alive \cap 1 .. N = {}
  BY <1>14 DEF T
<1>16. upTo[N] \in Leftovers
  BY <1>11
<1>. QED
  BY <1>7, <1>15, <1>16 DEF Leftovers

-----------------------------------------------------------------------------
Kinds == STRING \cup {"window", "popup", "layout", "label", "check"}
AnswerRecords == [popup : Popups, button : Kinds, check : {"on", "off"},
            toggled : {"undefined", "no", "on", "off"}]
Widgets == [kind : Kinds, parent : Nat]
FrameKinds == {"window", "popup", "layout"}

PopupTypes ==
  /\ asks \in [Popups -> Nat] /\ popupReceived \in [Popups -> Seq(AnswerRecords)] /\ popupListening \subseteq Popups
  /\ shows \in Seq(Popups) /\ toRender \in Seq(Popups) /\ currentPopup \in Popups \cup {Nobody}
  /\ answers \in Seq(AnswerRecords)
  /\ canvas \in BOOLEAN /\ initialized \in BOOLEAN
  /\ created \in Seq(Widgets)

\* The check state is what was ticked since the popup before, if anything was.
Ticked ==
  /\ checkState \in {"on", "off"} /\ toggled \in {"undefined", "no", "on", "off"}
  /\ toggled = "no" => checkState = "off"
  /\ toggled \in {"on", "off"} => checkState = toggled

\* There are the widgets of the popup that is shown, and no others.
KindsOf(p) == FrameKinds \cup {"label", "check"} \cup Ask!Buttons(p)

Rendered ==
  /\ widgetsAlive = DOMAIN created /\ held = DOMAIN created /\ misused = FALSE
  /\ initialized /\ currentPopup = Nobody => created = <<>>
  /\ initialized /\ currentPopup # Nobody => \A k \in DOMAIN created : created[k].kind \in KindsOf(currentPopup)

\* A popup is under way in one place, and only if its user listens for it.
PopupsOf(list) == [k \in DOMAIN list |-> list[k].popup]

UnderWay(p) == At(p, shows) \/ At(p, toRender) \/ currentPopup = p \/ At(p, PopupsOf(answers))

InOnePlace ==
  /\ Once(shows) /\ Once(toRender) /\ Once(PopupsOf(answers))
  /\ \A p \in Popups :
       /\ At(p, shows) => ~At(p, toRender) /\ currentPopup # p /\ ~At(p, PopupsOf(answers))
       /\ At(p, toRender) => currentPopup # p /\ ~At(p, PopupsOf(answers))
       /\ currentPopup = p => ~At(p, PopupsOf(answers))
       /\ UnderWay(p) => p \in popupListening
       /\ initialized /\ p \in popupListening => UnderWay(p)

Counted == \A p \in Popups : Len(popupReceived[p]) = asks[p] - (IF p \in popupListening THEN 1 ELSE 0)

\* An answer is one that its user can have given.
Own(p, a) ==
  /\ a.popup = p /\ a.button \in Ask!Buttons(p)
  /\ a.check = CASE a.toggled = "no" -> "off"
                 [] a.toggled = "undefined" -> a.check
                 [] OTHER -> a.toggled

Owned ==
  /\ \A k \in DOMAIN answers : Own(answers[k].popup, answers[k])
  /\ \A p \in Popups : \A k \in DOMAIN popupReceived[p] : Own(p, popupReceived[p][k])

PopupInv == PopupTypes /\ Ticked /\ Rendered /\ InOnePlace /\ Counted /\ Owned

\* It implies the properties.
LEMMA PopupInvIsEnough ==
  ASSUME Ask!PopupAssumption, PopupInv
  PROVE  Ask!AnswersAreOwn /\ Ask!WidgetsDeletedOnce
<1>1. ASSUME NEW p \in Popups, initialized
      PROVE  Ask!InFlight(p) = IF p \in popupListening THEN 1 ELSE 0
  <2>1. /\ Cardinality({k \in DOMAIN shows : shows[k] = p}) = IF At(p, shows) THEN 1 ELSE 0
        /\ Cardinality({k \in DOMAIN toRender : toRender[k] = p}) = IF At(p, toRender) THEN 1 ELSE 0
        /\ Cardinality({k \in DOMAIN PopupsOf(answers) : PopupsOf(answers)[k] = p})
             = IF At(p, PopupsOf(answers)) THEN 1 ELSE 0
    BY OnePlace DEF PopupInv, InOnePlace
  <2>2. {k \in DOMAIN answers : answers[k].popup = p}
          = {k \in DOMAIN PopupsOf(answers) : PopupsOf(answers)[k] = p}
    BY DEF PopupsOf
  <2>3. /\ At(p, shows) => ~At(p, toRender) /\ currentPopup # p /\ ~At(p, PopupsOf(answers))
        /\ At(p, toRender) => currentPopup # p /\ ~At(p, PopupsOf(answers))
        /\ currentPopup = p => ~At(p, PopupsOf(answers))
        /\ UnderWay(p) <=> p \in popupListening
    BY <1>1 DEF PopupInv, InOnePlace
  <2>4. Ask!InFlight(p) = (IF At(p, shows) THEN 1 ELSE 0) + (IF At(p, toRender) THEN 1 ELSE 0)
                        + (IF currentPopup = p THEN 1 ELSE 0) + (IF At(p, PopupsOf(answers)) THEN 1 ELSE 0)
    BY ONLY <2>1, <2>2, AskCardinality DEF Ask!InFlight
  <2>. QED
    BY <2>3, <2>4 DEF UnderWay
<1>2. Ask!AskedOnceAnsweredOnce
  BY <1>1 DEF Ask!AskedOnceAnsweredOnce, PopupInv, Counted
<1>3. Ask!AnswersAreOwn
  BY <1>2 DEF Ask!AnswersAreOwn, PopupInv, Owned, Own
<1>4. Ask!WidgetsDeletedOnce
  BY DEF Ask!WidgetsDeletedOnce, PopupInv, Rendered
<1>. QED
  BY <1>3, <1>4

LEMMA PopupInit ==
  ASSUME Ask!PopupAssumption, Ask!Init
  PROVE  PopupInv
<1>1. PopupTypes
  BY DEF Ask!Init, PopupTypes
<1>2. Ticked /\ Rendered /\ Counted /\ Owned
  BY <1>1 DEF Ask!Init, Ticked, Rendered, Counted, Owned
<1>3. \A x : ~At(x, <<>>)
  BY DEF At
<1>4. PopupsOf(answers) = <<>>
  BY DEF Ask!Init, PopupsOf
<1>5. InOnePlace
  BY <1>3, <1>4 DEF Ask!Init, InOnePlace, UnderWay, Once, Ask!PopupAssumption
<1>. QED
  BY <1>1, <1>2, <1>5 DEF PopupInv

\* The widgets of a popup.
LEMMA WidgetsTyped ==
  ASSUME Ask!PopupAssumption, NEW p \in Popups, NEW c \in BOOLEAN
  PROVE  /\ Ask!WidgetsOf(p, c) \in Seq(Widgets)
         /\ \A k \in DOMAIN Ask!WidgetsOf(p, c) : Ask!WidgetsOf(p, c)[k].kind \in KindsOf(p)
<1>. DEFINE K == [kind : KindsOf(p), parent : Nat]
<1>. PICK frame : frame = IF c THEN << Ask!Widget("popup", 0), Ask!Widget("layout", 1) >>
                          ELSE << Ask!Widget("window", 0), Ask!Widget("popup", 1), Ask!Widget("layout", 2) >>
  OBVIOUS
<1>. PICK main \in Nat : main = IF c THEN 1 ELSE 2
  OBVIOUS
<1>. PICK rows : rows = Kept(PopupObjects[p], {"label", "check"}) \o Kept(PopupObjects[p], Ask!Buttons(p))
  OBVIOUS
<1>1. PopupObjects[p] \in Seq(STRING)
  BY DEF Ask!PopupAssumption
<1>2. rows \in Seq(KindsOf(p))
  <2>. PICK u : u = Kept(PopupObjects[p], {"label", "check"})
    OBVIOUS
  <2>. PICK v : v = Kept(PopupObjects[p], Ask!Buttons(p))
    OBVIOUS
  <2>1. u \in Seq({"label", "check"} \cap STRING) /\ v \in Seq(Ask!Buttons(p) \cap STRING)
    BY <1>1, KeptTyped
  <2>2. u \in Seq(KindsOf(p)) /\ v \in Seq(KindsOf(p))
    <3>1. {"label", "check"} \cap STRING \subseteq KindsOf(p) /\ Ask!Buttons(p) \cap STRING \subseteq KindsOf(p)
      BY DEF KindsOf
    <3>. QED
      BY <2>1, <3>1, SeqMonotonic
  <2>3. rows = u \o v
    OBVIOUS
  <2>. QED
    BY ONLY <2>2, <2>3, ConcatProperties
<1>3. [k \in DOMAIN rows |-> Ask!Widget(rows[k], main)] \in Seq(K)
  <2>1. DOMAIN rows = 1 .. Len(rows) /\ Len(rows) \in Nat /\ \A k \in 1 .. Len(rows) : rows[k] \in KindsOf(p)
    BY <1>2
  <2>2. \A k \in 1 .. Len(rows) : Ask!Widget(rows[k], main) \in K
    BY <2>1 DEF Ask!Widget
  <2>. QED
    BY <2>1, <2>2
<1>4. frame \in Seq(K)
  <2>1. /\ Ask!Widget("popup", 0) \in K /\ Ask!Widget("layout", 1) \in K /\ Ask!Widget("window", 0) \in K
        /\ Ask!Widget("popup", 1) \in K /\ Ask!Widget("layout", 2) \in K
    BY DEF Ask!Widget, KindsOf, FrameKinds
  <2>. HIDE DEF K
  <2>. QED
    BY <2>1
<1>. PICK t : t = [k \in DOMAIN rows |-> Ask!Widget(rows[k], main)]
  OBVIOUS
<1>. PICK w : w = frame \o t
  OBVIOUS
<1>5. w \in Seq(K)
  BY <1>3, <1>4, ConcatProperties
<1>6. Ask!WidgetsOf(p, c) = w
  BY AskKept DEF Ask!WidgetsOf
<1>7. K \subseteq Widgets
  <2>1. \A k \in DOMAIN PopupObjects[p] : PopupObjects[p][k] \in STRING
    BY <1>1
  <2>2. Ask!Buttons(p) \subseteq STRING
    BY <2>1 DEF Ask!Buttons
  <2>3. KindsOf(p) \subseteq Kinds
    BY <2>2 DEF KindsOf, FrameKinds, Kinds
  <2>. QED
    BY <2>3 DEF Widgets
<1>8. w \in Seq(Widgets)
  BY <1>5, <1>7, SeqMonotonic
<1>9. \A k \in DOMAIN w : w[k] \in K
  <2>. HIDE DEF K
  <2>. QED
    BY <1>5
<1>. QED
  BY <1>6, <1>8, <1>9

-----------------------------------------------------------------------------
\* The steps.
LEMMA AskKeeps ==
  ASSUME Ask!PopupAssumption, PopupInv, NEW p \in Popups, Ask!Ask(p)
  PROVE  PopupInv'
<1>. USE DEF PopupInv
<1>1. /\ p \notin popupListening /\ asks' = [asks EXCEPT ![p] = asks[p] + 1]
      /\ popupListening' = popupListening \cup {p} /\ shows' = Append(shows, p)
      /\ UNCHANGED << popupReceived, toRender, currentPopup, canvas, checkState, created, widgetsAlive, held, misused,
                      toggled, answers, initialized, failed >>
  BY DEF Ask!Ask, Ask!renderVars, Ask!widgetVars
<1>2. Lengthened(shows, shows', p, Popups)
  BY <1>1, AppendLengthens DEF PopupTypes
<1>3. PopupTypes'
  BY <1>1, <1>2 DEF PopupTypes, Lengthened
<1>4. Ticked' /\ Rendered' /\ Owned'
  BY <1>1 DEF Ticked, Rendered, Owned, Own
<1>5. Counted'
  BY <1>1 DEF Counted, PopupTypes
<1>6. PopupsOf(answers)' = PopupsOf(answers)
  BY <1>1 DEF PopupsOf
<1>7. ~UnderWay(p)
  BY <1>1 DEF InOnePlace
<1>8. InOnePlace'
  BY <1>1, <1>2, <1>6, <1>7 DEF InOnePlace, UnderWay, Lengthened
<1>. QED
  BY <1>3, <1>4, <1>5, <1>8

LEMMA ToggleKeeps ==
  ASSUME PopupInv, NEW k \in widgetsAlive, NEW state \in {"on", "off"}, Ask!ToggleCheck(k, state)
  PROVE  PopupInv'
<1>. USE DEF PopupInv
<1>1. /\ checkState' = state /\ toggled' = state
      /\ UNCHANGED << asks, popupListening, popupReceived, shows, toRender, currentPopup, canvas, created, widgetsAlive,
                      held, misused, answers, initialized, failed >>
  BY DEF Ask!ToggleCheck, Ask!userVars, Ask!widgetVars
<1>2. PopupTypes' /\ Ticked' /\ Rendered' /\ Owned' /\ Counted'
  BY <1>1 DEF PopupTypes, Ticked, Rendered, Owned, Own, Counted
<1>3. InOnePlace'
  BY <1>1 DEF InOnePlace, UnderWay, PopupsOf
<1>. QED
  BY <1>2, <1>3

LEMMA DeinitializeKeeps ==
  ASSUME Ask!PopupAssumption, PopupInv, Ask!Deinitialize
  PROVE  PopupInv'
<1>. USE DEF PopupInv
<1>1. /\ initialized' = FALSE /\ currentPopup' = Nobody /\ toRender' = <<>>
      /\ UNCHANGED << asks, popupListening, popupReceived, shows, canvas, checkState, created, widgetsAlive, held,
                      misused, answers, failed, toggled >>
  BY DEF Ask!Deinitialize, Ask!userVars, Ask!widgetVars
<1>2. PopupTypes' /\ Ticked' /\ Rendered' /\ Owned' /\ Counted'
  <2>1. PopupTypes'
    <3>1. <<>> \in Seq(Popups)
      OBVIOUS
    <3>. QED
      BY <1>1, <3>1 DEF PopupTypes
  <2>2. Ticked' /\ Rendered' /\ Counted'
    BY <1>1 DEF Ticked, Rendered, Counted
  <2>3. Owned'
    BY <1>1 DEF Owned, Own
  <2>. QED
    BY <2>1, <2>2, <2>3
<1>3. PopupsOf(answers)' = PopupsOf(answers) /\ \A x : ~At(x, <<>>)
  BY <1>1 DEF PopupsOf, At
<1>4. Once(<<>>)
  BY DEF Once
<1>5. InOnePlace'
  BY <1>1, <1>3, <1>4 DEF InOnePlace, UnderWay, Ask!PopupAssumption
<1>. QED
  BY <1>2, <1>5

\* A popup of a queue is rendered, if none is shown.
LEMMA RenderKeeps ==
  ASSUME Ask!PopupAssumption, NEW queue \in Seq(Popups), NEW shown \in Popups \cup {Nobody},
         NEW c \in BOOLEAN, Ask!DoRender(queue, shown, c)
  PROVE  \/ /\ shown = Nobody /\ queue # <<>>
            /\ currentPopup' \in Popups /\ currentPopup' = Head(queue)
            /\ toRender' = Tail(queue)
            /\ created' \in Seq(Widgets) /\ widgetsAlive' = DOMAIN created' /\ held' = DOMAIN created'
            /\ \A k \in DOMAIN created' : created'[k].kind \in KindsOf(currentPopup')
         \/ /\ shown # Nobody \/ queue = <<>>
            /\ currentPopup' = shown /\ toRender' = queue
            /\ UNCHANGED << created, widgetsAlive, held >>
<1>1. CASE shown = Nobody /\ queue # <<>>
  <2>1. Head(queue) \in Popups
    BY <1>1
  <2>2. /\ currentPopup' = Head(queue) /\ toRender' = Tail(queue)
        /\ created' = Ask!WidgetsOf(Head(queue), c)
        /\ widgetsAlive' = DOMAIN created' /\ held' = DOMAIN created'
    BY <1>1 DEF Ask!DoRender
  <2>. QED
    BY <1>1, <2>1, <2>2, WidgetsTyped
<1>2. CASE ~(shown = Nobody /\ queue # <<>>)
  BY <1>2 DEF Ask!DoRender
<1>. QED
  BY <1>1, <1>2

LEMMA ReceiveShowKeeps ==
  ASSUME Ask!PopupAssumption, PopupInv, NEW c \in BOOLEAN, Ask!ReceiveShow(c)
  PROVE  PopupInv'
<1>. USE DEF PopupInv
<1>1. /\ shows # <<>> /\ shows' = Tail(shows)
      /\ UNCHANGED << asks, popupListening, popupReceived, answers, initialized >>
  BY DEF Ask!ReceiveShow, Ask!userVars
<1>2. Shortened(shows, shows', Head(shows), Popups)
  BY <1>1, TailShortens DEF PopupTypes
<1>. PICK p \in Popups : p = Head(shows)
  BY <1>2 DEF Shortened
<1>3. PopupsOf(answers)' = PopupsOf(answers)
  BY <1>1 DEF PopupsOf
<1>4. Counted' /\ Owned'
  BY <1>1 DEF Counted, Owned, Own
<1>5. CASE initialized
  <2>. PICK queue : queue = Append(toRender, p)
    OBVIOUS
  <2>1. Lengthened(toRender, queue, p, Popups)
    BY AppendLengthens DEF PopupTypes
  <2>2. queue \in Seq(Popups) /\ canvas' = c
        /\ Ask!DoRender(queue, currentPopup, c)
        /\ UNCHANGED << checkState, misused, failed, toggled >>
    BY <1>5, <2>1 DEF Ask!ReceiveShow, Lengthened
  <2>3. currentPopup \in Popups \cup {Nobody}
    BY DEF PopupTypes
  <2>4. \/ /\ currentPopup = Nobody /\ queue # <<>>
           /\ currentPopup' \in Popups /\ currentPopup' = Head(queue)
           /\ toRender' = Tail(queue)
           /\ created' \in Seq(Widgets) /\ widgetsAlive' = DOMAIN created' /\ held' = DOMAIN created'
           /\ \A k \in DOMAIN created' : created'[k].kind \in KindsOf(currentPopup')
        \/ /\ currentPopup # Nobody \/ queue = <<>>
           /\ currentPopup' = currentPopup /\ toRender' = queue
           /\ UNCHANGED << created, widgetsAlive, held >>
    BY <2>2, <2>3, RenderKeeps
  <2>5. At(p, shows) /\ ~At(p, toRender) /\ currentPopup # p /\ ~At(p, PopupsOf(answers)) /\ Once(queue)
    BY <1>2, <2>1 DEF InOnePlace, Shortened, Lengthened
  <2>6. Ticked'
    BY <2>2 DEF Ticked
  <2>7. CASE currentPopup = Nobody /\ queue # <<>>
    <3>1. Shortened(queue, toRender', currentPopup', Popups)
      BY <2>2, <2>4, <2>7, TailShortens
    <3>2. PopupTypes'
      BY <1>1, <1>2, <2>2, <2>4, <2>7, <3>1 DEF PopupTypes, Shortened
    <3>3. Rendered'
      BY <1>1, <2>2, <2>4, <2>7 DEF Rendered, KindsOf, Ask!PopupAssumption
    <3>4. InOnePlace'
      BY <1>1, <1>2, <1>3, <2>1, <2>4, <2>5, <2>7, <3>1
         DEF InOnePlace, UnderWay, Shortened, Lengthened, Ask!PopupAssumption
    <3>. QED
      BY <1>4, <2>6, <3>2, <3>3, <3>4
  <2>8. CASE ~(currentPopup = Nobody /\ queue # <<>>)
    <3>1. PopupTypes'
      BY <1>1, <1>2, <2>2, <2>4, <2>8 DEF PopupTypes, Shortened
    <3>2. Rendered'
      BY <1>1, <2>2, <2>4, <2>8 DEF Rendered, KindsOf
    <3>3. InOnePlace'
      BY <1>1, <1>2, <1>3, <2>1, <2>4, <2>5, <2>8
         DEF InOnePlace, UnderWay, Shortened, Lengthened
    <3>. QED
      BY <1>4, <2>6, <3>1, <3>2, <3>3
  <2>. QED
    BY <2>7, <2>8
<1>6. CASE ~initialized
  <2>1. UNCHANGED << toRender, currentPopup, canvas, checkState, created, widgetsAlive, held, misused, toggled >>
    BY <1>6 DEF Ask!ReceiveShow, Ask!renderVars, Ask!widgetVars
  <2>2. PopupTypes' /\ Ticked' /\ Rendered'
    BY <1>1, <1>2, <2>1 DEF PopupTypes, Ticked, Rendered, KindsOf, Shortened
  <2>3. InOnePlace'
    BY <1>1, <1>2, <1>3, <1>6, <2>1 DEF InOnePlace, UnderWay, Shortened
  <2>. QED
    BY <1>4, <2>2, <2>3
<1>. QED
  BY <1>5, <1>6

\* The lists of the popups of answers.
LEMMA AppendIsTyped ==
  ASSUME NEW S, NEW s \in Seq(S), NEW x \in S
  PROVE  /\ Append(s, x) \in Seq(S) /\ Len(Append(s, x)) = Len(s) + 1 /\ Len(s) \in Nat
         /\ \A i \in DOMAIN Append(s, x) : Append(s, x)[i] = x \/ (i \in DOMAIN s /\ Append(s, x)[i] = s[i])
<1>. PICK t : t = Append(s, x)
  OBVIOUS
<1>1. /\ t \in Seq(S) /\ Len(t) = Len(s) + 1 /\ Len(s) \in Nat /\ DOMAIN t = 1 .. Len(s) + 1 /\ DOMAIN s = 1 .. Len(s)
      /\ t[Len(s) + 1] = x /\ \A i \in 1 .. Len(s) : t[i] = s[i]
  OBVIOUS
<1>2. \A i \in DOMAIN t : t[i] = x \/ (i \in DOMAIN s /\ t[i] = s[i])
  <2>. TAKE i \in DOMAIN t
  <2>1. i = Len(s) + 1 \/ i \in 1 .. Len(s)
    BY ONLY <1>1, i \in DOMAIN t
  <2>2. t[Len(s) + 1] = x /\ (i \in 1 .. Len(s) => i \in DOMAIN s /\ t[i] = s[i])
    BY ONLY <1>1
  <2>. QED
    BY ONLY <2>1, <2>2
<1>. QED
  BY <1>1, <1>2

LEMMA PopupsOfMore ==
  ASSUME NEW list \in Seq(AnswerRecords), NEW a \in AnswerRecords
  PROVE  /\ PopupsOf(list) \in Seq(Popups)
         /\ PopupsOf(Append(list, a)) = Append(PopupsOf(list), a.popup)
<1>. PICK N \in Nat : N = Len(list)
  OBVIOUS
<1>. PICK l : l = Append(list, a)
  OBVIOUS
<1>1. /\ DOMAIN list = 1 .. N /\ DOMAIN l = 1 .. N + 1 /\ l[N + 1] = a
      /\ \A k \in 1 .. N : l[k] = list[k] /\ list[k] \in AnswerRecords
  OBVIOUS
<1>. PICK q : q = PopupsOf(list)
  OBVIOUS
<1>. PICK r : r = PopupsOf(l)
  OBVIOUS
<1>2. a.popup \in Popups /\ \A k \in 1 .. N : list[k].popup \in Popups
  BY <1>1 DEF AnswerRecords
<1>3. q = [k \in 1 .. N |-> list[k].popup]
  BY <1>1 DEF PopupsOf
<1>4. q \in Seq(Popups) /\ Len(q) = N
  BY <1>2, <1>3
<1>5. r = [k \in 1 .. N + 1 |-> l[k].popup]
  BY <1>1 DEF PopupsOf
<1>6. \A k \in 1 .. N + 1 : l[k].popup = IF k = N + 1 THEN a.popup ELSE q[k]
  BY <1>1, <1>3
<1>7. r \in Seq(Popups) /\ Len(r) = N + 1
  <2>1. \A k \in 1 .. N + 1 : l[k].popup \in Popups
    <3>1. \A k \in 1 .. N : q[k] \in Popups
      BY <1>2, <1>3
    <3>. QED
      BY <1>2, <1>6, <3>1
  <2>. QED
    BY <1>5, <2>1
<1>. PICK t : t = Append(q, a.popup)
  OBVIOUS
<1>8. t \in Seq(Popups) /\ Len(t) = N + 1 /\ t[N + 1] = a.popup /\ \A k \in 1 .. N : t[k] = q[k]
  BY <1>2, <1>4, AppendProperties
<1>9. \A k \in 1 .. N + 1 : r[k] = t[k]
  BY <1>5, <1>6, <1>8
<1>10. r = t
  BY <1>7, <1>8, <1>9, SeqEqual
<1>. QED
  BY <1>4, <1>10

LEMMA PopupsOfFewer ==
  ASSUME NEW list \in Seq(AnswerRecords), NEW k \in DOMAIN list
  PROVE  /\ PopupsOf(list) \in Seq(Popups) /\ k \in DOMAIN PopupsOf(list)
         /\ PopupsOf(list)[k] = list[k].popup
         /\ Ask!RemoveAt(list, k) \in Seq(AnswerRecords)
         /\ PopupsOf(Ask!RemoveAt(list, k)) = Ask!RemoveAt(PopupsOf(list), k)
         /\ \A i \in DOMAIN Ask!RemoveAt(list, k) : \E j \in DOMAIN list : Ask!RemoveAt(list, k)[i] = list[j]
<1>. PICK N \in Nat : N = Len(list)
  OBVIOUS
<1>. PICK q : q = PopupsOf(list)
  OBVIOUS
<1>. PICK l : l = Ask!RemoveAt(list, k)
  OBVIOUS
<1>. PICK r : r = PopupsOf(l)
  OBVIOUS
<1>. PICK t : t = Ask!RemoveAt(q, k)
  OBVIOUS
<1>1. /\ l \in Seq(AnswerRecords) /\ DOMAIN list = 1 .. N /\ DOMAIN l = 1 .. N - 1 /\ Len(l) = N - 1 /\ k \in 1 .. N
      /\ \A i \in 1 .. N - 1 : l[i] = IF i < k THEN list[i] ELSE list[i + 1]
  <2>1. /\ l \in Seq(AnswerRecords) /\ Len(l) = Len(list) - 1
        /\ \A i \in 1 .. Len(list) - 1 : l[i] = IF i < k THEN list[i] ELSE list[i + 1]
    BY RemoveAtIs
  <2>2. DOMAIN list = 1 .. N /\ DOMAIN l = 1 .. Len(l)
    BY <2>1
  <2>. QED
    BY <2>1, <2>2
<1>2. \A i \in 1 .. N : list[i].popup \in Popups
  <2>1. \A i \in 1 .. N : list[i] \in AnswerRecords
    BY <1>1
  <2>. QED
    BY <2>1 DEF AnswerRecords
<1>3. q = [i \in 1 .. N |-> list[i].popup]
  BY <1>1 DEF PopupsOf
<1>4. q \in Seq(Popups) /\ Len(q) = N /\ DOMAIN q = 1 .. N
  BY <1>2, <1>3
<1>5. t \in Seq(Popups) /\ Len(t) = N - 1 /\ \A i \in 1 .. N - 1 : t[i] = IF i < k THEN q[i] ELSE q[i + 1]
  BY ONLY <1>1, <1>4, t = Ask!RemoveAt(q, k), RemoveAtIs
<1>6. r = [i \in 1 .. N - 1 |-> l[i].popup]
  BY <1>1 DEF PopupsOf
<1>7. \A i \in 1 .. N - 1 : i \in 1 .. N /\ i + 1 \in 1 .. N
  OBVIOUS
<1>8. \A i \in 1 .. N - 1 : l[i].popup = t[i]
  BY ONLY <1>1, <1>3, <1>5, <1>7
<1>9. r = t
  <2>1. t = [i \in 1 .. N - 1 |-> t[i]]
    BY <1>5
  <2>. QED
    BY <1>6, <1>8, <2>1
<1>10. \A i \in 1 .. N - 1 : \E j \in 1 .. N : l[i] = list[j]
  BY <1>1, <1>7
<1>. QED
  BY <1>1, <1>3, <1>4, <1>9, <1>10

LEMMA ReceiveAnswerKeeps ==
  ASSUME Ask!PopupAssumption, PopupInv, NEW p \in Popups, Ask!ReceiveAnswer(p)
  PROVE  PopupInv'
<1>. USE DEF PopupInv
<1>. PICK k : k = Ask!SelectInSeq(answers, LAMBDA a : Asker[a.popup] = Asker[p])
  OBVIOUS
<1>1. /\ k # 0 /\ answers[k].popup = p /\ answers' = Ask!RemoveAt(answers, k)
      /\ popupReceived' = [popupReceived EXCEPT ![p] = Append(popupReceived[p], answers[k])]
      /\ popupListening' = popupListening \ {p}
      /\ UNCHANGED << asks, shows, toRender, currentPopup, canvas, checkState, created, widgetsAlive, held,
                      misused, toggled, initialized, failed >>
  BY DEF Ask!ReceiveAnswer, Ask!renderVars, Ask!widgetVars
<1>2. k \in DOMAIN answers
  <2>. PICK I : I = {i \in 1 .. Len(answers) : Asker[answers[i].popup] = Asker[p]}
    OBVIOUS
  <2>1. k = IF I # {} THEN Ask!Min(I) ELSE 0
    BY DEF Ask!SelectInSeq
  <2>2. I # {} /\ k = Ask!Min(I)
    BY <1>1, <2>1
  <2>3. I \subseteq Nat /\ I \subseteq DOMAIN answers
    BY DEF PopupTypes
  <2>4. \E x \in I : \A y \in I : x =< y
    BY <2>2, <2>3, LeastNumber
  <2>5. Ask!Min(I) \in I
    BY <2>4 DEF Ask!Min
  <2>. QED
    BY <2>2, <2>3, <2>5
<1>. PICK a : a = answers[k]
  OBVIOUS
<1>3. a \in AnswerRecords /\ a.popup = p /\ Own(p, a)
  BY <1>1, <1>2 DEF PopupTypes, Owned
<1>4. /\ PopupsOf(answers) \in Seq(Popups) /\ k \in DOMAIN PopupsOf(answers)
      /\ PopupsOf(answers)[k] = p
      /\ answers' \in Seq(AnswerRecords)
      /\ PopupsOf(answers)' = Ask!RemoveAt(PopupsOf(answers), k)
      /\ \A i \in DOMAIN answers' : \E j \in DOMAIN answers : answers'[i] = answers[j]
  <2>1. PopupsOf(answers)' = PopupsOf(answers')
    BY DEF PopupsOf
  <2>2. answers \in Seq(AnswerRecords)
    BY DEF PopupTypes
  <2>. QED
    BY <1>1, <1>2, <2>1, <2>2, PopupsOfFewer
<1>5. Shortened(PopupsOf(answers), PopupsOf(answers)', p, Popups)
  BY <1>4, RemoveShortens
<1>6. /\ popupReceived'[p] = Append(popupReceived[p], a) /\ popupReceived' \in [Popups -> Seq(AnswerRecords)]
      /\ Len(popupReceived'[p]) = Len(popupReceived[p]) + 1 /\ Len(popupReceived[p]) \in Nat
      /\ \A q \in Popups : q # p => popupReceived'[q] = popupReceived[q]
      /\ \A i \in DOMAIN popupReceived'[p] : popupReceived'[p][i] = a \/ (i \in DOMAIN popupReceived[p] /\ popupReceived'[p][i] = popupReceived[p][i])
  <2>. PICK r \in Seq(AnswerRecords) : r = popupReceived[p]
    BY DEF PopupTypes
  <2>. PICK t : t = Append(r, a)
    OBVIOUS
  <2>1. popupReceived'[p] = t
    BY <1>1 DEF PopupTypes
  <2>2. /\ t \in Seq(AnswerRecords) /\ Len(t) = Len(r) + 1 /\ Len(r) \in Nat
        /\ \A i \in DOMAIN t : t[i] = a \/ (i \in DOMAIN r /\ t[i] = r[i])
    BY ONLY <1>3, r \in Seq(AnswerRecords), t = Append(r, a), AppendIsTyped
  <2>3. popupReceived' \in [Popups -> Seq(AnswerRecords)] /\ \A q \in Popups : q # p => popupReceived'[q] = popupReceived[q]
    BY <1>1, <2>1, <2>2 DEF PopupTypes
  <2>. QED
    BY <2>1, <2>2, <2>3
<1>7. p \in popupListening
  BY <1>5 DEF InOnePlace, UnderWay, Shortened
<1>8. PopupTypes' /\ Ticked' /\ Rendered'
  BY <1>1, <1>4, <1>6 DEF PopupTypes, Ticked, Rendered, KindsOf
<1>9. Counted'
  BY <1>1, <1>6, <1>7 DEF Counted, PopupTypes
<1>10. Owned'
  <2>1. \A i \in DOMAIN answers' : Own(answers'[i].popup, answers'[i])
    BY <1>4 DEF Owned
  <2>2. ASSUME NEW q \in Popups, NEW i \in DOMAIN popupReceived'[q] PROVE Own(q, popupReceived'[q][i])
    <3>1. CASE q = p
      BY <1>3, <1>6, <2>2, <3>1 DEF Owned
    <3>2. CASE q # p
      BY <1>6, <2>2, <3>2 DEF Owned
    <3>. QED
      BY <3>1, <3>2
  <2>. QED
    BY <2>1, <2>2 DEF Owned, Own
<1>11. InOnePlace'
  BY <1>1, <1>5, <1>7 DEF InOnePlace, UnderWay, Shortened
<1>. QED
  BY <1>8, <1>9, <1>10, <1>11

LEMMA ButtonKeeps ==
  ASSUME Ask!PopupAssumption, PopupInv, NEW k \in widgetsAlive, Ask!ButtonCallback(k)
  PROVE  PopupInv'
<1>. USE DEF PopupInv
<1>1. /\ k \in DOMAIN created
      /\ created[k].kind \notin {"window", "popup", "layout", "label", "check"}
      /\ UNCHANGED << asks, popupListening, popupReceived, shows, initialized >>
  BY DEF Ask!ButtonCallback, Ask!userVars, Rendered
<1>2. Counted'
  BY <1>1 DEF Counted
<1>3. CASE ~initialized
  <2>1. UNCHANGED << toRender, currentPopup, canvas, checkState, created, widgetsAlive, held, misused, toggled, answers >>
    BY <1>3 DEF Ask!ButtonCallback, Ask!renderVars, Ask!widgetVars
  <2>2. PopupTypes' /\ Ticked' /\ Rendered'
    BY <1>1, <2>1 DEF PopupTypes, Ticked, Rendered, KindsOf
  <2>3. Owned'
    BY <1>1, <2>1 DEF Owned, Own
  <2>4. InOnePlace'
    BY <1>1, <2>1 DEF InOnePlace, UnderWay, PopupsOf
  <2>. QED
    BY <1>2, <2>2, <2>3, <2>4
<1>4. CASE initialized
  <2>. PICK a : a = [popup |-> currentPopup, button |-> created[k].kind, check |-> checkState, toggled |-> toggled]
    OBVIOUS
  <2>. PICK N \in Nat : N = Len(created) /\ DOMAIN created = 1 .. N
    BY DEF PopupTypes
  <2>1. Ask!AllDeleted.alive = {} /\ Ask!AllDeleted.misused = FALSE
    BY NothingIsLeft DEF Rendered
  <2>2. /\ answers' = Append(answers, a)
        /\ misused' = FALSE
        /\ checkState' = "off" /\ toggled' = "no"
        /\ Ask!AfterAnswer(Ask!AllDeleted)
        /\ UNCHANGED << canvas, failed >>
    BY <1>4, <2>1 DEF Ask!ButtonCallback, Ask!CheckCleared
  <2>3. currentPopup # Nobody
    BY <1>1, <1>4 DEF Rendered
  <2>. PICK p \in Popups : p = currentPopup
    BY <2>3 DEF PopupTypes
  <2>4. created[k].kind \in Ask!Buttons(p) /\ created[k].kind \in Kinds
    <3>1. created[k].kind \in KindsOf(p)
      BY <1>1, <1>4, <2>3 DEF Rendered
    <3>2. created[k] \in Widgets
      BY <1>1 DEF PopupTypes
    <3>. QED
      BY <1>1, <3>1, <3>2 DEF KindsOf, FrameKinds, Widgets
  <2>5. a \in AnswerRecords /\ a.popup = p /\ Own(p, a)
    BY <2>4 DEF AnswerRecords, Own, Ticked
  <2>6. /\ PopupsOf(answers) \in Seq(Popups)
        /\ PopupsOf(answers)' = Append(PopupsOf(answers), p)
    <3>1. PopupsOf(answers)' = PopupsOf(answers')
      BY DEF PopupsOf
    <3>2. answers \in Seq(AnswerRecords)
      BY DEF PopupTypes
    <3>. QED
      BY <2>2, <2>5, <3>1, <3>2, PopupsOfMore
  <2>7. Lengthened(PopupsOf(answers), PopupsOf(answers)', p, Popups)
    BY <2>6, AppendLengthens
  <2>8. answers' \in Seq(AnswerRecords)
        /\ \A i \in DOMAIN answers' : answers'[i] = a \/ (i \in DOMAIN answers /\ answers'[i] = answers[i])
    <3>1. answers \in Seq(AnswerRecords)
      BY DEF PopupTypes
    <3>. QED
      BY ONLY <2>2, <2>5, <3>1, AppendIsTyped
  <2>9. Owned'
    BY <1>1, <2>5, <2>8 DEF Owned, Own
  <2>10. Ticked'
    BY <2>2 DEF Ticked
  <2>11. ~At(p, shows) /\ ~At(p, toRender) /\ ~At(p, PopupsOf(answers)) /\ p \in popupListening
    BY DEF InOnePlace, UnderWay
  <2>12. CASE toRender = <<>>
    <3>1. currentPopup' = Nobody /\ created' = <<>> /\ widgetsAlive' = {} /\ held' = {} /\ toRender' = toRender
      BY <2>1, <2>2, <2>12 DEF Ask!AfterAnswer
    <3>2. PopupTypes'
      BY <1>1, <2>2, <2>8, <3>1 DEF PopupTypes
    <3>3. Rendered'
      BY <2>2, <3>1 DEF Rendered
    <3>4. InOnePlace'
      BY <1>1, <2>7, <2>11, <3>1 DEF InOnePlace, UnderWay, Lengthened, Ask!PopupAssumption
    <3>. QED
      BY <1>2, <2>9, <2>10, <3>2, <3>3, <3>4
  <2>13. CASE toRender # <<>>
    <3>1. Ask!DoRender(toRender, Nobody, canvas)
      BY <2>2, <2>13 DEF Ask!AfterAnswer
    <3>2. toRender \in Seq(Popups) /\ canvas \in BOOLEAN
      BY DEF PopupTypes
    <3>3. /\ currentPopup' \in Popups /\ currentPopup' = Head(toRender)
          /\ toRender' = Tail(toRender)
          /\ created' \in Seq(Widgets) /\ widgetsAlive' = DOMAIN created' /\ held' = DOMAIN created'
          /\ \A i \in DOMAIN created' : created'[i].kind \in KindsOf(currentPopup')
      BY <2>13, <3>1, <3>2, RenderKeeps
    <3>4. Shortened(toRender, toRender', currentPopup', Popups)
      BY <2>13, <3>2, <3>3, TailShortens
    <3>5. PopupTypes'
      BY <1>1, <2>2, <2>8, <3>3, <3>4 DEF PopupTypes, Shortened
    <3>6. Rendered'
      BY <2>2, <3>3 DEF Rendered, KindsOf, Ask!PopupAssumption
    <3>7. InOnePlace'
      BY <1>1, <2>7, <2>11, <3>3, <3>4 DEF InOnePlace, UnderWay, Lengthened, Shortened, Ask!PopupAssumption
    <3>. QED
      BY <1>2, <2>9, <2>10, <3>5, <3>6, <3>7
  <2>. QED
    BY <2>12, <2>13
<1>. QED
  BY <1>3, <1>4

LEMMA PopupStep == Ask!PopupAssumption /\ PopupInv /\ [Ask!Next]_(Ask!vars) => PopupInv'
<1>. SUFFICES ASSUME Ask!PopupAssumption, PopupInv, [Ask!Next]_(Ask!vars) PROVE PopupInv'
  OBVIOUS
<1>1. CASE UNCHANGED Ask!vars
  <2>1. /\ PopupTypes' /\ Ticked' /\ Rendered' /\ Counted'
    BY <1>1 DEF Ask!vars, PopupInv, PopupTypes, Ticked, Rendered, KindsOf, Counted
  <2>2. InOnePlace' /\ Owned'
    BY <1>1 DEF Ask!vars, PopupInv, InOnePlace, UnderWay, PopupsOf, Owned, Own
  <2>. QED
    BY <2>1, <2>2 DEF PopupInv
<1>2. CASE Ask!Next
  BY <1>2, AskKeeps, ReceiveAnswerKeeps, ReceiveShowKeeps, ButtonKeeps, DeinitializeKeeps, ToggleKeeps
     DEF Ask!Next, Ask!Press
<1>. QED
  BY <1>1, <1>2


LEMMA PopupMoves == [Next]_vars => [Ask!Next]_(Ask!vars)
BY DEF Next, Only, Is, vars, popupVars, Ask!vars

\* A popup that is asked with is under way in one place until its user, and nobody
\* else, has the answer, which is of one of its buttons and says what was ticked in
\* that popup; and its widgets are deleted once, with none left behind
\* (popup_controller.cpp, popup_renderer.cpp: Show, DoRender, ButtonCallback).
THEOREM UsersGetTheirAnswers == SafetySpec => []AnswersAreOwn
<1>. USE ComponentsAssumption DEF ComponentsAssumption
<1>1. Init => PopupInv
  BY PopupInit DEF Init
<1>2. PopupInv /\ [Next]_vars => PopupInv'
  BY PopupMoves, PopupStep
<1>3. PopupInv => AnswersAreOwn
  BY PopupInvIsEnough DEF AnswersAreOwn
<1> QED
  BY <1>1, <1>2, <1>3, PTL DEF SafetySpec

\* What TaskList calls Kept and Joined is so.
LEMMA ListKept == ASSUME NEW s, NEW S PROVE List!Kept(s, S) = Kept(s, S)
BY DEF List!Kept, Kept

LEMMA ListJoined == ASSUME NEW ss PROVE List!Joined(ss) = Joined(ss)
BY DEF List!Joined, Joined

-----------------------------------------------------------------------------
(* TaskList. *)

\* No task is twice in a list.
Distinct(l) == \A i, j \in 1 .. Len(l) : l[i] = l[j] => i = j

StepSet ==
  UNION {{Steps[t][i] : i \in DOMAIN Steps[t]} \cup {AbortSteps[t][i] : i \in DOMAIN AbortSteps[t]} : t \in List!TaskSet}

TaskListTypes ==
  /\ m_tasks \in Seq(List!TaskSet) /\ Distinct(m_tasks)
  /\ m_currentTask \in 1 .. Len(m_tasks) + 1
  /\ m_steps \in [List!TaskSet -> Seq(StepSet)]
  /\ m_abortSteps \in [List!TaskSet -> Seq(StepSet)]
  /\ m_nextStep \in [List!TaskSet -> Nat]
  /\ result \in BOOLEAN
  /\ aborts \in 0 .. 2

\* The tasks after the current one have not begun, and each has a step to begin with.
Begun ==
  /\ \A k \in 1 .. Len(m_tasks) : m_steps[m_tasks[k]] # <<>>
  /\ \A k \in 1 .. Len(m_tasks) : k > m_currentTask => m_nextStep[m_tasks[k]] = 1
  /\ result => /\ m_currentTask <= Len(m_tasks)
               /\ m_nextStep[List!Current] \in 1 .. Len(m_steps[List!Current])
  /\ ~ result => m_currentTask = Len(m_tasks) + 1

\* What a task has to do when it is undone, and what the tasks of a list have to.
Due(t, steps) == [i \in DOMAIN steps[t] |-> <<t, steps[t][i]>>]
Dues(l, steps) == [k \in 1 .. Len(l) |-> Due(l[k], steps)]

\* f says what the tasks before each of the list have to do: that much has been
\* undone, and of the current task the steps before the next one.
UndoneBy(f) ==
  undone = f[m_currentTask - 1]
           \o (IF m_currentTask <= Len(m_tasks)
               THEN SubSeq(Due(List!Current, m_steps), 1, m_nextStep[List!Current] - 1) ELSE <<>>)

Undoing ==
  /\ \A k \in 1 .. Len(m_tasks) : m_abortSteps[m_tasks[k]] = <<>>
  /\ undo = Joined(Dues(m_tasks, m_steps))
  /\ \E f : Joins(f, Dues(m_tasks, m_steps), List!TaskSet \X StepSet) /\ UndoneBy(f)

Phases ==
  \/ aborts = 0 /\ m_tasks = Tasks /\ undo = <<>> /\ undone = <<>>
  \/ aborts = 1 /\ Undoing
  \/ aborts = 2 /\ m_tasks = <<>> /\ undone \in Seq(List!TaskSet \X StepSet) /\ undo = undone

TaskListInv == TaskListTypes /\ Begun /\ Phases

-----------------------------------------------------------------------------
(* Lists of tasks. *)

LEMMA KeptOnce ==
  ASSUME NEW E, NEW l \in Seq(E), NEW S, Distinct(l)
  PROVE  Distinct(Kept(l, S)) /\ \A i \in 1 .. Len(Kept(l, S)) : \E j \in 1 .. Len(l) : Kept(l, S)[i] = l[j]
<1>. DEFINE From(n) == \A m \in Seq(E) : Len(m) = n /\ Distinct(m)
                       => /\ Distinct(Kept(m, S))
                          /\ \A i \in 1 .. Len(Kept(m, S)) : \E j \in 1 .. n : Kept(m, S)[i] = m[j]
            T == {n \in Nat : From(n)}
<1>1. 0 \in T
  <2>. SUFFICES ASSUME NEW m \in Seq(E), Len(m) = 0
                PROVE  Distinct(Kept(m, S)) /\ \A i \in 1 .. Len(Kept(m, S)) : FALSE
    OBVIOUS
  <2>1. m = <<>>
    OBVIOUS
  <2>2. Kept(m, S) = <<>> /\ 1 .. Len(<<>>) = {}
    BY <2>1, KeptOfEmpty
  <2>. QED
    BY <2>2 DEF Distinct
<1>2. ASSUME NEW n \in 1 .. Len(l), n - 1 \in T PROVE n \in T
  <2>. SUFFICES ASSUME NEW m \in Seq(E), Len(m) = n, Distinct(m)
                PROVE  /\ Distinct(Kept(m, S))
                       /\ \A i \in 1 .. Len(Kept(m, S)) : \E j \in 1 .. n : Kept(m, S)[i] = m[j]
    OBVIOUS
  <2>. PICK b : b = SubSeq(m, 1, n - 1)
    OBVIOUS
  <2>. PICK x : x = m[n]
    OBVIOUS
  <2>1. b \in Seq(E) /\ x \in E /\ m = Append(b, x) /\ Len(b) = n - 1 /\ \A j \in 1 .. n - 1 : b[j] = m[j]
    OBVIOUS
  <2>2. Distinct(b) /\ \A j \in 1 .. n - 1 : m[j] # x
    <3>1. \A j \in 1 .. n - 1 : j \in 1 .. n /\ n \in 1 .. n /\ j # n
      OBVIOUS
    <3>2. \A i, j \in 1 .. n : m[i] = m[j] => i = j
      BY DEF Distinct
    <3>3. \A i, j \in 1 .. n - 1 : b[i] = b[j] => i = j
      BY <2>1, <3>1, <3>2
    <3>4. \A j \in 1 .. n - 1 : m[j] # x
      BY <3>1, <3>2
    <3>. QED
      BY <2>1, <3>3, <3>4 DEF Distinct
  <2>. PICK k : k = Kept(b, S)
    OBVIOUS
  <2>3. k \in Seq(E) /\ Distinct(k) /\ \A i \in 1 .. Len(k) : \E j \in 1 .. n - 1 : k[i] = b[j]
    <3>1. Kept(b, S) \in Seq(S \cap E)
      BY <2>1, KeptTyped
    <3>2. k \in Seq(E)
      BY ONLY k = Kept(b, S), <3>1, S \cap E \subseteq E, SeqMonotonic
    <3>3. From(n - 1)
      BY <1>2
    <3>4. Distinct(k) /\ \A i \in 1 .. Len(k) : \E j \in 1 .. n - 1 : k[i] = b[j]
      BY <2>1, <2>2, <3>3, ZenonT(60)
    <3>. QED
      BY <3>2, <3>4
  <2>4. CASE x \notin S
    <3>1. Kept(m, S) = k
      <4>1. Kept(Append(b, x), S) = Kept(b, S)
        BY ONLY <2>1, <2>4, KeptOfAppended
      <4>. QED
        BY <2>1, <4>1
    <3>. QED
      BY <2>1, <2>3, <3>1
  <2>5. CASE x \in S
    <3>1. Kept(m, S) = Append(k, x)
      <4>1. Kept(Append(b, x), S) = Append(Kept(b, S), x)
        BY ONLY <2>1, <2>5, KeptOfAppended
      <4>. QED
        BY <2>1, <4>1
    <3>. PICK a : a = Append(k, x)
      OBVIOUS
    <3>. PICK N \in Nat : N = Len(k)
      BY <2>3
    <3>2. Len(a) = N + 1 /\ a[N + 1] = x /\ \A i \in 1 .. N : a[i] = k[i]
      BY <2>3
    <3>3. \A i \in 1 .. N : k[i] # x /\ \E j \in 1 .. n : k[i] = m[j]
      <4>. TAKE i \in 1 .. N
      <4>1. PICK j \in 1 .. n - 1 : k[i] = b[j]
        BY <2>3
      <4>2. b[j] = m[j] /\ m[j] # x /\ j \in 1 .. n
        BY <2>1, <2>2
      <4>. QED
        BY <4>1, <4>2
    <3>4. \A i \in 1 .. N + 1 : i \in 1 .. N \/ i = N + 1
      OBVIOUS
    <3>5. Distinct(a)
      <4>. SUFFICES ASSUME NEW i \in 1 .. N + 1, NEW j \in 1 .. N + 1, a[i] = a[j] PROVE i = j
        BY <3>2 DEF Distinct
      <4>1. CASE i \in 1 .. N /\ j \in 1 .. N
        BY <2>3, <3>2, <4>1 DEF Distinct
      <4>2. CASE i = N + 1 \/ j = N + 1
        BY <3>2, <3>3, <3>4, <4>2
      <4>. QED
        BY <3>4, <4>1, <4>2
    <3>6. \A i \in 1 .. N + 1 : \E j \in 1 .. n : a[i] = m[j]
      <4>1. n \in 1 .. n /\ m[n] = x
        OBVIOUS
      <4>. TAKE i \in 1 .. N + 1
      <4>2. CASE i \in 1 .. N
        BY <3>2, <3>3, <4>2, SMTT(60)
      <4>3. CASE i = N + 1
        BY <3>2, <4>1, <4>3, SMTT(60)
      <4>. QED
        BY <3>4, <4>2, <4>3
    <3>. QED
      BY <3>1, <3>2, <3>5, <3>6
  <2>. QED
    BY <2>4, <2>5
<1>3. Len(l) \in Nat /\ Len(l) \in 0 .. Len(l)
  OBVIOUS
<1>. HIDE DEF T
<1>4. 0 .. Len(l) \subseteq T
  BY <1>1, <1>2, <1>3, UpTo
<1>5. Len(l) \in T
  BY <1>3, <1>4
<1>. QED
  BY <1>5 DEF T

\* Tasks that have nothing to do can be left out of the list.
DuesTyped(steps, E, F) == \A t \in E : Due(t, steps) \in Seq(F) /\ Len(Due(t, steps)) = Len(steps[t])

LEMMA DuesAreLists ==
  ASSUME NEW E, NEW F, NEW steps, DuesTyped(steps, E, F), NEW l \in Seq(E)
  PROVE  Dues(l, steps) \in Seq(Seq(F)) /\ Len(Dues(l, steps)) = Len(l)
BY DEF DuesTyped, Dues

LEMMA DuesOfAppended ==
  ASSUME NEW E, NEW F, NEW steps, DuesTyped(steps, E, F), NEW l \in Seq(E), NEW x \in E
  PROVE  Dues(Append(l, x), steps) = Append(Dues(l, steps), Due(x, steps))
<1>. PICK a : a = Append(l, x)
  OBVIOUS
<1>. PICK N \in Nat : N = Len(l)
  OBVIOUS
<1>1. a \in Seq(E) /\ Len(a) = N + 1 /\ a[N + 1] = x /\ \A i \in 1 .. N : a[i] = l[i]
  OBVIOUS
<1>. PICK d : d = Dues(l, steps)
  OBVIOUS
<1>. PICK e : e = Due(x, steps)
  OBVIOUS
<1>2. d \in Seq(Seq(F)) /\ Len(d) = N /\ e \in Seq(F)
  <2>1. d \in Seq(Seq(F)) /\ Len(d) = N
    BY DuesAreLists, SMTT(60)
  <2>2. e \in Seq(F)
    BY DEF DuesTyped
  <2>. QED
    BY <2>1, <2>2
<1>3. Append(d, e) \in Seq(Seq(F)) /\ Len(Append(d, e)) = N + 1 /\ Append(d, e)[N + 1] = e
      /\ \A i \in 1 .. N : Append(d, e)[i] = d[i]
  BY <1>2
<1>4. Dues(a, steps) \in Seq(Seq(F)) /\ Len(Dues(a, steps)) = N + 1
  BY ONLY DuesTyped(steps, E, F), <1>1, DuesAreLists
<1>5. \A i \in 1 .. N + 1 : Dues(a, steps)[i] = Append(d, e)[i]
  <2>. TAKE i \in 1 .. N + 1
  <2>1. Dues(a, steps)[i] = Due(a[i], steps)
    BY <1>1 DEF Dues
  <2>1a. i = N + 1 \/ i \in 1 .. N
    OBVIOUS
  <2>2. CASE i = N + 1
    BY <1>1, <1>3, <2>1, <2>2
  <2>3. CASE i \in 1 .. N
    <3>1. d[i] = Due(l[i], steps)
      BY <2>3 DEF Dues
    <3>. QED
      BY <1>1, <1>3, <2>1, <2>3, <3>1
  <2>. QED
    BY <2>1a, <2>2, <2>3
<1>6. Dues(a, steps) = Append(d, e)
  BY ONLY <1>3, <1>4, <1>5, SeqEqual
<1>. QED
  BY <1>6

LEMMA JoinedOfKept ==
  ASSUME NEW E, NEW F, NEW steps, DuesTyped(steps, E, F), NEW l \in Seq(E),
         NEW S, \A t \in E : t \notin S => Due(t, steps) = <<>>
  PROVE  Joined(Dues(Kept(l, S), steps)) = Joined(Dues(l, steps))
<1>. DEFINE Same(m) == Joined(Dues(Kept(m, S), steps)) = Joined(Dues(m, steps))
            T == {n \in Nat : \A m \in Seq(E) : Len(m) = n => Same(m)}
<1>1. 0 \in T
  <2>. SUFFICES ASSUME NEW m \in Seq(E), Len(m) = 0 PROVE Same(m)
    OBVIOUS
  <2>1. m = <<>>
    OBVIOUS
  <2>. QED
    BY <2>1, KeptOfEmpty
<1>2. ASSUME NEW n \in 1 .. Len(l), n - 1 \in T PROVE n \in T
  <2>. SUFFICES ASSUME NEW m \in Seq(E), Len(m) = n PROVE Same(m)
    OBVIOUS
  <2>. PICK b : b = SubSeq(m, 1, n - 1)
    OBVIOUS
  <2>. PICK x : x = m[n]
    OBVIOUS
  <2>1. b \in Seq(E) /\ x \in E /\ m = Append(b, x) /\ Len(b) = n - 1
    OBVIOUS
  <2>2. Same(b)
    BY <1>2, <2>1
  <2>. PICK k : k = Kept(b, S)
    OBVIOUS
  <2>3. k \in Seq(E)
    <3>1. k \in Seq(S \cap E) /\ S \cap E \subseteq E
      BY <2>1, KeptTyped
    <3>. QED
      BY ONLY <3>1, SeqMonotonic
  <2>. PICK d : d = Dues(b, steps)
    OBVIOUS
  <2>. PICK c : c = Dues(k, steps)
    OBVIOUS
  <2>. PICK e : e = Due(x, steps)
    OBVIOUS
  <2>4. d \in Seq(Seq(F)) /\ c \in Seq(Seq(F)) /\ e \in Seq(F) /\ Joined(c) = Joined(d)
    BY <2>1, <2>2, <2>3, DuesAreLists DEF DuesTyped
  <2>5. Joined(Dues(m, steps)) = Joined(d) \o e
    <3>1. Dues(m, steps) = Append(d, e)
      <4>1. Dues(Append(b, x), steps) = Append(Dues(b, steps), Due(x, steps))
        BY ONLY DuesTyped(steps, E, F), <2>1, DuesOfAppended
      <4>. QED
        BY <2>1, <4>1
    <3>2. Joined(Append(d, e)) = Joined(d) \o e
      BY ONLY <2>4, JoinedOfAppended
    <3>. QED
      BY <3>1, <3>2
  <2>6. CASE x \in S
    <3>1. Kept(m, S) = Append(k, x)
      <4>1. Kept(Append(b, x), S) = Append(Kept(b, S), x)
        BY ONLY <2>1, <2>6, KeptOfAppended
      <4>. QED
        BY <2>1, <4>1
    <3>2. Dues(Append(k, x), steps) = Append(c, e)
      BY <2>1, <2>3, DuesOfAppended
    <3>3. Joined(Append(c, e)) = Joined(c) \o e
      BY ONLY <2>4, JoinedOfAppended
    <3>. QED
      BY <2>4, <2>5, <3>1, <3>2, <3>3
  <2>7. CASE x \notin S
    <3>1. Kept(m, S) = k
      <4>1. Kept(Append(b, x), S) = Kept(b, S)
        BY ONLY <2>1, <2>7, KeptOfAppended
      <4>. QED
        BY <2>1, <4>1
    <3>2. Joined(d) \in Seq(F)
      BY ONLY <2>4, JoinedTyped
    <3>3. e = <<>> /\ Joined(d) \o e = Joined(d)
      BY <2>1, <2>7, <3>2
    <3>. QED
      BY <2>4, <2>5, <3>1, <3>3
  <2>. QED
    BY <2>6, <2>7
<1>3. Len(l) \in Nat /\ Len(l) \in 0 .. Len(l)
  OBVIOUS
<1>. HIDE DEF T
<1>4. 0 .. Len(l) \subseteq T
  BY <1>1, <1>2, <1>3, UpTo
<1>5. Len(l) \in T
  BY <1>3, <1>4
<1>. QED
  BY <1>5 DEF T

\* What is done of the lists before is a part of what is done of all.
Continues(s, a, F) == \E v \in Seq(F) : s = a \o v

LEMMA JoinedIsPrefix ==
  ASSUME NEW F, NEW ss \in Seq(Seq(F)), NEW f, Joins(f, ss, F), NEW n \in 0 .. Len(ss)
  PROVE  Continues(Joined(ss), f[n], F)
<1>. USE DEF Continues
<1>. PICK N \in Nat : N = Len(ss)
  OBVIOUS
<1>. DEFINE Grows(m) == \E v \in Seq(F) : f[n + m] = f[n] \o v
            T == {m \in 0 .. N - n : Grows(m)}
<1>1. 0 \in T
  <2>1. <<>> \in Seq(F) /\ f[n] \in Seq(F) /\ n + 0 = n
    BY DEF Joins
  <2>2. f[n] \o <<>> = f[n]
    BY <2>1
  <2>3. 0 \in 0 .. N - n
    OBVIOUS
  <2>4. Grows(0)
    BY <2>1, <2>2
  <2>. HIDE DEF Grows
  <2>. QED
    BY <2>3, <2>4
<1>2. ASSUME NEW m \in 1 .. N - n, m - 1 \in T PROVE m \in T
  <2>1a. Grows(m - 1)
    BY <1>2
  <2>1. PICK v \in Seq(F) : f[n + (m - 1)] = f[n] \o v
    BY <2>1a
  <2>2. n + m \in 1 .. N /\ (n + m) - 1 = n + (m - 1) /\ n \in 0 .. N
    OBVIOUS
  <2>3. f[n + m] = f[n + (m - 1)] \o ss[n + m] /\ f[n] \in Seq(F)
    BY <2>2 DEF Joins
  <2>4. ss[n + m] \in Seq(F)
    BY <2>2, ElementOfSeq
  <2>. PICK w : w = ss[n + m]
    OBVIOUS
  <2>. PICK a : a = f[n]
    OBVIOUS
  <2>5. a \in Seq(F) /\ w \in Seq(F) /\ f[n + m] = (a \o v) \o w
    BY <2>1, <2>3, <2>4
  <2>6. (a \o v) \o w = a \o (v \o w)
    BY ONLY v \in Seq(F), <2>5, ConcatAssociative, SMTT(60)
  <2>7. v \o w \in Seq(F)
    BY ONLY v \in Seq(F), <2>5, ConcatProperties
  <2>8. Grows(m)
    BY <2>5, <2>6, <2>7
  <2>. HIDE DEF Grows
  <2>. QED
    BY <2>8
<1>3. N - n \in Nat /\ N - n \in 0 .. N - n /\ n + (N - n) = N
  OBVIOUS
<1>. HIDE DEF T
<1>4. 0 .. N - n \subseteq T
  BY <1>1, <1>2, <1>3, UpTo
<1>5. N - n \in T
  BY <1>3, <1>4
<1>6. \E v \in Seq(F) : f[N] = f[n] \o v
  <2>1. Grows(N - n)
    <3>. HIDE DEF Grows
    <3>. QED
      BY <1>5 DEF T
  <2>. QED
    BY <1>3, <2>1
<1>. QED
  BY <1>6 DEF Joins

-----------------------------------------------------------------------------
(* A task list is as the invariant says. *)

LEMMA TasksTyped ==
  ASSUME List!TaskListAssumption
  PROVE  /\ Tasks \in Seq(List!TaskSet) /\ Distinct(Tasks) /\ Tasks # <<>>
         /\ Steps \in [List!TaskSet -> Seq(StepSet)] /\ \A t \in List!TaskSet : Steps[t] # <<>>
         /\ \A t \in List!TaskSet : AbortSteps[t] \in Seq(StepSet)
<1>1. Tasks \in Seq(List!TaskSet) /\ Distinct(Tasks) /\ Tasks # <<>>
  <2>1. DOMAIN Tasks = 1 .. Len(Tasks)
    BY DEF List!TaskListAssumption, List!IsList
  <2>. QED
    BY <2>1 DEF List!TaskListAssumption, List!IsList, List!TaskSet, Distinct
<1>2. \A t \in List!TaskSet : Steps[t] \in Seq(StepSet) /\ AbortSteps[t] \in Seq(StepSet)
  <2>. TAKE t \in List!TaskSet
  <2>1. {Steps[t][i] : i \in DOMAIN Steps[t]} \subseteq StepSet
    BY DEF StepSet
  <2>2. {AbortSteps[t][i] : i \in DOMAIN AbortSteps[t]} \subseteq StepSet
    BY DEF StepSet
  <2>3. /\ Steps[t] \in Seq({Steps[t][i] : i \in DOMAIN Steps[t]})
        /\ AbortSteps[t] \in Seq({AbortSteps[t][i] : i \in DOMAIN AbortSteps[t]})
    BY DEF List!TaskListAssumption, List!IsList
  <2>4. Steps[t] \in Seq(StepSet)
    BY ONLY <2>1, <2>3, SeqMonotonic
  <2>5. AbortSteps[t] \in Seq(StepSet)
    BY ONLY <2>2, <2>3, SeqMonotonic
  <2>. QED
    BY <2>4, <2>5
<1>3. Steps \in [List!TaskSet -> Seq(StepSet)]
  <2>1. Steps = [t \in List!TaskSet |-> Steps[t]]
    BY <1>2 DEF List!TaskListAssumption
  <2>. QED
    BY <1>2, <2>1
<1>. QED
  BY <1>1, <1>2, <1>3 DEF List!TaskListAssumption

LEMMA Reversed ==
  ASSUME NEW E, NEW l \in Seq(E)
  PROVE  /\ List!Reverse(l) \in Seq(E) /\ Len(List!Reverse(l)) = Len(l)
         /\ \A i \in 1 .. Len(l) : List!Reverse(l)[i] = l[(Len(l) - i) + 1]
         /\ Distinct(l) => Distinct(List!Reverse(l))
<1>. PICK N \in Nat : N = Len(l)
  OBVIOUS
<1>. PICK b : b = List!Reverse(l)
  OBVIOUS
<1>1. \A i \in 1 .. N : (N - i) + 1 \in 1 .. N
  OBVIOUS
<1>2. b \in Seq(E) /\ Len(b) = N /\ \A i \in 1 .. N : b[i] = l[(N - i) + 1]
  <2>1. b = [i \in 1 .. N |-> l[(N - i) + 1]]
    BY DEF List!Reverse
  <2>2. \A i \in 1 .. N : l[(N - i) + 1] \in E
    BY <1>1
  <2>. QED
    BY <2>1, <2>2
<1>3. ASSUME Distinct(l) PROVE Distinct(b)
  <2>. SUFFICES ASSUME NEW i \in 1 .. N, NEW j \in 1 .. N, b[i] = b[j] PROVE i = j
    BY <1>2 DEF Distinct
  <2>1. l[(N - i) + 1] = l[(N - j) + 1] /\ (N - i) + 1 \in 1 .. N /\ (N - j) + 1 \in 1 .. N
    BY <1>1, <1>2
  <2>2. \A x, y \in 1 .. N : l[x] = l[y] => x = y
    BY <1>3 DEF Distinct
  <2>3. (N - i) + 1 = (N - j) + 1
    BY ONLY <2>1, <2>2
  <2>. QED
    BY ONLY <2>3, N \in Nat, i \in 1 .. N, j \in 1 .. N
<1>. QED
  BY <1>2, <1>3

\* What a task has to do is a list of steps of it, as many as it has.
LEMMA DueIs ==
  ASSUME NEW E, NEW F, NEW steps \in [E -> Seq(F)], NEW t \in E
  PROVE  Due(t, steps) \in Seq(E \X F) /\ Len(Due(t, steps)) = Len(steps[t])
<1>. PICK s \in Seq(F) : s = steps[t]
  OBVIOUS
<1>1. [i \in 1 .. Len(s) |-> <<t, s[i]>>] \in Seq(E \X F)
  OBVIOUS
<1>2. Due(t, steps) = [i \in 1 .. Len(s) |-> <<t, s[i]>>]
  BY DEF Due
<1>. QED
  BY <1>1, <1>2

LEMMA DueTyped ==
  ASSUME NEW E, NEW F, NEW steps \in [E -> Seq(F)]
  PROVE  DuesTyped(steps, E, E \X F)
<1>1. ASSUME NEW t \in E
      PROVE  Due(t, steps) \in Seq(E \X F) /\ Len(Due(t, steps)) = Len(steps[t])
  BY DueIs, SMTT(60)
<1>. QED
  BY <1>1 DEF DuesTyped

LEMMA TaskListInit ==
  ASSUME List!TaskListAssumption, List!Init
  PROVE  TaskListInv
<1>1. m_abortSteps \in [List!TaskSet -> Seq(StepSet)]
  <2>1. \A t \in List!TaskSet : List!Reverse(AbortSteps[t]) \in Seq(StepSet)
    BY TasksTyped, Reversed
  <2>. QED
    BY <2>1 DEF List!Init
<1>2. Len(Tasks) \in Nat /\ Len(Tasks) > 0
  BY TasksTyped
<1>3. TaskListTypes
  BY <1>1, <1>2, TasksTyped DEF List!Init, TaskListTypes
<1>4. Begun
  <2>1. \A k \in 1 .. Len(Tasks) : Tasks[k] \in List!TaskSet
    BY TasksTyped
  <2>2. Steps[Tasks[1]] \in Seq(StepSet) /\ Steps[Tasks[1]] # <<>> /\ 1 \in 1 .. Len(Tasks)
    BY <1>2, <2>1, TasksTyped
  <2>3. 1 \in 1 .. Len(Steps[Tasks[1]])
    BY <2>2
  <2>. QED
    BY <1>2, <2>1, <2>2, <2>3, TasksTyped DEF List!Init, Begun, List!Current
<1>. QED
  BY <1>3, <1>4 DEF List!Init, TaskListInv, Phases

LEMMA TaskListInvIsEnough ==
  ASSUME TaskListInv
  PROVE  List!StepIsThere /\ List!AbortUndoesDone
<1>. USE DEF TaskListInv
<1>1. List!StepIsThere
  <2>. SUFFICES ASSUME result
                PROVE  m_currentTask <= Len(m_tasks) /\ m_nextStep[List!Current] <= Len(m_steps[List!Current])
    BY DEF List!StepIsThere
  <2>1. m_currentTask <= Len(m_tasks) /\ m_nextStep[List!Current] \in 1 .. Len(m_steps[List!Current])
    BY DEF Begun
  <2>2. m_steps[List!Current] \in Seq(StepSet)
    <3>1. m_currentTask \in 1 .. Len(m_tasks)
      BY <2>1 DEF TaskListTypes
    <3>2. List!Current \in List!TaskSet
      BY <3>1, ElementOfSeq DEF TaskListTypes, List!Current
    <3>. QED
      BY <3>2 DEF TaskListTypes
  <2>3. m_nextStep[List!Current] <= Len(m_steps[List!Current])
    BY <2>1, <2>2
  <2>. QED
    BY <2>1, <2>3
<1>2. CASE aborts = 0
  <2>1. undo = <<>> /\ undone = <<>>
    BY <1>2 DEF Phases
  <2>2. List!IsPrefix(<<>>, <<>>)
    BY DEF List!IsPrefix
  <2>. QED
    BY <1>1, <1>2, <2>1, <2>2 DEF List!AbortUndoesDone
<1>3. CASE aborts = 1
  <2>. PICK F : F = List!TaskSet \X StepSet
    OBVIOUS
  <2>. PICK ds : ds = Dues(m_tasks, m_steps)
    OBVIOUS
  <2>1a. Undoing
    BY <1>3 DEF Phases
  <2>1. PICK f : Joins(f, ds, F) /\ UndoneBy(f)
    <3>1. \E f : Joins(f, Dues(m_tasks, m_steps), List!TaskSet \X StepSet) /\ UndoneBy(f)
      BY <2>1a DEF Undoing
    <3>. QED
      BY <3>1, Zenon
  <2>. PICK l \in Seq(List!TaskSet) : l = m_tasks
    BY DEF TaskListTypes
  <2>. PICK c \in 1 .. Len(l) + 1 : c = m_currentTask
    BY DEF TaskListTypes
  <2>2. DuesTyped(m_steps, List!TaskSet, F)
    BY DueTyped DEF TaskListTypes
  <2>3. ds \in Seq(Seq(F)) /\ Len(ds) = Len(l)
    BY <2>2, DuesAreLists
  <2>4. undo = Joined(ds)
    BY <1>3 DEF Phases, Undoing
  <2>5. Joined(ds) = f[Len(l)] /\ \A n \in 0 .. Len(l) : f[n] \in Seq(F)
    BY <2>1, <2>3 DEF Joins
  <2>6. CASE c = Len(l) + 1
    <3>1. ~ (m_currentTask <= Len(m_tasks)) /\ m_currentTask - 1 = Len(l)
      BY <2>6
    <3>2. undone = f[Len(l)] \o <<>>
      BY <2>1, <3>1 DEF UndoneBy
    <3>3. f[Len(l)] \in Seq(F)
      BY <2>5
    <3>4. undone = undo /\ undo \in Seq(F)
      BY <2>4, <2>5, <3>2, <3>3
    <3>. QED
      BY <1>1, <3>4 DEF List!AbortUndoesDone, List!IsPrefix
  <2>7. CASE c \in 1 .. Len(l)
    <3>1. m_currentTask <= Len(m_tasks)
      BY <2>7
    <3>2. result
      BY <2>7 DEF Begun, TaskListTypes
    <3>. PICK t \in List!TaskSet : t = List!Current
      BY <2>7 DEF List!Current
    <3>. PICK d : d = Due(t, m_steps)
      OBVIOUS
    <3>. PICK n : n = m_nextStep[t]
      OBVIOUS
    <3>3. d \in Seq(F) /\ Len(d) = Len(m_steps[t]) /\ ds[c] = d
      <4>1. d \in Seq(F)
        BY <2>2 DEF DuesTyped
      <4>2. Len(d) = Len(m_steps[t])
        <5>1. Len(Due(t, m_steps)) = Len(m_steps[t])
          BY <2>2 DEF DuesTyped
        <5>. QED
          BY <5>1
      <4>3. ds[c] = d
        BY <2>7 DEF Dues, List!Current
      <4>. QED
        BY <4>1, <4>2, <4>3
    <3>4. n \in 1 .. Len(d)
      <4>1. n \in 1 .. Len(m_steps[t])
        BY <3>2 DEF Begun
      <4>. QED
        BY <3>3, <4>1
    <3>5. undone = f[c - 1] \o SubSeq(d, 1, n - 1)
      BY <2>1, <3>1 DEF UndoneBy
    <3>6. c \in 0 .. Len(l) /\ c - 1 \in 0 .. Len(l) /\ c \in 1 .. Len(ds)
      BY <2>3, <2>7
    <3>7. f[c] = f[c - 1] \o d
      BY <2>1, <2>3, <3>3, <3>6 DEF Joins
    <3>8. PICK v \in Seq(F) : Joined(ds) = f[c] \o v
      <4>1. c \in 0 .. Len(ds) /\ Joins(f, ds, F) /\ ds \in Seq(Seq(F))
        BY <2>1, <2>3, <3>6
      <4>2. Continues(Joined(ds), f[c], F)
        BY ONLY <4>1, JoinedIsPrefix
      <4>. QED
        BY <4>2 DEF Continues
    <3>. PICK a \in Seq(F) : a = f[c - 1]
      BY <2>5, <3>6
    <3>9. undo = (a \o d) \o v /\ undone = a \o SubSeq(d, 1, n - 1)
      BY <2>4, <3>5, <3>7, <3>8
    <3>10. List!IsPrefix(undone, undo)
      <4>. PICK p : p = SubSeq(d, 1, n - 1)
        OBVIOUS
      <4>1. p \in Seq(F) /\ Len(p) = n - 1 /\ \A i \in 1 .. n - 1 : p[i] = d[i]
        BY <3>3, <3>4, SMTT(60)
      <4>2. undone \in Seq(F) /\ Len(undone) = Len(a) + (n - 1)
        BY <3>9, <4>1
      <4>3. undo \in Seq(F) /\ Len(undo) = Len(a) + Len(d) + Len(v)
        <5>. PICK ad : ad = a \o d
          OBVIOUS
        <5>1. ad \in Seq(F) /\ Len(ad) = Len(a) + Len(d)
          <6>1. d \in Seq(F)
            BY <3>3
          <6>. QED
            BY ONLY ad = a \o d, a \in Seq(F), <6>1, ConcatProperties
        <5>2. ad \o v \in Seq(F) /\ Len(ad \o v) = Len(ad) + Len(v)
          BY <5>1
        <5>. QED
          BY <3>9, <5>1, <5>2
      <4>4. Len(undone) <= Len(undo)
        <5>1. Len(a) \in Nat /\ Len(d) \in Nat /\ Len(v) \in Nat
          BY <3>3
        <5>. QED
          BY ONLY <3>4, <4>2, <4>3, <5>1
      <4>5. \A i \in 1 .. Len(undone) : undone[i] = undo[i]
        <5>. TAKE i \in 1 .. Len(undone)
        <5>1. CASE i \in 1 .. Len(a)
          BY <3>3, <3>9, <4>1, <4>2, <4>3, <5>1
        <5>2. CASE i \in Len(a) + 1 .. Len(a) + (n - 1)
          <6>1. i - Len(a) \in 1 .. n - 1 /\ i - Len(a) \in 1 .. Len(d)
            BY <3>3, <3>4, <5>2, SMTT(60)
          <6>2. undone[i] = p[i - Len(a)]
            BY <3>9, <4>1, <4>2, <5>2, <6>1
          <6>3. undo[i] = d[i - Len(a)]
            BY <3>3, <3>9, <5>2, <6>1
          <6>. QED
            BY <4>1, <6>1, <6>2, <6>3
        <5>. QED
          BY <4>2, <5>1, <5>2
      <4>6. SubSeq(undone, 1, Len(undone)) = undone
        BY <4>2
      <4>7. /\ SubSeq(undo, 1, Len(undone)) \in Seq(F) /\ Len(SubSeq(undo, 1, Len(undone))) = Len(undone)
            /\ \A i \in 1 .. Len(undone) : SubSeq(undo, 1, Len(undone))[i] = undo[i]
        BY <4>2, <4>3, <4>4
      <4>8. undone = SubSeq(undo, 1, Len(undone))
        <5>1. \A i \in 1 .. Len(undone) : undone[i] = SubSeq(undo, 1, Len(undone))[i]
          BY <4>5, <4>7
        <5>. QED
          BY ONLY <4>2, <4>7, <5>1, SeqEqual
      <4>. QED
        BY <4>4, <4>6, <4>8 DEF List!IsPrefix
    <3>. QED
      BY <1>1, <3>2, <3>10 DEF List!AbortUndoesDone
  <2>. QED
    BY <2>6, <2>7
<1>4. CASE aborts = 2
  <2>1. undone \in Seq(List!TaskSet \X StepSet) /\ undo = undone
    BY <1>4 DEF Phases
  <2>. QED
    BY <1>1, <2>1 DEF List!AbortUndoesDone, List!IsPrefix
<1>. QED
  BY <1>2, <1>3, <1>4 DEF Phases

\* The step that is next, and that no other task of the list is the current one.
LEMMA AtStep ==
  ASSUME TaskListInv, result
  PROVE  /\ m_currentTask \in 1 .. Len(m_tasks) /\ List!Current \in List!TaskSet /\ List!Current = m_tasks[m_currentTask]
         /\ m_steps[List!Current] \in Seq(StepSet) /\ m_nextStep[List!Current] \in 1 .. Len(m_steps[List!Current])
         /\ \A k \in 1 .. Len(m_tasks) : m_tasks[k] \in List!TaskSet /\ (k # m_currentTask => m_tasks[k] # List!Current)
<1>1. m_currentTask \in 1 .. Len(m_tasks)
  BY DEF TaskListInv, Begun, TaskListTypes
<1>2. List!Current = m_tasks[m_currentTask] /\ List!Current \in List!TaskSet
  BY <1>1 DEF List!Current, TaskListInv, TaskListTypes
<1>3. m_steps[List!Current] \in Seq(StepSet) /\ m_nextStep[List!Current] \in 1 .. Len(m_steps[List!Current])
  BY <1>2 DEF TaskListInv, Begun, TaskListTypes
<1>4. \A k \in 1 .. Len(m_tasks) : m_tasks[k] \in List!TaskSet /\ (k # m_currentTask => m_tasks[k] # List!Current)
  <2>. TAKE k \in 1 .. Len(m_tasks)
  <2>1. m_tasks[k] \in List!TaskSet
    BY DEF TaskListInv, TaskListTypes
  <2>2. ASSUME m_tasks[k] = List!Current PROVE k = m_currentTask
    BY <1>1, <1>2, <2>2 DEF TaskListInv, TaskListTypes, Distinct
  <2>. QED
    BY <2>1, <2>2
<1>. QED
  BY <1>1, <1>2, <1>3, <1>4

\* A job that was not aborted has nothing to undo.
LEMMA NotAborted ==
  ASSUME TaskListInv, aborts = 0
  PROVE  m_tasks = Tasks /\ undo = <<>> /\ undone = <<>>
BY DEF TaskListInv, Phases

LEMMA NextStepKeeps ==
  ASSUME TaskListInv, List!NextStep
  PROVE  TaskListInv'
<1>. PICK l \in Seq(List!TaskSet) : l = m_tasks
  BY DEF TaskListInv, TaskListTypes
<1>. PICK c : c = m_currentTask
  OBVIOUS
<1>. PICK t : t = List!Current
  OBVIOUS
<1>. PICK n : n = m_nextStep[t]
  OBVIOUS
<1>. PICK s : s = m_steps[t]
  OBVIOUS
<1>1. /\ c \in 1 .. Len(l) /\ t \in List!TaskSet /\ t = l[c] /\ s \in Seq(StepSet) /\ n \in 1 .. Len(s)
      /\ \A k \in 1 .. Len(l) : l[k] \in List!TaskSet /\ (k # c => l[k] # t)
  BY AtStep DEF List!NextStep
<1>2. /\ m_tasks' = l /\ m_steps' = m_steps /\ m_abortSteps' = m_abortSteps /\ aborts' = aborts /\ undo' = undo
      /\ m_nextStep' = [m_nextStep EXCEPT ![t] = n + 1]
  BY DEF List!NextStep
<1>3. IF n + 1 <= Len(s) THEN result' = TRUE /\ m_currentTask' = c
      ELSE m_currentTask' = c + 1 /\ result' = (m_currentTask' <= Len(l))
  BY DEF List!NextStep
<1>4. m_nextStep \in [List!TaskSet -> Nat] /\ m_nextStep' \in [List!TaskSet -> Nat] /\ m_nextStep'[t] = n + 1
      /\ \A u \in List!TaskSet : u # t => m_nextStep'[u] = m_nextStep[u]
  <2>1. m_nextStep \in [List!TaskSet -> Nat] /\ n + 1 \in Nat
    BY <1>1, SMTT(60) DEF TaskListInv, TaskListTypes
  <2>. QED
    BY <1>1, <1>2, <2>1
<1>5. TaskListTypes'
  <2>1. m_currentTask' \in 1 .. Len(l) + 1
    BY <1>1, <1>3
  <2>1a. result' \in BOOLEAN
    <3>1. CASE n + 1 <= Len(s)
      BY <1>3, <3>1
    <3>2. CASE ~ (n + 1 <= Len(s))
      <4>1. result' = (m_currentTask' <= Len(l))
        BY <1>3, <3>2
      <4>2. (m_currentTask' <= Len(l)) \in BOOLEAN
        BY <2>1
      <4>. QED
        BY <4>1, <4>2, Zenon
    <3>. QED
      BY <3>1, <3>2
  <2>. QED
    BY <1>2, <1>4, <2>1, <2>1a DEF TaskListInv, TaskListTypes, Distinct
<1>6. /\ \A k \in 1 .. Len(l) : m_steps[l[k]] # <<>> /\ m_steps[l[k]] \in Seq(StepSet)
      /\ \A k \in 1 .. Len(l) : k > c => m_nextStep'[l[k]] = 1
  <2>1. \A k \in 1 .. Len(l) : k > c => k # c
    BY <1>1
  <2>. QED
    BY <1>1, <1>4, <2>1 DEF TaskListInv, TaskListTypes, Begun
<1>7. Begun'
  <2>1. CASE n + 1 <= Len(s)
    <3>1. List!Current' = t /\ n + 1 \in 1 .. Len(s)
      BY <1>1, <1>2, <1>3, <2>1 DEF List!Current
    <3>. QED
      BY <1>1, <1>2, <1>3, <1>4, <1>6, <2>1, <3>1 DEF Begun
  <2>2. CASE ~ (n + 1 <= Len(s))
    <3>1. m_currentTask' = c + 1 /\ result' = (c + 1 <= Len(l))
      BY <1>3, <2>2
    <3>2. ASSUME c + 1 <= Len(l) PROVE m_nextStep'[List!Current'] \in 1 .. Len(m_steps[List!Current'])
      <4>1. c + 1 \in 1 .. Len(l) /\ c + 1 > c /\ List!Current' = l[c + 1]
        BY <1>1, <1>2, <3>1, <3>2 DEF List!Current
      <4>2. m_steps[List!Current'] # <<>> /\ m_steps[List!Current'] \in Seq(StepSet) /\ m_nextStep'[List!Current'] = 1
        BY <1>6, <4>1
      <4>. QED
        BY <4>2
    <3>3. \A k \in 1 .. Len(l) : k > c + 1 => k > c
      BY <1>1
    <3>4. ~ (c + 1 <= Len(l)) => c + 1 = Len(l) + 1
      BY <1>1
    <3>. QED
      BY <1>2, <1>6, <3>1, <3>2, <3>3, <3>4 DEF Begun
  <2>. QED
    BY <2>1, <2>2
<1>8. Phases'
  <2>1. CASE aborts = 0
    <3>1. undone' = undone
      BY <2>1 DEF List!NextStep, List!Undoes
    <3>. QED
      BY <1>2, <2>1, <3>1, NotAborted DEF Phases
  <2>2. CASE aborts = 1
    <3>. PICK F : F = List!TaskSet \X StepSet
      OBVIOUS
    <3>. PICK ds : ds = Dues(m_tasks, m_steps)
      OBVIOUS
    <3>. PICK d : d = Due(t, m_steps)
      OBVIOUS
    <3>1. Undoing
      BY <2>2 DEF TaskListInv, Phases
    <3>2. PICK f : Joins(f, ds, F) /\ UndoneBy(f)
      <4>1. \E f : Joins(f, Dues(m_tasks, m_steps), List!TaskSet \X StepSet) /\ UndoneBy(f)
        BY <3>1 DEF Undoing
      <4>. QED
        BY <4>1, Zenon
    <3>3. m_steps \in [List!TaskSet -> Seq(StepSet)]
      BY DEF TaskListInv, TaskListTypes
    <3>4. d \in Seq(F) /\ Len(d) = Len(s) /\ ds[c] = d
      <4>1. d \in Seq(F)
        BY <1>1, <3>3, DueTyped DEF DuesTyped
      <4>2. Len(d) = Len(s)
        <5>1. Len(Due(t, m_steps)) = Len(m_steps[t])
          <6>1. DuesTyped(m_steps, List!TaskSet, List!TaskSet \X StepSet)
            BY ONLY <3>3, DueTyped
          <6>. QED
            BY <1>1, <6>1 DEF DuesTyped
        <5>. QED
          BY <5>1
      <4>3. ds[c] = d
        BY <1>1 DEF Dues
      <4>. QED
        BY <4>1, <4>2, <4>3
    <3>5. Len(ds) = Len(l) /\ ds \in Seq(Seq(F))
      <4>1. DuesTyped(m_steps, List!TaskSet, List!TaskSet \X StepSet)
        BY ONLY <3>3, DueTyped
      <4>2. l \in Seq(List!TaskSet)
        OBVIOUS
      <4>3. Dues(l, m_steps) \in Seq(Seq(List!TaskSet \X StepSet)) /\ Len(Dues(l, m_steps)) = Len(l)
        BY ONLY <4>1, <4>2, DuesAreLists
      <4>. QED
        BY <4>3
    <3>6. d[n] = <<t, s[n]>>
      BY <1>1 DEF Due
    <3>7. undone' = Append(undone, d[n])
      BY <2>2, <3>6 DEF List!NextStep, List!Undoes
    <3>8. undone = f[c - 1] \o SubSeq(d, 1, n - 1)
      <4>1. m_currentTask <= Len(m_tasks)
        BY <1>1
      <4>. QED
        BY <3>2, <4>1 DEF UndoneBy
    <3>9. f[c - 1] \in Seq(F) /\ f[c] \in Seq(F) /\ f[c] = f[c - 1] \o d
      <4>1. c \in 1 .. Len(ds) /\ c \in 0 .. Len(ds) /\ c - 1 \in 0 .. Len(ds)
        BY <1>1, <3>5
      <4>2. f \in [0 .. Len(ds) -> Seq(F)] /\ \A k \in 1 .. Len(ds) : f[k] = f[k - 1] \o ds[k]
        BY <3>2 DEF Joins
      <4>. QED
        BY ONLY <3>4, <4>1, <4>2
    <3>10. undone' = f[c - 1] \o SubSeq(d, 1, n)
      <4>. PICK a \in Seq(F) : a = f[c - 1]
        BY <3>9
      <4>. PICK p : p = SubSeq(d, 1, n - 1)
        OBVIOUS
      <4>1. p \in Seq(F) /\ d[n] \in F /\ SubSeq(d, 1, n) = Append(p, d[n])
        <5>1. n \in 1 .. Len(d) /\ d \in Seq(F) /\ p = SubSeq(d, 1, n - 1)
          BY <1>1, <3>4
        <5>. QED
          BY ONLY <5>1
      <4>2. Append(a \o p, d[n]) = a \o Append(p, d[n])
        <5>. PICK x : x = d[n]
          OBVIOUS
        <5>1. a \in Seq(F) /\ p \in Seq(F) /\ x \in F
          BY <4>1
        <5>2. Append(a \o p, x) = a \o Append(p, x)
          <6>1. a \o p \in Seq(F) /\ Append(p, x) = p \o <<x>> /\ <<x>> \in Seq(F)
            BY ONLY <5>1, AppendIsConcat, ConcatProperties
          <6>2. Append(a \o p, x) = (a \o p) \o <<x>>
            BY ONLY <5>1, <6>1, AppendIsConcat
          <6>3. (a \o p) \o <<x>> = a \o (p \o <<x>>)
            BY ONLY <5>1, <6>1, ConcatAssociative
          <6>. QED
            BY <6>1, <6>2, <6>3
        <5>. QED
          BY <5>2
      <4>. QED
        BY <3>7, <3>8, <4>1, <4>2
    <3>11. ds' = ds /\ Joins(f, Dues(m_tasks, m_steps)', F)
      BY <1>2, <3>2
    <3>12. UndoneBy(f)'
      <4>1. CASE n + 1 <= Len(s)
        <5>1. /\ m_currentTask' = c /\ m_currentTask' <= Len(m_tasks') /\ List!Current' = t
              /\ m_nextStep'[t] - 1 = n
          BY <1>1, <1>2, <1>3, <1>4, <4>1 DEF List!Current
        <5>2. Due(List!Current, m_steps)' = d
          BY <1>2, <5>1
        <5>. QED
          BY <3>10, <5>1, <5>2 DEF UndoneBy
      <4>2. CASE ~ (n + 1 <= Len(s))
        <5>1. m_currentTask' = c + 1 /\ n = Len(d) /\ (c + 1) - 1 = c
          BY <1>1, <1>3, <3>4, <4>2
        <5>2. undone' = f[c] /\ f[c] \o <<>> = f[c]
          <6>1. SubSeq(d, 1, n) = d
            BY <3>4, <5>1
          <6>2. undone' = f[c]
            BY <3>9, <3>10, <6>1
          <6>3. f[c] \o <<>> = f[c]
            BY ONLY <3>9, ConcatEmptySeq
          <6>. QED
            BY <6>2, <6>3
        <5>3. CASE c + 1 <= Len(l)
          <6>1. c + 1 \in 1 .. Len(l) /\ c + 1 > c /\ List!Current' = l[c + 1]
            BY <1>1, <1>2, <5>1, <5>3 DEF List!Current
          <6>2. m_nextStep'[List!Current'] = 1 /\ List!Current' \in List!TaskSet
            BY <1>1, <1>6, <6>1
          <6>3. Due(List!Current', m_steps) \in Seq(F)
            BY <3>3, <6>2, DueTyped DEF DuesTyped
          <6>4. SubSeq(Due(List!Current', m_steps), 1, 1 - 1) = <<>>
            BY <6>3
          <6>. QED
            BY <1>2, <5>1, <5>2, <5>3, <6>2, <6>4 DEF UndoneBy
        <5>4. CASE ~ (c + 1 <= Len(l))
          BY <1>2, <5>1, <5>2, <5>4 DEF UndoneBy
        <5>. QED
          BY <5>3, <5>4
      <4>. QED
        BY <4>1, <4>2
    <3>13. Undoing'
      <4>1. \A k \in 1 .. Len(m_tasks') : m_abortSteps'[m_tasks'[k]] = <<>>
        BY <1>2, <3>1 DEF Undoing
      <4>2. undo' = Joined(Dues(m_tasks, m_steps)')
        BY <1>2, <3>1 DEF Undoing
      <4>3. Joins(f, Dues(m_tasks, m_steps)', List!TaskSet \X StepSet) /\ UndoneBy(f)'
        BY <3>11, <3>12
      <4>. QED
        BY <4>1, <4>2, <4>3 DEF Undoing
    <3>. QED
      BY <1>2, <2>2, <3>13 DEF Phases
  <2>3. CASE aborts = 2
    <3>1. m_tasks = <<>>
      BY <2>3 DEF TaskListInv, Phases
    <3>. QED
      BY <1>1, <3>1
  <2>. QED
    BY <2>1, <2>2, <2>3 DEF TaskListInv, Phases
<1>. QED
  BY <1>5, <1>7, <1>8 DEF TaskListInv

LEMMA SwitchToStepKeeps ==
  ASSUME TaskListInv, NEW i, List!SwitchToStep(i)
  PROVE  TaskListInv'
<1>. PICK l \in Seq(List!TaskSet) : l = m_tasks
  BY DEF TaskListInv, TaskListTypes
<1>. PICK c : c = m_currentTask
  OBVIOUS
<1>. PICK t : t = List!Current
  OBVIOUS
<1>. PICK s : s = m_steps[t]
  OBVIOUS
<1>1. /\ c \in 1 .. Len(l) /\ t \in List!TaskSet /\ t = l[c] /\ s \in Seq(StepSet)
      /\ \A k \in 1 .. Len(l) : l[k] \in List!TaskSet /\ (k # c => l[k] # t)
  BY AtStep DEF List!SwitchToStep
<1>2. /\ UNCHANGED <<m_tasks, m_currentTask, m_steps, m_abortSteps, result, aborts, undo, undone>>
      /\ m_nextStep' = [m_nextStep EXCEPT ![t] = i] /\ i \in DOMAIN s /\ aborts = 0 /\ result
  BY DEF List!SwitchToStep
<1>3. i \in Nat /\ i \in 1 .. Len(s)
  BY <1>1, <1>2
<1>4. m_nextStep' \in [List!TaskSet -> Nat] /\ m_nextStep'[t] = i
      /\ \A u \in List!TaskSet : u # t => m_nextStep'[u] = m_nextStep[u]
  <2>1. m_nextStep \in [List!TaskSet -> Nat]
    BY DEF TaskListInv, TaskListTypes
  <2>. QED
    BY <1>1, <1>2, <1>3, <2>1
<1>5. TaskListTypes'
  BY <1>2, <1>4 DEF TaskListInv, TaskListTypes, Distinct
<1>6. \A k \in 1 .. Len(l) : k > c => m_nextStep'[l[k]] = 1
  <2>1. \A k \in 1 .. Len(l) : k > c => k # c
    BY <1>1
  <2>. QED
    BY <1>1, <1>4, <2>1 DEF TaskListInv, Begun
<1>7. Begun'
  <2>1. List!Current' = t
    BY <1>2 DEF List!Current
  <2>. QED
    BY <1>1, <1>2, <1>3, <1>4, <1>6, <2>1 DEF TaskListInv, Begun
<1>8. Phases'
  BY <1>2, NotAborted DEF Phases
<1>. QED
  BY <1>5, <1>7, <1>8 DEF TaskListInv

LEMMA SwitchToTaskKeeps ==
  ASSUME TaskListInv, NEW u, List!SwitchToTask(u)
  PROVE  TaskListInv'
<1>. PICK l \in Seq(List!TaskSet) : l = m_tasks
  BY DEF TaskListInv, TaskListTypes
<1>. PICK c : c = m_currentTask
  OBVIOUS
<1>. PICK t : t = List!Current
  OBVIOUS
<1>1. /\ c \in 1 .. Len(l) /\ t \in List!TaskSet /\ m_nextStep[t] \in Nat
      /\ \A k \in 1 .. Len(l) : l[k] \in List!TaskSet /\ (k # c => l[k] # t)
  BY AtStep DEF List!SwitchToTask, TaskListInv, TaskListTypes
<1>2. /\ UNCHANGED <<m_tasks, m_steps, m_abortSteps, result, aborts, undo, undone>>
      /\ m_nextStep' = [m_nextStep EXCEPT ![t] = @ + 1] /\ aborts = 0 /\ result
  BY DEF List!SwitchToTask
<1>3. PICK i \in 1 .. Len(l) : i > c /\ m_currentTask' = i
  BY DEF List!SwitchToTask
<1>4. m_nextStep \in [List!TaskSet -> Nat] /\ m_nextStep' \in [List!TaskSet -> Nat]
      /\ \A v \in List!TaskSet : v # t => m_nextStep'[v] = m_nextStep[v]
  <2>1. m_nextStep \in [List!TaskSet -> Nat] /\ m_nextStep[t] + 1 \in Nat
    BY <1>1, SMTT(60) DEF TaskListInv, TaskListTypes
  <2>. QED
    BY <1>1, <1>2, <2>1
<1>5. TaskListTypes'
  <2>1. m_currentTask' \in 1 .. Len(l) + 1
    BY <1>3
  <2>. QED
    BY <1>2, <1>4, <2>1 DEF TaskListInv, TaskListTypes, Distinct
<1>6. \A k \in 1 .. Len(l) : k > c => m_nextStep'[l[k]] = 1
  <2>1. \A k \in 1 .. Len(l) : k > c => k # c
    BY <1>1
  <2>. QED
    BY <1>1, <1>4, <2>1 DEF TaskListInv, Begun
<1>7. Begun'
  <2>1. List!Current' = l[i]
    BY <1>2, <1>3 DEF List!Current
  <2>2. m_steps[l[i]] \in Seq(StepSet) /\ m_steps[l[i]] # <<>>
    BY <1>1 DEF TaskListInv, TaskListTypes, Begun
  <2>3. m_nextStep'[l[i]] \in 1 .. Len(m_steps[l[i]])
    BY <1>3, <1>6, <2>2
  <2>4. \A k \in 1 .. Len(l) : k > i => m_nextStep'[l[k]] = 1
    BY <1>1, <1>3, <1>6
  <2>5. \A k \in 1 .. Len(l) : m_steps[l[k]] # <<>>
    BY DEF TaskListInv, Begun
  <2>6. i <= Len(l)
    OBVIOUS
  <2>. QED
    BY <1>2, <1>3, <2>1, <2>3, <2>4, <2>5, <2>6 DEF Begun
<1>8. Phases'
  BY <1>2, NotAborted DEF Phases
<1>. QED
  BY <1>5, <1>7, <1>8 DEF TaskListInv

\* What an abort leaves in the list: the tasks before the current one, the last
\* first, without those that have nothing to do.
LEMMA TasksAborted ==
  ASSUME TaskListInv, NEW l, l = List!Reverse(SubSeq(m_tasks, 1, m_currentTask - 1)), NEW S
  PROVE  /\ l \in Seq(List!TaskSet) /\ Len(l) = m_currentTask - 1 /\ Distinct(l)
         /\ \A k \in 1 .. m_currentTask - 1 : l[k] = m_tasks[m_currentTask - k]
         /\ Kept(l, S) \in Seq(List!TaskSet) /\ Distinct(Kept(l, S))
         /\ \A k \in 1 .. Len(Kept(l, S)) : Kept(l, S)[k] \in S /\ \E i \in DOMAIN l : Kept(l, S)[k] = l[i]
<1>. PICK m \in Seq(List!TaskSet) : m = m_tasks
  BY DEF TaskListInv, TaskListTypes
<1>. PICK c \in 1 .. Len(m) + 1 : c = m_currentTask
  BY DEF TaskListInv, TaskListTypes
<1>. PICK b : b = SubSeq(m, 1, c - 1)
  OBVIOUS
<1>1. /\ b \in Seq(List!TaskSet) /\ Len(b) = c - 1
      /\ \A i \in 1 .. c - 1 : b[i] = m[i] /\ i \in 1 .. Len(m)
  OBVIOUS
<1>2. Distinct(b)
  <2>1. \A i, j \in 1 .. Len(m) : m[i] = m[j] => i = j
    BY DEF TaskListInv, TaskListTypes, Distinct
  <2>2. \A i, j \in 1 .. c - 1 : b[i] = b[j] => i = j
    BY <1>1, <2>1
  <2>. QED
    BY <1>1, <2>2 DEF Distinct
<1>3. /\ l \in Seq(List!TaskSet) /\ Len(l) = c - 1 /\ Distinct(l)
      /\ \A k \in 1 .. c - 1 : l[k] = b[(Len(b) - k) + 1]
  <2>1. l = List!Reverse(b)
    OBVIOUS
  <2>. QED
    BY ONLY <1>1, <1>2, <2>1, Reversed
<1>4. \A k \in 1 .. c - 1 : l[k] = m[c - k]
  <2>. TAKE k \in 1 .. c - 1
  <2>1. (Len(b) - k) + 1 = c - k /\ c - k \in 1 .. c - 1
    BY <1>1
  <2>. QED
    BY <1>1, <1>3, <2>1
<1>. PICK r : r = Kept(l, S)
  OBVIOUS
<1>5. r \in Seq(S \cap List!TaskSet)
  BY <1>3, KeptTyped
<1>6. r \in Seq(List!TaskSet) /\ r \in Seq(S)
  <2>1. S \cap List!TaskSet \subseteq List!TaskSet /\ S \cap List!TaskSet \subseteq S
    OBVIOUS
  <2>. QED
    BY ONLY <1>5, <2>1, SeqMonotonic
<1>7. Distinct(r) /\ \A k \in 1 .. Len(r) : \E i \in 1 .. Len(l) : r[k] = l[i]
  <2>1. /\ Distinct(Kept(l, S))
        /\ \A k \in 1 .. Len(Kept(l, S)) : \E i \in 1 .. Len(l) : Kept(l, S)[k] = l[i]
    BY ONLY <1>3, KeptOnce
  <2>. QED
    BY <2>1
<1>8. \A k \in 1 .. Len(r) : r[k] \in S
  BY <1>6
<1>9. DOMAIN l = 1 .. Len(l)
  BY <1>3
<1>10. \A k \in 1 .. Len(r) : r[k] \in S /\ \E i \in DOMAIN l : r[k] = l[i]
  BY ONLY <1>7, <1>8, <1>9
<1>. QED
  BY ONLY m = m_tasks, c = m_currentTask, r = Kept(l, S), <1>3, <1>4, <1>6, <1>7, <1>10

LEMMA AbortKeeps ==
  ASSUME List!TaskListAssumption, TaskListInv, List!Abort
  PROVE  TaskListInv'
<1>. PICK l : l = List!Reverse(SubSeq(m_tasks, 1, m_currentTask - 1))
  OBVIOUS
<1>. PICK S : S = {t \in List!TaskSet : m_abortSteps[t] # <<>>}
  OBVIOUS
<1>. PICK r : r = Kept(l, S)
  OBVIOUS
<1>1. /\ l \in Seq(List!TaskSet) /\ Len(l) = m_currentTask - 1 /\ Distinct(l)
      /\ \A k \in 1 .. m_currentTask - 1 : l[k] = m_tasks[m_currentTask - k]
      /\ r \in Seq(List!TaskSet) /\ Distinct(r)
      /\ \A k \in 1 .. Len(r) : r[k] \in S /\ \E i \in DOMAIN l : r[k] = l[i]
  <2>1. /\ l \in Seq(List!TaskSet) /\ Len(l) = m_currentTask - 1 /\ Distinct(l)
        /\ \A k \in 1 .. m_currentTask - 1 : l[k] = m_tasks[m_currentTask - k]
        /\ Kept(l, S) \in Seq(List!TaskSet) /\ Distinct(Kept(l, S))
        /\ \A k \in 1 .. Len(Kept(l, S)) : Kept(l, S)[k] \in S /\ \E i \in DOMAIN l : Kept(l, S)[k] = l[i]
    BY ONLY TaskListInv, l = List!Reverse(SubSeq(m_tasks, 1, m_currentTask - 1)), TasksAborted
  <2>. QED
    BY <2>1
<1>. PICK tasks : tasks = {l[i] : i \in DOMAIN l}
  OBVIOUS
<1>2. /\ m_tasks' = r /\ m_currentTask' = 1 /\ result' = (m_tasks' # <<>>) /\ undone' = undone
      /\ aborts < 2 /\ aborts' = aborts + 1 /\ undo' = IF aborts = 0 THEN List!UndoSteps ELSE undone
      /\ m_steps' = [t \in List!TaskSet |-> IF t \in tasks /\ m_abortSteps[t] # <<>> THEN m_abortSteps[t]
                                       ELSE IF t \in tasks THEN <<>> ELSE m_steps[t]]
      /\ m_nextStep' = [t \in List!TaskSet |-> IF t \in tasks THEN 1 ELSE m_nextStep[t]]
      /\ m_abortSteps' = [t \in List!TaskSet |-> IF t \in tasks THEN <<>> ELSE m_abortSteps[t]]
  BY ListKept DEF List!Abort, List!AbortTasks
<1>3. /\ m_steps \in [List!TaskSet -> Seq(StepSet)] /\ m_abortSteps \in [List!TaskSet -> Seq(StepSet)]
      /\ m_nextStep \in [List!TaskSet -> Nat]
  BY DEF TaskListInv, TaskListTypes
<1>4. /\ m_steps' \in [List!TaskSet -> Seq(StepSet)] /\ m_abortSteps' \in [List!TaskSet -> Seq(StepSet)]
      /\ m_nextStep' \in [List!TaskSet -> Nat]
  <2>1. <<>> \in Seq(StepSet) /\ 1 \in Nat
    OBVIOUS
  <2>. QED
    BY ONLY <1>2, <1>3, <2>1
<1>5. \A k \in 1 .. Len(r) : /\ r[k] \in List!TaskSet /\ r[k] \in tasks /\ m_abortSteps[r[k]] # <<>>
                             /\ m_steps'[r[k]] = m_abortSteps[r[k]]
                             /\ m_nextStep'[r[k]] = 1 /\ m_abortSteps'[r[k]] = <<>>
  <2>. TAKE k \in 1 .. Len(r)
  <2>1. r[k] \in List!TaskSet /\ r[k] \in tasks /\ m_abortSteps[r[k]] # <<>>
    <3>1. PICK i \in DOMAIN l : r[k] = l[i]
      BY <1>1
    <3>2. r[k] \in S
      BY <1>1
    <3>3. r[k] \in tasks
      BY <3>1
    <3>. QED
      BY <3>2, <3>3
  <2>. QED
    BY ONLY <1>2, <2>1
<1>6. TaskListTypes'
  <2>1. 1 \in 1 .. Len(r) + 1
    BY <1>1
  <2>2. result' \in BOOLEAN
    BY <1>2, Zenon
  <2>3. aborts' \in 0 .. 2
    BY <1>2 DEF TaskListInv, TaskListTypes
  <2>4. Distinct(m_tasks)'
    BY <1>1, <1>2, SMTT(60) DEF Distinct
  <2>. QED
    BY <1>1, <1>2, <1>4, <2>1, <2>2, <2>3, <2>4 DEF TaskListTypes
<1>7. Begun'
  <2>1. CASE r = <<>>
    <3>1. result' = FALSE
      BY <1>2, <2>1
    <3>2. m_currentTask' = Len(m_tasks') + 1 /\ \A k \in 1 .. Len(m_tasks') : FALSE
      <4>1. m_currentTask' = 1 /\ m_tasks' = <<>>
        BY <1>2, <2>1
      <4>2. Len(<<>>) = 0 /\ \A k \in 1 .. 0 : FALSE
        OBVIOUS
      <4>. QED
        BY ONLY <4>1, <4>2
    <3>. QED
      BY <3>1, <3>2 DEF Begun
  <2>2. CASE r # <<>>
    <3>1. result' = TRUE
      BY <1>2, <2>2
    <3>2. 1 \in 1 .. Len(r) /\ List!Current' = r[1]
      BY <1>1, <1>2, <2>2 DEF List!Current
    <3>3. m_steps'[r[1]] \in Seq(StepSet) /\ m_steps'[r[1]] # <<>>
      <4>1. r[1] \in List!TaskSet /\ m_steps'[r[1]] # <<>>
        BY <1>5, <3>2
      <4>. QED
        BY <1>4, <4>1
    <3>4. 1 \in 1 .. Len(m_steps'[r[1]])
      BY <3>3
    <3>. QED
      BY <1>2, <1>5, <3>1, <3>2, <3>4, SMTT(60) DEF Begun
  <2>. QED
    BY <2>1, <2>2
<1>8. Phases'
  <2>1. CASE aborts = 0
    <3>. PICK F : F = List!TaskSet \X StepSet
      OBVIOUS
    <3>1. DuesTyped(m_abortSteps, List!TaskSet, F) /\ DuesTyped(m_steps', List!TaskSet, F)
      BY <1>3, <1>4, DueTyped
    <3>2. List!UndoSteps = Joined(Dues(l, m_abortSteps))
      <4>1. \A k \in 1 .. m_currentTask - 1 :
              (LET t == m_tasks[m_currentTask - k] IN [i \in DOMAIN m_abortSteps[t] |-> <<t, m_abortSteps[t][i]>>])
              = Due(l[k], m_abortSteps)
        BY <1>1 DEF Due
      <4>2. [k \in 1 .. m_currentTask - 1 |->
              LET t == m_tasks[m_currentTask - k] IN [i \in DOMAIN m_abortSteps[t] |-> <<t, m_abortSteps[t][i]>>]]
            = [k \in 1 .. m_currentTask - 1 |-> Due(l[k], m_abortSteps)]
        BY <4>1
      <4>. QED
        BY <1>1, <4>2, ListJoined DEF List!UndoSteps, Dues
    <3>3. Joined(Dues(r, m_abortSteps)) = Joined(Dues(l, m_abortSteps))
      <4>1. \A t \in List!TaskSet : t \notin S => Due(t, m_abortSteps) = <<>>
        <5>. SUFFICES ASSUME NEW t \in List!TaskSet, m_abortSteps[t] = <<>> PROVE Due(t, m_abortSteps) = <<>>
          OBVIOUS
        <5>1. Due(t, m_abortSteps) \in Seq(F) /\ Len(Due(t, m_abortSteps)) = 0
          <6>1. Due(t, m_abortSteps) \in Seq(F) /\ Len(Due(t, m_abortSteps)) = Len(m_abortSteps[t])
            BY <3>1 DEF DuesTyped
          <6>2. Len(m_abortSteps[t]) = 0
            OBVIOUS
          <6>. QED
            BY <6>1, <6>2
        <5>. QED
          BY <5>1
      <4>2. Joined(Dues(Kept(l, S), m_abortSteps)) = Joined(Dues(l, m_abortSteps))
        BY ONLY <1>1, <3>1, <4>1, JoinedOfKept
      <4>. QED
        BY <4>2
    <3>4. Dues(m_tasks, m_steps)' = Dues(r, m_abortSteps)
      <4>1. \A k \in 1 .. Len(r) : Due(r[k], m_steps') = Due(r[k], m_abortSteps)
        BY <1>5 DEF Due
      <4>2. Dues(r, m_steps') = Dues(r, m_abortSteps)
        BY <4>1 DEF Dues
      <4>. QED
        BY <1>2, <4>2
    <3>5. undo' = Joined(Dues(m_tasks, m_steps)')
      BY <1>2, <2>1, <3>2, <3>3, <3>4
    <3>6. undone' = <<>>
      BY <1>2, <2>1, NotAborted
    <3>. PICK ds : ds = Dues(r, m_abortSteps)
      OBVIOUS
    <3>7. PICK f : Joins(f, ds, F)
      <4>1. ds \in Seq(Seq(F))
        <5>1. r \in Seq(List!TaskSet)
          BY <1>1
        <5>2. Dues(r, m_abortSteps) \in Seq(Seq(F))
          BY ONLY <3>1, <5>1, DuesAreLists
        <5>. QED
          BY <5>2
      <4>. QED
        BY ONLY <4>1, JoinedRuns
    <3>8. UndoneBy(f)'
      <4>1. m_currentTask' - 1 = 0 /\ f[0] = <<>>
        BY <1>2, <3>7 DEF Joins
      <4>2. CASE 1 <= Len(r)
        <5>1. 1 \in 1 .. Len(r) /\ List!Current' = r[1]
          BY <1>1, <1>2, <4>2 DEF List!Current
        <5>2. m_nextStep'[r[1]] - 1 = 0 /\ r[1] \in List!TaskSet
          BY <1>5, <5>1
        <5>3. Due(r[1], m_steps') \in Seq(F)
          BY <3>1, <5>2 DEF DuesTyped
        <5>4. SubSeq(Due(r[1], m_steps'), 1, 0) = <<>>
          BY <5>3
        <5>5. Due(List!Current, m_steps)' = Due(r[1], m_steps')
          BY <5>1 DEF Due
        <5>. QED
          <6>1. m_currentTask' <= Len(m_tasks') /\ m_nextStep'[List!Current'] - 1 = 0
            BY <1>2, <4>2, <5>1, <5>2
          <6>2. SubSeq(Due(List!Current, m_steps)', 1, m_nextStep'[List!Current'] - 1) = <<>>
            BY <5>4, <5>5, <6>1
          <6>3. undone' = f[m_currentTask' - 1] \o <<>>
            BY <3>6, <4>1
          <6>. QED
            BY <6>1, <6>2, <6>3 DEF UndoneBy
      <4>3. CASE ~ (1 <= Len(r))
        BY <1>2, <3>6, <4>1, <4>3 DEF UndoneBy
      <4>. QED
        BY <4>2, <4>3
    <3>9. Undoing'
      <4>1. Joins(f, Dues(m_tasks, m_steps)', List!TaskSet \X StepSet)
        BY <3>4, <3>7
      <4>2. \A k \in 1 .. Len(m_tasks') : m_abortSteps'[m_tasks'[k]] = <<>>
        BY <1>2, <1>5
      <4>. QED
        BY <3>5, <3>8, <4>1, <4>2 DEF Undoing
    <3>. QED
      BY <1>2, <2>1, <3>9 DEF Phases
  <2>2. CASE aborts = 1
    <3>1. Undoing
      BY <2>2 DEF TaskListInv, Phases
    <3>2. r = <<>>
      <4>1. \A k \in 1 .. Len(l) : l[k] \notin S
        <5>. TAKE k \in 1 .. Len(l)
        <5>1. k \in 1 .. m_currentTask - 1 /\ m_currentTask - k \in 1 .. Len(m_tasks)
          BY <1>1 DEF TaskListInv, TaskListTypes
        <5>2. m_abortSteps[l[k]] = <<>>
          BY <1>1, <3>1, <5>1 DEF Undoing
        <5>. QED
          BY <5>2
      <4>2. Kept(l, S) = <<>>
        BY ONLY <1>1, <4>1, KeptOfNone
      <4>. QED
        BY <4>2
    <3>3. undone \in Seq(List!TaskSet \X StepSet)
      <4>. PICK F : F = List!TaskSet \X StepSet
        OBVIOUS
      <4>. PICK ds : ds = Dues(m_tasks, m_steps)
        OBVIOUS
      <4>1. PICK f : Joins(f, ds, F) /\ UndoneBy(f)
        <5>1. \E f : Joins(f, Dues(m_tasks, m_steps), List!TaskSet \X StepSet) /\ UndoneBy(f)
          BY <3>1 DEF Undoing
        <5>. QED
          BY <5>1, Zenon
      <4>2. DuesTyped(m_steps, List!TaskSet, F)
        BY <1>3, DueTyped
      <4>3. m_tasks \in Seq(List!TaskSet) /\ m_currentTask \in 1 .. Len(m_tasks) + 1
        BY DEF TaskListInv, TaskListTypes
      <4>4. ds \in Seq(Seq(F)) /\ Len(ds) = Len(m_tasks)
        <5>1. Dues(m_tasks, m_steps) \in Seq(Seq(F)) /\ Len(Dues(m_tasks, m_steps)) = Len(m_tasks)
          BY ONLY <4>2, <4>3, DuesAreLists
        <5>. QED
          BY <5>1
      <4>5. f[m_currentTask - 1] \in Seq(F)
        <5>1. m_currentTask - 1 \in 0 .. Len(ds)
          BY <4>3, <4>4
        <5>. QED
          BY <4>1, <5>1 DEF Joins
      <4>. PICK p : p = IF m_currentTask <= Len(m_tasks)
                        THEN SubSeq(Due(List!Current, m_steps), 1, m_nextStep[List!Current] - 1) ELSE <<>>
        OBVIOUS
      <4>6. p \in Seq(F)
        <5>1. CASE m_currentTask <= Len(m_tasks)
          <6>1. m_currentTask \in 1 .. Len(m_tasks)
            BY <4>3, <5>1
          <6>2. result
            BY <5>1, <6>1 DEF TaskListInv, TaskListTypes, Begun
          <6>3. /\ Due(List!Current, m_steps) \in Seq(F)
                /\ m_nextStep[List!Current] \in 1 .. Len(Due(List!Current, m_steps))
            <7>1. List!Current \in List!TaskSet /\ m_nextStep[List!Current] \in 1 .. Len(m_steps[List!Current])
              BY ONLY TaskListInv, <6>2, AtStep
            <7>2. Len(Due(List!Current, m_steps)) = Len(m_steps[List!Current])
              BY <4>2, <7>1 DEF DuesTyped
            <7>. QED
              BY <4>2, <7>1, <7>2 DEF DuesTyped
          <6>. QED
            BY <5>1, <6>3
        <5>2. CASE ~ (m_currentTask <= Len(m_tasks))
          BY <5>2
        <5>. QED
          BY <5>1, <5>2
      <4>7. undone = f[m_currentTask - 1] \o p
        BY <4>1 DEF UndoneBy
      <4>8. f[m_currentTask - 1] \o p \in Seq(F)
        BY ONLY <4>5, <4>6, ConcatProperties
      <4>. QED
        BY <4>7, <4>8
    <3>. QED
      BY <1>2, <2>2, <3>2, <3>3 DEF Phases
  <2>. QED
    BY <1>2, <2>1, <2>2 DEF TaskListInv, TaskListTypes
<1>. QED
  BY <1>6, <1>7, <1>8 DEF TaskListInv

LEMMA TaskListStep ==
  ASSUME List!TaskListAssumption, TaskListInv, [List!Next]_(List!vars)
  PROVE  TaskListInv'
<1>1. CASE List!NextStep
  BY <1>1, NextStepKeeps
<1>2. CASE \E t \in List!TaskSet : List!SwitchToTask(t)
  BY <1>2, SwitchToTaskKeeps
<1>3. CASE \E i \in 1 .. Len(Steps[Tasks[1]]) : List!SwitchToStep(i)
  BY <1>3, SwitchToStepKeeps
<1>4. CASE List!Abort
  BY <1>4, AbortKeeps
<1>5. CASE UNCHANGED List!vars
  <2>1. TaskListTypes' /\ Begun'
    BY <1>5 DEF List!vars, List!taskVars, List!ghosts, TaskListInv, TaskListTypes, Begun, List!Current, Distinct
  <2>2. Phases'
    <3>1. /\ m_tasks' = m_tasks /\ m_currentTask' = m_currentTask /\ m_steps' = m_steps
          /\ m_nextStep' = m_nextStep /\ m_abortSteps' = m_abortSteps /\ aborts' = aborts
          /\ undo' = undo /\ undone' = undone
      BY <1>5 DEF List!vars, List!taskVars, List!ghosts
    <3>2. Undoing => Undoing'
      BY <3>1, Zenon DEF Undoing, UndoneBy, List!Current, Dues, Due
    <3>. QED
      BY <3>1, <3>2 DEF TaskListInv, Phases
  <2>. QED
    BY <2>1, <2>2 DEF TaskListInv
<1>. QED
  BY <1>1, <1>2, <1>3, <1>4, <1>5 DEF List!Next


LEMMA ListMoves == [Next]_vars => [List!Next]_(List!vars)
BY DEF Next, Only, Is, vars, listVars, List!vars, List!taskVars, List!ghosts

\* As long as NextStep and Abort return true there is a step to do, whatever the
\* steps jump to; and an aborted job does the abort steps of the tasks that were
\* begun, from the last back, each task's from its last added back, once each and
\* none left when NextStep returns false (task_list.cpp: NextStep, Abort).
THEOREM AbortedJobsAreUndone == SafetySpec => []AbortUndoesDone
<1>. USE ComponentsAssumption DEF ComponentsAssumption
<1>1. Init => TaskListInv
  BY TaskListInit DEF Init
<1>2. TaskListInv /\ [Next]_vars => TaskListInv'
  BY ListMoves, TaskListStep
<1>3. TaskListInv => AbortUndoesDone
  BY TaskListInvIsEnough DEF AbortUndoesDone
<1> QED
  BY <1>1, <1>2, <1>3, PTL DEF SafetySpec
=============================================================================
