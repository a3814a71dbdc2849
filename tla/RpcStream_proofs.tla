--------------------------- MODULE RpcStream_proofs --------------------------
(***************************************************************************)
(* Theorems about RpcStream, for every set of calls, size of packets, of   *)
(* reads and of the kernel's buffer.  The bytes on their way from one end  *)
(* to the other are a line, which sending and receiving only move along:   *)
(* it stays cut into whole packets, and the calls on it, those queued and  *)
(* those handled are the calls made, in their order.                       *)
(***************************************************************************)
EXTENDS RpcStream, SequenceTheorems, FiniteSetTheorems, TLAPS

-----------------------------------------------------------------------------
(* The invariant. *)

LengthOf(p) == HeaderSize + IF p = Ping THEN 0 ELSE Size[p]

\* A line is cut into whole packets.
Framed(line) ==
  \A i \in 1 .. Len(line) :
    /\ line[i][2] \in 1 .. LengthOf(line[i][1])
    /\ i = 1 => line[i][2] = 1
    /\ i > 1 => \/ line[i][2] = 1 /\ line[i - 1][2] = LengthOf(line[i - 1][1])
                \/ line[i][1] = line[i - 1][1] /\ line[i][2] = line[i - 1][2] + 1
    /\ i = Len(line) => line[i][2] = LengthOf(line[i][1])

\* The calls whose packets are on a line, at their first bytes.
CallsOn(line) ==
  [i \in {j \in 1 .. Len(line) : line[j][2] = 1 /\ line[j][1] \in Calls} |-> line[i][1]]

Once(made) == \A k, l \in 1 .. Len(made) : made[k] = made[l] => k = l

\* What has been made at one end is handled at the other, queued there or, when
\* that one is up, on the line.
Delivered(handled, queue, line, made, up) ==
  /\ IsPrefix(handled, made)
  /\ up => Framed(line)
  /\ \E arrived \in Len(handled) .. Len(made) :
       /\ InTurn(CallsOf(queue), made, Len(handled), arrived)
       /\ up => InTurn(CallsOn(line), made, arrived, Len(made))

LinesInv ==
  \A e \in Ends :
    /\ Once(sent[e])
    /\ Delivered(received[e], eventQueue[e], Line(Other(e)), sent[Other(e)], socket[e] = "Connected")
    /\ m_inputStream[e] # <<>> => m_inputStream[e][1][2] = 1

\* A connection that is shut while it interprets was found broken.
ShutWhileParsing ==
  \A e \in Ends : parsing[e] /\ ~m_opened[e] => PeerClosed(e)

IInv == TypeOK /\ LinesInv /\ OutputIsWatched /\ ShutWhileParsing /\ EscapesAfterFailure /\ PingsGoRound

-----------------------------------------------------------------------------
(* Ends, packets and lines. *)

LEMMA TwoEnds ==
  ASSUME RpcStreamAssumption, NEW e \in Ends
  PROVE  /\ Other(e) \in Ends /\ Other(e) # e /\ Other(Other(e)) = e
         /\ \A f \in Ends : f = e \/ f = Other(e)
<1>1. Cardinality(Ends) = 2
  BY DEF RpcStreamAssumption
<1>2. IsFiniteSet(Ends)
  BY DEF RpcStreamAssumption
<1>3. IsFiniteSet(Ends \ {e}) /\ Cardinality(Ends \ {e}) = 1
  BY <1>1, <1>2, FS_RemoveElement
<1>4. PICK f : Ends \ {e} = {f}
  BY <1>3, FS_Singleton
<1>5. Ends = {e, f} /\ f # e
  BY <1>4
<1>6. Other(e) = f
  BY <1>5 DEF Other
<1>7. Other(f) = e
  BY <1>5 DEF Other
<1> QED
  BY <1>5, <1>6, <1>7

LEMMA PacketHasLength ==
  ASSUME RpcStreamAssumption, NEW p \in Packets
  PROVE  /\ LengthOf(p) \in Nat /\ LengthOf(p) > 0 /\ LengthOf(p) >= HeaderSize
         /\ HeaderSize + HeaderOf(p) = LengthOf(p)
         /\ Packet(p) \in Seq(Bytes) /\ Len(Packet(p)) = LengthOf(p)
         /\ \A i \in 1 .. LengthOf(p) : Packet(p)[i] = <<p, i>>
<1>1. HeaderSize \in Nat /\ HeaderSize > 0 /\ (p = Ping \/ p \in Calls) /\ Ping \notin Calls
  BY DEF RpcStreamAssumption, Packets
<1>2. ASSUME p # Ping PROVE Size[p] \in Nat /\ Size[p] % SizeLimit = Size[p]
  <2>1. Size[p] \in Nat /\ SizeLimit \in Nat /\ Size[p] < SizeLimit
    BY <1>1, <1>2 DEF RpcStreamAssumption
  <2>. DEFINE n == Size[p]
  <2>. HIDE DEF n
  <2>2. n \in Nat /\ SizeLimit \in Nat /\ n < SizeLimit => n % SizeLimit = n
    OBVIOUS
  <2> QED
    BY <2>1, <2>2 DEF n
<1>3. LengthOf(p) \in Nat /\ LengthOf(p) > 0 /\ LengthOf(p) >= HeaderSize
  BY <1>1, <1>2 DEF LengthOf
<1>4. HeaderSize + HeaderOf(p) = LengthOf(p)
  BY <1>1, <1>2 DEF LengthOf, HeaderOf
<1>5. Packet(p) = [i \in 1 .. LengthOf(p) |-> <<p, i>>]
  BY DEF Packet, LengthOf
<1>6. \A i \in 1 .. LengthOf(p) : <<p, i>> \in Bytes
  BY <1>3 DEF Bytes
<1>7. Packet(p) \in Seq(Bytes) /\ Len(Packet(p)) = LengthOf(p)
  <2>. DEFINE n == LengthOf(p)  packet == [i \in 1 .. n |-> <<p, i>>]
  <2>1. n \in Nat /\ \A i \in 1 .. n : <<p, i>> \in Bytes
    BY <1>3, <1>6
  <2>. HIDE DEF n
  <2>2. packet \in Seq(Bytes) /\ Len(packet) = n
    BY <2>1
  <2> QED
    BY <1>5, <2>2 DEF n
<1> QED
  BY <1>3, <1>4, <1>5, <1>7

\* A line is put together and cut.
LEMMA Joined ==
  ASSUME NEW S, NEW s \in Seq(S), NEW t \in Seq(S)
  PROVE  /\ s \o t \in Seq(S) /\ Len(s \o t) = Len(s) + Len(t) /\ Len(s) \in Nat /\ Len(t) \in Nat
         /\ \A i \in 1 .. Len(s) : (s \o t)[i] = s[i]
         /\ \A i \in 1 .. Len(t) : (s \o t)[Len(s) + i] = t[i]
         /\ \A i \in 1 .. Len(s \o t) : i > Len(s) => (s \o t)[i] = t[i - Len(s)]
BY ConcatProperties

LEMMA CutAndJoined ==
  ASSUME NEW S, NEW s \in Seq(S), NEW n \in Nat, n <= Len(s)
  PROVE  /\ SubSeq(s, 1, n) \in Seq(S) /\ Len(SubSeq(s, 1, n)) = n
         /\ Consume(s, n) \in Seq(S) /\ Len(Consume(s, n)) = Len(s) - n
         /\ SubSeq(s, 1, n) \o Consume(s, n) = s
         /\ \A i \in 1 .. n : SubSeq(s, 1, n)[i] = s[i]
<1>1. Len(s) \in Nat /\ Len(s) - n \in Nat
  OBVIOUS
<1>2. /\ SubSeq(s, 1, n) \in Seq(S) /\ Len(SubSeq(s, 1, n)) = n
      /\ \A i \in 1 .. n : SubSeq(s, 1, n)[i] = s[i]
  BY <1>1
<1>3. Consume(s, n) \in Seq(S) /\ Len(Consume(s, n)) = Len(s) - n
  BY <1>1 DEF Consume
<1>4. ASSUME NEW i \in 1 .. Len(s) - n PROVE Consume(s, n)[i] = s[n + i]
  BY <1>1 DEF Consume
<1>5. SubSeq(s, 1, n) \o Consume(s, n) = s
  <2>. DEFINE a == SubSeq(s, 1, n)  b == Consume(s, n)
  <2>1. /\ a \in Seq(S) /\ Len(a) = n /\ b \in Seq(S) /\ Len(b) = Len(s) - n
        /\ \A i \in 1 .. n : a[i] = s[i]
        /\ \A i \in 1 .. Len(s) - n : b[i] = s[n + i]
    BY <1>2, <1>3, <1>4
  <2>. HIDE DEF a, b
  <2>2. a \o b \in Seq(S) /\ Len(a \o b) = Len(s)
    BY <1>1, <2>1, Joined
  <2>3. ASSUME NEW i \in 1 .. Len(s) PROVE (a \o b)[i] = s[i]
    <3>1. CASE i <= n
      BY <2>1, <3>1, Joined
    <3>2. CASE i > n
      <4>1. i - n \in 1 .. Len(s) - n /\ n + (i - n) = i
        BY <1>1, <3>2
      <4>2. (a \o b)[Len(a) + (i - n)] = b[i - n]
        BY <2>1, <4>1, Joined
      <4> QED
        BY <2>1, <4>1, <4>2
    <3>3. i <= n \/ i > n
      BY <1>1
    <3> QED
      BY <3>1, <3>2, <3>3
  <2> QED
    BY <2>2, <2>3, SMTT(30) DEF a, b
<1> QED
  BY <1>2, <1>3, <1>5

-----------------------------------------------------------------------------
(* Calls in turn. *)

\* One more is made and comes last.
LEMMA TurnAtEnd ==
  ASSUME NEW f, NEW g, NEW made, NEW longer, NEW from \in Nat, NEW to \in Nat, NEW n \in Nat,
         Len(longer) \in Nat, Once(longer), DOMAIN f \subseteq Nat, from <= to, to + 1 <= Len(longer),
         \A k \in 1 .. to : longer[k] = made[k], InTurn(f, made, from, to),
         DOMAIN g = DOMAIN f \cup {n}, \A i \in DOMAIN f : i < n /\ g[i] = f[i],
         g[n] = longer[to + 1]
  PROVE  InTurn(g, longer, from, to + 1)
<1>1. \A k \in from + 1 .. to + 1 : k \in 1 .. Len(longer) /\ (k \in from + 1 .. to \/ k = to + 1)
  OBVIOUS
<1>2. \A k \in from + 1 .. to : k \in from + 1 .. to + 1 /\ k \in 1 .. to /\ longer[k] = made[k]
  OBVIOUS
<1>3. to + 1 \in from + 1 .. to + 1
  OBVIOUS
<1>4. ASSUME NEW i \in DOMAIN g PROVE \E k \in from + 1 .. to + 1 : longer[k] = g[i]
  <2>1. CASE i = n
    BY <1>3, <2>1
  <2>2. CASE i \in DOMAIN f
    <3>1. PICK k \in from + 1 .. to : made[k] = f[i]
      BY <2>2 DEF InTurn
    <3> QED
      BY <1>2, <2>2, <3>1
  <2> QED
    BY <2>1, <2>2
<1>5. ASSUME NEW k \in from + 1 .. to + 1 PROVE \E i \in DOMAIN g : g[i] = longer[k]
  <2>1. CASE k = to + 1
    BY <2>1
  <2>2. CASE k \in from + 1 .. to
    <3>1. PICK i \in DOMAIN f : f[i] = made[k]
      BY <2>2 DEF InTurn
    <3> QED
      BY <1>2, <2>2, <3>1
  <2> QED
    BY <1>1, <2>1, <2>2
<1>6. ASSUME NEW i \in DOMAIN g, NEW j \in DOMAIN g, i < j,
             NEW k \in from + 1 .. to + 1, NEW l \in from + 1 .. to + 1,
             longer[k] = g[i], longer[l] = g[j]
      PROVE  k < l
  <2>1. i \in DOMAIN f
    BY <1>6
  <2>2. PICK m \in from + 1 .. to : made[m] = f[i]
    BY <2>1 DEF InTurn
  <2>3. k = m
    <3>1. longer[k] = longer[m]
      BY <1>2, <1>6, <2>1, <2>2
    <3> QED
      BY <1>1, <1>2, <3>1 DEF Once
  <2>4. CASE j = n
    <3>1. l = to + 1
      BY <1>1, <1>3, <1>6, <2>4 DEF Once
    <3> QED
      BY <2>3, <3>1
  <2>5. CASE j \in DOMAIN f
    <3>1. PICK o \in from + 1 .. to : made[o] = f[j]
      BY <2>5 DEF InTurn
    <3>2. l = o
      <4>1. longer[l] = longer[o]
        BY <1>2, <1>6, <2>5, <3>1
      <4> QED
        BY <1>1, <1>2, <4>1 DEF Once
    <3>3. m < o
      BY <1>6, <2>1, <2>2, <2>5, <3>1 DEF InTurn
    <3> QED
      BY <2>3, <3>2, <3>3
  <2> QED
    BY <2>4, <2>5
<1>7. \A i \in DOMAIN g : \E k \in from + 1 .. to + 1 : longer[k] = g[i]
  BY <1>4
<1>8. \A k \in from + 1 .. to + 1 : \E i \in DOMAIN g : g[i] = longer[k]
  BY <1>5
<1>9. \A i, j \in DOMAIN g : \A k, l \in from + 1 .. to + 1 :
        i < j /\ longer[k] = g[i] /\ longer[l] = g[j] => k < l
  BY <1>6
<1> QED
  BY <1>7, <1>8, <1>9 DEF InTurn

\* Those that come behind place d, when there is none up to it.
LEMMA TurnBehind ==
  ASSUME NEW f, NEW g, NEW made, NEW from \in Nat, NEW to \in Nat, NEW d \in Nat,
         DOMAIN f \subseteq Nat, DOMAIN g \subseteq Nat, InTurn(f, made, from, to),
         \A i \in DOMAIN g : i + d \in DOMAIN f /\ f[i + d] = g[i],
         \A j \in DOMAIN f : j > d /\ j - d \in DOMAIN g
  PROVE  InTurn(g, made, from, to)
<1>1. ASSUME NEW i \in DOMAIN g PROVE \E k \in from + 1 .. to : made[k] = g[i]
  BY DEF InTurn
<1>2. ASSUME NEW k \in from + 1 .. to PROVE \E i \in DOMAIN g : g[i] = made[k]
  <2>1. PICK j \in DOMAIN f : f[j] = made[k]
    BY DEF InTurn
  <2>2. j - d \in DOMAIN g /\ (j - d) + d = j
    BY <2>1
  <2>3. g[j - d] = f[(j - d) + d]
    BY <2>2
  <2> QED
    BY <2>1, <2>2, <2>3
<1>3. ASSUME NEW i \in DOMAIN g, NEW j \in DOMAIN g, i < j, NEW k \in from + 1 .. to,
             NEW l \in from + 1 .. to, made[k] = g[i], made[l] = g[j]
      PROVE  k < l
  <2>1. i + d \in DOMAIN f /\ j + d \in DOMAIN f /\ i + d < j + d
    BY <1>3
  <2>2. made[k] = f[i + d] /\ made[l] = f[j + d]
    BY <1>3
  <2> QED
    BY <2>1, <2>2 DEF InTurn
<1>4. \A i \in DOMAIN g : \E k \in from + 1 .. to : made[k] = g[i]
  BY <1>1
<1>5. \A k \in from + 1 .. to : \E i \in DOMAIN g : g[i] = made[k]
  BY <1>2
<1>6. \A i, j \in DOMAIN g : \A k, l \in from + 1 .. to :
        i < j /\ made[k] = g[i] /\ made[l] = g[j] => k < l
  BY <1>3
<1> QED
  BY <1>4, <1>5, <1>6 DEF InTurn

\* The first one of all is at place 1, and is the first of those made.
LEMMA TurnOfFirst ==
  ASSUME NEW f, NEW g, NEW made, NEW from \in Nat, NEW to \in Nat, NEW d \in Nat, d > 0,
         Len(made) \in Nat, Once(made), to <= Len(made),
         DOMAIN f \subseteq Nat \ {0}, DOMAIN g \subseteq Nat, InTurn(f, made, from, to),
         1 \in DOMAIN f,
         \A i \in DOMAIN g : i + d \in DOMAIN f /\ f[i + d] = g[i] /\ i > 0,
         \A j \in DOMAIN f : j = 1 \/ j - d \in DOMAIN g
  PROVE  /\ from + 1 <= to /\ f[1] = made[from + 1]
         /\ InTurn(g, made, from + 1, to)
<1>1. \A k \in from + 1 .. to : k \in 1 .. Len(made)
  OBVIOUS
<1>0. \A i, j \in DOMAIN f : \A k, l \in from + 1 .. to :
        i < j /\ made[k] = f[i] /\ made[l] = f[j] => k < l
  BY DEF InTurn
<1>2. PICK first \in from + 1 .. to : made[first] = f[1]
  BY DEF InTurn
<1>3. ASSUME NEW k \in from + 1 .. to PROVE first <= k
  <2>1. PICK j \in DOMAIN f : f[j] = made[k]
    BY DEF InTurn
  <2>2. CASE j = 1
    BY <1>1, <1>2, <2>1, <2>2 DEF Once
  <2>3. CASE 1 < j
    BY <1>0, <1>2, <2>1, <2>3
  <2> QED
    BY <2>1, <2>2, <2>3
<1>4. first = from + 1 /\ from + 1 <= to
  <2>1. from + 1 \in from + 1 .. to
    OBVIOUS
  <2> QED
    BY <1>3, <2>1
<1>5. ASSUME NEW i \in DOMAIN g PROVE \E k \in (from + 1) + 1 .. to : made[k] = g[i]
  <2>1. PICK k \in from + 1 .. to : made[k] = f[i + d]
    BY DEF InTurn
  <2>2. first < k
    <3>1. i + d \in DOMAIN f /\ 1 < i + d
      OBVIOUS
    <3> QED
      BY <1>0, <1>2, <2>1, <3>1
  <2>3. k \in (from + 1) + 1 .. to
    BY <1>4, <2>2
  <2> QED
    BY <2>1, <2>3
<1>6. ASSUME NEW k \in (from + 1) + 1 .. to PROVE \E i \in DOMAIN g : g[i] = made[k]
  <2>1. k \in from + 1 .. to /\ k # first
    BY <1>4
  <2>2. PICK j \in DOMAIN f : f[j] = made[k]
    BY <2>1 DEF InTurn
  <2>3. j # 1
    BY <1>1, <1>2, <2>1, <2>2 DEF Once
  <2>4. j - d \in DOMAIN g /\ (j - d) + d = j
    BY <2>2, <2>3
  <2>5. g[j - d] = f[(j - d) + d]
    BY <2>4
  <2> QED
    BY <2>2, <2>4, <2>5
<1>7. ASSUME NEW i \in DOMAIN g, NEW j \in DOMAIN g, i < j, NEW k \in (from + 1) + 1 .. to,
             NEW l \in (from + 1) + 1 .. to, made[k] = g[i], made[l] = g[j]
      PROVE  k < l
  <2>1. i + d \in DOMAIN f /\ j + d \in DOMAIN f /\ i + d < j + d
    BY <1>7
  <2>2. made[k] = f[i + d] /\ made[l] = f[j + d] /\ k \in from + 1 .. to /\ l \in from + 1 .. to
    BY <1>7
  <2> QED
    BY <2>1, <2>2 DEF InTurn
<1>8. \A i \in DOMAIN g : \E k \in (from + 1) + 1 .. to : made[k] = g[i]
  BY <1>5
<1>9. \A k \in (from + 1) + 1 .. to : \E i \in DOMAIN g : g[i] = made[k]
  BY <1>6
<1>10. \A i, j \in DOMAIN g : \A k, l \in (from + 1) + 1 .. to :
         i < j /\ made[k] = g[i] /\ made[l] = g[j] => k < l
  BY <1>7
<1> QED
  BY <1>2, <1>4, <1>8, <1>9, <1>10 DEF InTurn

-----------------------------------------------------------------------------
(* Natural numbers: a set of them has a least one.                         *)

LEMMA LeastNumber ==
  ASSUME NEW T, T \subseteq Nat, T # {}
  PROVE  \E x \in T : \A y \in T : x =< y
<1>. DEFINE Less == OpToRel(<, Nat)
<1>1. IsWellFoundedOn(Less, Nat)
  BY NatLessThanWellFounded
<1>2. \A x, y \in Nat : <<x, y>> \in Less <=> x < y
  BY DEF OpToRel
<1>. HIDE DEF Less
<1>3. PICK x \in T : \A y \in T : ~ (<<y, x>> \in Less)
  BY <1>1, WFMin
<1>4. \A y \in T : ~ (y < x)
  BY <1>2, <1>3
<1>5. \A y \in T : x =< y
  <2>. TAKE y \in T
  <2>1. x \in Nat /\ y \in Nat /\ ~ (y < x)
    BY <1>4
  <2> QED
    BY <2>1
<1> QED
  BY <1>5

-----------------------------------------------------------------------------
(* Packets come to the end of a line and leave it at the front. *)

LEMMA FrontIsPacket ==
  ASSUME RpcStreamAssumption, NEW line \in Seq(Bytes), Framed(line), line # <<>>
  PROVE  /\ line[1][1] \in Packets /\ LengthOf(line[1][1]) <= Len(line)
         /\ \A i \in 1 .. LengthOf(line[1][1]) : line[i] = <<line[1][1], i>>
<1>. DEFINE p == line[1][1]  n == LengthOf(p)
            Wrong == {i \in 1 .. n : ~(i <= Len(line) /\ line[i][1] = p /\ line[i][2] = i)}
<1>1. Len(line) \in Nat /\ Len(line) > 0 /\ \A i \in 1 .. Len(line) : line[i] \in Bytes
  OBVIOUS
<1>2. p \in Packets
  BY <1>1 DEF Bytes
<1>3. n \in Nat /\ n > 0
  BY <1>2, PacketHasLength
<1>. HIDE DEF p, n
<1>4. line[1][1] = p /\ line[1][2] = 1 /\ 1 \in 1 .. n
  BY <1>1, <1>3 DEF Framed, p
<1>5. Wrong = {}
  <2>1. SUFFICES ASSUME Wrong # {} PROVE FALSE
    OBVIOUS
  <2>0. Wrong \subseteq Nat
    OBVIOUS
  <2>2. PICK i \in Wrong : \A j \in Wrong : i <= j
    <3>. HIDE DEF Wrong
    <3> QED
      BY <2>0, <2>1, LeastNumber
  <2>3. i \in 1 .. n /\ i # 1
    BY <1>1, <1>4
  <2>4. i - 1 \in 1 .. n /\ i - 1 \notin Wrong
    BY <1>3, <2>2, <2>3
  <2>5. i - 1 \in 1 .. Len(line) /\ line[i - 1][1] = p /\ line[i - 1][2] = i - 1
    BY <1>1, <1>3, <2>3, <2>4
  <2>6. line[i - 1][2] # LengthOf(line[i - 1][1])
    BY <1>3, <2>3, <2>5 DEF n
  <2>7. i - 1 # Len(line)
    BY <1>1, <2>5, <2>6 DEF Framed
  <2>8. i \in 1 .. Len(line) /\ i > 1
    BY <1>1, <1>3, <2>3, <2>5, <2>7
  <2>9. line[i][1] = line[i - 1][1] /\ line[i][2] = line[i - 1][2] + 1
    BY <2>6, <2>8 DEF Framed
  <2>10. line[i][1] = p /\ line[i][2] = i
    BY <1>3, <2>3, <2>5, <2>9
  <2> QED
    BY <1>1, <2>2, <2>8, <2>10
<1>6. ASSUME NEW i \in 1 .. n PROVE i <= Len(line) /\ line[i] = <<p, i>>
  <2>1. i \in 1 .. Len(line) /\ line[i][1] = p /\ line[i][2] = i
    BY <1>1, <1>3, <1>5
  <2> QED
    BY <1>1, <2>1 DEF Bytes
<1>7. n <= Len(line)
  BY <1>3, <1>6
<1> QED
  BY <1>2, <1>6, <1>7 DEF n, p

LEMMA FramedGains ==
  ASSUME RpcStreamAssumption, NEW line \in Seq(Bytes), Framed(line), NEW p \in Packets
  PROVE  Framed(line \o Packet(p))
<1>. DEFINE longer == line \o Packet(p)  n == Len(line)  m == LengthOf(p)
<1>1. /\ n \in Nat /\ m \in Nat /\ m > 0 /\ Len(longer) = n + m
      /\ \A i \in 1 .. n : longer[i] = line[i]
      /\ \A i \in 1 .. n + m : i > n => longer[i] = Packet(p)[i - n]
  <2>1. Packet(p) \in Seq(Bytes) /\ Len(Packet(p)) = m /\ m \in Nat /\ m > 0
    BY PacketHasLength
  <2>. PICK new : new = Packet(p)
    OBVIOUS
  <2>2. line \in Seq(Bytes) /\ new \in Seq(Bytes) /\ Len(new) = m
    BY <2>1
  <2>3. /\ line \o new \in Seq(Bytes) /\ Len(line \o new) = Len(line) + Len(new)
        /\ Len(line) \in Nat
        /\ \A i \in 1 .. Len(line) : (line \o new)[i] = line[i]
        /\ \A i \in 1 .. Len(line \o new) : i > Len(line) => (line \o new)[i] = new[i - Len(line)]
    BY ONLY <2>2, Joined
  <2>. HIDE DEF m
  <2> QED
    BY ONLY new = Packet(p), <2>1, <2>2, <2>3
<1>. HIDE DEF longer, n, m
<1>2. \A i \in 1 .. n + m : i > n => longer[i][1] = p /\ longer[i][2] = i - n /\ i - n \in 1 .. m
  <2>1. ASSUME NEW i \in 1 .. n + m, i > n PROVE i - n \in 1 .. m /\ longer[i] = <<p, i - n>>
    <3>1. i - n \in 1 .. m
      BY <1>1, <2>1
    <3> QED
      BY <1>1, <2>1, <3>1, PacketHasLength DEF m
  <2> QED
    BY <2>1
<1>3. ASSUME NEW i \in 1 .. Len(longer)
      PROVE  /\ longer[i][2] \in 1 .. LengthOf(longer[i][1])
             /\ i = 1 => longer[i][2] = 1
             /\ i > 1 => \/ longer[i][2] = 1 /\ longer[i - 1][2] = LengthOf(longer[i - 1][1])
                         \/ longer[i][1] = longer[i - 1][1] /\ longer[i][2] = longer[i - 1][2] + 1
             /\ i = Len(longer) => longer[i][2] = LengthOf(longer[i][1])
  <2>1. CASE i <= n
    <3>1. i \in 1 .. n /\ i # Len(longer) /\ longer[i] = line[i]
      BY <1>1, <2>1
    <3>2. i > 1 => longer[i - 1] = line[i - 1]
      BY <1>1, <3>1
    <3> QED
      BY <3>1, <3>2 DEF Framed, n
  <2>2. CASE i = n + 1
    <3>1. longer[i][1] = p /\ longer[i][2] = 1 /\ i - 1 = n
      BY <1>1, <1>2, <2>2
    <3>2. i > 1 => n \in 1 .. n /\ longer[n] = line[n]
      BY <1>1, <2>2
    <3>3. i > 1 => longer[i - 1][2] = LengthOf(longer[i - 1][1])
      BY <3>1, <3>2 DEF Framed, n
    <3>4. i = Len(longer) => m = 1
      BY <1>1, <2>2
    <3> QED
      BY <1>1, <3>1, <3>3, <3>4 DEF m
  <2>3. CASE i > n + 1
    <3>1. i \in 1 .. n + m /\ i > n /\ i - 1 \in 1 .. n + m /\ i - 1 > n
      BY <1>1, <2>3
    <3>2. /\ longer[i][1] = p /\ longer[i][2] = i - n /\ i - n \in 1 .. m
          /\ longer[i - 1][1] = p /\ longer[i - 1][2] = (i - 1) - n
      BY <1>2, <3>1
    <3>3. i # 1 /\ i - n = ((i - 1) - n) + 1 /\ (i = Len(longer) => i - n = m)
      BY <1>1, <2>3
    <3> QED
      BY <3>2, <3>3 DEF m
  <2>4. i <= n \/ i = n + 1 \/ i > n + 1
    BY <1>1
  <2> QED
    BY <2>1, <2>2, <2>3, <2>4
<1> QED
  BY <1>3 DEF Framed, longer

\* The rest of a line behind its first packet.
LEMMA Behind ==
  ASSUME RpcStreamAssumption, NEW p \in Packets, NEW rest \in Seq(Bytes)
  PROVE  LET line == Packet(p) \o rest
             d == LengthOf(p)
         IN  /\ d \in Nat /\ d > 0 /\ Len(rest) \in Nat /\ Len(line) = d + Len(rest)
             /\ \A i \in 1 .. d : line[i][1] = p /\ line[i][2] = i
             /\ \A i \in 1 .. Len(rest) : line[d + i] = rest[i]
<1>1. Packet(p) \in Seq(Bytes) /\ Len(Packet(p)) = LengthOf(p)
  BY PacketHasLength
<1>2. \A i \in 1 .. LengthOf(p) : Packet(p)[i][1] = p /\ Packet(p)[i][2] = i
  BY PacketHasLength
<1>. DEFINE packet == Packet(p)  d == LengthOf(p)
<1>3. packet \in Seq(Bytes) /\ Len(packet) = d /\ d \in Nat /\ d > 0
  BY <1>1, PacketHasLength
<1>4. \A i \in 1 .. d : packet[i][1] = p /\ packet[i][2] = i
  BY <1>2
<1>. HIDE DEF packet, d
<1>5. /\ Len(packet \o rest) = d + Len(rest) /\ Len(rest) \in Nat
      /\ \A i \in 1 .. d : (packet \o rest)[i] = packet[i]
      /\ \A i \in 1 .. Len(rest) : (packet \o rest)[d + i] = rest[i]
  <2>1. /\ Len(packet \o rest) = Len(packet) + Len(rest) /\ Len(rest) \in Nat
        /\ \A i \in 1 .. Len(packet) : (packet \o rest)[i] = packet[i]
        /\ \A i \in 1 .. Len(rest) : (packet \o rest)[Len(packet) + i] = rest[i]
    <3>1. packet \in Seq(Bytes)
      BY <1>3
    <3>2. Len(packet \o rest) = Len(packet) + Len(rest) /\ Len(rest) \in Nat
      BY <3>1
    <3>3. \A i \in 1 .. Len(packet) : (packet \o rest)[i] = packet[i]
      BY <3>1, Joined
    <3>4. \A i \in 1 .. Len(rest) : (packet \o rest)[Len(packet) + i] = rest[i]
      BY <3>1, Joined
    <3> QED
      BY <3>2, <3>3, <3>4
  <2> QED
    BY <1>3, <2>1
<1> QED
  BY <1>3, <1>4, <1>5 DEF packet, d

LEMMA FramedLoses ==
  ASSUME RpcStreamAssumption, NEW p \in Packets, NEW rest \in Seq(Bytes), Framed(Packet(p) \o rest)
  PROVE  Framed(rest)
<1>. DEFINE line == Packet(p) \o rest  d == LengthOf(p)
<1>1. /\ d \in Nat /\ d > 0 /\ Len(rest) \in Nat /\ Len(line) = d + Len(rest)
      /\ \A i \in 1 .. d : line[i][1] = p /\ line[i][2] = i
      /\ \A i \in 1 .. Len(rest) : line[d + i] = rest[i]
  BY Behind
<1>. HIDE DEF line, d
<1>2. Framed(line)
  BY DEF line
<1>3. ASSUME NEW i \in 1 .. Len(rest)
      PROVE  /\ rest[i][2] \in 1 .. LengthOf(rest[i][1])
             /\ i = 1 => rest[i][2] = 1
             /\ i > 1 => \/ rest[i][2] = 1 /\ rest[i - 1][2] = LengthOf(rest[i - 1][1])
                         \/ rest[i][1] = rest[i - 1][1] /\ rest[i][2] = rest[i - 1][2] + 1
             /\ i = Len(rest) => rest[i][2] = LengthOf(rest[i][1])
  <2>1. /\ d + i \in 1 .. Len(line) /\ d + i > 1 /\ line[d + i] = rest[i]
        /\ i = Len(rest) => d + i = Len(line)
    BY <1>1
  <2>2. /\ rest[i][2] \in 1 .. LengthOf(rest[i][1])
        /\ \/ rest[i][2] = 1 /\ line[(d + i) - 1][2] = LengthOf(line[(d + i) - 1][1])
           \/ rest[i][1] = line[(d + i) - 1][1] /\ rest[i][2] = line[(d + i) - 1][2] + 1
        /\ i = Len(rest) => rest[i][2] = LengthOf(rest[i][1])
    BY <1>2, <2>1 DEF Framed
  <2>3. CASE i = 1
    <3>1. (d + i) - 1 = d /\ line[d][1] = p /\ line[d][2] = d
      BY <1>1, <2>3
    <3>2. ~(rest[i][1] = p /\ rest[i][2] = d + 1)
      BY <1>1, <2>2 DEF d
    <3> QED
      BY <2>2, <2>3, <3>1, <3>2
  <2>4. CASE i > 1
    <3>1. i - 1 \in 1 .. Len(rest) /\ (d + i) - 1 = d + (i - 1)
      BY <1>1, <2>4
    <3>2. line[(d + i) - 1] = rest[i - 1]
      BY <1>1, <3>1
    <3> QED
      BY <2>2, <2>4, <3>2
  <2> QED
    BY <2>2, <2>3, <2>4
<1> QED
  BY <1>3 DEF Framed

LEMMA CallsGain ==
  ASSUME RpcStreamAssumption, NEW line \in Seq(Bytes), NEW p \in Packets
  PROVE  LET longer == line \o Packet(p)
             n == Len(line) + 1
         IN  /\ DOMAIN CallsOn(longer) = DOMAIN CallsOn(line) \cup (IF p \in Calls THEN {n} ELSE {})
             /\ \A i \in DOMAIN CallsOn(line) : i < n /\ i \in Nat /\ CallsOn(longer)[i] = CallsOn(line)[i]
             /\ p \in Calls => CallsOn(longer)[n] = p
<1>. DEFINE longer == line \o Packet(p)  n == Len(line)  m == LengthOf(p)
<1>1. /\ n \in Nat /\ m \in Nat /\ m > 0 /\ Len(longer) = n + m
      /\ \A i \in 1 .. n : longer[i] = line[i]
      /\ \A i \in 1 .. n + m : i > n => longer[i] = Packet(p)[i - n]
  <2>1. Packet(p) \in Seq(Bytes) /\ Len(Packet(p)) = m /\ m \in Nat /\ m > 0
    BY PacketHasLength
  <2>2. Len(longer) = n + m /\ n \in Nat
    BY <2>1, Joined, ZenonT(60)
  <2> QED
    BY <2>1, <2>2, Joined
<1>. HIDE DEF longer, n, m
<1>2. \A i \in 1 .. n + m : i > n => longer[i][1] = p /\ longer[i][2] = i - n
  <2>1. ASSUME NEW i \in 1 .. n + m, i > n PROVE i - n \in 1 .. m /\ longer[i] = <<p, i - n>>
    <3>1. i - n \in 1 .. m
      BY <1>1, <2>1
    <3> QED
      BY <1>1, <2>1, <3>1, PacketHasLength DEF m
  <2> QED
    BY <2>1
<1>. DEFINE f == CallsOn(line)  g == CallsOn(longer)
<1>3. /\ DOMAIN f = {j \in 1 .. n : line[j][2] = 1 /\ line[j][1] \in Calls}
      /\ \A i \in DOMAIN f : f[i] = line[i][1]
  BY DEF CallsOn, n
<1>4. /\ DOMAIN g = {j \in 1 .. n + m : longer[j][2] = 1 /\ longer[j][1] \in Calls}
      /\ \A i \in DOMAIN g : g[i] = longer[i][1]
  BY <1>1 DEF CallsOn
<1>. HIDE DEF f, g
<1>5. \A i \in DOMAIN f : i \in 1 .. n /\ i \in 1 .. n + m /\ i \in DOMAIN g /\ g[i] = f[i]
  BY <1>1, <1>3, <1>4
<1>6. ASSUME NEW i \in DOMAIN g PROVE i \in DOMAIN f \/ (i = n + 1 /\ p \in Calls)
  <2>1. CASE i <= n
    BY <1>1, <1>3, <1>4, <2>1
  <2>2. CASE i > n
    BY <1>1, <1>2, <1>4, <2>2
  <2> QED
    BY <1>1, <1>4, <2>1, <2>2
<1>7. p \in Calls => n + 1 \in DOMAIN g /\ g[n + 1] = p
  <2>1. n + 1 \in 1 .. n + m /\ n + 1 > n
    BY <1>1
  <2>2. longer[n + 1][1] = p /\ longer[n + 1][2] = 1
    BY <1>1, <1>2, <2>1
  <2> QED
    BY <1>4, <2>1, <2>2
<1>8. DOMAIN g = DOMAIN f \cup (IF p \in Calls THEN {n + 1} ELSE {})
  BY <1>5, <1>6, <1>7
<1>9. \A i \in DOMAIN f : i < n + 1 /\ i \in Nat
  BY <1>1, <1>5
<1> QED
  BY <1>5, <1>7, <1>8, <1>9 DEF f, g, longer, n

LEMMA CallsLose ==
  ASSUME RpcStreamAssumption, NEW p \in Packets, NEW rest \in Seq(Bytes)
  PROVE  LET line == Packet(p) \o rest
             d == LengthOf(p)
         IN  /\ d \in Nat /\ d > 0
             /\ DOMAIN CallsOn(line) \subseteq Nat \ {0} /\ DOMAIN CallsOn(rest) \subseteq Nat \ {0}
             /\ p \in Calls => 1 \in DOMAIN CallsOn(line) /\ CallsOn(line)[1] = p
             /\ \A i \in DOMAIN CallsOn(rest) :
                  i + d \in DOMAIN CallsOn(line) /\ CallsOn(line)[i + d] = CallsOn(rest)[i]
             /\ \A j \in DOMAIN CallsOn(line) :
                  (j = 1 /\ p \in Calls) \/ (j > d /\ j - d \in DOMAIN CallsOn(rest))
<1>. DEFINE line == Packet(p) \o rest  d == LengthOf(p)  n == Len(rest)
<1>1. /\ d \in Nat /\ d > 0 /\ n \in Nat /\ Len(line) = d + n
      /\ \A i \in 1 .. d : line[i][1] = p /\ line[i][2] = i
      /\ \A i \in 1 .. n : line[d + i] = rest[i]
  BY Behind
<1>. HIDE DEF line, d, n
<1>. DEFINE f == CallsOn(line)  g == CallsOn(rest)
<1>2. /\ DOMAIN g = {j \in 1 .. n : rest[j][2] = 1 /\ rest[j][1] \in Calls}
      /\ \A i \in DOMAIN g : g[i] = rest[i][1]
  BY DEF CallsOn, n
<1>3. /\ DOMAIN f = {j \in 1 .. d + n : line[j][2] = 1 /\ line[j][1] \in Calls}
      /\ \A i \in DOMAIN f : f[i] = line[i][1]
  BY <1>1 DEF CallsOn
<1>. HIDE DEF f, g
<1>4. DOMAIN f \subseteq Nat \ {0} /\ DOMAIN g \subseteq Nat \ {0}
  BY <1>1, <1>2, <1>3
<1>5. p \in Calls => 1 \in DOMAIN f /\ f[1] = p
  <2>1. 1 \in 1 .. d /\ 1 \in 1 .. d + n
    BY <1>1
  <2> QED
    BY <1>1, <1>3, <2>1
<1>6. ASSUME NEW i \in DOMAIN g PROVE i + d \in DOMAIN f /\ f[i + d] = g[i]
  <2>1. i \in 1 .. n /\ i + d \in 1 .. d + n /\ i + d = d + i
    BY <1>1, <1>2
  <2>2. line[i + d] = rest[i]
    BY <1>1, <2>1
  <2> QED
    BY <1>2, <1>3, <2>1, <2>2
<1>7. ASSUME NEW j \in DOMAIN f PROVE (j = 1 /\ p \in Calls) \/ (j > d /\ j - d \in DOMAIN g)
  <2>1. CASE j <= d
    <3>1. j \in 1 .. d /\ line[j][2] = 1 /\ line[j][1] \in Calls
      BY <1>1, <1>3, <2>1
    <3>2. line[j][1] = p /\ line[j][2] = j
      BY <1>1, <3>1
    <3> QED
      BY <3>1, <3>2
  <2>2. CASE j > d
    <3>1. j - d \in 1 .. n /\ d + (j - d) = j
      BY <1>1, <1>3, <2>2
    <3>2. line[j] = rest[j - d]
      BY <1>1, <3>1
    <3> QED
      BY <1>2, <1>3, <2>2, <3>1, <3>2
  <2> QED
    BY <1>1, <1>3, <2>1, <2>2
<1> QED
  BY <1>1, <1>4, <1>5, <1>6, <1>7 DEF f, g, line, d

-----------------------------------------------------------------------------
(* A ping is counted by its last byte. *)

Marks(line) == {i \in 1 .. Len(line) : line[i] = <<Ping, HeaderSize>>}

LEMMA MarksAreFinite ==
  ASSUME NEW line \in Seq(Bytes)
  PROVE  /\ IsFiniteSet(Marks(line)) /\ Cardinality(Marks(line)) \in Nat
         /\ {i \in DOMAIN line : line[i] = <<Ping, HeaderSize>>} = Marks(line)
<1>1. Len(line) \in Nat
  OBVIOUS
<1>2. IsFiniteSet(1 .. Len(line))
  BY <1>1, FS_Interval
<1>3. Marks(line) \in SUBSET (1 .. Len(line))
  BY DEF Marks
<1>4. IsFiniteSet(Marks(line))
  BY <1>2, <1>3, FS_Subset
<1> QED
  BY <1>4, FS_CardinalityType DEF Marks

LEMMA PingEnds ==
  ASSUME RpcStreamAssumption, NEW p \in Packets, NEW i \in 1 .. LengthOf(p)
  PROVE  <<p, i>> = <<Ping, HeaderSize>> <=> p = Ping /\ i = HeaderSize
OBVIOUS

LEMMA PingLength ==
  ASSUME RpcStreamAssumption
  PROVE  Ping \in Packets /\ LengthOf(Ping) = HeaderSize /\ HeaderSize \in Nat /\ HeaderSize > 0
BY DEF RpcStreamAssumption, LengthOf, Packets

LEMMA MarksGain ==
  ASSUME RpcStreamAssumption, NEW line \in Seq(Bytes), NEW p \in Packets
  PROVE  Cardinality(Marks(line \o Packet(p)))
           = Cardinality(Marks(line)) + IF p = Ping THEN 1 ELSE 0
<1>. DEFINE longer == line \o Packet(p)  n == Len(line)  m == LengthOf(p)
<1>1. /\ n \in Nat /\ m \in Nat /\ m > 0 /\ Len(longer) = n + m
      /\ \A i \in 1 .. n : longer[i] = line[i]
      /\ \A i \in 1 .. n + m : i > n => longer[i] = Packet(p)[i - n]
  <2>1. Packet(p) \in Seq(Bytes) /\ Len(Packet(p)) = m /\ m \in Nat /\ m > 0
    BY PacketHasLength
  <2>2. Len(longer) = n + m /\ n \in Nat
    BY <2>1, Joined, ZenonT(60)
  <2> QED
    BY <2>1, <2>2, Joined
<1>. HIDE DEF longer, n, m
<1>2. ASSUME NEW i \in 1 .. n + m, i > n
      PROVE  longer[i] = <<Ping, HeaderSize>> <=> p = Ping /\ i = n + HeaderSize
  <2>1. i - n \in 1 .. m
    BY <1>1, <1>2
  <2>2. longer[i] = <<p, i - n>>
    BY <1>1, <1>2, <2>1, PacketHasLength DEF m
  <2>3. i - n = HeaderSize <=> i = n + HeaderSize
    BY <1>1, PingLength
  <2> QED
    BY <2>2, <2>3
<1>3. \A i \in 1 .. n + m : i \in 1 .. n \/ i > n
  BY <1>1
<1>4. \A i \in 1 .. n : i \in 1 .. n + m /\ ~(i > n)
  BY <1>1
<1>5. CASE p # Ping
  <2>1. Marks(longer) = Marks(line)
    BY <1>1, <1>2, <1>3, <1>4, <1>5 DEF Marks, n
  <2> QED
    BY <1>5, <2>1, MarksAreFinite DEF longer
<1>6. CASE p = Ping
  <2>1. m = HeaderSize /\ n + HeaderSize \in 1 .. n + m /\ n + HeaderSize > n
    BY <1>1, <1>6, PingLength DEF m
  <2>2. Marks(longer) = Marks(line) \cup {n + HeaderSize} /\ n + HeaderSize \notin Marks(line)
    <3>1. Len(longer) = n + m /\ Len(line) = n
      BY <1>1 DEF n
    <3>2. \A i \in 1 .. n : longer[i] = line[i]
      BY <1>1
    <3> QED
      BY <1>2, <1>3, <1>4, <1>6, <2>1, <3>1, <3>2, SMTT(30) DEF Marks
  <2>3. Cardinality(Marks(line) \cup {n + HeaderSize}) = Cardinality(Marks(line)) + 1
    BY <2>2, MarksAreFinite, FS_AddElement
  <2> QED
    BY <1>6, <2>2, <2>3 DEF longer
<1> QED
  BY <1>5, <1>6

LEMMA MarksLose ==
  ASSUME RpcStreamAssumption, NEW p \in Packets, NEW rest \in Seq(Bytes)
  PROVE  Cardinality(Marks(Packet(p) \o rest))
           = Cardinality(Marks(rest)) + IF p = Ping THEN 1 ELSE 0
<1>. DEFINE line == Packet(p) \o rest  d == LengthOf(p)  n == Len(rest)
            Moved == {d + i : i \in Marks(rest)}
<1>1. /\ d \in Nat /\ d > 0 /\ n \in Nat /\ Len(line) = d + n
      /\ \A i \in 1 .. d : line[i] = <<p, i>>
      /\ \A i \in 1 .. n : line[d + i] = rest[i]
  <2>1. Packet(p) \in Seq(Bytes) /\ Len(Packet(p)) = d
    BY PacketHasLength
  <2>2. \A i \in 1 .. d : line[i] = Packet(p)[i]
    BY <2>1, Joined
  <2> QED
    BY <2>2, Behind, PacketHasLength
<1>. HIDE DEF line, d, n
<1>2. IsFiniteSet(Moved) /\ Cardinality(Moved) = Cardinality(Marks(rest))
  <2>. DEFINE f == [i \in Marks(rest) |-> d + i]
  <2>1. Marks(rest) \subseteq Nat
    BY DEF Marks
  <2>2. f \in Bijection(Marks(rest), Moved)
    BY <1>1, <2>1 DEF Bijection, Injection, Surjection, IsInjective
  <2>3. ExistsBijection(Marks(rest), Moved)
    BY <2>2 DEF ExistsBijection
  <2>. HIDE DEF Moved
  <2> QED
    BY <2>3, MarksAreFinite, FS_Bijection
<1>3. \A i \in 1 .. d + n : i \in 1 .. d \/ (i - d \in 1 .. n /\ d + (i - d) = i)
  BY <1>1
<1>4. ASSUME NEW i \in 1 .. d PROVE line[i] = <<Ping, HeaderSize>> <=> p = Ping /\ i = HeaderSize
  BY <1>1
<1>5. \A i \in Marks(rest) : i \in 1 .. n /\ d + i \in 1 .. d + n /\ d + i > d
  BY <1>1 DEF Marks, n
<1>6. ASSUME NEW i \in 1 .. d + n, i \notin 1 .. d
      PROVE  i \in Marks(line) <=> i \in Moved
  <2>1. i - d \in 1 .. n /\ d + (i - d) = i /\ line[i] = rest[i - d]
    BY <1>1, <1>3, <1>6
  <2>2. i \in Marks(line) => i - d \in Marks(rest)
    BY <1>1, <2>1 DEF Marks, n
  <2>3. i \in Moved => i \in Marks(line)
    <3>1. ASSUME NEW j \in Marks(rest), i = d + j PROVE i \in Marks(line)
      <4>1. j \in 1 .. n /\ line[d + j] = rest[j]
        BY <1>1, <1>5
      <4> QED
        BY <1>1, <3>1, <4>1 DEF Marks
    <3> QED
      BY <3>1
  <2> QED
    BY <2>1, <2>2, <2>3
<1>7. \A i \in Moved : i \in 1 .. d + n /\ i \notin 1 .. d
  BY <1>1, <1>5
<1>8. \A i \in Marks(line) : i \in 1 .. d + n
  BY <1>1 DEF Marks
<1>. HIDE DEF Moved
<1>9. CASE p # Ping
  <2>1. \A i \in 1 .. d : i \notin Marks(line)
    BY <1>4, <1>9 DEF Marks
  <2>2. Marks(line) = Moved
    BY <1>6, <1>7, <1>8, <2>1
  <2> QED
    BY <1>2, <1>9, <2>2, MarksAreFinite DEF line
<1>10. CASE p = Ping
  <2>1. HeaderSize = d /\ d \in 1 .. d /\ d \in 1 .. d + n
    BY <1>1, <1>10, PingLength DEF d
  <2>2. \A i \in 1 .. d : i \in Marks(line) <=> i = d
    BY <1>1, <1>4, <1>10, <2>1 DEF Marks
  <2>3. Marks(line) = Moved \cup {d} /\ d \notin Moved
    BY <1>6, <1>7, <1>8, <2>1, <2>2
  <2>4. Cardinality(Moved \cup {d}) = Cardinality(Moved) + 1
    BY <1>2, <2>3, FS_AddElement
  <2> QED
    BY <1>2, <1>10, <2>3, <2>4 DEF line
<1> QED
  BY <1>9, <1>10

-----------------------------------------------------------------------------
(* Types. *)

Events == Calls \cup {"Closed", "Broken"}

\* Of the variables that feeding the output changes.
FeedTypes ==
  /\ m_opened \in [Ends -> BOOLEAN]
  /\ m_hasReadWatch \in [Ends -> BOOLEAN]
  /\ m_hasWriteWatch \in [Ends -> BOOLEAN]
  /\ m_outputStream \in [Ends -> Seq(Bytes)]
  /\ kernel \in [Ends -> Seq(Bytes)]
  /\ \A e \in Ends : Len(kernel[e]) <= Capacity
  /\ eventQueue \in [Ends -> Seq(Events)]
  /\ failed \in [Ends -> BOOLEAN]

LEMMA TakenFits ==
  ASSUME RpcStreamAssumption, FeedTypes, NEW e \in Ends, NEW out \in Seq(Bytes)
  PROVE  /\ Least(Room(e), Len(out)) \in Nat
         /\ Least(Room(e), Len(out)) <= Len(out)
         /\ Len(kernel[e]) + Least(Room(e), Len(out)) <= Capacity
         /\ Len(out) \in Nat /\ Len(kernel[e]) \in Nat
<1>1. Capacity \in Nat /\ Len(out) \in Nat /\ Len(kernel[e]) \in Nat /\ Len(kernel[e]) <= Capacity
  BY DEF RpcStreamAssumption, FeedTypes
<1>. DEFINE k == Len(kernel[e])  m == Len(out)
<1>. HIDE DEF k, m
<1>2. k \in Nat /\ m \in Nat /\ k <= Capacity
  BY <1>1 DEF k, m
<1>3. /\ Least(Capacity - k, m) \in Nat /\ Least(Capacity - k, m) <= m
      /\ k + Least(Capacity - k, m) <= Capacity
  BY <1>1, <1>2 DEF Least
<1> QED
  BY <1>1, <1>3 DEF Room, k, m

LEMMA FedTypes ==
  ASSUME RpcStreamAssumption, FeedTypes, NEW e \in Ends, NEW out \in Seq(Bytes),
         NEW n \in Nat, n <= Len(out), Len(kernel[e]) + n <= Capacity
  PROVE  /\ kernel[e] \o SubSeq(out, 1, n) \in Seq(Bytes)
         /\ Len(kernel[e] \o SubSeq(out, 1, n)) <= Capacity
         /\ Consume(out, n) \in Seq(Bytes)
<1>1. SubSeq(out, 1, n) \in Seq(Bytes) /\ Len(SubSeq(out, 1, n)) = n /\ Consume(out, n) \in Seq(Bytes)
  BY CutAndJoined
<1>2. kernel[e] \in Seq(Bytes)
  BY DEF FeedTypes
<1>. DEFINE front == SubSeq(out, 1, n)
<1>3. kernel[e] \o front \in Seq(Bytes) /\ Len(kernel[e] \o front) = Len(kernel[e]) + Len(front)
  <2>. HIDE DEF front
  <2> QED
    BY <1>1, <1>2, Joined DEF front
<1> QED
  BY <1>1, <1>3

LEMMA ShutTypes ==
  ASSUME FeedTypes, NEW e \in Ends, NEW event \in {"Closed", "Broken"}, Shut(e, event)
  PROVE  /\ m_opened' \in [Ends -> BOOLEAN] /\ m_hasReadWatch' \in [Ends -> BOOLEAN]
         /\ m_hasWriteWatch' \in [Ends -> BOOLEAN] /\ eventQueue' \in [Ends -> Seq(Events)]
BY DEF FeedTypes, Shut, Post, Events

LEMMA FeedKeepsTypes ==
  ASSUME RpcStreamAssumption, FeedTypes, NEW e \in Ends, NEW out \in Seq(Bytes),
         FeedOutput(e, out) \/ FeedFailed(e, out)
  PROVE  FeedTypes'
<1>1. CASE FeedFailed(e, out)
  BY <1>1 DEF FeedFailed, FeedTypes
<1>2. CASE FeedBroken(e, out)
  BY <1>2, ShutTypes DEF FeedBroken, FeedTypes
<1>3. CASE Fed(e, out, Least(Room(e), Len(out)))
  <2>. DEFINE n == Least(Room(e), Len(out))
  <2>1. n \in Nat /\ n <= Len(out) /\ Len(kernel[e]) + n <= Capacity
    BY TakenFits
  <2>. HIDE DEF n
  <2>2. /\ kernel' = [kernel EXCEPT ![e] = @ \o SubSeq(out, 1, n)]
        /\ m_outputStream' = [m_outputStream EXCEPT ![e] = Consume(out, n)]
        /\ m_hasWriteWatch' = [m_hasWriteWatch EXCEPT ![e] = @ \/ n < Len(out)]
        /\ UNCHANGED <<m_opened, m_hasReadWatch, eventQueue, failed>>
    BY <1>3 DEF Fed, n
  <2>3. m_hasWriteWatch' \in [Ends -> BOOLEAN]
    BY <2>2 DEF FeedTypes
  <2> QED
    BY <2>1, <2>2, <2>3, FedTypes DEF FeedTypes
<1> QED
  BY <1>1, <1>2, <1>3 DEF FeedOutput

\* ... and those that it leaves alone.
OtherTypes ==
  /\ m_inputStream \in [Ends -> Seq(Bytes)]
  /\ parsing \in [Ends -> BOOLEAN]
  /\ socket \in [Ends -> {"Connected", "None"}]
  /\ reset \in [Ends -> BOOLEAN]
  /\ received \in [Ends -> Seq(Calls)]
  /\ sent \in [Ends -> Seq(Calls)]
  /\ pings \in 0 .. MaxPings
  /\ escaped \in [Ends -> BOOLEAN]

LEMMA AllTypes == TypeOK <=> FeedTypes /\ OtherTypes
BY DEF TypeOK, FeedTypes, OtherTypes, Events

\* The packet in front, when there is a whole one.
LEMMA PacketInFront ==
  ASSUME RpcStreamAssumption, OtherTypes, NEW e \in Ends, HasPacket(e)
  PROVE  /\ m_inputStream[e] # <<>> /\ FrontPacket(e) \in Packets
         /\ FrontPacket(e) = m_inputStream[e][1][1]
         /\ LengthOf(FrontPacket(e)) \in Nat /\ LengthOf(FrontPacket(e)) <= Len(m_inputStream[e])
         /\ Rest(e) = Consume(m_inputStream[e], LengthOf(FrontPacket(e)))
         /\ Rest(e) \in Seq(Bytes)
<1>. DEFINE s == m_inputStream[e]
<1>1. s \in Seq(Bytes) /\ Len(s) \in Nat
  BY DEF OtherTypes
<1>2. HeaderSize \in Nat /\ HeaderSize > 0 /\ Len(s) >= HeaderSize
  BY DEF RpcStreamAssumption, HasPacket
<1>3. s # <<>> /\ Head(s) = s[1] /\ s[1] \in Bytes
  BY <1>1, <1>2
<1>4. FrontPacket(e) = s[1][1] /\ FrontPacket(e) \in Packets
  BY <1>3 DEF FrontPacket, Bytes
<1>5. HeaderSize + HeaderOf(FrontPacket(e)) = LengthOf(FrontPacket(e)) /\ LengthOf(FrontPacket(e)) \in Nat
  BY <1>4, PacketHasLength
<1>6. LengthOf(FrontPacket(e)) <= Len(s)
  BY <1>1, <1>5 DEF HasPacket
<1>7. Rest(e) = Consume(s, LengthOf(FrontPacket(e)))
  BY <1>5 DEF Rest
<1> QED
  BY <1>1, <1>3, <1>4, <1>5, <1>6, <1>7, CutAndJoined

LEMMA InitTypes == RpcStreamAssumption /\ Init => TypeOK
BY DEF RpcStreamAssumption, Init, TypeOK

\* The three ways of WriteReady.
LEMMA WriteReadyCases ==
  ASSUME NEW e \in Ends, WriteReady(e)
  PROVE  /\ \/ /\ m_outputStream[e] = <<>>
               /\ m_hasWriteWatch' = [m_hasWriteWatch EXCEPT ![e] = FALSE]
               /\ m_outputStream' = m_outputStream /\ kernel' = kernel
               /\ m_opened' = m_opened /\ m_hasReadWatch' = m_hasReadWatch
               /\ eventQueue' = eventQueue
            \/ /\ m_outputStream[e] # <<>>
               /\ PeerClosed(e)
               /\ FeedBroken(e, m_outputStream[e])
            \/ /\ m_outputStream[e] # <<>>
               /\ ~PeerClosed(e)
               /\ LET n == Least(Room(e), Len(m_outputStream[e])) IN
                    /\ kernel' = [kernel EXCEPT ![e] = @ \o SubSeq(m_outputStream[e], 1, n)]
                    /\ m_outputStream' = [m_outputStream EXCEPT ![e] = Consume(@, n)]
                    /\ m_hasWriteWatch' = [m_hasWriteWatch EXCEPT ![e] = n < Len(m_outputStream[e])]
               /\ m_opened' = m_opened /\ m_hasReadWatch' = m_hasReadWatch
               /\ eventQueue' = eventQueue
         /\ m_inputStream' = m_inputStream /\ parsing' = parsing /\ socket' = socket
         /\ reset' = reset /\ received' = received /\ sent' = sent /\ pings' = pings
         /\ failed' = failed /\ escaped' = escaped
BY DEF WriteReady

LEMMA WriteReadyTypes ==
  ASSUME RpcStreamAssumption, FeedTypes, OtherTypes, NEW e \in Ends, WriteReady(e)
  PROVE  FeedTypes' /\ OtherTypes'
<1>. DEFINE out == m_outputStream[e]
<1>1. OtherTypes'
  BY WriteReadyCases DEF OtherTypes
<1>2. out \in Seq(Bytes) /\ failed' = failed
  BY WriteReadyCases DEF FeedTypes
<1>3. ASSUME FeedBroken(e, out) PROVE FeedTypes'
  BY <1>2, <1>3, FeedKeepsTypes, ShutTypes DEF FeedBroken, FeedTypes
<1>4. ASSUME m_hasWriteWatch' = [m_hasWriteWatch EXCEPT ![e] = FALSE],
             m_outputStream' = m_outputStream, kernel' = kernel, m_opened' = m_opened,
             m_hasReadWatch' = m_hasReadWatch, eventQueue' = eventQueue
      PROVE  FeedTypes'
  BY <1>2, <1>4 DEF FeedTypes
<1>5. ASSUME NEW n \in Nat, n = Least(Room(e), Len(out)),
             kernel' = [kernel EXCEPT ![e] = @ \o SubSeq(out, 1, n)],
             m_outputStream' = [m_outputStream EXCEPT ![e] = Consume(@, n)],
             m_hasWriteWatch' = [m_hasWriteWatch EXCEPT ![e] = n < Len(out)],
             m_opened' = m_opened, m_hasReadWatch' = m_hasReadWatch, eventQueue' = eventQueue
      PROVE  FeedTypes'
  <2>1. n \in Nat /\ n <= Len(out) /\ Len(kernel[e]) + n <= Capacity
    BY <1>2, <1>5, TakenFits
  <2>2. m_hasWriteWatch' \in [Ends -> BOOLEAN]
    BY <1>5 DEF FeedTypes
  <2> QED
    BY <1>2, <1>5, <2>1, <2>2, FedTypes DEF FeedTypes
<1>6. Least(Room(e), Len(out)) \in Nat
  BY <1>2, TakenFits
<1>. HIDE DEF out
<1> QED
  BY <1>1, <1>3, <1>4, <1>5, <1>6, WriteReadyCases DEF out

LEMMA ReadBytesTypes ==
  ASSUME RpcStreamAssumption, FeedTypes, OtherTypes, NEW e \in Ends, ReadBytes(e)
  PROVE  FeedTypes' /\ OtherTypes'
<1>. DEFINE o == Other(e)  s == kernel[o]  n == Least(ReadSize, Len(s))
<1>1. o \in Ends /\ o # e
  BY TwoEnds
<1>2. s \in Seq(Bytes) /\ Len(s) \in Nat /\ Len(s) <= Capacity /\ Capacity \in Nat
  BY <1>1 DEF FeedTypes, RpcStreamAssumption
<1>3. n \in Nat /\ n <= Len(s)
  BY <1>2 DEF Least, RpcStreamAssumption
<1>4. SubSeq(s, 1, n) \in Seq(Bytes) /\ Consume(s, n) \in Seq(Bytes) /\ Len(Consume(s, n)) <= Capacity
  BY <1>2, <1>3, CutAndJoined
<1>5. /\ m_inputStream' = [m_inputStream EXCEPT ![e] = @ \o SubSeq(s, 1, n)]
      /\ kernel' = [kernel EXCEPT ![o] = Consume(@, n)]
      /\ parsing' = [parsing EXCEPT ![e] = TRUE]
      /\ UNCHANGED <<m_opened, m_hasReadWatch, m_hasWriteWatch, m_outputStream, socket, reset,
                     eventQueue, received, sent, pings, failed, escaped>>
  BY DEF ReadBytes
<1>. HIDE DEF n, o
<1>6. m_inputStream[e] \o SubSeq(s, 1, n) \in Seq(Bytes)
  BY <1>4, Joined DEF OtherTypes
<1> QED
  BY <1>1, <1>4, <1>5, <1>6 DEF FeedTypes, OtherTypes

LEMMA ParseTypes ==
  ASSUME RpcStreamAssumption, FeedTypes, OtherTypes, NEW e \in Ends, Parse(e)
  PROVE  FeedTypes' /\ OtherTypes'
<1>1. CASE ParseAsyncCall(e)
  <2>1. Rest(e) \in Seq(Bytes) /\ FrontPacket(e) \in Events
    BY <1>1, PacketInFront DEF ParseAsyncCall, Events
  <2> QED
    BY <1>1, <2>1, SMTT(30) DEF ParseAsyncCall, Post, FeedTypes, OtherTypes
<1>2. ASSUME ParsePingPong(e) \/ ParsePingNotOpened(e)
      PROVE  m_outputStream[e] \o Packet(Ping) \in Seq(Bytes) /\ Rest(e) \in Seq(Bytes)
  <2>1. Rest(e) \in Seq(Bytes)
    BY <1>2, PacketInFront DEF ParsePingPong, ParsePingNotOpened
  <2>2. Packet(Ping) \in Seq(Bytes) /\ m_outputStream[e] \in Seq(Bytes)
    BY PacketHasLength, PingLength DEF FeedTypes
  <2> QED
    BY <2>1, <2>2, Joined
<1>3. CASE ParsePingPong(e)
  <2>1. FeedTypes'
    BY <1>2, <1>3, FeedKeepsTypes DEF ParsePingPong
  <2>2. OtherTypes'
    BY <1>2, <1>3 DEF ParsePingPong, OtherTypes
  <2> QED
    BY <2>1, <2>2
<1>4. CASE ParsePingNotOpened(e)
  BY <1>2, <1>4 DEF ParsePingNotOpened, FeedTypes, OtherTypes
<1>5. CASE ParseEnd(e)
  BY <1>5 DEF ParseEnd, FeedTypes, OtherTypes
<1> QED
  BY <1>1, <1>3, <1>4, <1>5 DEF Parse

LEMMA ApplicationTypes ==
  ASSUME RpcStreamAssumption, FeedTypes, OtherTypes, NEW e \in Ends, Application(e)
  PROVE  FeedTypes' /\ OtherTypes'
<1>1. ASSUME NEW p \in Packets PROVE m_outputStream[e] \o Packet(p) \in Seq(Bytes)
  <2>1. Packet(p) \in Seq(Bytes) /\ m_outputStream[e] \in Seq(Bytes)
    BY PacketHasLength DEF FeedTypes
  <2> QED
    BY <2>1, Joined
<1>2. ASSUME NEW c \in Calls PROVE c \in Packets /\ Append(sent[e], c) \in Seq(Calls)
  BY DEF Packets, OtherTypes
<1>3. ASSUME NEW c \in Calls, AsyncCall(e, c) PROVE FeedTypes' /\ OtherTypes'
  <2>1. FeedTypes'
    BY <1>1, <1>2, <1>3, FeedKeepsTypes DEF AsyncCall
  <2>2. OtherTypes'
    BY <1>2, <1>3 DEF AsyncCall, OtherTypes
  <2> QED
    BY <2>1, <2>2
<1>4. ASSUME NEW c \in Calls, AsyncCallNotOpened(e, c) PROVE FeedTypes' /\ OtherTypes'
  BY <1>1, <1>2, <1>4 DEF AsyncCallNotOpened, FeedTypes, OtherTypes
<1>5. CASE StartPing(e)
  <2>1. FeedTypes'
    BY <1>1, <1>5, FeedKeepsTypes, PingLength DEF StartPing
  <2>2. pings' \in 0 .. MaxPings
    BY <1>5 DEF StartPing, OtherTypes, RpcStreamAssumption
  <2>3. OtherTypes'
    BY <1>5, <2>2 DEF StartPing, OtherTypes
  <2> QED
    BY <2>1, <2>3
<1>6. CASE Delete(e)
  <2>1. Other(e) \in Ends /\ Capacity \in Nat
    BY TwoEnds DEF RpcStreamAssumption
  <2>2. <<>> \in Seq(Bytes) /\ <<>> \in Seq(Events) /\ Len(<<>>) = 0
    OBVIOUS
  <2>3. /\ m_hasReadWatch' = [m_hasReadWatch EXCEPT ![e] = FALSE]
        /\ m_hasWriteWatch' = [m_hasWriteWatch EXCEPT ![e] = FALSE]
        /\ m_opened' = [m_opened EXCEPT ![e] = FALSE]
        /\ socket' = [socket EXCEPT ![e] = "None"]
        /\ reset' = [reset EXCEPT ![Other(e)] = kernel[Other(e)] # <<>>]
        /\ kernel' = [kernel EXCEPT ![Other(e)] = <<>>]
        /\ eventQueue' = [eventQueue EXCEPT ![e] = <<>>]
        /\ m_outputStream' = m_outputStream /\ m_inputStream' = m_inputStream
        /\ parsing' = parsing /\ received' = received /\ sent' = sent /\ pings' = pings
        /\ failed' = failed /\ escaped' = escaped
    BY <1>6 DEF Delete
  <2>. DEFINE there == kernel[Other(e)] # <<>>
  <2>4. there \in BOOLEAN
    OBVIOUS
  <2>. HIDE DEF there
  <2>5. reset' = [reset EXCEPT ![Other(e)] = there]
    BY <2>3 DEF there
  <2>6. FeedTypes'
    BY <2>1, <2>2, <2>3 DEF FeedTypes
  <2>7. OtherTypes'
    BY <2>1, <2>3, <2>4, <2>5 DEF OtherTypes
  <2> QED
    BY <2>6, <2>7
<1> QED
  BY <1>3, <1>4, <1>5, <1>6 DEF Application

LEMMA TypesStep ==
  ASSUME RpcStreamAssumption, TypeOK, [Next]_vars
  PROVE  TypeOK'
<1>. USE AllTypes
<1>0. FeedTypes /\ OtherTypes
  OBVIOUS
<1>1. ASSUME NEW e \in Ends, Listen(e) PROVE FeedTypes' /\ OtherTypes'
  <2>1. CASE WriteReadyFails(e)
    BY <2>1, <1>0 DEF WriteReadyFails, FeedFailed, FeedTypes, OtherTypes
  <2>2. CASE ReadEnd(e)
    BY <2>2, <1>0, ShutTypes DEF ReadEnd, FeedTypes, OtherTypes
  <2>3. CASE ReadFails(e)
    BY <2>3, <1>0 DEF ReadFails, ioVars, FeedTypes, OtherTypes
  <2> QED
    BY <1>0, <1>1, <2>1, <2>2, <2>3, WriteReadyTypes, ReadBytesTypes DEF Listen
<1>2. ASSUME NEW e \in Ends, HandleEvent(e) PROVE FeedTypes' /\ OtherTypes'
  <2>1. eventQueue[e] \in Seq(Events) /\ eventQueue[e] # <<>> /\ received[e] \in Seq(Calls)
    BY <1>0, <1>2 DEF HandleEvent, FeedTypes, OtherTypes
  <2>2. Tail(eventQueue[e]) \in Seq(Events)
    BY <2>1
  <2>3. ASSUME Head(eventQueue[e]) \in Calls
        PROVE  Append(received[e], Head(eventQueue[e])) \in Seq(Calls)
    BY <2>1, <2>3
  <2>4. FeedTypes'
    BY <1>0, <1>2, <2>2 DEF HandleEvent, ioVars, FeedTypes
  <2>5. OtherTypes'
    BY <1>0, <1>2, <2>3 DEF HandleEvent, ioVars, OtherTypes
  <2> QED
    BY <2>4, <2>5
<1>3. ASSUME UNCHANGED vars PROVE FeedTypes' /\ OtherTypes'
  <2>1. FeedTypes'
    BY <1>0, <1>3 DEF vars, ioVars, FeedTypes
  <2>2. OtherTypes'
    BY <1>0, <1>3 DEF vars, ioVars, OtherTypes
  <2> QED
    BY <2>1, <2>2
<1>4. ASSUME NEW e \in Ends, Listen(e) \/ Parse(e) \/ HandleEvent(e) \/ Application(e)
      PROVE  FeedTypes' /\ OtherTypes'
  BY <1>0, <1>1, <1>2, <1>4, ParseTypes, ApplicationTypes
<1>5. FeedTypes' /\ OtherTypes'
  BY <1>3, <1>4 DEF Next
<1> QED
  BY <1>5 DEF TypeOK, FeedTypes, OtherTypes, Events
-----------------------------------------------------------------------------
(* Watches and exceptions: an end changes only its own. *)

EndOK(e) ==
  /\ m_opened[e] /\ ~failed[e] /\ m_outputStream[e] # <<>> => m_hasWriteWatch[e]
  /\ m_opened[e] <=> m_hasReadWatch[e]
  /\ ~m_opened[e] => ~m_hasWriteWatch[e]
  /\ parsing[e] /\ ~m_opened[e] => PeerClosed(e)
  /\ escaped[e] => failed[e] \/ (~m_opened[e] /\ PeerClosed(e))

EndsOK == \A e \in Ends : EndOK(e)

LEMMA AllEndsOK == EndsOK <=> OutputIsWatched /\ ShutWhileParsing /\ EscapesAfterFailure
BY DEF EndsOK, EndOK, OutputIsWatched, ShutWhileParsing, EscapesAfterFailure

OthersKept(e) ==
  /\ \A f \in Ends : f # e =>
       /\ m_opened'[f] = m_opened[f] /\ failed'[f] = failed[f]
       /\ m_outputStream'[f] = m_outputStream[f] /\ m_hasWriteWatch'[f] = m_hasWriteWatch[f]
       /\ m_hasReadWatch'[f] = m_hasReadWatch[f] /\ parsing'[f] = parsing[f]
       /\ escaped'[f] = escaped[f]
  /\ \A f \in Ends : socket[f] # "Connected" => socket'[f] # "Connected"

LEMMA EndsStayOK ==
  ASSUME RpcStreamAssumption, NEW e \in Ends, EndsOK, OthersKept(e), EndOK(e)'
  PROVE  EndsOK'
<1>1. \A f \in Ends : Other(f) \in Ends
  BY TwoEnds
<1>2. ASSUME NEW f \in Ends, f # e PROVE EndOK(f)'
  <2>1. EndOK(f)
    BY DEF EndsOK
  <2>2. PeerClosed(f) => PeerClosed(f)'
    BY <1>1 DEF PeerClosed, OthersKept
  <2>3. /\ m_opened'[f] = m_opened[f] /\ failed'[f] = failed[f]
        /\ m_outputStream'[f] = m_outputStream[f] /\ m_hasWriteWatch'[f] = m_hasWriteWatch[f]
        /\ m_hasReadWatch'[f] = m_hasReadWatch[f] /\ parsing'[f] = parsing[f]
        /\ escaped'[f] = escaped[f]
    BY <1>2 DEF OthersKept
  <2> QED
    BY <2>1, <2>2, <2>3 DEF EndOK
<1> QED
  BY <1>2 DEF EndsOK

\* What is left to send is nothing when all was taken.
LEMMA LeftOver ==
  ASSUME NEW out \in Seq(Bytes), NEW n \in Nat, n <= Len(out)
  PROVE  Consume(out, n) # <<>> <=> n < Len(out)
<1>1. Len(Consume(out, n)) = Len(out) - n /\ Len(out) \in Nat /\ Consume(out, n) \in Seq(Bytes)
  BY CutAndJoined
<1>. DEFINE rest == Consume(out, n)
<1>2. rest \in Seq(Bytes) /\ Len(rest) = Len(out) - n
  BY <1>1
<1>. HIDE DEF rest
<1>3. rest # <<>> <=> Len(rest) > 0
  BY <1>2
<1> QED
  BY <1>1, <1>2, <1>3 DEF rest

\* Feeding the output of an open end.
LEMMA FeedStaysOK ==
  ASSUME RpcStreamAssumption, FeedTypes, NEW e \in Ends, NEW out \in Seq(Bytes), EndOK(e), m_opened[e],
         FeedOutput(e, out) \/ FeedFailed(e, out),
         socket' = socket, parsing' = parsing, escaped' = escaped
  PROVE  EndOK(e)' /\ OthersKept(e)
<1>1. CASE FeedFailed(e, out)
  BY <1>1 DEF FeedFailed, FeedTypes, EndOK, OthersKept, PeerClosed
<1>2. CASE FeedBroken(e, out) /\ PeerClosed(e)
  BY <1>2 DEF FeedBroken, Shut, FeedTypes, EndOK, OthersKept, PeerClosed
<1>3. CASE Fed(e, out, Least(Room(e), Len(out)))
  <2>. DEFINE n == Least(Room(e), Len(out))
  <2>1. n \in Nat /\ n <= Len(out)
    BY TakenFits
  <2>2. Consume(out, n) # <<>> <=> n < Len(out)
    BY <2>1, LeftOver
  <2>3. Fed(e, out, n)
    BY <1>3
  <2>. HIDE DEF n
  <2> QED
    BY <2>2, <2>3 DEF Fed, FeedTypes, EndOK, OthersKept, PeerClosed
<1> QED
  BY <1>1, <1>2, <1>3 DEF FeedOutput

LEMMA WriteReadyStaysOK ==
  ASSUME RpcStreamAssumption, FeedTypes, NEW e \in Ends, EndOK(e), WriteReady(e)
  PROVE  EndOK(e)' /\ OthersKept(e)
<1>. DEFINE out == m_outputStream[e]
<1>0. out \in Seq(Bytes) /\ m_hasWriteWatch[e] /\ m_opened[e]
  BY DEF FeedTypes, WriteReady, EndOK
<1>1. parsing' = parsing /\ socket' = socket /\ failed' = failed /\ escaped' = escaped
  BY WriteReadyCases
<1>2. ASSUME FeedBroken(e, out), PeerClosed(e) PROVE EndOK(e)' /\ OthersKept(e)
  BY <1>0, <1>1, <1>2, FeedStaysOK DEF FeedOutput
<1>3. ASSUME out = <<>>, m_hasWriteWatch' = [m_hasWriteWatch EXCEPT ![e] = FALSE],
             m_outputStream' = m_outputStream, m_opened' = m_opened, m_hasReadWatch' = m_hasReadWatch
      PROVE  EndOK(e)' /\ OthersKept(e)
  BY <1>1, <1>3 DEF FeedTypes, EndOK, OthersKept, PeerClosed
<1>4. ASSUME NEW n \in Nat, n = Least(Room(e), Len(out)),
             m_outputStream' = [m_outputStream EXCEPT ![e] = Consume(@, n)],
             m_hasWriteWatch' = [m_hasWriteWatch EXCEPT ![e] = n < Len(out)],
             m_opened' = m_opened, m_hasReadWatch' = m_hasReadWatch
      PROVE  EndOK(e)' /\ OthersKept(e)
  <2>1. n <= Len(out)
    BY <1>0, <1>4, TakenFits
  <2>2. Consume(out, n) # <<>> <=> n < Len(out)
    BY <1>0, <2>1, LeftOver
  <2> QED
    BY <1>0, <1>1, <1>4, <2>2 DEF FeedTypes, EndOK, OthersKept, PeerClosed
<1>5. Least(Room(e), Len(out)) \in Nat
  BY <1>0, TakenFits
<1>. HIDE DEF out
<1> QED
  BY <1>2, <1>3, <1>4, <1>5, WriteReadyCases DEF out

LEMMA ListenStaysOK ==
  ASSUME RpcStreamAssumption, FeedTypes, OtherTypes, NEW e \in Ends, EndOK(e), Listen(e)
  PROVE  EndOK(e)' /\ OthersKept(e)
<1>1. CASE WriteReadyFails(e)
  BY <1>1 DEF WriteReadyFails, FeedFailed, FeedTypes, OtherTypes, EndOK, OthersKept, PeerClosed
<1>2. CASE ReadBytes(e)
  BY <1>2 DEF ReadBytes, FeedTypes, OtherTypes, EndOK, OthersKept, PeerClosed
<1>3. CASE ReadEnd(e)
  <2>1. /\ m_hasReadWatch' = [m_hasReadWatch EXCEPT ![e] = FALSE]
        /\ m_hasWriteWatch' = [m_hasWriteWatch EXCEPT ![e] = FALSE]
        /\ m_opened' = [m_opened EXCEPT ![e] = FALSE]
        /\ m_outputStream' = m_outputStream /\ parsing' = parsing /\ socket' = socket
        /\ failed' = failed /\ escaped' = escaped /\ PeerClosed(e) /\ ~escaped[e]
    BY <1>3 DEF ReadEnd, Shut, Ready, Alive
  <2> QED
    BY <2>1 DEF FeedTypes, EndOK, OthersKept, PeerClosed
<1>4. CASE ReadFails(e)
  BY <1>4 DEF ReadFails, ioVars, FeedTypes, OtherTypes, EndOK, OthersKept, PeerClosed
<1> QED
  BY <1>1, <1>2, <1>3, <1>4, WriteReadyStaysOK DEF Listen

LEMMA ParseStaysOK ==
  ASSUME RpcStreamAssumption, FeedTypes, OtherTypes, NEW e \in Ends, EndOK(e), Parse(e)
  PROVE  EndOK(e)' /\ OthersKept(e)
<1>1. CASE ParseAsyncCall(e)
  BY <1>1 DEF ParseAsyncCall, FeedTypes, OtherTypes, EndOK, OthersKept, PeerClosed
<1>2. CASE ParsePingPong(e)
  <2>1. m_outputStream[e] \o Packet(Ping) \in Seq(Bytes)
    <3>1. Packet(Ping) \in Seq(Bytes) /\ m_outputStream[e] \in Seq(Bytes)
      BY PacketHasLength, PingLength DEF FeedTypes
    <3> QED
      BY <3>1, Joined
  <2> QED
    BY <1>2, <2>1, FeedStaysOK DEF ParsePingPong
<1>3. CASE ParsePingNotOpened(e)
  <2>1. m_outputStream' = [m_outputStream EXCEPT ![e] = @ \o Packet(Ping)]
    BY <1>3 DEF ParsePingNotOpened
  <2>2. \A f \in Ends : f # e => m_outputStream'[f] = m_outputStream[f]
    BY <2>1 DEF FeedTypes
  <2>3. OthersKept(e)
    BY <1>3, <2>2 DEF ParsePingNotOpened, OtherTypes, OthersKept
  <2>4. ~m_opened[e] /\ PeerClosed(e) /\ m_opened' = m_opened /\ socket' = socket
    BY <1>3 DEF ParsePingNotOpened, EndOK
  <2>5. EndOK(e)'
    BY <1>3, <2>4 DEF ParsePingNotOpened, EndOK, PeerClosed
  <2> QED
    BY <2>3, <2>5
<1>4. CASE ParseEnd(e)
  BY <1>4 DEF ParseEnd, OtherTypes, EndOK, OthersKept, PeerClosed
<1> QED
  BY <1>1, <1>2, <1>3, <1>4 DEF Parse

LEMMA ApplicationStaysOK ==
  ASSUME RpcStreamAssumption, FeedTypes, OtherTypes, NEW e \in Ends, EndOK(e), Application(e)
  PROVE  EndOK(e)' /\ OthersKept(e)
<1>1. ASSUME NEW p \in Packets PROVE m_outputStream[e] \o Packet(p) \in Seq(Bytes)
  <2>1. Packet(p) \in Seq(Bytes) /\ m_outputStream[e] \in Seq(Bytes)
    BY PacketHasLength DEF FeedTypes
  <2> QED
    BY <2>1, Joined
<1>2. ASSUME NEW c \in Calls, AsyncCall(e, c) PROVE EndOK(e)' /\ OthersKept(e)
  <2>1. m_outputStream[e] \o Packet(c) \in Seq(Bytes)
    BY <1>1 DEF Packets
  <2> QED
    BY <1>2, <2>1, FeedStaysOK DEF AsyncCall
<1>3. ASSUME NEW c \in Calls, AsyncCallNotOpened(e, c) PROVE EndOK(e)' /\ OthersKept(e)
  <2>1. m_outputStream' = [m_outputStream EXCEPT ![e] = @ \o Packet(c)]
    BY <1>3 DEF AsyncCallNotOpened
  <2>2. \A f \in Ends : f # e => m_outputStream'[f] = m_outputStream[f]
    BY <2>1 DEF FeedTypes
  <2>3. OthersKept(e)
    BY <1>3, <2>2 DEF AsyncCallNotOpened, OthersKept
  <2>4. EndOK(e)'
    BY <1>3 DEF AsyncCallNotOpened, EndOK, PeerClosed
  <2> QED
    BY <2>3, <2>4
<1>4. CASE StartPing(e)
  BY <1>1, <1>4, FeedStaysOK, PingLength DEF StartPing
<1>5. CASE Delete(e)
  BY <1>5 DEF Delete, Ready, Alive, FeedTypes, OtherTypes, EndOK, OthersKept, PeerClosed
<1> QED
  BY <1>2, <1>3, <1>4, <1>5 DEF Application

LEMMA WatchesStep ==
  ASSUME RpcStreamAssumption, TypeOK, EndsOK, [Next]_vars
  PROVE  EndsOK'
<1>0. FeedTypes /\ OtherTypes /\ \A e \in Ends : EndOK(e)
  BY AllTypes DEF EndsOK
<1>1. ASSUME NEW e \in Ends, Listen(e) \/ Parse(e) \/ HandleEvent(e) \/ Application(e)
      PROVE  EndsOK'
  <2>1. CASE HandleEvent(e)
    BY <1>0, <2>1 DEF HandleEvent, ioVars, EndOK, OthersKept, PeerClosed, EndsOK
  <2>2. CASE Listen(e) \/ Parse(e) \/ Application(e)
    BY <1>0, <2>2, ListenStaysOK, ParseStaysOK, ApplicationStaysOK, EndsStayOK
  <2> QED
    BY <1>1, <2>1, <2>2
<1>2. CASE UNCHANGED vars
  BY <1>2 DEF vars, ioVars, EndsOK, EndOK, PeerClosed
<1> QED
  BY <1>1, <1>2 DEF Next
-----------------------------------------------------------------------------
(* Deliveries: what a step at either end does to one line. *)

\* Turns are about the values of calls and of what was made, in their places.
LEMMA TurnAsBefore ==
  ASSUME NEW f, NEW g, NEW made, NEW longer, NEW from \in Nat, NEW to \in Nat,
         InTurn(f, made, from, to), DOMAIN g = DOMAIN f, \A i \in DOMAIN f : g[i] = f[i],
         \A k \in 1 .. to : longer[k] = made[k]
  PROVE  InTurn(g, longer, from, to)
<1>1. \A k \in from + 1 .. to : longer[k] = made[k]
  OBVIOUS
<1>2. \A i \in DOMAIN g : \E k \in from + 1 .. to : longer[k] = g[i]
  <2>1. \A i \in DOMAIN f : \E k \in from + 1 .. to : made[k] = f[i]
    BY DEF InTurn
  <2> QED
    BY <1>1, <2>1
<1>3. \A k \in from + 1 .. to : \E i \in DOMAIN g : g[i] = longer[k]
  <2>1. \A k \in from + 1 .. to : \E i \in DOMAIN f : f[i] = made[k]
    BY DEF InTurn
  <2> QED
    BY <1>1, <2>1
<1>4. \A i, j \in DOMAIN g : \A k, l \in from + 1 .. to :
        i < j /\ longer[k] = g[i] /\ longer[l] = g[j] => k < l
  <2>1. \A i, j \in DOMAIN f : \A k, l \in from + 1 .. to :
          i < j /\ made[k] = f[i] /\ made[l] = f[j] => k < l
    BY DEF InTurn
  <2> QED
    BY <1>1, <2>1
<1> QED
  BY <1>2, <1>3, <1>4 DEF InTurn

LEMMA NoTurn ==
  ASSUME NEW f, NEW made, NEW n \in Nat, DOMAIN f = {}
  PROVE  InTurn(f, made, n, n)
BY DEF InTurn

\* One more made.
LEMMA MadeOneMore ==
  ASSUME NEW made \in Seq(Calls), NEW c \in Calls
  PROVE  /\ Append(made, c) \in Seq(Calls) /\ Len(made) \in Nat
         /\ Len(Append(made, c)) = Len(made) + 1 /\ Append(made, c)[Len(made) + 1] = c
         /\ \A k \in 1 .. Len(made) : Append(made, c)[k] = made[k]
OBVIOUS

LEMMA PrefixMeans ==
  ASSUME NEW S, NEW s \in Seq(S), NEW t \in Seq(S)
  PROVE  IsPrefix(s, t) <=> Len(s) <= Len(t) /\ \A k \in 1 .. Len(s) : s[k] = t[k]
BY DEF IsPrefix

LEMMA CallMade ==
  ASSUME RpcStreamAssumption, NEW handled \in Seq(Calls), NEW queue \in Seq(Events),
         NEW line \in Seq(Bytes), NEW made \in Seq(Calls), NEW up \in BOOLEAN,
         Delivered(handled, queue, line, made, up), NEW c \in Calls, Once(Append(made, c))
  PROVE  Delivered(handled, queue, line \o Packet(c), Append(made, c), up)
<1>. DEFINE longer == Append(made, c)  n == Len(made)  h == Len(handled)
<1>1. /\ longer \in Seq(Calls) /\ n \in Nat /\ Len(longer) = n + 1 /\ longer[n + 1] = c
      /\ \A k \in 1 .. n : longer[k] = made[k]
  BY MadeOneMore
<1>2. PICK arrived \in h .. n : /\ InTurn(CallsOf(queue), made, h, arrived)
                                /\ up => InTurn(CallsOn(line), made, arrived, n)
  BY DEF Delivered
<1>3. h \in Nat /\ arrived \in Nat /\ h <= arrived /\ arrived <= n
  BY <1>1, <1>2
<1>4. IsPrefix(handled, longer)
  <2>1. h <= n /\ \A k \in 1 .. h : handled[k] = made[k]
    BY PrefixMeans DEF Delivered
  <2>2. h <= n + 1 /\ \A k \in 1 .. h : handled[k] = longer[k]
    BY <1>1, <1>3, <2>1
  <2> QED
    BY <1>1, <2>2, PrefixMeans
<1>5. c \in Packets
  BY DEF Packets
<1>6. up => Framed(line \o Packet(c))
  BY <1>5, FramedGains DEF Delivered
<1>7. InTurn(CallsOf(queue), longer, h, arrived)
  <2>1. \A k \in 1 .. arrived : longer[k] = made[k]
    BY <1>1, <1>3
  <2> QED
    BY <1>2, <1>3, <2>1, TurnAsBefore
<1>8. ASSUME up PROVE InTurn(CallsOn(line \o Packet(c)), longer, arrived, n + 1)
  <2>. DEFINE f == CallsOn(line)  g == CallsOn(line \o Packet(c))  m == Len(line) + 1
  <2>1. /\ DOMAIN g = DOMAIN f \cup {m}
        /\ \A i \in DOMAIN f : i < m /\ i \in Nat /\ g[i] = f[i]
        /\ g[m] = c
    BY <1>5, CallsGain
  <2>2. m \in Nat /\ DOMAIN f \subseteq Nat
    BY <2>1
  <2>3. InTurn(f, made, arrived, n)
    BY <1>2, <1>8
  <2>. HIDE DEF f, g, m, n, longer
  <2>4. Len(longer) \in Nat /\ n + 1 <= Len(longer) /\ g[m] = longer[n + 1]
    BY <1>1, <2>1
  <2>5. Once(longer)
    BY DEF longer
  <2>6. \A i \in DOMAIN f : i < m /\ g[i] = f[i]
    BY <2>1
  <2>7. DOMAIN g = DOMAIN f \cup {m} /\ (\A k \in 1 .. n : longer[k] = made[k])
    BY <1>1, <2>1
  <2>8. arrived \in Nat /\ n \in Nat /\ arrived <= n
    BY <1>1, <1>3
  <2>9. InTurn(g, longer, arrived, n + 1)
    BY <2>2, <2>3, <2>4, <2>5, <2>6, <2>7, <2>8, TurnAtEnd, ZenonT(60)
  <2> QED
    BY <2>9 DEF g
<1>9. arrived \in h .. Len(longer) /\ n + 1 = Len(longer)
  BY <1>1, <1>3
<1>. HIDE DEF longer, n, h
<1>10. up => InTurn(CallsOn(line \o Packet(c)), longer, arrived, Len(longer))
  BY <1>8, <1>9
<1> QED
  BY <1>4, <1>6, <1>7, <1>9, <1>10 DEF Delivered, longer, h

LEMMA PingSent ==
  ASSUME RpcStreamAssumption, NEW handled \in Seq(Calls), NEW queue \in Seq(Events),
         NEW line \in Seq(Bytes), NEW made \in Seq(Calls), NEW up \in BOOLEAN,
         Delivered(handled, queue, line, made, up)
  PROVE  Delivered(handled, queue, line \o Packet(Ping), made, up)
<1>1. Ping \in Packets /\ Ping \notin Calls
  BY PingLength DEF RpcStreamAssumption
<1>. DEFINE f == CallsOn(line)  g == CallsOn(line \o Packet(Ping))
<1>2. DOMAIN g = DOMAIN f /\ \A i \in DOMAIN f : g[i] = f[i]
  <2>. DEFINE n == Len(line) + 1
  <2>1. /\ DOMAIN g = DOMAIN f \cup (IF Ping \in Calls THEN {n} ELSE {})
        /\ \A i \in DOMAIN f : i < n /\ i \in Nat /\ g[i] = f[i]
    BY <1>1, CallsGain, ZenonT(60)
  <2>. HIDE DEF f, g, n
  <2> QED
    BY <1>1, <2>1
<1>3. up => Framed(line \o Packet(Ping))
  BY <1>1, FramedGains DEF Delivered
<1>4. PICK arrived \in Len(handled) .. Len(made) :
        /\ InTurn(CallsOf(queue), made, Len(handled), arrived)
        /\ up => InTurn(f, made, arrived, Len(made))
  BY DEF Delivered
<1>5. arrived \in Nat /\ Len(made) \in Nat
  BY <1>4
<1>. HIDE DEF f, g
<1>6. up => InTurn(g, made, arrived, Len(made))
  BY <1>2, <1>4, <1>5, TurnAsBefore
<1> QED
  BY <1>3, <1>4, <1>6 DEF Delivered, g

LEMMA PingParsed ==
  ASSUME RpcStreamAssumption, NEW handled \in Seq(Calls), NEW queue \in Seq(Events),
         NEW rest \in Seq(Bytes), NEW made \in Seq(Calls),
         Delivered(handled, queue, Packet(Ping) \o rest, made, TRUE)
  PROVE  Delivered(handled, queue, rest, made, TRUE)
<1>1. Ping \in Packets /\ Ping \notin Calls
  BY PingLength DEF RpcStreamAssumption
<1>. DEFINE f == CallsOn(Packet(Ping) \o rest)  g == CallsOn(rest)  d == LengthOf(Ping)
<1>2. /\ d \in Nat /\ DOMAIN f \subseteq Nat \ {0} /\ DOMAIN g \subseteq Nat \ {0}
      /\ \A i \in DOMAIN g : i + d \in DOMAIN f /\ f[i + d] = g[i]
      /\ \A j \in DOMAIN f : j > d /\ j - d \in DOMAIN g
  BY <1>1, CallsLose
<1>3. Framed(rest)
  BY <1>1, FramedLoses DEF Delivered
<1>4. PICK arrived \in Len(handled) .. Len(made) :
        /\ InTurn(CallsOf(queue), made, Len(handled), arrived)
        /\ InTurn(f, made, arrived, Len(made))
  BY DEF Delivered
<1>5. arrived \in Nat /\ Len(made) \in Nat
  BY <1>4
<1>. HIDE DEF f, g, d
<1>6. InTurn(g, made, arrived, Len(made))
  <2>1. DOMAIN f \subseteq Nat /\ DOMAIN g \subseteq Nat
    BY <1>2
  <2> QED
    BY <1>2, <1>4, <1>5, <2>1, TurnBehind
<1> QED
  BY <1>3, <1>4, <1>6 DEF Delivered, g

\* The queue gains an event.
LEMMA QueueGains ==
  ASSUME NEW queue \in Seq(Events), NEW v \in Events
  PROVE  LET longer == Append(queue, v)
             n == Len(queue) + 1
         IN  /\ longer \in Seq(Events) /\ n \in Nat /\ DOMAIN CallsOf(queue) \subseteq Nat
             /\ DOMAIN CallsOf(longer) = DOMAIN CallsOf(queue) \cup (IF v \in Calls THEN {n} ELSE {})
             /\ \A i \in DOMAIN CallsOf(queue) : i < n /\ CallsOf(longer)[i] = CallsOf(queue)[i]
             /\ v \in Calls => CallsOf(longer)[n] = v
<1>. DEFINE longer == Append(queue, v)  n == Len(queue)  f == CallsOf(queue)  g == CallsOf(longer)
<1>1. /\ longer \in Seq(Events) /\ n \in Nat /\ DOMAIN queue = 1 .. n /\ DOMAIN longer = 1 .. n + 1
      /\ \A i \in 1 .. n : longer[i] = queue[i]
      /\ longer[n + 1] = v
  OBVIOUS
<1>2. DOMAIN f = {i \in 1 .. n : queue[i] \in Calls} /\ \A i \in DOMAIN f : f[i] = queue[i]
  BY <1>1 DEF CallsOf
<1>3. DOMAIN g = {i \in 1 .. n + 1 : longer[i] \in Calls} /\ \A i \in DOMAIN g : g[i] = longer[i]
  BY <1>1 DEF CallsOf
<1>. HIDE DEF longer, n, f, g
<1>4. DOMAIN g = DOMAIN f \cup (IF v \in Calls THEN {n + 1} ELSE {})
  BY <1>1, <1>2, <1>3
<1>5. \A i \in DOMAIN f : i < n + 1 /\ i \in Nat /\ g[i] = f[i]
  BY <1>1, <1>2, <1>3, <1>4
<1>6. v \in Calls => g[n + 1] = v
  BY <1>1, <1>3, <1>4
<1> QED
  BY <1>1, <1>4, <1>5, <1>6 DEF longer, n, f, g

\* ... and loses its first.
LEMMA QueueLoses ==
  ASSUME NEW queue \in Seq(Events), queue # <<>>
  PROVE  LET rest == Tail(queue)
             v == Head(queue)
         IN  /\ rest \in Seq(Events) /\ v \in Events
             /\ DOMAIN CallsOf(queue) \subseteq Nat \ {0} /\ DOMAIN CallsOf(rest) \subseteq Nat \ {0}
             /\ v \in Calls => 1 \in DOMAIN CallsOf(queue) /\ CallsOf(queue)[1] = v
             /\ \A i \in DOMAIN CallsOf(rest) :
                  i + 1 \in DOMAIN CallsOf(queue) /\ CallsOf(queue)[i + 1] = CallsOf(rest)[i]
             /\ \A j \in DOMAIN CallsOf(queue) :
                  (j = 1 /\ v \in Calls) \/ (j > 1 /\ j - 1 \in DOMAIN CallsOf(rest))
<1>. DEFINE rest == Tail(queue)  v == Head(queue)  n == Len(queue)
            f == CallsOf(queue)  g == CallsOf(rest)
<1>1. /\ rest \in Seq(Events) /\ n \in Nat /\ n > 0 /\ DOMAIN queue = 1 .. n
      /\ DOMAIN rest = 1 .. n - 1 /\ \A i \in 1 .. n - 1 : rest[i] = queue[i + 1]
      /\ queue[1] = v /\ v \in Events
  OBVIOUS
<1>2. DOMAIN f = {i \in 1 .. n : queue[i] \in Calls} /\ \A i \in DOMAIN f : f[i] = queue[i]
  BY <1>1 DEF CallsOf
<1>3. DOMAIN g = {i \in 1 .. n - 1 : rest[i] \in Calls} /\ \A i \in DOMAIN g : g[i] = rest[i]
  BY <1>1 DEF CallsOf
<1>. HIDE DEF rest, v, n, f, g
<1>4. DOMAIN f \subseteq Nat \ {0} /\ DOMAIN g \subseteq Nat \ {0}
  BY <1>1, <1>2, <1>3
<1>5. v \in Calls => 1 \in DOMAIN f /\ f[1] = v
  BY <1>1, <1>2
<1>6. \A i \in DOMAIN g : i + 1 \in DOMAIN f /\ f[i + 1] = g[i]
  BY <1>1, <1>2, <1>3
<1>7. \A j \in DOMAIN f : (j = 1 /\ v \in Calls) \/ (j > 1 /\ j - 1 \in DOMAIN g)
  <2> SUFFICES ASSUME NEW j \in DOMAIN f, j # 1 PROVE j > 1 /\ j - 1 \in DOMAIN g
    BY <1>1, <1>2
  <2>1. j \in 2 .. n /\ queue[j] \in Calls
    BY <1>1, <1>2
  <2>2. j - 1 \in 1 .. n - 1 /\ rest[j - 1] = queue[j]
    BY <1>1, <2>1
  <2> QED
    BY <1>3, <2>1, <2>2
<1> QED
  BY <1>1, <1>4, <1>5, <1>6, <1>7 DEF rest, v, f, g

LEMMA CallParsed ==
  ASSUME RpcStreamAssumption, NEW handled \in Seq(Calls), NEW queue \in Seq(Events), NEW c \in Calls,
         NEW rest \in Seq(Bytes), NEW made \in Seq(Calls), Once(made),
         Delivered(handled, queue, Packet(c) \o rest, made, TRUE)
  PROVE  Delivered(handled, Append(queue, c), rest, made, TRUE)
<1>1. c \in Packets /\ c \in Events
  BY DEF Packets, Events
<1>. DEFINE f == CallsOn(Packet(c) \o rest)  g == CallsOn(rest)  d == LengthOf(c)
            q == CallsOf(queue)  r == CallsOf(Append(queue, c))  n == Len(made)  h == Len(handled)
            m == Len(queue) + 1
<1>2. /\ d \in Nat /\ d > 0 /\ DOMAIN f \subseteq Nat \ {0} /\ DOMAIN g \subseteq Nat \ {0}
      /\ 1 \in DOMAIN f /\ f[1] = c
      /\ \A i \in DOMAIN g : i + d \in DOMAIN f /\ f[i + d] = g[i]
      /\ \A j \in DOMAIN f : j = 1 \/ j - d \in DOMAIN g
  BY <1>1, CallsLose
<1>3. Framed(rest)
  BY <1>1, FramedLoses DEF Delivered
<1>4. /\ m \in Nat /\ DOMAIN q \subseteq Nat /\ DOMAIN r = DOMAIN q \cup {m} /\ r[m] = c
      /\ \A i \in DOMAIN q : i < m /\ r[i] = q[i]
  BY <1>1, QueueGains
<1>5. PICK arrived \in h .. n : InTurn(q, made, h, arrived) /\ InTurn(f, made, arrived, n)
  BY DEF Delivered
<1>6. h \in Nat /\ arrived \in Nat /\ n \in Nat /\ h <= arrived /\ n <= Len(made) /\ Len(made) \in Nat
  BY <1>5
<1>7. IsPrefix(handled, made)
  BY DEF Delivered
<1>. HIDE DEF f, g, d, q, r, n, h, m
<1>8. arrived + 1 <= n /\ c = made[arrived + 1] /\ InTurn(g, made, arrived + 1, n)
  <2>1. DOMAIN g \subseteq Nat /\ \A i \in DOMAIN g : i + d \in DOMAIN f /\ f[i + d] = g[i] /\ i > 0
    BY <1>2
  <2>2. DOMAIN f \subseteq Nat \ {0} /\ 1 \in DOMAIN f /\ d \in Nat /\ d > 0
    BY <1>2
  <2>3. \A j \in DOMAIN f : j = 1 \/ j - d \in DOMAIN g
    BY <1>2
  <2>4. InTurn(f, made, arrived, n)
    BY <1>5
  <2>5. arrived \in Nat /\ n \in Nat /\ n <= Len(made) /\ Len(made) \in Nat
    BY <1>6
  <2>6. arrived + 1 <= n /\ f[1] = made[arrived + 1] /\ InTurn(g, made, arrived + 1, n)
    BY <2>1, <2>2, <2>3, <2>4, <2>5, TurnOfFirst
  <2> QED
    BY <1>2, <2>6
<1>9. InTurn(r, made, h, arrived + 1)
  <2>1. arrived + 1 <= Len(made) /\ r[m] = made[arrived + 1]
    BY <1>4, <1>6, <1>8
  <2> QED
    BY <1>4, <1>5, <1>6, <2>1, TurnAtEnd
<1>10. arrived + 1 \in h .. n
  BY <1>6, <1>8
<1> QED
  BY <1>3, <1>7, <1>8, <1>9, <1>10 DEF Delivered, g, r, n, h

\* ConnectionClosedEvent and ConnectionBrokenEvent are no calls.
LEMMA EndPosted ==
  ASSUME RpcStreamAssumption, NEW handled \in Seq(Calls), NEW queue \in Seq(Events),
         NEW v \in {"Closed", "Broken"}, NEW line, NEW made \in Seq(Calls), NEW up \in BOOLEAN,
         Delivered(handled, queue, line, made, up)
  PROVE  Delivered(handled, Append(queue, v), line, made, up)
<1>1. v \in Events /\ v \notin Calls
  BY DEF Events, RpcStreamAssumption
<1>. DEFINE q == CallsOf(queue)  r == CallsOf(Append(queue, v))
<1>2. DOMAIN r = DOMAIN q /\ \A i \in DOMAIN q : r[i] = q[i]
  <2>. DEFINE n == Len(queue) + 1
  <2>1. /\ DOMAIN r = DOMAIN q \cup (IF v \in Calls THEN {n} ELSE {})
        /\ \A i \in DOMAIN q : i < n /\ r[i] = q[i]
    BY <1>1, QueueGains, ZenonT(60)
  <2>. HIDE DEF q, r, n
  <2> QED
    BY <1>1, <2>1
<1>3. PICK arrived \in Len(handled) .. Len(made) :
        /\ InTurn(q, made, Len(handled), arrived)
        /\ up => InTurn(CallsOn(line), made, arrived, Len(made))
  BY DEF Delivered
<1>4. Len(handled) \in Nat /\ arrived \in Nat
  BY <1>3
<1>. HIDE DEF q, r
<1>5. InTurn(r, made, Len(handled), arrived)
  BY <1>2, <1>3, <1>4, TurnAsBefore
<1> QED
  BY <1>3, <1>5 DEF Delivered, r

LEMMA EventTaken ==
  ASSUME RpcStreamAssumption, NEW handled \in Seq(Calls), NEW queue \in Seq(Events), queue # <<>>,
         NEW line, NEW made \in Seq(Calls), Once(made), NEW up \in BOOLEAN,
         Delivered(handled, queue, line, made, up)
  PROVE  IF Head(queue) \in Calls
         THEN Delivered(Append(handled, Head(queue)), Tail(queue), line, made, up)
         ELSE Delivered(handled, Tail(queue), line, made, up)
<1>. DEFINE v == Head(queue)  f == CallsOf(queue)  g == CallsOf(Tail(queue))
            n == Len(made)  h == Len(handled)
<1>1. /\ DOMAIN f \subseteq Nat \ {0} /\ DOMAIN g \subseteq Nat \ {0}
      /\ v \in Calls => 1 \in DOMAIN f /\ f[1] = v
      /\ \A i \in DOMAIN g : i + 1 \in DOMAIN f /\ f[i + 1] = g[i]
      /\ \A j \in DOMAIN f : (j = 1 /\ v \in Calls) \/ (j > 1 /\ j - 1 \in DOMAIN g)
  BY QueueLoses
<1>2. PICK arrived \in h .. n :
        /\ InTurn(f, made, h, arrived)
        /\ up => InTurn(CallsOn(line), made, arrived, n)
  BY DEF Delivered
<1>3. h \in Nat /\ n \in Nat /\ arrived \in Nat /\ h <= arrived /\ arrived <= n /\ Len(made) \in Nat
      /\ arrived <= Len(made)
  BY <1>2
<1>4. IsPrefix(handled, made) /\ (up => Framed(line))
  BY DEF Delivered
<1>5. CASE v \in Calls
  <2>. HIDE DEF f, g, v, n, h
  <2>1. h + 1 <= arrived /\ v = made[h + 1] /\ InTurn(g, made, h + 1, arrived)
    <3>1. /\ DOMAIN g \subseteq Nat
          /\ \A i \in DOMAIN g : i + 1 \in DOMAIN f /\ f[i + 1] = g[i] /\ i > 0
          /\ \A j \in DOMAIN f : j = 1 \/ j - 1 \in DOMAIN g
          /\ 1 \in DOMAIN f /\ f[1] = v
      BY <1>1, <1>5
    <3>2. DOMAIN f \subseteq Nat \ {0} /\ InTurn(f, made, h, arrived)
      BY <1>1, <1>2
    <3>3. h \in Nat /\ arrived \in Nat /\ arrived <= Len(made) /\ Len(made) \in Nat
      BY <1>3
    <3>. DEFINE d == 1
    <3>4. d \in Nat /\ d > 0
      OBVIOUS
    <3>5. /\ \A i \in DOMAIN g : i + d \in DOMAIN f /\ f[i + d] = g[i] /\ i > 0
          /\ \A j \in DOMAIN f : j = 1 \/ j - d \in DOMAIN g
          /\ DOMAIN g \subseteq Nat /\ 1 \in DOMAIN f
      BY <3>1
    <3>. HIDE DEF d
    <3>6. h + 1 <= arrived /\ f[1] = made[h + 1] /\ InTurn(g, made, h + 1, arrived)
      BY <3>2, <3>3, <3>4, <3>5, TurnOfFirst
    <3> QED
      BY <3>1, <3>6
  <2>2. /\ Append(handled, v) \in Seq(Calls) /\ Len(Append(handled, v)) = h + 1
        /\ Append(handled, v)[h + 1] = v
        /\ \A k \in 1 .. h : Append(handled, v)[k] = handled[k]
    BY <1>5, MadeOneMore DEF h
  <2>3. IsPrefix(Append(handled, v), made)
    <3>1. \A k \in 1 .. h : handled[k] = made[k]
      BY <1>4, PrefixMeans DEF h
    <3>2. h + 1 <= Len(made) /\ \A k \in 1 .. h + 1 : Append(handled, v)[k] = made[k]
      BY <1>3, <2>1, <2>2, <3>1
    <3> QED
      BY <2>2, <3>2, PrefixMeans
  <2>4. arrived \in Len(Append(handled, v)) .. Len(made)
    BY <1>3, <2>1, <2>2
  <2>5. Delivered(Append(handled, v), Tail(queue), line, made, up)
    BY <1>2, <1>4, <2>1, <2>2, <2>3, <2>4 DEF Delivered, g, n
  <2> QED
    BY <1>5, <2>5 DEF v
<1>6. CASE v \notin Calls
  <2>1. /\ \A j \in DOMAIN f : j > 1 /\ j - 1 \in DOMAIN g
        /\ DOMAIN f \subseteq Nat /\ DOMAIN g \subseteq Nat
    BY <1>1, <1>6
  <2>. HIDE DEF f, g, v, n, h
  <2>2. InTurn(g, made, h, arrived)
    BY <1>1, <1>2, <1>3, <2>1, TurnBehind
  <2>3. Delivered(handled, Tail(queue), line, made, up)
    BY <1>2, <1>4, <2>2 DEF Delivered, g, n, h
  <2> QED
    BY <1>6, <2>3 DEF v
<1> QED
  BY <1>5, <1>6

\* An end that is gone has no queue.
LEMMA EndGone ==
  ASSUME NEW handled \in Seq(Calls), NEW queue, NEW line, NEW rest, NEW made \in Seq(Calls), NEW up,
         Delivered(handled, queue, line, made, up)
  PROVE  Delivered(handled, <<>>, rest, made, FALSE)
<1>1. DOMAIN CallsOf(<<>>) = {}
  BY DEF CallsOf
<1>2. Len(handled) \in Nat /\ Len(made) \in Nat /\ Len(handled) \in Len(handled) .. Len(made)
  BY PrefixMeans DEF Delivered
<1>3. InTurn(CallsOf(<<>>), made, Len(handled), Len(handled))
  BY <1>1, <1>2, NoTurn
<1> QED
  BY <1>2, <1>3 DEF Delivered
-----------------------------------------------------------------------------
(* What each step does to the two lines. *)

\* An event that is no call may come to the queue of e; the other queue stays.
QueueKept(e) ==
  /\ \/ eventQueue'[e] = eventQueue[e]
     \/ \E v \in {"Closed", "Broken"} : eventQueue'[e] = Append(eventQueue[e], v)
  /\ eventQueue'[Other(e)] = eventQueue[Other(e)]

LineKept(e) == Line(e)' = Line(e)
LineGains(e, p) == Line(e)' = Line(e) \o Packet(p)
LineLoses(e, p) == Line(e) = Packet(p) \o Line(e)'

NoneOpens == \A f \in Ends : m_opened'[f] => m_opened[f]

LEMMA FeedMoves ==
  ASSUME RpcStreamAssumption, FeedTypes, NEW e \in Ends, NEW out \in Seq(Bytes),
         FeedOutput(e, out) \/ FeedFailed(e, out)
  PROVE  /\ \A s \in Seq(Bytes) : (s \o kernel'[e]) \o m_outputStream'[e] = (s \o kernel[e]) \o out
         /\ kernel'[Other(e)] = kernel[Other(e)]
         /\ m_outputStream'[Other(e)] = m_outputStream[Other(e)]
         /\ QueueKept(e) /\ NoneOpens
<1>1. Other(e) \in Ends /\ Other(e) # e
  BY TwoEnds
<1>2. CASE FeedFailed(e, out)
  <2>1. /\ m_outputStream'[e] = out /\ kernel' = kernel /\ eventQueue' = eventQueue
        /\ m_outputStream'[Other(e)] = m_outputStream[Other(e)] /\ m_opened' = m_opened
    BY <1>1, <1>2 DEF FeedFailed, FeedTypes
  <2> QED
    BY <2>1 DEF QueueKept, NoneOpens
<1>3. CASE FeedBroken(e, out)
  <2>1. /\ m_outputStream'[e] = out /\ kernel' = kernel
        /\ eventQueue'[e] = Append(eventQueue[e], "Broken")
        /\ eventQueue'[Other(e)] = eventQueue[Other(e)]
        /\ m_outputStream'[Other(e)] = m_outputStream[Other(e)]
    BY <1>1, <1>3 DEF FeedBroken, Shut, Post, FeedTypes
  <2>2. NoneOpens
    BY <1>3 DEF FeedBroken, Shut, NoneOpens, FeedTypes
  <2> QED
    BY <2>1, <2>2 DEF QueueKept
<1>4. CASE Fed(e, out, Least(Room(e), Len(out)))
  <2>. DEFINE n == Least(Room(e), Len(out))
  <2>1. n \in Nat /\ n <= Len(out) /\ kernel[e] \in Seq(Bytes)
    BY TakenFits DEF FeedTypes
  <2>2. Fed(e, out, n)
    BY <1>4
  <2>. HIDE DEF n
  <2>3. /\ kernel'[e] = kernel[e] \o SubSeq(out, 1, n) /\ m_outputStream'[e] = Consume(out, n)
        /\ kernel'[Other(e)] = kernel[Other(e)]
        /\ m_outputStream'[Other(e)] = m_outputStream[Other(e)]
        /\ eventQueue' = eventQueue /\ m_opened' = m_opened
    BY <1>1, <2>2 DEF Fed, FeedTypes
  <2>4. ASSUME NEW s \in Seq(Bytes)
        PROVE  (s \o kernel'[e]) \o m_outputStream'[e] = (s \o kernel[e]) \o out
    <3>1. (s \o (kernel[e] \o SubSeq(out, 1, n))) \o Consume(out, n) = (s \o kernel[e]) \o out
      <4>. DEFINE k == kernel[e]  front == SubSeq(out, 1, n)  rest == Consume(out, n)
      <4>1. front \o rest = out
        BY <2>1, CutAndJoined
      <4>2. k \in Seq(Bytes) /\ front \in Seq(Bytes) /\ rest \in Seq(Bytes)
        BY <2>1, CutAndJoined
      <4>. HIDE DEF k, front, rest
      <4>3. (s \o (k \o front)) \o rest = (s \o k) \o (front \o rest)
        BY <4>2, SMTT(30)
      <4>4. (s \o (k \o front)) \o rest = (s \o k) \o out
        BY <4>1, <4>3
      <4> QED
        BY <4>4 DEF k, front, rest
    <3> QED
      BY <2>3, <3>1
  <2> QED
    BY <2>3, <2>4 DEF QueueKept, NoneOpens
<1> QED
  BY <1>2, <1>3, <1>4 DEF FeedOutput

\* The whole packet in front of the input stream is the first of the line.
LEMMA PacketTaken ==
  ASSUME RpcStreamAssumption, FeedTypes, OtherTypes, NEW e \in Ends, HasPacket(e),
         Framed(Line(Other(e)))
  PROVE  m_inputStream[e] = Packet(FrontPacket(e)) \o Rest(e)
<1>. DEFINE s == m_inputStream[e]  p == FrontPacket(e)  n == LengthOf(p)
            more == kernel[Other(e)] \o m_outputStream[Other(e)]
<1>1. Other(e) \in Ends /\ Other(Other(e)) = e
  BY TwoEnds
<1>2. s \in Seq(Bytes) /\ kernel[Other(e)] \in Seq(Bytes) /\ m_outputStream[Other(e)] \in Seq(Bytes)
  BY <1>1 DEF FeedTypes, OtherTypes
<1>3. more \in Seq(Bytes) /\ Line(Other(e)) = s \o more
  <2>1. Line(Other(e)) = (s \o kernel[Other(e)]) \o m_outputStream[Other(e)]
    BY <1>1 DEF Line
  <2>. DEFINE k == kernel[Other(e)]  m == m_outputStream[Other(e)]
  <2>2. s \in Seq(Bytes) /\ k \in Seq(Bytes) /\ m \in Seq(Bytes)
    BY <1>2
  <2>. HIDE DEF s, k, m
  <2>3. k \o m \in Seq(Bytes) /\ (s \o k) \o m = s \o (k \o m)
    BY <2>2
  <2> QED
    BY <2>1, <2>3 DEF k, m
<1>4. /\ s # <<>> /\ p \in Packets /\ p = s[1][1] /\ n \in Nat /\ n <= Len(s)
      /\ Rest(e) = Consume(s, n)
  BY PacketInFront
<1>. HIDE DEF s, p, n, more
<1>. DEFINE line == s \o more
<1>5. /\ line \in Seq(Bytes) /\ Len(line) = Len(s) + Len(more) /\ Len(s) \in Nat /\ Len(more) \in Nat
      /\ \A i \in 1 .. Len(s) : line[i] = s[i]
  BY <1>2, <1>3, Joined
<1>6. Len(s) > 0
  BY <1>2, <1>4
<1>7. line # <<>> /\ line[1] = s[1] /\ Framed(line)
  <2>1. Framed(line)
    BY <1>3
  <2>. HIDE DEF line
  <2>2. line[1] = s[1] /\ Len(line) > 0
    BY <1>5, <1>6
  <2> QED
    BY <1>5, <2>1, <2>2
<1>. HIDE DEF line
<1>8. \A i \in 1 .. n : line[i] = <<p, i>>
  <2>1. \A i \in 1 .. LengthOf(line[1][1]) : line[i] = <<line[1][1], i>>
    BY <1>5, <1>7, FrontIsPacket
  <2> QED
    BY <1>4, <1>7, <2>1 DEF n
<1>9. /\ SubSeq(s, 1, n) \in Seq(Bytes) /\ Len(SubSeq(s, 1, n)) = n
      /\ SubSeq(s, 1, n) \o Consume(s, n) = s
      /\ \A i \in 1 .. n : SubSeq(s, 1, n)[i] = s[i]
  BY <1>2, <1>4, CutAndJoined
<1>10. /\ Packet(p) \in Seq(Bytes) /\ Len(Packet(p)) = n
       /\ \A i \in 1 .. n : Packet(p)[i] = <<p, i>>
  BY <1>4, PacketHasLength DEF n
<1>. DEFINE front == SubSeq(s, 1, n)  packet == Packet(p)
<1>11. front = packet
  <2>1. \A i \in 1 .. n : front[i] = packet[i]
    <3> SUFFICES ASSUME NEW i \in 1 .. n PROVE front[i] = packet[i]
      OBVIOUS
    <3>1. i \in 1 .. Len(s)
      BY <1>4, <1>5
    <3> QED
      BY <1>5, <1>8, <1>9, <1>10, <3>1
  <2>2. front \in Seq(Bytes) /\ packet \in Seq(Bytes) /\ Len(front) = n /\ Len(packet) = n
    BY <1>9, <1>10
  <2>. HIDE DEF front, packet
  <2> QED
    BY <2>1, <2>2
<1> QED
  BY <1>4, <1>9, <1>11 DEF s, p

LEMMA PacketLeaves ==
  ASSUME RpcStreamAssumption, FeedTypes, OtherTypes, NEW e \in Ends, HasPacket(e),
         Framed(Line(Other(e))), m_inputStream'[e] = Rest(e),
         kernel'[Other(e)] = kernel[Other(e)], m_outputStream'[Other(e)] = m_outputStream[Other(e)]
  PROVE  LineLoses(Other(e), FrontPacket(e))
<1>. DEFINE o == Other(e)  p == FrontPacket(e)
<1>1. o \in Ends /\ Other(o) = e
  BY TwoEnds
<1>2. /\ Rest(e) \in Seq(Bytes) /\ Packet(p) \in Seq(Bytes)
      /\ kernel[o] \in Seq(Bytes) /\ m_outputStream[o] \in Seq(Bytes)
  BY <1>1, PacketInFront, PacketHasLength DEF FeedTypes
<1>3. m_inputStream[e] = Packet(p) \o Rest(e)
  BY PacketTaken
<1>4. Line(o) = ((Packet(p) \o Rest(e)) \o kernel[o]) \o m_outputStream[o]
  BY <1>1, <1>3 DEF Line
<1>5. Line(o)' = (Rest(e) \o kernel[o]) \o m_outputStream[o]
  BY <1>1 DEF Line
<1>. DEFINE a == Packet(p)  b == Rest(e)  k == kernel[o]  m == m_outputStream[o]
<1>6. ((a \o b) \o k) \o m = a \o ((b \o k) \o m)
  <2>1. a \in Seq(Bytes) /\ b \in Seq(Bytes) /\ k \in Seq(Bytes) /\ m \in Seq(Bytes)
    BY <1>2
  <2>. HIDE DEF a, b, k, m
  <2> QED
    BY <2>1, SMTT(30)
<1> QED
  BY <1>4, <1>5, <1>6 DEF LineLoses
-----------------------------------------------------------------------------
(* The kinds of steps. *)

Steady == socket' = socket /\ NoneOpens

\* Bytes move, or the end of the connection is posted.
Quiet(e) ==
  /\ LineKept(e) /\ LineKept(Other(e)) /\ QueueKept(e)
  /\ received' = received /\ sent' = sent /\ pings' = pings /\ Steady

\* The application calls, or starts a ping.
Calling(e, c) ==
  /\ LineGains(e, c) /\ LineKept(Other(e)) /\ QueueKept(e)
  /\ c \notin Range(sent[e]) /\ sent' = [sent EXCEPT ![e] = Append(@, c)]
  /\ received' = received /\ pings' = pings /\ Steady

Starting(e) ==
  /\ LineGains(e, Ping) /\ LineKept(Other(e)) /\ QueueKept(e)
  /\ received' = received /\ sent' = sent /\ pings' = pings + 1 /\ Steady

\* A call is posted, a ping answered.
Taking(e, c) ==
  /\ LineKept(e) /\ LineLoses(Other(e), c)
  /\ eventQueue' = [eventQueue EXCEPT ![e] = Append(@, c)]
  /\ received' = received /\ sent' = sent /\ pings' = pings /\ Steady

Answering(e) ==
  /\ LineGains(e, Ping) /\ LineLoses(Other(e), Ping) /\ QueueKept(e)
  /\ received' = received /\ sent' = sent /\ pings' = pings /\ Steady

\* Lines are what the ends hold of them.
LEMMA Lines ==
  ASSUME RpcStreamAssumption, NEW e \in Ends
  PROVE  /\ Line(e) = (m_inputStream[Other(e)] \o kernel[e]) \o m_outputStream[e]
         /\ Line(e)' = (m_inputStream'[Other(e)] \o kernel'[e]) \o m_outputStream'[e]
         /\ Line(Other(e)) = (m_inputStream[e] \o kernel[Other(e)]) \o m_outputStream[Other(e)]
         /\ Line(Other(e))' = (m_inputStream'[e] \o kernel'[Other(e)]) \o m_outputStream'[Other(e)]
BY TwoEnds DEF Line

LEMMA LineTypes ==
  ASSUME RpcStreamAssumption, FeedTypes, OtherTypes
  PROVE  \A e \in Ends : Line(e) \in Seq(Bytes)
<1> SUFFICES ASSUME NEW e \in Ends PROVE Line(e) \in Seq(Bytes)
  OBVIOUS
<1>. DEFINE a == m_inputStream[Other(e)]  k == kernel[e]  m == m_outputStream[e]
<1>1. a \in Seq(Bytes) /\ k \in Seq(Bytes) /\ m \in Seq(Bytes)
  BY TwoEnds DEF FeedTypes, OtherTypes
<1>2. Line(e) = (a \o k) \o m
  BY DEF Line
<1>. HIDE DEF a, k, m
<1> QED
  BY <1>1, <1>2

\* More is put to the end of the output stream and fed.
LEMMA FedMore ==
  ASSUME RpcStreamAssumption, FeedTypes, OtherTypes, NEW e \in Ends, NEW p \in Packets,
         FeedOutput(e, m_outputStream[e] \o Packet(p)) \/ FeedFailed(e, m_outputStream[e] \o Packet(p)),
         m_inputStream'[Other(e)] = m_inputStream[Other(e)]
  PROVE  LineGains(e, p) /\ QueueKept(e) /\ NoneOpens
         /\ kernel'[Other(e)] = kernel[Other(e)]
         /\ m_outputStream'[Other(e)] = m_outputStream[Other(e)]
<1>. DEFINE a == m_inputStream[Other(e)]  k == kernel[e]  m == m_outputStream[e]  q == Packet(p)
<1>1. a \in Seq(Bytes) /\ k \in Seq(Bytes) /\ m \in Seq(Bytes) /\ q \in Seq(Bytes)
  BY TwoEnds, PacketHasLength DEF FeedTypes, OtherTypes
<1>2. m \o q \in Seq(Bytes)
  <2>. HIDE DEF m, q
  <2> QED
    BY <1>1
<1>3. /\ (a \o kernel'[e]) \o m_outputStream'[e] = (a \o k) \o (m \o q)
      /\ kernel'[Other(e)] = kernel[Other(e)]
      /\ m_outputStream'[Other(e)] = m_outputStream[Other(e)]
      /\ QueueKept(e) /\ NoneOpens
  BY <1>1, <1>2, FeedMoves
<1>4. Line(e)' = (a \o k) \o (m \o q) /\ Line(e) = (a \o k) \o m
  BY <1>3, Lines
<1>5. (a \o k) \o (m \o q) = ((a \o k) \o m) \o q
  <2>. DEFINE b == a \o k
  <2>1. b \in Seq(Bytes)
    BY <1>1
  <2>2. m \in Seq(Bytes) /\ q \in Seq(Bytes)
    BY <1>1
  <2>. HIDE DEF b, m, q
  <2>3. b \o (m \o q) = (b \o m) \o q
    BY <2>1, <2>2
  <2> QED
    BY <2>3 DEF b
<1> QED
  BY <1>3, <1>4, <1>5 DEF LineGains

\* ... or to the end for nothing.
LEMMA PutMore ==
  ASSUME RpcStreamAssumption, FeedTypes, OtherTypes, NEW e \in Ends, NEW p \in Packets,
         m_outputStream' = [m_outputStream EXCEPT ![e] = @ \o Packet(p)], kernel' = kernel,
         m_inputStream'[Other(e)] = m_inputStream[Other(e)]
  PROVE  LineGains(e, p) /\ m_outputStream'[Other(e)] = m_outputStream[Other(e)]
<1>1. m_outputStream'[e] = m_outputStream[e] \o Packet(p)
  BY DEF FeedTypes
<1>2. m_outputStream'[Other(e)] = m_outputStream[Other(e)]
  BY TwoEnds DEF FeedTypes
<1>. DEFINE a == m_inputStream[Other(e)]  k == kernel[e]  m == m_outputStream[e]  q == Packet(p)
<1>3. a \in Seq(Bytes) /\ k \in Seq(Bytes) /\ m \in Seq(Bytes) /\ q \in Seq(Bytes)
  BY TwoEnds, PacketHasLength DEF FeedTypes, OtherTypes
<1>4. Line(e)' = (a \o k) \o (m \o q) /\ Line(e) = (a \o k) \o m
  BY <1>1, Lines
<1>5. (a \o k) \o (m \o q) = ((a \o k) \o m) \o q
  <2>. DEFINE b == a \o k
  <2>1. b \in Seq(Bytes)
    BY <1>3
  <2>2. m \in Seq(Bytes) /\ q \in Seq(Bytes)
    BY <1>3
  <2>. HIDE DEF b, m, q
  <2>3. b \o (m \o q) = (b \o m) \o q
    BY <2>1, <2>2
  <2> QED
    BY <2>3 DEF b
<1> QED
  BY <1>2, <1>4, <1>5 DEF LineGains

LEMMA QueueStays ==
  ASSUME NEW e \in Ends, eventQueue' = eventQueue
  PROVE  QueueKept(e)
BY DEF QueueKept

LEMMA WriteReadyIsQuiet ==
  ASSUME RpcStreamAssumption, FeedTypes, OtherTypes, NEW e \in Ends, WriteReady(e)
  PROVE  Quiet(e)
<1>. DEFINE out == m_outputStream[e]  a == m_inputStream[Other(e)]
<1>1. /\ m_inputStream' = m_inputStream /\ socket' = socket /\ received' = received /\ sent' = sent
      /\ pings' = pings /\ failed' = failed
  BY WriteReadyCases
<1>2. out \in Seq(Bytes) /\ a \in Seq(Bytes)
  BY TwoEnds DEF FeedTypes, OtherTypes
<1>3. ASSUME kernel' = kernel, m_outputStream' = m_outputStream, eventQueue' = eventQueue,
             m_opened' = m_opened
      PROVE  Quiet(e)
  <2>1. LineKept(e) /\ LineKept(Other(e))
    BY <1>1, <1>3, Lines DEF LineKept
  <2> QED
    BY <1>1, <1>3, <2>1 DEF Quiet, QueueKept, Steady, NoneOpens
<1>4. ASSUME FeedOutput(e, out) PROVE Quiet(e)
  <2>1. /\ (a \o kernel'[e]) \o m_outputStream'[e] = (a \o kernel[e]) \o out
        /\ kernel'[Other(e)] = kernel[Other(e)]
        /\ m_outputStream'[Other(e)] = m_outputStream[Other(e)]
        /\ QueueKept(e) /\ NoneOpens
    BY <1>2, <1>4, FeedMoves
  <2>2. LineKept(e) /\ LineKept(Other(e))
    BY <1>1, <2>1, Lines DEF LineKept
  <2> QED
    BY <1>1, <2>1, <2>2 DEF Quiet, Steady
<1>5. ASSUME ~PeerClosed(e), m_hasWriteWatch[e], NEW n, n = Least(Room(e), Len(out)),
             kernel' = [kernel EXCEPT ![e] = @ \o SubSeq(out, 1, n)],
             m_outputStream' = [m_outputStream EXCEPT ![e] = Consume(@, n)],
             eventQueue' = eventQueue, m_opened' = m_opened
      PROVE  Quiet(e)
  <2>1. n \in Nat /\ n <= Len(out) /\ kernel[e] \in Seq(Bytes)
    BY <1>2, <1>5, TakenFits DEF FeedTypes
  <2>. DEFINE k == kernel[e]  front == SubSeq(out, 1, n)  rest == Consume(out, n)
  <2>2. front \o rest = out
    BY <1>2, <2>1, CutAndJoined
  <2>3. a \in Seq(Bytes) /\ k \in Seq(Bytes) /\ front \in Seq(Bytes) /\ rest \in Seq(Bytes)
    BY <1>2, <2>1, CutAndJoined
  <2>4. kernel'[e] = k \o front /\ m_outputStream'[e] = rest
    BY <1>5 DEF FeedTypes
  <2>5. /\ kernel'[Other(e)] = kernel[Other(e)]
        /\ m_outputStream'[Other(e)] = m_outputStream[Other(e)]
    BY <1>5, TwoEnds DEF FeedTypes
  <2>6. (a \o (k \o front)) \o rest = (a \o k) \o (front \o rest)
    <3>. HIDE DEF a, k, front, rest
    <3> QED
      BY <2>3, SMTT(30)
  <2>7. Line(e) = (a \o k) \o out /\ Line(e)' = (a \o (k \o front)) \o rest
    BY <1>1, <2>4, Lines
  <2>8. LineKept(e)
    BY <2>2, <2>6, <2>7 DEF LineKept
  <2>9. LineKept(Other(e))
    BY <1>1, <2>5, Lines DEF LineKept
  <2> QED
    BY <1>1, <1>5, <2>8, <2>9 DEF Quiet, QueueKept, Steady, NoneOpens
<1>6. m_hasWriteWatch[e]
  BY DEF WriteReady
<1>. HIDE DEF out
<1> QED
  BY <1>3, <1>4, <1>5, <1>6, WriteReadyCases DEF out, FeedOutput

LEMMA ReadBytesIsQuiet ==
  ASSUME RpcStreamAssumption, FeedTypes, OtherTypes, NEW e \in Ends, ReadBytes(e)
  PROVE  Quiet(e)
<1>. DEFINE o == Other(e)  a == m_inputStream[e]  s == kernel[o]  m == m_outputStream[o]
            n == Least(ReadSize, Len(s))  front == SubSeq(s, 1, n)  rest == Consume(s, n)
<1>1. o \in Ends /\ o # e
  BY TwoEnds
<1>2. a \in Seq(Bytes) /\ s \in Seq(Bytes) /\ m \in Seq(Bytes) /\ Len(s) \in Nat
  BY <1>1 DEF FeedTypes, OtherTypes
<1>3. n \in Nat /\ n <= Len(s)
  BY <1>2 DEF Least, RpcStreamAssumption
<1>4. /\ m_inputStream' = [m_inputStream EXCEPT ![e] = @ \o front]
      /\ kernel' = [kernel EXCEPT ![o] = Consume(@, n)]
      /\ m_outputStream' = m_outputStream /\ eventQueue' = eventQueue /\ received' = received
      /\ sent' = sent /\ pings' = pings /\ m_opened' = m_opened /\ socket' = socket
  BY DEF ReadBytes
<1>5. /\ m_inputStream'[e] = a \o front /\ m_inputStream'[o] = m_inputStream[o]
      /\ kernel'[o] = rest /\ kernel'[e] = kernel[e]
  BY <1>1, <1>4 DEF FeedTypes, OtherTypes
<1>6. front \o rest = s
  BY <1>2, <1>3, CutAndJoined
<1>7. front \in Seq(Bytes) /\ rest \in Seq(Bytes)
  BY <1>2, <1>3, CutAndJoined
<1>8. (a \o front) \o rest = a \o (front \o rest)
  <2>. HIDE DEF a, front, rest
  <2> QED
    BY <1>2, <1>7
<1>9. Line(o) = (a \o s) \o m /\ Line(o)' = ((a \o front) \o rest) \o m
  BY <1>4, <1>5, Lines
<1>10. LineKept(o)
  BY <1>6, <1>8, <1>9 DEF LineKept
<1>11. LineKept(e)
  BY <1>4, <1>5, Lines, ZenonT(60) DEF LineKept
<1> QED
  BY <1>4, <1>10, <1>11 DEF Quiet, QueueKept, Steady, NoneOpens

LEMMA ListenIsQuiet ==
  ASSUME RpcStreamAssumption, FeedTypes, OtherTypes, NEW e \in Ends, Listen(e)
  PROVE  Quiet(e)
<1>1. CASE WriteReadyFails(e)
  <2>1. /\ m_inputStream' = m_inputStream /\ kernel' = kernel /\ m_outputStream' = m_outputStream
        /\ eventQueue' = eventQueue /\ socket' = socket /\ received' = received /\ sent' = sent
        /\ pings' = pings /\ m_opened' = m_opened
    BY <1>1 DEF WriteReadyFails, FeedFailed, FeedTypes
  <2>2. LineKept(e) /\ LineKept(Other(e))
    BY <2>1, Lines DEF LineKept
  <2> QED
    BY <2>1, <2>2 DEF Quiet, QueueKept, Steady, NoneOpens
<1>2. CASE ReadEnd(e)
  <2>1. /\ m_inputStream' = m_inputStream /\ kernel' = kernel /\ m_outputStream' = m_outputStream
        /\ socket' = socket /\ received' = received /\ sent' = sent /\ pings' = pings
        /\ Shut(e, IF reset[e] THEN "Broken" ELSE "Closed")
    BY <1>2 DEF ReadEnd
  <2>2. LineKept(e) /\ LineKept(Other(e))
    BY <2>1, Lines DEF LineKept
  <2>3. QueueKept(e)
    BY <2>1, TwoEnds DEF Shut, Post, QueueKept, FeedTypes
  <2>4. NoneOpens
    BY <2>1 DEF Shut, NoneOpens, FeedTypes
  <2> QED
    BY <2>1, <2>2, <2>3, <2>4 DEF Quiet, Steady
<1>3. CASE ReadFails(e)
  <2>1. /\ m_inputStream' = m_inputStream /\ kernel' = kernel /\ m_outputStream' = m_outputStream
        /\ eventQueue' = eventQueue /\ socket' = socket /\ received' = received /\ sent' = sent
        /\ pings' = pings /\ m_opened' = m_opened
    BY <1>3 DEF ReadFails, ioVars
  <2>2. LineKept(e) /\ LineKept(Other(e))
    BY <2>1, Lines DEF LineKept
  <2> QED
    BY <2>1, <2>2 DEF Quiet, QueueKept, Steady, NoneOpens
<1> QED
  BY <1>1, <1>2, <1>3, WriteReadyIsQuiet, ReadBytesIsQuiet DEF Listen
LEMMA ParseIsOfAKind ==
  ASSUME RpcStreamAssumption, FeedTypes, OtherTypes, NEW e \in Ends, Framed(Line(Other(e))), Parse(e)
  PROVE  Quiet(e) \/ Answering(e) \/ \E c \in Calls : Taking(e, c)
<1>1. Other(e) \in Ends /\ Other(e) # e /\ Ping \in Packets
  BY TwoEnds, PingLength
<1>2. ASSUME m_inputStream' = [m_inputStream EXCEPT ![e] = Rest(e)]
      PROVE  m_inputStream'[e] = Rest(e) /\ m_inputStream'[Other(e)] = m_inputStream[Other(e)]
  BY <1>1, <1>2 DEF OtherTypes
<1>3. CASE ParseAsyncCall(e)
  <2>. DEFINE c == FrontPacket(e)
  <2>1. /\ HasPacket(e) /\ c \in Calls /\ m_inputStream' = [m_inputStream EXCEPT ![e] = Rest(e)]
        /\ kernel' = kernel /\ m_outputStream' = m_outputStream
        /\ eventQueue' = [eventQueue EXCEPT ![e] = Append(@, c)]
        /\ received' = received /\ sent' = sent /\ pings' = pings /\ socket' = socket
        /\ m_opened' = m_opened
    BY <1>3 DEF ParseAsyncCall, Post
  <2>2. LineLoses(Other(e), c)
    BY <1>2, <2>1, PacketLeaves
  <2>3. LineKept(e)
    BY <1>2, <2>1, Lines DEF LineKept
  <2> QED
    BY <2>1, <2>2, <2>3 DEF Taking, Steady, NoneOpens
<1>4. CASE ParsePingPong(e)
  <2>1. /\ HasPacket(e) /\ FrontPacket(e) = Ping
        /\ m_inputStream' = [m_inputStream EXCEPT ![e] = Rest(e)]
        /\ FeedOutput(e, m_outputStream[e] \o Packet(Ping))
        /\ received' = received /\ sent' = sent /\ pings' = pings /\ socket' = socket
    BY <1>4 DEF ParsePingPong
  <2>2. /\ LineGains(e, Ping) /\ QueueKept(e) /\ NoneOpens
        /\ kernel'[Other(e)] = kernel[Other(e)]
        /\ m_outputStream'[Other(e)] = m_outputStream[Other(e)]
    BY <1>1, <1>2, <2>1, FedMore
  <2>3. LineLoses(Other(e), FrontPacket(e))
    BY <1>2, <2>1, <2>2, PacketLeaves
  <2> QED
    BY <2>1, <2>2, <2>3 DEF Answering, Steady
<1>5. CASE ParsePingNotOpened(e)
  <2>1. /\ HasPacket(e) /\ FrontPacket(e) = Ping
        /\ m_inputStream' = [m_inputStream EXCEPT ![e] = Rest(e)]
        /\ m_outputStream' = [m_outputStream EXCEPT ![e] = @ \o Packet(Ping)]
        /\ kernel' = kernel /\ eventQueue' = eventQueue /\ m_opened' = m_opened
        /\ received' = received /\ sent' = sent /\ pings' = pings /\ socket' = socket
    BY <1>5 DEF ParsePingNotOpened
  <2>2. LineGains(e, Ping) /\ m_outputStream'[Other(e)] = m_outputStream[Other(e)]
    BY <1>1, <1>2, <2>1, PutMore
  <2>3. LineLoses(Other(e), FrontPacket(e))
    BY <1>2, <2>1, <2>2, PacketLeaves
  <2> QED
    BY <2>1, <2>2, <2>3 DEF Answering, QueueKept, Steady, NoneOpens
<1>6. CASE ParseEnd(e)
  <2>1. /\ m_inputStream' = m_inputStream /\ kernel' = kernel /\ m_outputStream' = m_outputStream
        /\ eventQueue' = eventQueue /\ m_opened' = m_opened
        /\ received' = received /\ sent' = sent /\ pings' = pings /\ socket' = socket
    BY <1>6 DEF ParseEnd
  <2>2. LineKept(e) /\ LineKept(Other(e))
    BY <2>1, Lines DEF LineKept
  <2> QED
    BY <2>1, <2>2 DEF Quiet, QueueKept, Steady, NoneOpens
<1> QED
  BY <1>3, <1>4, <1>5, <1>6 DEF Parse

LEMMA ApplicationIsOfAKind ==
  ASSUME RpcStreamAssumption, FeedTypes, OtherTypes, NEW e \in Ends, Application(e)
  PROVE  Starting(e) \/ Delete(e) \/ \E c \in Calls : Calling(e, c)
<1>1. \A c \in Calls : c \in Packets
  BY DEF Packets
<1>2. ASSUME m_inputStream' = m_inputStream, m_outputStream'[Other(e)] = m_outputStream[Other(e)],
             kernel'[Other(e)] = kernel[Other(e)]
      PROVE  LineKept(Other(e))
  BY <1>2, Lines DEF LineKept
<1>3. ASSUME NEW c \in Calls, AsyncCall(e, c) PROVE Calling(e, c)
  <2>1. /\ \/ FeedOutput(e, m_outputStream[e] \o Packet(c))
           \/ FeedFailed(e, m_outputStream[e] \o Packet(c))
        /\ m_inputStream' = m_inputStream /\ c \notin Range(sent[e])
        /\ sent' = [sent EXCEPT ![e] = Append(@, c)]
        /\ received' = received /\ pings' = pings /\ socket' = socket
    BY <1>3 DEF AsyncCall
  <2>2. /\ LineGains(e, c) /\ QueueKept(e) /\ NoneOpens
        /\ kernel'[Other(e)] = kernel[Other(e)]
        /\ m_outputStream'[Other(e)] = m_outputStream[Other(e)]
    BY <1>1, <2>1, FedMore
  <2> QED
    BY <1>2, <2>1, <2>2 DEF Calling, Steady
<1>4. ASSUME NEW c \in Calls, AsyncCallNotOpened(e, c) PROVE Calling(e, c)
  <2>1. /\ m_outputStream' = [m_outputStream EXCEPT ![e] = @ \o Packet(c)] /\ kernel' = kernel
        /\ m_inputStream' = m_inputStream /\ c \notin Range(sent[e])
        /\ sent' = [sent EXCEPT ![e] = Append(@, c)]
        /\ eventQueue' = eventQueue /\ m_opened' = m_opened
        /\ received' = received /\ pings' = pings /\ socket' = socket
    BY <1>4 DEF AsyncCallNotOpened
  <2>2. LineGains(e, c) /\ m_outputStream'[Other(e)] = m_outputStream[Other(e)]
    BY <1>1, <2>1, PutMore
  <2> QED
    BY <1>2, <2>1, <2>2 DEF Calling, QueueKept, Steady, NoneOpens
<1>5. CASE StartPing(e)
  <2>1. /\ FeedOutput(e, m_outputStream[e] \o Packet(Ping))
        /\ m_inputStream' = m_inputStream /\ pings' = pings + 1
        /\ sent' = sent /\ received' = received /\ socket' = socket
    BY <1>5 DEF StartPing
  <2>2. /\ LineGains(e, Ping) /\ QueueKept(e) /\ NoneOpens
        /\ kernel'[Other(e)] = kernel[Other(e)]
        /\ m_outputStream'[Other(e)] = m_outputStream[Other(e)]
    BY <2>1, PingLength, FedMore
  <2> QED
    BY <1>2, <2>1, <2>2 DEF Starting, Steady
<1> QED
  BY <1>3, <1>4, <1>5 DEF Application

-----------------------------------------------------------------------------
(* Both deliveries after a step. *)

Arrives(e) ==
  Delivered(received[e], eventQueue[e], Line(Other(e)), sent[Other(e)], socket[e] = "Connected")

ArrivalTypes ==
  /\ eventQueue \in [Ends -> Seq(Events)]
  /\ received \in [Ends -> Seq(Calls)]
  /\ sent \in [Ends -> Seq(Calls)]
  /\ \A e \in Ends : Line(e) \in Seq(Bytes)

LEMMA ArrivesMeans ==
  ASSUME RpcStreamAssumption, NEW e \in Ends
  PROVE  /\ Arrives(e) <=> Delivered(received[e], eventQueue[e], Line(Other(e)), sent[Other(e)],
                                     socket[e] = "Connected")
         /\ Arrives(Other(e)) <=> Delivered(received[Other(e)], eventQueue[Other(e)], Line(e),
                                            sent[e], socket[Other(e)] = "Connected")
         /\ Arrives(e)' <=> Delivered(received'[e], eventQueue'[e], Line(Other(e))',
                                      sent'[Other(e)], socket'[e] = "Connected")
         /\ Arrives(Other(e))' <=> Delivered(received'[Other(e)], eventQueue'[Other(e)], Line(e)',
                                             sent'[e], socket'[Other(e)] = "Connected")
<1>1. Other(Other(e)) = e
  BY TwoEnds
<1>2. Line(Other(Other(e)))' = Line(e)'
  BY <1>1 DEF Line
<1> QED
  BY <1>1, <1>2 DEF Arrives

\* The queue of e may get an event that is no call.
LEMMA ArrivesWithEvent ==
  ASSUME RpcStreamAssumption, NEW e \in Ends, ArrivalTypes, NEW line, NEW up \in BOOLEAN,
         Delivered(received[e], eventQueue[e], line, sent[Other(e)], up), QueueKept(e)
  PROVE  Delivered(received[e], eventQueue'[e], line, sent[Other(e)], up)
<1>1. received[e] \in Seq(Calls) /\ eventQueue[e] \in Seq(Events) /\ sent[Other(e)] \in Seq(Calls)
  BY TwoEnds DEF ArrivalTypes
<1>2. ASSUME NEW v \in {"Closed", "Broken"}, eventQueue'[e] = Append(eventQueue[e], v)
      PROVE  Delivered(received[e], eventQueue'[e], line, sent[Other(e)], up)
  BY <1>1, <1>2, EndPosted
<1> QED
  BY <1>2 DEF QueueKept

LEMMA QuietArrives ==
  ASSUME RpcStreamAssumption, NEW e \in Ends, ArrivalTypes, Arrives(e), Arrives(Other(e)), Quiet(e)
  PROVE  Arrives(e)' /\ Arrives(Other(e))'
<1>. DEFINE o == Other(e)
<1>1. /\ Line(e)' = Line(e) /\ Line(o)' = Line(o) /\ QueueKept(e) /\ eventQueue'[o] = eventQueue[o]
      /\ received' = received /\ sent' = sent /\ socket' = socket
  BY DEF Quiet, LineKept, QueueKept, Steady
<1>2. Delivered(received[e], eventQueue'[e], Line(o), sent[o], socket[e] = "Connected")
  BY <1>1, ArrivesMeans, ArrivesWithEvent
<1> QED
  BY <1>1, <1>2, ArrivesMeans

LEMMA CallingArrives ==
  ASSUME RpcStreamAssumption, NEW e \in Ends, NEW c \in Calls, ArrivalTypes, Arrives(e),
         Arrives(Other(e)), Once(sent[e])', Calling(e, c)
  PROVE  Arrives(e)' /\ Arrives(Other(e))'
<1>. DEFINE o == Other(e)
<1>0. o \in Ends /\ o # e
  BY TwoEnds
<1>1. /\ Line(e)' = Line(e) \o Packet(c) /\ Line(o)' = Line(o)
      /\ QueueKept(e) /\ eventQueue'[o] = eventQueue[o]
      /\ received' = received /\ sent'[e] = Append(sent[e], c) /\ sent'[o] = sent[o]
      /\ socket' = socket
  BY <1>0 DEF Calling, LineKept, LineGains, QueueKept, Steady, ArrivalTypes
<1>2. Delivered(received[e], eventQueue'[e], Line(o), sent[o], socket[e] = "Connected")
  BY <1>1, ArrivesMeans, ArrivesWithEvent
<1>3. Delivered(received[o], eventQueue[o], Line(e) \o Packet(c), Append(sent[e], c),
                socket[o] = "Connected")
  <2>1. /\ received[o] \in Seq(Calls) /\ eventQueue[o] \in Seq(Events) /\ Line(e) \in Seq(Bytes)
        /\ sent[e] \in Seq(Calls) /\ (socket[o] = "Connected") \in BOOLEAN
    BY <1>0 DEF ArrivalTypes
  <2>2. Once(Append(sent[e], c))
    BY <1>1 DEF Once
  <2>3. Delivered(received[o], eventQueue[o], Line(e), sent[e], socket[o] = "Connected")
    BY ArrivesMeans
  <2> QED
    BY <2>1, <2>2, <2>3, CallMade
<1> QED
  BY <1>1, <1>2, <1>3, ArrivesMeans

LEMMA StartingArrives ==
  ASSUME RpcStreamAssumption, NEW e \in Ends, ArrivalTypes, Arrives(e), Arrives(Other(e)), Starting(e)
  PROVE  Arrives(e)' /\ Arrives(Other(e))'
<1>. DEFINE o == Other(e)
<1>0. o \in Ends
  BY TwoEnds
<1>1. /\ Line(e)' = Line(e) \o Packet(Ping) /\ Line(o)' = Line(o)
      /\ QueueKept(e) /\ eventQueue'[o] = eventQueue[o]
      /\ received' = received /\ sent' = sent /\ socket' = socket
  BY DEF Starting, LineKept, LineGains, QueueKept, Steady
<1>2. Delivered(received[e], eventQueue'[e], Line(o), sent[o], socket[e] = "Connected")
  BY <1>1, ArrivesMeans, ArrivesWithEvent
<1>3. Delivered(received[o], eventQueue[o], Line(e) \o Packet(Ping), sent[e], socket[o] = "Connected")
  <2>1. /\ received[o] \in Seq(Calls) /\ eventQueue[o] \in Seq(Events) /\ Line(e) \in Seq(Bytes)
        /\ sent[e] \in Seq(Calls) /\ (socket[o] = "Connected") \in BOOLEAN
    BY <1>0 DEF ArrivalTypes
  <2>2. Delivered(received[o], eventQueue[o], Line(e), sent[e], socket[o] = "Connected")
    BY ArrivesMeans
  <2> QED
    BY <2>1, <2>2, PingSent
<1> QED
  BY <1>1, <1>2, <1>3, ArrivesMeans

LEMMA TakingArrives ==
  ASSUME RpcStreamAssumption, NEW e \in Ends, NEW c \in Calls, ArrivalTypes, ArrivalTypes', Arrives(e),
         Arrives(Other(e)), Once(sent[Other(e)]), socket[e] = "Connected", Taking(e, c)
  PROVE  Arrives(e)' /\ Arrives(Other(e))'
<1>. DEFINE o == Other(e)
<1>0. o \in Ends /\ o # e
  BY TwoEnds
<1>1. /\ Line(e)' = Line(e) /\ Line(o) = Packet(c) \o Line(o)'
      /\ eventQueue'[e] = Append(eventQueue[e], c) /\ eventQueue'[o] = eventQueue[o]
      /\ received' = received /\ sent' = sent /\ socket' = socket
  BY <1>0 DEF Taking, LineKept, LineLoses, Steady, ArrivalTypes
<1>2. Delivered(received[e], Append(eventQueue[e], c), Line(o)', sent[o], TRUE)
  <2>1. /\ received[e] \in Seq(Calls) /\ eventQueue[e] \in Seq(Events) /\ Line(o)' \in Seq(Bytes)
        /\ sent[o] \in Seq(Calls)
    BY <1>0 DEF ArrivalTypes
  <2>2. Delivered(received[e], eventQueue[e], Packet(c) \o Line(o)', sent[o], TRUE)
    BY <1>1, ArrivesMeans
  <2>. DEFINE rest == Line(o)'
  <2>3. rest \in Seq(Bytes) /\ Delivered(received[e], eventQueue[e], Packet(c) \o rest, sent[o], TRUE)
    BY <2>1, <2>2
  <2>. HIDE DEF rest
  <2>4. Delivered(received[e], Append(eventQueue[e], c), rest, sent[o], TRUE)
    BY <2>1, <2>3, CallParsed
  <2> QED
    BY <2>4 DEF rest
<1> QED
  BY <1>1, <1>2, ArrivesMeans

LEMMA AnsweringArrives ==
  ASSUME RpcStreamAssumption, NEW e \in Ends, ArrivalTypes, ArrivalTypes', Arrives(e),
         Arrives(Other(e)), socket[e] = "Connected", Answering(e)
  PROVE  Arrives(e)' /\ Arrives(Other(e))'
<1>. DEFINE o == Other(e)
<1>0. o \in Ends /\ o # e
  BY TwoEnds
<1>1. /\ Line(e)' = Line(e) \o Packet(Ping) /\ Line(o) = Packet(Ping) \o Line(o)'
      /\ QueueKept(e) /\ eventQueue'[o] = eventQueue[o]
      /\ received' = received /\ sent' = sent /\ socket' = socket
  BY DEF Answering, LineGains, LineLoses, QueueKept, Steady
<1>2. /\ received[o] \in Seq(Calls) /\ eventQueue[o] \in Seq(Events) /\ Line(e) \in Seq(Bytes)
      /\ sent[e] \in Seq(Calls) /\ (socket[o] = "Connected") \in BOOLEAN
      /\ received[e] \in Seq(Calls) /\ eventQueue[e] \in Seq(Events) /\ sent[o] \in Seq(Calls)
  BY <1>0 DEF ArrivalTypes
<1>3. Delivered(received[o], eventQueue[o], Line(e) \o Packet(Ping), sent[e], socket[o] = "Connected")
  <2>1. Delivered(received[o], eventQueue[o], Line(e), sent[e], socket[o] = "Connected")
    BY ArrivesMeans
  <2> QED
    BY <1>2, <2>1, PingSent
<1>4. Delivered(received[e], eventQueue[e], Line(o)', sent[o], TRUE)
  <2>1. Line(o)' \in Seq(Bytes)
    BY <1>0 DEF ArrivalTypes
  <2>2. Delivered(received[e], eventQueue[e], Packet(Ping) \o Line(o)', sent[o], TRUE)
    BY <1>1, ArrivesMeans
  <2>. DEFINE rest == Line(o)'
  <2>3. rest \in Seq(Bytes) /\ Delivered(received[e], eventQueue[e], Packet(Ping) \o rest, sent[o], TRUE)
    BY <2>1, <2>2
  <2>. HIDE DEF rest
  <2>4. Delivered(received[e], eventQueue[e], rest, sent[o], TRUE)
    BY <1>2, <2>3, PingParsed
  <2> QED
    BY <2>4 DEF rest
<1>5. Delivered(received[e], eventQueue'[e], Line(o)', sent[o], TRUE)
  <2>. DEFINE rest == Line(o)'
  <2>1. Delivered(received[e], eventQueue[e], rest, sent[o], TRUE)
    BY <1>4
  <2>. HIDE DEF rest
  <2>2. Delivered(received[e], eventQueue'[e], rest, sent[o], TRUE)
    BY <1>1, <2>1, ArrivesWithEvent
  <2> QED
    BY <2>2 DEF rest
<1> QED
  BY <1>1, <1>3, <1>5, ArrivesMeans

LEMMA HandlingArrives ==
  ASSUME RpcStreamAssumption, NEW e \in Ends, ArrivalTypes, Arrives(e), Arrives(Other(e)),
         Once(sent[Other(e)]), HandleEvent(e)
  PROVE  Arrives(e)' /\ Arrives(Other(e))'
<1>. DEFINE o == Other(e)
<1>0. o \in Ends /\ o # e
  BY TwoEnds
<1>1. /\ m_inputStream' = m_inputStream /\ kernel' = kernel /\ m_outputStream' = m_outputStream
      /\ socket' = socket /\ sent' = sent /\ eventQueue[e] # <<>>
      /\ eventQueue' = [eventQueue EXCEPT ![e] = Tail(@)]
      /\ received' = IF Head(eventQueue[e]) \in Calls
                     THEN [received EXCEPT ![e] = Append(@, Head(eventQueue[e]))]
                     ELSE received
  BY DEF HandleEvent, ioVars
<1>2. Line(e)' = Line(e) /\ Line(o)' = Line(o)
  BY <1>1, Lines
<1>3. /\ eventQueue'[e] = Tail(eventQueue[e]) /\ eventQueue'[o] = eventQueue[o]
      /\ received'[o] = received[o]
      /\ received'[e] = IF Head(eventQueue[e]) \in Calls
                        THEN Append(received[e], Head(eventQueue[e])) ELSE received[e]
  BY <1>0, <1>1 DEF ArrivalTypes
<1>4. Delivered(received'[e], Tail(eventQueue[e]), Line(o), sent[o], socket[e] = "Connected")
  <2>1. /\ received[e] \in Seq(Calls) /\ eventQueue[e] \in Seq(Events) /\ sent[o] \in Seq(Calls)
        /\ (socket[e] = "Connected") \in BOOLEAN
    BY <1>0 DEF ArrivalTypes
  <2>2. Delivered(received[e], eventQueue[e], Line(o), sent[o], socket[e] = "Connected")
    BY ArrivesMeans
  <2>3. IF Head(eventQueue[e]) \in Calls
        THEN Delivered(Append(received[e], Head(eventQueue[e])), Tail(eventQueue[e]), Line(o), sent[o],
                       socket[e] = "Connected")
        ELSE Delivered(received[e], Tail(eventQueue[e]), Line(o), sent[o], socket[e] = "Connected")
    BY <1>1, <2>1, <2>2, EventTaken
  <2> QED
    BY <1>3, <2>3
<1>5. Delivered(received[o], eventQueue[o], Line(e), sent[e], socket[o] = "Connected")
  BY ArrivesMeans
<1> QED
  BY <1>1, <1>2, <1>3, <1>4, <1>5, ArrivesMeans

LEMMA DeletingArrives ==
  ASSUME RpcStreamAssumption, FeedTypes, OtherTypes, NEW e \in Ends, ArrivalTypes, Arrives(e),
         Arrives(Other(e)), Delete(e)
  PROVE  Arrives(e)' /\ Arrives(Other(e))'
<1>. DEFINE o == Other(e)
<1>0. o \in Ends /\ o # e
  BY TwoEnds
<1>1. /\ m_inputStream' = m_inputStream /\ m_outputStream' = m_outputStream
      /\ kernel' = [kernel EXCEPT ![o] = <<>>] /\ received' = received /\ sent' = sent
      /\ socket' = [socket EXCEPT ![e] = "None"] /\ eventQueue' = [eventQueue EXCEPT ![e] = <<>>]
  BY DEF Delete
<1>2. /\ kernel'[e] = kernel[e] /\ socket'[e] # "Connected" /\ socket'[o] = socket[o]
      /\ eventQueue'[e] = <<>> /\ eventQueue'[o] = eventQueue[o]
  BY <1>0, <1>1 DEF FeedTypes, OtherTypes
<1>3. Line(e)' = Line(e)
  <2>1. /\ m_inputStream'[o] = m_inputStream[o] /\ kernel'[e] = kernel[e]
        /\ m_outputStream'[e] = m_outputStream[e]
    BY <1>1, <1>2
  <2> QED
    BY <2>1, Lines
<1>4. Delivered(received[e], <<>>, Line(o)', sent[o], FALSE)
  <2>1. received[e] \in Seq(Calls) /\ sent[o] \in Seq(Calls)
    BY <1>0 DEF ArrivalTypes
  <2>2. Delivered(received[e], eventQueue[e], Line(o), sent[o], socket[e] = "Connected")
    BY ArrivesMeans
  <2>. DEFINE rest == Line(o)'
  <2>. HIDE DEF rest
  <2>3. Delivered(received[e], <<>>, rest, sent[o], FALSE)
    BY <2>1, <2>2, EndGone
  <2> QED
    BY <2>3 DEF rest
<1>5. Delivered(received[o], eventQueue[o], Line(e), sent[e], socket[o] = "Connected")
  BY ArrivesMeans
<1>6. (socket'[e] = "Connected") = FALSE
  BY <1>2
<1> QED
  BY <1>1, <1>2, <1>3, <1>4, <1>5, <1>6, ArrivesMeans

\* Each call is made once.
MadeOnce == \A e \in Ends : Once(sent[e])

LEMMA OnceStep ==
  ASSUME NEW e \in Ends, ArrivalTypes, MadeOnce,
         sent' = sent \/ \E c \in Calls : c \notin Range(sent[e]) /\ sent' = [sent EXCEPT ![e] = Append(@, c)]
  PROVE  MadeOnce'
<1>1. CASE sent' = sent
  BY <1>1 DEF MadeOnce, Once
<1>2. ASSUME NEW c \in Calls, c \notin Range(sent[e]), sent' = [sent EXCEPT ![e] = Append(@, c)]
      PROVE  MadeOnce'
  <2>1. sent'[e] = Append(sent[e], c) /\ \A f \in Ends : f # e => sent'[f] = sent[f]
    BY <1>2 DEF ArrivalTypes
  <2>. DEFINE made == sent[e]  longer == Append(made, c)  n == Len(made)
  <2>2. /\ n \in Nat /\ Len(longer) = n + 1 /\ longer[n + 1] = c
        /\ \A k \in 1 .. n : longer[k] = made[k]
    BY MadeOneMore DEF ArrivalTypes
  <2>3. \A k \in 1 .. n : made[k] # c
    <3>1. DOMAIN made = 1 .. n
      BY DEF ArrivalTypes
    <3> QED
      BY <1>2, <3>1 DEF Range
  <2>4. \A k, l \in 1 .. n : made[k] = made[l] => k = l
    BY DEF MadeOnce, Once
  <2>. HIDE DEF made, longer, n
  <2>5. \A k, l \in 1 .. n + 1 : longer[k] = longer[l] => k = l
    <3> SUFFICES ASSUME NEW k \in 1 .. n + 1, NEW l \in 1 .. n + 1, longer[k] = longer[l] PROVE k = l
      OBVIOUS
    <3>1. (k \in 1 .. n \/ k = n + 1) /\ (l \in 1 .. n \/ l = n + 1)
      BY <2>2
    <3> QED
      BY <2>2, <2>3, <2>4, <3>1
  <2>6. Once(longer)
    BY <2>2, <2>5 DEF Once
  <2>7. ASSUME NEW f \in Ends PROVE Once(sent'[f])
    <3>1. CASE f = e
      BY <2>1, <2>6, <3>1 DEF longer, made
    <3>2. CASE f # e
      BY <2>1, <3>2 DEF MadeOnce
    <3> QED
      BY <3>1, <3>2
  <2> QED
    BY <2>7 DEF MadeOnce, Once
<1> QED
  BY <1>1, <1>2

\* The input stream starts where a packet does, for the line does.
HeadsOK == \A e \in Ends : m_inputStream[e] # <<>> => m_inputStream[e][1][2] = 1

LEMMA HeadsStep ==
  ASSUME RpcStreamAssumption, HeadsOK, TypeOK', \A e \in Ends : Arrives(e)',
         \A e \in Ends : m_inputStream'[e] = m_inputStream[e] \/ socket'[e] = "Connected"
  PROVE  HeadsOK'
<1> SUFFICES ASSUME NEW e \in Ends, m_inputStream'[e] # <<>> PROVE m_inputStream'[e][1][2] = 1
  BY DEF HeadsOK
<1>1. CASE m_inputStream'[e] = m_inputStream[e]
  BY <1>1 DEF HeadsOK
<1>2. CASE socket'[e] = "Connected"
  <2>. DEFINE o == Other(e)  s == m_inputStream'[e]  k == kernel'[o]  m == m_outputStream'[o]
              line == (s \o k) \o m
  <2>1. o \in Ends
    BY TwoEnds
  <2>2. s \in Seq(Bytes) /\ k \in Seq(Bytes) /\ m \in Seq(Bytes)
    BY <2>1 DEF TypeOK
  <2>3. Line(o)' = line
    BY Lines
  <2>4. Delivered(received'[e], eventQueue'[e], Line(o)', sent'[o], socket'[e] = "Connected")
    BY ArrivesMeans
  <2>5. Framed(line)
    <3>. HIDE DEF line
    <3> QED
      BY <1>2, <2>3, <2>4 DEF Delivered
  <2>6. s # <<>>
    OBVIOUS
  <2>. HIDE DEF s, k, m
  <2>7. k \o m \in Seq(Bytes) /\ line = s \o (k \o m)
    BY <2>2
  <2>8. Len(s) \in Nat /\ Len(s) > 0
    BY <2>2, <2>6
  <2>. DEFINE more == k \o m
  <2>9. /\ Len(s \o more) = Len(s) + Len(more) /\ Len(more) \in Nat
        /\ \A i \in 1 .. Len(s) : (s \o more)[i] = s[i]
    BY <2>2, <2>7, Joined
  <2>. HIDE DEF line, more
  <2>10. line = s \o more
    BY <2>7 DEF more
  <2>11. Len(line) \in Nat /\ 1 \in 1 .. Len(line) /\ line[1] = s[1]
    BY <2>8, <2>9, <2>10
  <2>12. line[1][2] = 1
    BY <2>5, <2>11 DEF Framed
  <2> QED
    BY <2>11, <2>12 DEF s
<1> QED
  BY <1>1, <1>2

-----------------------------------------------------------------------------
(* Pings. *)

BothUp == \A e \in Ends : m_opened[e] /\ socket[e] = "Connected"

Under(line) == Cardinality(Marks(line))

LEMMA PingsMean ==
  ASSUME RpcStreamAssumption, FeedTypes, OtherTypes
  PROVE  PingsGoRound <=> (BothUp => \A e \in Ends : Under(Line(e)) + Under(Line(Other(e))) = pings)
<1>1. \A e \in Ends : Other(e) \in Ends
  BY TwoEnds
<1>2. ASSUME NEW e \in Ends PROVE Pinging(e) = Under(Line(e))
  <2>1. Line(e) \in Seq(Bytes)
    BY LineTypes
  <2>2. {i \in DOMAIN Line(e) : Line(e)[i] = <<Ping, HeaderSize>>} = Marks(Line(e))
    BY <2>1, MarksAreFinite
  <2> QED
    BY <2>2 DEF Pinging, Under
<1> QED
  BY <1>1, <1>2 DEF PingsGoRound, BothUp

\* What a step of e does to the number of those under way.
PingsKept(e) ==
  Under(Line(e)') + Under(Line(Other(e))') + pings = Under(Line(e)) + Under(Line(Other(e))) + pings'

LEMMA PingsStep ==
  ASSUME RpcStreamAssumption, TypeOK, TypeOK', NEW e \in Ends, PingsGoRound, PingsKept(e),
         BothUp' => BothUp
  PROVE  PingsGoRound'
<1>0. FeedTypes /\ OtherTypes /\ FeedTypes' /\ OtherTypes'
  <2>1. FeedTypes /\ OtherTypes
    BY AllTypes
  <2>2. FeedTypes' /\ OtherTypes'
    BY DEF TypeOK, FeedTypes, OtherTypes, Events
  <2> QED
    BY <2>1, <2>2
<1>1. Other(e) \in Ends /\ Other(Other(e)) = e /\ \A f \in Ends : f = e \/ f = Other(e)
  BY TwoEnds
<1>. DEFINE o == Other(e)
<1>2. Line(e) \in Seq(Bytes) /\ Line(o) \in Seq(Bytes)
  BY <1>0, <1>1, LineTypes
<1>3. ASSUME NEW f \in Ends PROVE Line(f)' \in Seq(Bytes)
  <2>. DEFINE a == m_inputStream'[Other(f)]  k == kernel'[f]  m == m_outputStream'[f]
  <2>1. a \in Seq(Bytes) /\ k \in Seq(Bytes) /\ m \in Seq(Bytes)
    BY <1>0, TwoEnds DEF FeedTypes, OtherTypes
  <2>2. Line(f)' = (a \o k) \o m
    BY DEF Line
  <2>. HIDE DEF a, k, m
  <2> QED
    BY <2>1, <2>2
<1>4. Under(Line(e)) \in Nat /\ Under(Line(o)) \in Nat
  BY <1>2, MarksAreFinite DEF Under
<1>5. ASSUME NEW f \in Ends PROVE Under(Line(f)') \in Nat /\ Pinging(f)' = Under(Line(f)')
  <2>. DEFINE line == Line(f)'
  <2>1. line \in Seq(Bytes)
    BY <1>3
  <2>2. Pinging(f)' = Cardinality({i \in DOMAIN line : line[i] = <<Ping, HeaderSize>>})
    BY DEF Pinging
  <2>. HIDE DEF line
  <2>3. Under(line) \in Nat /\ Cardinality({i \in DOMAIN line : line[i] = <<Ping, HeaderSize>>}) = Under(line)
    BY <2>1, MarksAreFinite DEF Under
  <2> QED
    BY <2>2, <2>3 DEF line
<1>6. pings \in Nat /\ pings' \in Nat
  BY <1>0 DEF OtherTypes, RpcStreamAssumption
<1>7. ASSUME BothUp' PROVE Pinging(e)' + Pinging(o)' = pings' /\ Pinging(o)' + Pinging(e)' = pings'
  <2>1. Under(Line(e)) + Under(Line(o)) = pings
    BY <1>0, <1>7, PingsMean
  <2>. DEFINE a == Under(Line(e))  b == Under(Line(o))  c == Under(Line(e)')  d == Under(Line(o)')
              x == pings  y == pings'
  <2>2. a \in Nat /\ b \in Nat /\ c \in Nat /\ d \in Nat /\ x \in Nat /\ y \in Nat
    BY <1>1, <1>4, <1>5, <1>6
  <2>3. a + b = x /\ c + d + x = a + b + y
    BY <2>1 DEF PingsKept
  <2>4. Pinging(e)' = c /\ Pinging(o)' = d
    BY <1>1, <1>5
  <2>. HIDE DEF a, b, c, d, x, y
  <2>5. c + d = y /\ d + c = y
    BY <2>2, <2>3
  <2> QED
    BY <2>4, <2>5 DEF y
<1>8. BothUp' => \A f \in Ends : Pinging(f)' + Pinging(Other(f))' = pings'
  BY <1>1, <1>7
<1> QED
  BY <1>8 DEF PingsGoRound, BothUp, Pinging, Line

LEMMA KindsKeepPings ==
  ASSUME RpcStreamAssumption, NEW e \in Ends, Line(e) \in Seq(Bytes), Line(Other(e))' \in Seq(Bytes),
         pings \in Nat, Quiet(e) \/ Answering(e) \/ Starting(e) \/ \E c \in Calls : Calling(e, c) \/ Taking(e, c)
  PROVE  PingsKept(e)
<1>. DEFINE o == Other(e)  rest == Line(o)'  line == Line(e)
<1>1. \A c \in Calls : c \in Packets /\ c # Ping
  BY DEF Packets, RpcStreamAssumption
<1>2. Ping \in Packets
  BY PingLength
<1>3. line \in Seq(Bytes) /\ rest \in Seq(Bytes) /\ Under(line) \in Nat /\ Under(rest) \in Nat
  <2>1. line \in Seq(Bytes) /\ rest \in Seq(Bytes)
    OBVIOUS
  <2>. HIDE DEF line, rest
  <2> QED
    BY <2>1, MarksAreFinite DEF Under
<1>4. /\ Under(line \o Packet(Ping)) = Under(line) + 1
      /\ \A c \in Calls : Under(line \o Packet(c)) = Under(line)
      /\ Under(Packet(Ping) \o rest) = Under(rest) + 1
      /\ \A c \in Calls : Under(Packet(c) \o rest) = Under(rest)
  <2>. HIDE DEF line, rest
  <2>1. /\ Under(line \o Packet(Ping)) = Under(line) + 1
        /\ Under(Packet(Ping) \o rest) = Under(rest) + 1
    BY <1>2, <1>3, MarksGain, MarksLose DEF Under
  <2>2. ASSUME NEW c \in Calls
        PROVE  Under(line \o Packet(c)) = Under(line) /\ Under(Packet(c) \o rest) = Under(rest)
    <3>1. /\ Under(line \o Packet(c)) = Under(line) + 0
          /\ Under(Packet(c) \o rest) = Under(rest) + 0
      BY <1>1, <1>3, MarksGain, MarksLose DEF Under
    <3> QED
      BY <1>3, <3>1
  <2> QED
    BY <2>1, <2>2
<1>5. CASE Quiet(e)
  <2>1. Line(e)' = line /\ rest = Line(o) /\ pings' = pings
    BY <1>5 DEF Quiet, LineKept
  <2> QED
    BY <2>1 DEF PingsKept
<1>6. CASE Answering(e)
  <2>1. Line(e)' = line \o Packet(Ping) /\ Line(o) = Packet(Ping) \o rest /\ pings' = pings
    BY <1>6 DEF Answering, LineGains, LineLoses
  <2>. HIDE DEF line, rest
  <2>2. Under(Line(e)') = Under(line) + 1 /\ Under(Line(o)) = Under(rest) + 1
    BY <1>4, <2>1
  <2>3. (Under(line) + 1) + Under(rest) + pings = Under(line) + (Under(rest) + 1) + pings'
    BY <1>3, <2>1
  <2> QED
    BY <2>2, <2>3 DEF PingsKept, line, rest
<1>7. CASE Starting(e)
  <2>1. Line(e)' = line \o Packet(Ping) /\ rest = Line(o) /\ pings' = pings + 1
    BY <1>7 DEF Starting, LineGains, LineKept
  <2>. HIDE DEF line, rest
  <2>2. Under(Line(e)') = Under(line) + 1 /\ Under(Line(o)) = Under(rest)
    BY <1>4, <2>1
  <2>3. (Under(line) + 1) + Under(rest) + pings = Under(line) + Under(rest) + pings'
    BY <1>3, <2>1
  <2> QED
    BY <2>2, <2>3 DEF PingsKept, line, rest
<1>8. ASSUME NEW c \in Calls, Calling(e, c) PROVE PingsKept(e)
  <2>1. Line(e)' = line \o Packet(c) /\ rest = Line(o) /\ pings' = pings
    BY <1>8 DEF Calling, LineGains, LineKept
  <2>2. Under(Line(e)') = Under(line) /\ Under(Line(o)) = Under(rest)
    BY <1>4, <2>1
  <2> QED
    BY <2>1, <2>2 DEF PingsKept
<1>9. ASSUME NEW c \in Calls, Taking(e, c) PROVE PingsKept(e)
  <2>1. Line(e)' = line /\ Line(o) = Packet(c) \o rest /\ pings' = pings
    BY <1>9 DEF Taking, LineLoses, LineKept
  <2>2. Under(Line(e)') = Under(line) /\ Under(Line(o)) = Under(rest)
    BY <1>4, <2>1
  <2> QED
    BY <2>1, <2>2 DEF PingsKept
<1> QED
  BY <1>5, <1>6, <1>7, <1>8, <1>9

-----------------------------------------------------------------------------
(* The invariant. *)

Inv == TypeOK /\ MadeOnce /\ (\A e \in Ends : Arrives(e)) /\ HeadsOK /\ EndsOK /\ PingsGoRound

LEMMA TheInvariant == Inv <=> IInv
BY AllEndsOK DEF Inv, IInv, LinesInv, MadeOnce, Arrives, HeadsOK

LEMMA InvInit ==
  ASSUME RpcStreamAssumption, Init
  PROVE  Inv
<1>1. TypeOK
  BY InitTypes
<1>2. MadeOnce /\ HeadsOK
  BY DEF Init, MadeOnce, Once, HeadsOK
<1>3. ASSUME NEW e \in Ends PROVE Line(e) = <<>>
  <2>1. m_inputStream[Other(e)] = <<>> /\ kernel[e] = <<>> /\ m_outputStream[e] = <<>>
    BY TwoEnds DEF Init
  <2> QED
    BY <2>1 DEF Line
<1>4. ASSUME NEW e \in Ends PROVE Arrives(e)
  <2>1. /\ received[e] = <<>> /\ eventQueue[e] = <<>> /\ sent[Other(e)] = <<>>
        /\ Line(Other(e)) = <<>>
    BY <1>3, TwoEnds DEF Init
  <2>2. IsPrefix(<<>>, <<>>)
    <3>1. <<>> \in Seq(Calls) /\ Len(<<>>) = 0
      OBVIOUS
    <3>2. Len(<<>>) <= Len(<<>>) /\ \A k \in 1 .. Len(<<>>) : <<>>[k] = <<>>[k]
      BY <3>1
    <3> QED
      BY <3>1, <3>2, PrefixMeans
  <2>3. Framed(<<>>)
    BY DEF Framed
  <2>4. DOMAIN CallsOf(<<>>) = {} /\ DOMAIN CallsOn(<<>>) = {}
    BY DEF CallsOf, CallsOn
  <2>5. InTurn(CallsOf(<<>>), <<>>, 0, 0) /\ InTurn(CallsOn(<<>>), <<>>, 0, 0)
    BY <2>4, NoTurn
  <2>6. Len(<<>>) = 0 /\ 0 \in Len(<<>>) .. Len(<<>>)
    OBVIOUS
  <2>7. \A up \in BOOLEAN : Delivered(<<>>, <<>>, <<>>, <<>>, up)
    BY <2>2, <2>3, <2>5, <2>6 DEF Delivered
  <2> QED
    BY <2>1, <2>7 DEF Arrives
<1>5. EndsOK
  BY DEF Init, EndsOK, EndOK
<1>6. PingsGoRound
  <2>1. FeedTypes /\ OtherTypes
    BY <1>1, AllTypes
  <2>2. Marks(<<>>) = {}
    BY DEF Marks
  <2>3. Under(<<>>) = 0
    BY <2>2, FS_EmptySet DEF Under
  <2>4. ASSUME NEW e \in Ends PROVE Under(Line(e)) + Under(Line(Other(e))) = pings
    <3>1. Line(e) = <<>> /\ Line(Other(e)) = <<>> /\ pings = 0
      BY <1>3, TwoEnds DEF Init
    <3> QED
      BY <2>3, <3>1
  <2> QED
    BY <2>1, <2>4, PingsMean
<1> QED
  BY <1>1, <1>2, <1>4, <1>5, <1>6 DEF Inv

\* Of every step: of the application, a listener, the parser, the loop.
LEMMA StepOfEnd ==
  ASSUME RpcStreamAssumption, Inv, TypeOK', EndsOK', NEW e \in Ends,
         Listen(e) \/ Parse(e) \/ HandleEvent(e) \/ Application(e)
  PROVE  Inv'
<1>. DEFINE o == Other(e)
<1>1. o \in Ends /\ o # e /\ Other(o) = e /\ \A f \in Ends : f = e \/ f = o
  BY TwoEnds
<1>2. FeedTypes /\ OtherTypes
  BY AllTypes DEF Inv
<1>3. \A f \in Ends : Line(f) \in Seq(Bytes)
  BY <1>2, LineTypes
<1>4. \A f \in Ends : Line(f)' \in Seq(Bytes)
  <2> SUFFICES ASSUME NEW f \in Ends PROVE Line(f)' \in Seq(Bytes)
    OBVIOUS
  <2>. DEFINE a == m_inputStream'[Other(f)]  k == kernel'[f]  m == m_outputStream'[f]
  <2>1. a \in Seq(Bytes) /\ k \in Seq(Bytes) /\ m \in Seq(Bytes)
    BY TwoEnds DEF TypeOK
  <2>2. Line(f)' = (a \o k) \o m
    BY DEF Line
  <2>. HIDE DEF a, k, m
  <2> QED
    BY <2>1, <2>2
<1>5. ArrivalTypes
  BY <1>2, <1>3 DEF FeedTypes, OtherTypes, ArrivalTypes
<1>6. ArrivalTypes'
  BY <1>4 DEF TypeOK, ArrivalTypes, Events
<1>7. Arrives(e) /\ Arrives(o) /\ Once(sent[e]) /\ Once(sent[o])
  BY <1>1 DEF Inv, MadeOnce
<1>8. Framed(Line(o)) \/ socket[e] # "Connected"
  BY <1>7, ArrivesMeans DEF Delivered
<1>9. socket[e] = "Connected"
  BY DEF Listen, Parse, Application, WriteReady, WriteReadyFails, ReadBytes, ReadEnd, ReadFails,
         ParseAsyncCall, ParsePingPong, ParsePingNotOpened, ParseEnd, HandleEvent, AsyncCall,
         AsyncCallNotOpened, StartPing, Delete, Ready, Alive
<1>10. \/ Quiet(e) \/ Answering(e) \/ Starting(e) \/ (\E c \in Calls : Calling(e, c) \/ Taking(e, c))
       \/ HandleEvent(e) \/ Delete(e)
  BY <1>2, <1>8, <1>9, ListenIsQuiet, ParseIsOfAKind, ApplicationIsOfAKind
<1>11. sent' = sent \/ \E c \in Calls : c \notin Range(sent[e]) /\ sent' = [sent EXCEPT ![e] = Append(@, c)]
  BY <1>10 DEF Quiet, Answering, Starting, Calling, Taking, HandleEvent, Delete
<1>12. MadeOnce'
  BY <1>5, <1>11, OnceStep DEF Inv
<1>13. Arrives(e)' /\ Arrives(o)'
  <2>1. Once(sent[e])'
    BY <1>12 DEF MadeOnce, Once
  <2> QED
    BY <1>2, <1>5, <1>6, <1>7, <1>9, <1>10, <2>1, QuietArrives, CallingArrives, StartingArrives,
       TakingArrives, AnsweringArrives, HandlingArrives, DeletingArrives
<1>14. \A f \in Ends : Arrives(f)'
  BY <1>1, <1>13
<1>15. HeadsOK'
  <2>1. m_inputStream' = m_inputStream \/ (socket' = socket /\ m_inputStream'[o] = m_inputStream[o])
    BY <1>1, <1>2
       DEF Listen, Parse, Application, WriteReady, WriteReadyFails, ReadBytes, ReadEnd, ReadFails,
           ParseAsyncCall, ParsePingPong, ParsePingNotOpened, ParseEnd, HandleEvent, ioVars, AsyncCall,
           AsyncCallNotOpened, StartPing, Delete, OtherTypes
  <2>2. \A f \in Ends : m_inputStream'[f] = m_inputStream[f] \/ socket'[f] = "Connected"
    BY <1>1, <1>9, <2>1
  <2> QED
    BY <1>14, <2>2, HeadsStep DEF Inv
<1>16. PingsGoRound'
  <2>1. CASE Delete(e)
    <3>1. socket'[e] # "Connected"
      BY <1>2, <2>1 DEF Delete, OtherTypes
    <3> QED
      BY <3>1 DEF PingsGoRound
  <2>2. CASE HandleEvent(e)
    <3>1. /\ m_inputStream' = m_inputStream /\ kernel' = kernel /\ m_outputStream' = m_outputStream
          /\ pings' = pings /\ socket' = socket /\ m_opened' = m_opened
      BY <2>2 DEF HandleEvent, ioVars
    <3>2. Line(e)' = Line(e) /\ Line(o)' = Line(o)
      BY <3>1, Lines
    <3>3. PingsKept(e) /\ (BothUp' => BothUp)
      BY <3>1, <3>2 DEF PingsKept, BothUp
    <3> QED
      BY <3>3, PingsStep DEF Inv
  <2>3. CASE Quiet(e) \/ Answering(e) \/ Starting(e) \/ \E c \in Calls : Calling(e, c) \/ Taking(e, c)
    <3>1. Steady
      BY <2>3 DEF Quiet, Answering, Starting, Calling, Taking
    <3>2. BothUp' => BothUp
      BY <3>1 DEF Steady, NoneOpens, BothUp
    <3>3. pings \in Nat
      BY <1>2 DEF OtherTypes, RpcStreamAssumption
    <3>4. PingsKept(e)
      BY <1>1, <1>3, <1>4, <2>3, <3>3, KindsKeepPings
    <3> QED
      BY <3>2, <3>4, PingsStep DEF Inv
  <2> QED
    BY <1>10, <2>1, <2>2, <2>3
<1> QED
  BY <1>12, <1>14, <1>15, <1>16 DEF Inv

LEMMA InvStep ==
  ASSUME RpcStreamAssumption, Inv, [Next]_vars
  PROVE  Inv'
<1>1. TypeOK' /\ EndsOK'
  BY TypesStep, WatchesStep DEF Inv
<1>2. CASE Next
  BY <1>1, <1>2, StepOfEnd DEF Next
<1>3. CASE UNCHANGED vars
  <2>1. MadeOnce' /\ HeadsOK'
    BY <1>3 DEF vars, ioVars, Inv, MadeOnce, Once, HeadsOK
  <2>2. \A e \in Ends : Line(e)' = Line(e) /\ Line(Other(e))' = Line(Other(e))
    BY <1>3, TwoEnds DEF vars, ioVars, Line
  <2>3. \A e \in Ends : Arrives(e)'
    BY <1>3, <2>2, ArrivesMeans DEF vars, Inv
  <2>4. PingsGoRound'
    BY <1>3 DEF vars, ioVars, Inv, PingsGoRound, Pinging, Line
  <2> QED
    BY <1>1, <2>1, <2>3, <2>4 DEF Inv
<1> QED
  BY <1>2, <1>3

-----------------------------------------------------------------------------
\* The types of the two connections hold in every state that
\* GenericRPCConnection and WaitableInputOutputExecutionContextSupport reach.
THEOREM TypesHold == Spec => []TypeOK
<1>. USE RpcStreamAssumption
<1>1. Init => Inv
  BY InvInit
<1>2. Inv /\ [Next]_vars => Inv'
  BY InvStep
<1>3. Inv => TypeOK
  BY DEF Inv
<1> QED
  BY <1>1, <1>2, <1>3, PTL DEF Spec

\* However the kernel cuts the bytes between the two ends, whatever send takes
\* and wherever it fails: the calls are handled whole and in the order AsyncCall
\* was called in, what is left to send has a watch, pings go round and no
\* exception leaves a listener that a failure has not caused.
THEOREM EndsUnderstandEachOther == Spec => []EndsAgree
<1>. USE RpcStreamAssumption
<1>1. Init => Inv
  BY InvInit
<1>2. Inv /\ [Next]_vars => Inv'
  BY InvStep
<1>3. Inv => EndsAgree
  <2> SUFFICES ASSUME Inv PROVE EndsAgree
    OBVIOUS
  <2>1. OutputIsWatched /\ EscapesAfterFailure
    BY AllEndsOK DEF Inv
  <2>2. ASSUME NEW e \in Ends
        PROVE  /\ IsPrefix(received[e], sent[Other(e)])
               /\ \E arrived \in Len(received[e]) .. Len(sent[Other(e)]) :
                    InTurn(CallsOf(eventQueue[e]), sent[Other(e)], Len(received[e]), arrived)
    BY DEF Inv, Arrives, Delivered
  <2>3. ASSUME NEW e \in Ends, m_inputStream[e] # <<>> PROVE Head(m_inputStream[e])[2] = 1
    <3>1. m_inputStream[e] \in Seq(Bytes) /\ m_inputStream[e][1][2] = 1
      BY <2>3 DEF Inv, TypeOK, HeadsOK
    <3>2. Head(m_inputStream[e]) = m_inputStream[e][1]
      BY <2>3, <3>1
    <3> QED
      BY <3>1, <3>2
  <2>4. CallsArriveInOrder
    BY <2>2, <2>3 DEF CallsArriveInOrder
  <2> QED
    BY <2>1, <2>4 DEF Inv, EndsAgree
<1> QED
  BY <1>1, <1>2, <1>3, PTL DEF Spec
=============================================================================
