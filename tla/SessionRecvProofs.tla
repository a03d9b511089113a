--------------------------- MODULE SessionRecvProofs ----------------------------
(***************************************************************************)
(* Proofs about SessionRecv, for any sessions, streams, number of buffers  *)
(* and size of a text.  The loop of ProcessPacket is a recursive function; *)
(* what it returns is proved from the principle that a non-empty set of    *)
(* natural numbers has a least element.                                    *)
(***************************************************************************)
EXTENDS SessionRecv, SequenceTheorems, FiniteSetTheorems, WellFoundedInduction, TLAPS

LEMMA LeastElement ==
  ASSUME NEW T \in SUBSET Nat, T # {}
  PROVE  \E x \in T : \A y \in T : x <= y
<1>1. PICK R : R = OpToRel(<, Nat)
  OBVIOUS
<1>2. IsWellFoundedOn(R, Nat)
  BY <1>1, NatLessThanWellFounded
<1>3. \A x, y \in Nat : x < y => <<x, y>> \in R
  BY <1>1 DEF OpToRel
<1>4. PICK x \in T : \A y \in T : ~ (<<y, x>> \in R)
  BY <1>2, WFMin
<1>5. \A y \in T : ~ (y < x)
  BY <1>3, <1>4
<1> QED
  BY <1>5

LEMMA MinFacts ==
  ASSUME NEW T \in SUBSET Nat, T # {}
  PROVE  Min(T) \in T /\ \A y \in T : Min(T) <= y
<1>1. \E x \in T : \A y \in T : x <= y
  BY LeastElement
<1> QED
  BY <1>1 DEF Min

LEMMA MaxFacts ==
  ASSUME NEW n \in Nat, NEW T \in SUBSET (0 .. n), T # {}
  PROVE  Max(T) \in T /\ \A y \in T : y <= Max(T)
<1>1. PICK U : U = {k \in Nat : n - k \in T}
  OBVIOUS
<1>2. U \in SUBSET Nat
  BY <1>1
<1>3. U # {}
  <2>1. PICK x \in T : TRUE
    OBVIOUS
  <2>2. n - x \in Nat /\ n - (n - x) = x
    OBVIOUS
  <2> QED
    BY <1>1, <2>1, <2>2
<1>4. PICK k \in U : \A j \in U : k <= j
  BY <1>2, <1>3, LeastElement
<1>5. n - k \in T /\ k \in Nat
  BY <1>1, <1>4
<1>6. \A y \in T : y <= n - k
  <2> SUFFICES ASSUME NEW y \in T PROVE y <= n - k
    OBVIOUS
  <2>1. n - y \in Nat /\ n - (n - y) = y
    OBVIOUS
  <2>2. n - y \in U
    BY <1>1, <2>1
  <2> QED
    BY <1>4, <1>5, <2>2
<1>7. \E x \in T : \A y \in T : x >= y
  BY <1>5, <1>6
<1> QED
  BY <1>7 DEF Max

-------------------------------------------------------------------------------
(* The packets of a stream.                                                *)

(* The stream of a session, and where its packets end. *)
Stream(s) ==
  /\ cuts[s] \subseteq Units /\ cuts[s] # {}
  /\ \A c \in cuts[s] : c >= Handshake + 2
  /\ \A c, d \in cuts[s] : c < d => d - c >= 2

LEMMA StreamFacts ==
  ASSUME NEW s \in Sessions, cuts[s] \in Streams[s]
  PROVE  Stream(s)
BY RecvAssumption DEF RecvAssumption, Stream, Units

LEMMA LastFacts ==
  ASSUME NEW s, Stream(s)
  PROVE  Last(s) \in cuts[s] /\ Last(s) \in Units /\ \A c \in cuts[s] : c <= Last(s)
<1>1. MaxUnits \in Nat /\ cuts[s] \in SUBSET (0 .. MaxUnits)
  BY RecvAssumption DEF RecvAssumption, Stream, Units
<1> QED
  BY <1>1, MaxFacts DEF Stream, Last

LEMMA PacketEndFacts ==
  ASSUME NEW s, Stream(s), NEW i \in Nat, i + 1 <= Last(s)
  PROVE  /\ PacketEnd(s, i) \in cuts[s] /\ PacketEnd(s, i) \in Units
         /\ PacketEnd(s, i) >= i + 1
         /\ \A c \in cuts[s] : c >= i + 1 => PacketEnd(s, i) <= c
<1>1. PICK T : T = {c \in cuts[s] : c >= i + 1}
  OBVIOUS
<1>2. T \in SUBSET Nat /\ Last(s) \in T
  BY <1>1, LastFacts DEF Stream, Units
<1>3. Min(T) \in T /\ \A y \in T : Min(T) <= y
  BY <1>2, MinFacts
<1> QED
  BY <1>1, <1>3 DEF PacketEnd, Stream

-------------------------------------------------------------------------------
(* What the loop of ProcessPacket computes.                                *)

Loop(s, from, to, f) ==
  f = [i \in from .. to + 1 |->
        IF i + 1 > to THEN <<>>
        ELSE IF PacketEnd(s, i) > to THEN <<>>
        ELSE << <<i, PacketEnd(s, i)>> >> \o f[PacketEnd(s, i) + 1]]

(* The packets of the units from .. to: each begins where the one before   *)
(* it ends and ends where its length prefix says, and none is left out.    *)
ArePackets(s, from, to, p) ==
  /\ p \in Seq(Units \X Units)
  /\ \A k \in 1 .. Len(p) :
       /\ p[k][1] = IF k = 1 THEN from ELSE p[k - 1][2] + 1
       /\ p[k][2] = PacketEnd(s, p[k][1])
       /\ p[k][1] < p[k][2] /\ p[k][2] \in cuts[s]
  /\ Rest(from, p) \in from .. to + 1
  /\ Rest(from, p) + 1 <= to => PacketEnd(s, Rest(from, p)) > to

LEMMA NoPackets ==
  ASSUME NEW s, NEW i \in Units, NEW to \in Nat, i <= to + 1,
         i + 1 > to \/ PacketEnd(s, i) > to
  PROVE  ArePackets(s, i, to, <<>>)
BY EmptySeq DEF ArePackets, Rest, Units

LEMMA OnePacketMore ==
  ASSUME NEW s, Stream(s), NEW i \in Units, NEW to \in Nat, to <= Last(s), i + 1 <= to,
         PacketEnd(s, i) <= to,
         NEW q, ArePackets(s, PacketEnd(s, i) + 1, to, q)
  PROVE  ArePackets(s, i, to, << <<i, PacketEnd(s, i)>> >> \o q)
<1>1. PICK e : e = PacketEnd(s, i)
  OBVIOUS
<1>2. PICK p : p = << <<i, e>> >> \o q
  OBVIOUS
<1>3. e \in cuts[s] /\ e \in Units /\ e >= i + 1 /\ i \in Nat /\ e \in Nat /\ i < e
  <2>1. i + 1 <= Last(s) /\ i \in Nat
    BY LastFacts DEF Units
  <2> QED
    BY <1>1, <2>1, PacketEndFacts DEF Units
<1>4. /\ q \in Seq(Units \X Units) /\ Len(q) \in Nat
      /\ p \in Seq(Units \X Units) /\ Len(p) = Len(q) + 1
      /\ p[1] = <<i, e>>
      /\ \A k \in 1 .. Len(q) : p[k + 1] = q[k]
  <2>1. q \in Seq(Units \X Units) /\ Len(q) \in Nat
    BY <1>1 DEF ArePackets
  <2>2. << <<i, e>> >> \in Seq(Units \X Units) /\ Len(<< <<i, e>> >>) = 1
    BY <1>3
  <2> QED
    BY <1>2, <2>1, <2>2, ConcatProperties
<1>5. Rest(i, p) = Rest(e + 1, q)
  <2>1. p # <<>> /\ Rest(i, p) = p[Len(p)][2] + 1
    BY <1>4 DEF Rest
  <2>2. CASE q = <<>>
    <3>1. p[Len(p)] = <<i, e>> /\ Rest(e + 1, q) = e + 1
      BY <1>4, <2>2 DEF Rest
    <3> QED
      BY <2>1, <3>1
  <2>3. CASE q # <<>>
    <3>1. Len(q) \in 1 .. Len(q) /\ Rest(e + 1, q) = q[Len(q)][2] + 1
      BY <1>4, <2>3, EmptySeq DEF Rest
    <3>2. p[Len(p)] = q[Len(q)]
      BY <1>4, <3>1
    <3> QED
      BY <2>1, <3>1, <3>2
  <2> QED
    BY <2>2, <2>3
<1>6. ASSUME NEW k \in 1 .. Len(p)
      PROVE  /\ p[k][1] = IF k = 1 THEN i ELSE p[k - 1][2] + 1
             /\ p[k][2] = PacketEnd(s, p[k][1])
             /\ p[k][1] < p[k][2] /\ p[k][2] \in cuts[s]
  <2>1. CASE k = 1
    BY <1>1, <1>3, <1>4, <2>1
  <2>2. CASE k # 1
    <3> DEFINE j == k - 1
    <3>1. j \in 1 .. Len(q) /\ k = j + 1
      BY <1>4, <2>2
    <3>2. p[k] = q[j] /\ p[k - 1] = IF j = 1 THEN <<i, e>> ELSE q[j - 1]
      <4>1. p[k] = q[j]
        BY <1>4, <3>1
      <4>2. ASSUME j # 1 PROVE p[k - 1] = q[j - 1]
        <5>1. j - 1 \in 1 .. Len(q) /\ (j - 1) + 1 = k - 1
          BY <1>4, <3>1, <4>2
        <5> QED
          BY <1>4, <5>1
      <4>3. j = 1 => p[k - 1] = <<i, e>>
        BY <1>4
      <4> QED
        BY <4>1, <4>2, <4>3
    <3>3. /\ q[j][1] = IF j = 1 THEN e + 1 ELSE q[j - 1][2] + 1
          /\ q[j][2] = PacketEnd(s, q[j][1])
          /\ q[j][1] < q[j][2] /\ q[j][2] \in cuts[s]
      BY <1>1, <3>1 DEF ArePackets
    <3> QED
      BY <2>2, <3>1, <3>2, <3>3
  <2> QED
    BY <2>1, <2>2
<1>7. /\ Rest(e + 1, q) \in e + 1 .. to + 1
      /\ Rest(e + 1, q) + 1 <= to => PacketEnd(s, Rest(e + 1, q)) > to
  BY <1>1 DEF ArePackets
<1>8. ArePackets(s, i, to, p)
  BY <1>3, <1>4, <1>5, <1>6, <1>7 DEF ArePackets
<1> QED
  BY <1>1, <1>2, <1>8

(* The loop is well defined: it goes on behind the packet it has handled. *)
LEMMA LoopExists ==
  ASSUME NEW s, Stream(s), NEW from \in Units, NEW to \in Nat, to <= Last(s), from <= to + 1
  PROVE  \E f : Loop(s, from, to, f)
<1> DEFINE Missing == {k \in 0 .. to + 1 - from : ~ \E f : Loop(s, to + 1 - k, to, f)}
<1>1. ASSUME Missing # {} PROVE FALSE
  <2>1. PICK k \in Missing : \A j \in Missing : k <= j
    <3>1. Missing \in SUBSET Nat
      BY DEF Units
    <3> HIDE DEF Missing
    <3> QED
      BY <1>1, <3>1, LeastElement
  <2>2. PICK m : m = to + 1 - k
    OBVIOUS
  <2>3. k \in 0 .. to + 1 - from /\ m \in from .. to + 1 /\ m \in Nat /\ ~ \E f : Loop(s, m, to, f)
    BY <2>1, <2>2 DEF Units
  <2>4. k # 0
    <3>1. SUFFICES ASSUME k = 0 PROVE FALSE
      OBVIOUS
    <3>2. m = to + 1
      BY <2>2, <3>1
    <3>3. PICK f : f = [i \in m .. to + 1 |-> <<>>]
      OBVIOUS
    <3>4. Loop(s, m, to, f)
      BY <3>2, <3>3 DEF Loop
    <3> QED
      BY <2>3, <3>4
  <2>5. PICK g : Loop(s, m + 1, to, g)
    <3>1. k - 1 \in 0 .. to + 1 - from /\ k - 1 \notin Missing /\ to + 1 - (k - 1) = m + 1
      BY <2>1, <2>2, <2>3, <2>4 DEF Units
    <3> QED
      BY <3>1
  <2>6. PICK h : h = [i \in m .. to + 1 |->
                        IF i # m THEN g[i]
                        ELSE IF m + 1 > to THEN <<>>
                        ELSE IF PacketEnd(s, m) > to THEN <<>>
                        ELSE << <<m, PacketEnd(s, m)>> >> \o g[PacketEnd(s, m) + 1]]
    OBVIOUS
  <2>7. ASSUME NEW i \in m .. to + 1, i + 1 <= to, PacketEnd(s, i) <= to
        PROVE  h[PacketEnd(s, i) + 1] = g[PacketEnd(s, i) + 1]
    <3>1. i \in Nat /\ i + 1 <= Last(s)
      BY <2>3, <2>7, LastFacts DEF Units
    <3>2. PacketEnd(s, i) \in Nat /\ PacketEnd(s, i) >= i + 1
      BY <3>1, PacketEndFacts DEF Units
    <3>3. PacketEnd(s, i) + 1 \in m .. to + 1 /\ PacketEnd(s, i) + 1 # m
      BY <2>3, <2>7, <3>1, <3>2
    <3> QED
      BY <2>6, <3>3
  <2>8. ASSUME NEW i \in m .. to + 1
        PROVE  h[i] = IF i + 1 > to THEN <<>>
                      ELSE IF PacketEnd(s, i) > to THEN <<>>
                      ELSE << <<i, PacketEnd(s, i)>> >> \o h[PacketEnd(s, i) + 1]
    <3>1. h[i] = IF i + 1 > to THEN <<>>
                 ELSE IF PacketEnd(s, i) > to THEN <<>>
                 ELSE << <<i, PacketEnd(s, i)>> >> \o g[PacketEnd(s, i) + 1]
      <4>1. CASE i = m
        BY <2>6, <4>1
      <4>2. CASE i # m
        <5>1. i \in m + 1 .. to + 1 /\ h[i] = g[i]
          BY <2>3, <2>6, <4>2
        <5> QED
          BY <2>5, <5>1 DEF Loop
      <4> QED
        BY <4>1, <4>2
    <3>2. CASE i + 1 <= to /\ PacketEnd(s, i) <= to
      BY <2>7, <3>1, <3>2
    <3>3. CASE i + 1 > to
      BY <3>1, <3>3
    <3>4. CASE i + 1 <= to /\ ~ PacketEnd(s, i) <= to
      <4>1. PacketEnd(s, i) > to
        <5>1. i \in Nat /\ i + 1 <= Last(s)
          BY <2>3, <3>4, LastFacts DEF Units
        <5>2. PacketEnd(s, i) \in Nat
          BY <5>1, PacketEndFacts DEF Units
        <5> QED
          BY <3>4, <5>2
      <4> QED
        BY <3>1, <4>1
    <3> QED
      BY <2>3, <3>2, <3>3, <3>4
  <2>9. Loop(s, m, to, h)
    BY <2>6, <2>8 DEF Loop
  <2> QED
    BY <2>3, <2>9
<1>2. to + 1 - from \in 0 .. to + 1 - from /\ to + 1 - (to + 1 - from) = from
  BY DEF Units
<1> QED
  BY <1>1, <1>2

(* ... and what it returns from any unit on. *)
LEMMA LoopReturns ==
  ASSUME NEW s, Stream(s), NEW from \in Units, NEW to \in Nat, to <= Last(s), from <= to + 1,
         NEW f, Loop(s, from, to, f)
  PROVE  ArePackets(s, from, to, f[from])
<1> DEFINE Wrong == {k \in 0 .. to + 1 - from :
                       /\ to + 1 - k \in Units
                       /\ ~ ArePackets(s, to + 1 - k, to, f[to + 1 - k])}
<1>1. ASSUME Wrong # {} PROVE FALSE
  <2>1. PICK k \in Wrong : \A j \in Wrong : k <= j
    <3>1. Wrong \in SUBSET Nat
      BY DEF Units
    <3> HIDE DEF Wrong
    <3> QED
      BY <1>1, <3>1, LeastElement
  <2>2. PICK m : m = to + 1 - k
    OBVIOUS
  <2>3. /\ k \in 0 .. to + 1 - from /\ m \in from .. to + 1 /\ m \in Units /\ m \in Nat
        /\ ~ ArePackets(s, m, to, f[m])
    BY <2>1, <2>2 DEF Units
  <2>4. f[m] = IF m + 1 > to THEN <<>>
               ELSE IF PacketEnd(s, m) > to THEN <<>>
               ELSE << <<m, PacketEnd(s, m)>> >> \o f[PacketEnd(s, m) + 1]
    BY <2>3 DEF Loop
  <2>5. m + 1 <= to /\ ~ PacketEnd(s, m) > to
    <3>1. m <= to + 1
      BY <2>3
    <3> QED
      BY <2>3, <2>4, <3>1, NoPackets
  <2>6. PacketEnd(s, m) \in Units /\ PacketEnd(s, m) >= m + 1 /\ PacketEnd(s, m) <= to
    <3>1. m + 1 <= Last(s)
      BY <2>3, <2>5, LastFacts DEF Units
    <3>2. PacketEnd(s, m) \in Units /\ PacketEnd(s, m) >= m + 1
      BY <2>3, <3>1, PacketEndFacts
    <3> QED
      BY <2>5, <3>2 DEF Units
  <2>7. PICK e \in Nat : e = PacketEnd(s, m)
    BY <2>6 DEF Units
  <2>8. ArePackets(s, e + 1, to, f[e + 1])
    <3>1. CASE e + 1 \in Units
      <4>1. to + 1 - (e + 1) \in 0 .. to + 1 - from /\ to + 1 - (e + 1) < k
        BY <2>2, <2>3, <2>6, <2>7 DEF Units
      <4>2. to + 1 - (e + 1) \notin Wrong
        BY <2>1, <4>1
      <4>3. to + 1 - (to + 1 - (e + 1)) = e + 1
        OBVIOUS
      <4> QED
        BY <3>1, <4>1, <4>2, <4>3
    <3>2. CASE e + 1 \notin Units
      <4>1. e + 1 = to + 1
        BY <2>6, <2>7, <3>2, LastFacts, RecvAssumption DEF Units, RecvAssumption
      <4>2. f[e + 1] = <<>>
        BY <2>3, <4>1 DEF Loop
      <4> QED
        BY <4>1, <4>2, EmptySeq DEF ArePackets, Rest
    <3> QED
      BY <3>1, <3>2
  <2>9. ArePackets(s, m, to, << <<m, PacketEnd(s, m)>> >> \o f[PacketEnd(s, m) + 1])
    BY <2>3, <2>5, <2>6, <2>7, <2>8, OnePacketMore
  <2> QED
    BY <2>3, <2>4, <2>5, <2>6, <2>9
<1>2. to + 1 - from \in 0 .. to + 1 - from /\ to + 1 - (to + 1 - from) = from
  BY DEF Units
<1> QED
  BY <1>1, <1>2

LEMMA PacketsFacts ==
  ASSUME NEW s, Stream(s), NEW from \in Units, NEW to \in Nat, to <= Last(s), from <= to + 1
  PROVE  ArePackets(s, from, to, Packets(s, from, to))
<1>1. PICK f : Loop(s, from, to, f)
  BY LoopExists
<1>2. PICK g : Packets(s, from, to) = g[from] /\ Loop(s, from, to, g)
  BY <1>1 DEF Packets, Loop
<1> QED
  BY <1>2, LoopReturns

-------------------------------------------------------------------------------
(* The invariant.                                                          *)

CountersOK ==
  /\ received \in [Sessions -> Nat] /\ bio \in [Sessions -> Nat]
  /\ ready \in [Sessions -> Nat] /\ read \in [Sessions -> Nat]
  /\ \A s \in Sessions :
       /\ bio[s] <= received[s] /\ received[s] <= Last(s)
       /\ Handshake <= read[s] /\ read[s] <= ready[s] /\ ready[s] <= Last(s)

BuffersOK ==
  /\ pending \in [Sessions -> BufIds \cup {NoBuf} \cup Garbage]
  /\ text \in [BufIds -> Text \cup {<<>>}]
  /\ bufRing \in Seq(BufIds)
  /\ cq \in Seq(Cqes)

TypeInv ==
  /\ cuts \in [Sessions -> SUBSET Units] /\ \A s \in Sessions : Stream(s)
  /\ armed \in [Sessions -> BOOLEAN] /\ handshaking \in [Sessions -> BOOLEAN]
  /\ closing \in [Sessions -> BOOLEAN] /\ alive \in [Sessions -> BOOLEAN]
  /\ undefined \in {"no", "survived", "crashed"}
  /\ CountersOK /\ BuffersOK
  /\ handled \in [Sessions -> Seq(Units \X Units)]

(* What waits to be written to the read BIO has been received, in order:   *)
(* completion i is of the units up to u[i] of its session.                 *)
UnitsInv ==
  \E u \in [1 .. Len(cq) -> Nat] :
    /\ \A i \in 1 .. Len(cq) :
         bio[cq[i].session] + cq[i].units <= u[i] /\ u[i] <= received[cq[i].session]
    /\ \A i, j \in 1 .. Len(cq) :
         i < j /\ cq[i].session = cq[j].session => u[i] + cq[j].units <= u[j]

(* A buffer is once in the ring or in a completion, or holds a packet that *)
(* was cut and is pending for the session of that packet.                  *)
OwnerInv ==
  /\ \A i, j \in 1 .. Len(bufRing) : bufRing[i] = bufRing[j] => i = j
  /\ \A i, j \in 1 .. Len(cq) : cq[i].buf = cq[j].buf /\ cq[i].buf # NoBuf => i = j
  /\ \A i \in 1 .. Len(bufRing), j \in 1 .. Len(cq) : bufRing[i] # cq[j].buf
  /\ \A b \in BufIds : text[b] # <<>> =>
       /\ pending[text[b].session] = b
       /\ \A i \in 1 .. Len(bufRing) : bufRing[i] # b
       /\ \A i \in 1 .. Len(cq) : cq[i].buf # b

(* The packets h of a stream with last units C, one after the other; and   *)
(* of the stream of session s. *)
InOrderOf(C, h) ==
  \A i \in 1 .. Len(h) :
    /\ h[i][1] = (IF i = 1 THEN Handshake ELSE h[i - 1][2]) + 1
    /\ h[i][2] = Min({c \in C : c >= h[i][1]})
    /\ h[i][2] \in C

InOrder(s, h) == InOrderOf(cuts[s], h)

(* What was read of the text is handled or pending, and the id of the      *)
(* pending buffer can be trusted once there has been text, or if it was    *)
(* -1 from the beginning.                                                  *)
TextOK(s) ==
  /\ InOrder(s, handled[s])
  /\ HoldsCutPacket(s) =>
       /\ text[pending[s]].from = HandledTo(s) + 1
       /\ text[pending[s]].to = read[s]
       /\ HandledTo(s) < read[s]
       /\ \A c \in cuts[s] : c > HandledTo(s) => c > read[s]
  /\ ~ HoldsCutPacket(s) => HandledTo(s) = read[s]
  /\ read[s] # Handshake \/ Garbage \subseteq {NoBuf} => pending[s] = NoBuf \/ HoldsCutPacket(s)

TextInv == \A s \in Sessions : TextOK(s)

(* After an undefined append only the types are left. *)
RecvInv == TypeInv /\ (undefined = "no" => UnitsInv /\ OwnerInv /\ TextInv)

-------------------------------------------------------------------------------
(* The queues, and the text in a buffer. *)

LEMMA TextNotEmpty == \A t \in Text : t # <<>>
<1> SUFFICES ASSUME NEW t \in Text, t = <<>> PROVE FALSE
  OBVIOUS
<1>1. "session" \in DOMAIN t
  BY DEF Text
<1>2. DOMAIN t = 1 .. 0
  OBVIOUS
<1>3. 1 .. 0 = {}
  OBVIOUS
<1> QED
  BY <1>1, <1>2, <1>3

LEMMA AppendFacts ==
  ASSUME NEW S, NEW q \in Seq(S), NEW e \in S
  PROVE  /\ Append(q, e) \in Seq(S) /\ Len(Append(q, e)) = Len(q) + 1 /\ Len(q) \in Nat
         /\ \A i \in 1 .. Len(q) : Append(q, e)[i] = q[i]
         /\ Append(q, e)[Len(q) + 1] = e
BY AppendProperties, LenProperties

LEMMA TailFacts ==
  ASSUME NEW S, NEW q \in Seq(S), q # <<>>
  PROVE  /\ Len(q) \in Nat \ {0} /\ Head(q) = q[1] /\ Head(q) \in S
         /\ Tail(q) \in Seq(S) /\ Len(Tail(q)) = Len(q) - 1
         /\ \A i \in 1 .. Len(Tail(q)) :
              Tail(q)[i] = q[i + 1] /\ i + 1 \in 1 .. Len(q) /\ i + 1 # 1
BY HeadTailProperties, EmptySeq

LEMMA ConcatFacts ==
  ASSUME NEW S, NEW q \in Seq(S), NEW r \in Seq(S)
  PROVE  /\ q \o r \in Seq(S) /\ Len(q \o r) = Len(q) + Len(r) /\ Len(q) \in Nat /\ Len(r) \in Nat
         /\ \A i \in 1 .. Len(q) : (q \o r)[i] = q[i]
         /\ \A i \in 1 .. Len(r) : (q \o r)[Len(q) + i] = r[i]
<1>1. /\ q \o r \in Seq(S) /\ Len(q \o r) = Len(q) + Len(r) /\ Len(q) \in Nat /\ Len(r) \in Nat
      /\ \A i \in 1 .. Len(q) + Len(r) : (q \o r)[i] = IF i <= Len(q) THEN q[i] ELSE r[i - Len(q)]
  BY ConcatProperties, LenProperties
<1> QED
  BY <1>1

LEMMA InitTypeInv == Init => TypeInv
<1> SUFFICES ASSUME Init PROVE TypeInv
  OBVIOUS
<1>1. cuts \in [Sessions -> SUBSET Units] /\ \A s \in Sessions : Stream(s)
  BY StreamFacts DEF Init
<1>2. CountersOK
  <2>1. \A s \in Sessions : Last(s) \in Nat /\ Handshake <= Last(s) /\ Handshake \in Nat
    <3> SUFFICES ASSUME NEW s \in Sessions
                 PROVE  Last(s) \in Nat /\ Handshake <= Last(s) /\ Handshake \in Nat
      OBVIOUS
    <3>1. Stream(s) /\ Last(s) \in cuts[s] /\ Last(s) \in Units
      BY <1>1, LastFacts
    <3> QED
      BY <3>1, RecvAssumption DEF Stream, Units, RecvAssumption
  <2> QED
    BY <2>1 DEF Init, CountersOK
<1>3. bufRing \in Seq(BufIds) /\ cq \in Seq(Cqes)
  <2>1. BufCount \in Nat
    BY RecvAssumption DEF RecvAssumption
  <2>2. \A i \in 1 .. BufCount : i - 1 \in BufIds
    BY <2>1 DEF BufIds
  <2>3. [i \in 1 .. BufCount |-> i - 1] \in [1 .. BufCount -> BufIds]
    BY <2>2
  <2> QED
    BY <2>1, <2>3, SeqDef, EmptySeq DEF Init
<1>4. BuffersOK
  BY <1>3 DEF Init, BuffersOK
<1>5. handled \in [Sessions -> Seq(Units \X Units)]
  BY EmptySeq DEF Init
<1> QED
  BY <1>1, <1>2, <1>4, <1>5 DEF Init, TypeInv

(* The completion at hand. *)
LEMMA HeadFacts ==
  ASSUME TypeInv, UnitsInv, cq # <<>>
  PROVE  /\ Head(cq) = cq[1] /\ 1 \in 1 .. Len(cq) /\ Head(cq) \in Cqes
         /\ Head(cq).session \in Sessions
         /\ Head(cq).units \in Nat
         /\ bio[Head(cq).session] + Head(cq).units <= received[Head(cq).session]
         /\ Data => Buf \in BufIds
<1>1. /\ Head(cq) = cq[1] /\ 1 \in 1 .. Len(cq) /\ Head(cq) \in Cqes
  BY TailFacts DEF TypeInv, BuffersOK
<1>2. Head(cq).session \in Sessions /\ Head(cq).units \in Nat /\ (Data => Buf \in BufIds)
  BY <1>1 DEF Cqes, Units, Data, Buf
<1>3. bio[Head(cq).session] + Head(cq).units <= received[Head(cq).session]
  <2>1. PICK u \in [1 .. Len(cq) -> Nat] :
          bio[cq[1].session] + cq[1].units <= u[1] /\ u[1] <= received[cq[1].session]
    BY <1>1 DEF UnitsInv
  <2>2. u[1] \in Nat
    BY <1>1
  <2>3. bio[cq[1].session] \in Nat /\ received[cq[1].session] \in Nat
    BY <1>1, <1>2 DEF TypeInv, CountersOK
  <2> QED
    BY <1>1, <1>2, <2>1, <2>2, <2>3
<1> QED
  BY <1>1, <1>2, <1>3

(* The receive at hand has written its units to the read BIO, and n units  *)
(* of text have been read. *)
Reads(s, n) ==
  /\ n \in Nat /\ read[s] + n <= Last(s)
  /\ \A t \in Sessions :
       /\ read'[t] = IF t = s THEN read[s] + n ELSE read[t]
       /\ bio'[t] = IF t = s THEN bio[s] + Head(cq).units ELSE bio[t]
  /\ CountersOK'
  /\ cq # <<>> /\ s = Head(cq).session /\ cq' = Tail(cq) /\ Buf \in BufIds
  /\ undefined = "no" /\ alive[s]
  /\ UNCHANGED <<cuts, armed, received, alive>>
  /\ closing' \in [Sessions -> BOOLEAN] /\ handshaking' \in [Sessions -> BOOLEAN]

(* SSL_read returns what has been decrypted, never more than the text      *)
(* buffer holds. *)
LEMMA DecryptsReads ==
  ASSUME TypeInv, UnitsInv, NEW s \in Sessions, NEW decrypted \in Units, Decrypts(s, decrypted)
  PROVE  Reads(s, GetRecvText(s, decrypted))
<1>1. /\ cq # <<>> /\ s = Head(cq).session /\ cq' = Tail(cq) /\ Data
      /\ undefined = "no" /\ alive[s]
      /\ UNCHANGED <<cuts, armed, received, alive>>
  BY DEF Decrypts, Handles
<1>2. Buf \in BufIds /\ Head(cq).units \in Nat /\ bio[s] + Head(cq).units <= received[s]
  BY <1>1, HeadFacts
<1>3. PICK n : n = GetRecvText(s, decrypted)
  OBVIOUS
<1>4. /\ decrypted \in ready[s] .. InBio(s)
      /\ bio' = [bio EXCEPT ![s] = InBio(s)]
      /\ ready' = [ready EXCEPT ![s] = decrypted]
      /\ read' = [read EXCEPT ![s] = read[s] + n]
  BY <1>3 DEF Decrypts
<1>5. InBio(s) = bio[s] + Head(cq).units
  BY DEF InBio
<1>6. /\ \A t \in Sessions : Last(t) \in Nat
      /\ decrypted \in Nat /\ Handshake \in Nat /\ TextSize \in Nat
  <2>1. \A t \in Sessions : Last(t) \in Units
    BY LastFacts DEF TypeInv
  <2> QED
    BY <2>1, RecvAssumption DEF Units, RecvAssumption
<1>7. n \in Nat /\ read[s] + n <= decrypted /\ decrypted <= Last(s)
  <2>1. n = IF decrypted - read[s] < TextSize THEN decrypted - read[s] ELSE TextSize
    BY <1>3 DEF GetRecvText
  <2>2. /\ bio[s] \in Nat /\ received[s] \in Nat /\ ready[s] \in Nat /\ read[s] \in Nat
        /\ received[s] <= Last(s) /\ read[s] <= ready[s] /\ Last(s) \in Nat
    BY <1>6 DEF TypeInv, CountersOK
  <2>3. ready[s] <= decrypted /\ decrypted <= bio[s] + Head(cq).units
    BY <1>2, <1>4, <1>5, <2>2
  <2>4. decrypted <= Last(s)
    BY <1>2, <1>6, <2>2, <2>3
  <2> QED
    BY <1>6, <2>1, <2>2, <2>3, <2>4
<1>8. \A t \in Sessions :
        /\ read'[t] = IF t = s THEN read[s] + n ELSE read[t]
        /\ ready'[t] = IF t = s THEN decrypted ELSE ready[t]
        /\ bio'[t] = IF t = s THEN bio[s] + Head(cq).units ELSE bio[t]
  BY <1>4, <1>5 DEF TypeInv, CountersOK
<1>9. CountersOK'
  <2>1. /\ received' \in [Sessions -> Nat] /\ bio' \in [Sessions -> Nat]
        /\ ready' \in [Sessions -> Nat] /\ read' \in [Sessions -> Nat]
    <3>1. /\ received \in [Sessions -> Nat] /\ bio \in [Sessions -> Nat]
          /\ ready \in [Sessions -> Nat] /\ read \in [Sessions -> Nat]
      BY DEF TypeInv, CountersOK
    <3>2. read[s] + n \in Nat /\ InBio(s) \in Nat
      BY <1>2, <1>5, <1>7, <3>1
    <3> QED
      BY <1>1, <1>4, <1>6, <3>1, <3>2
  <2>2. ASSUME NEW t \in Sessions
        PROVE  /\ bio'[t] <= received'[t] /\ received'[t] <= Last(t)'
               /\ Handshake <= read'[t] /\ read'[t] <= ready'[t] /\ ready'[t] <= Last(t)'
    <3>1. received'[t] = received[t] /\ Last(t)' = Last(t)
      BY <1>1 DEF Last
    <3>2. /\ bio[t] <= received[t] /\ received[t] <= Last(t)
          /\ Handshake <= read[t] /\ read[t] <= ready[t] /\ ready[t] <= Last(t)
          /\ read[t] \in Nat
      BY DEF TypeInv, CountersOK
    <3>3. CASE t = s
      <4>1. Handshake <= read[s] + n
        BY <1>6, <1>7, <3>2, <3>3
      <4> QED
        BY <1>2, <1>7, <1>8, <3>1, <3>2, <3>3, <4>1
    <3>4. CASE t # s
      BY <1>8, <3>1, <3>2, <3>4
    <3> QED
      BY <3>3, <3>4
  <2> QED
    BY <2>1, <2>2 DEF CountersOK
<1>10. closing' \in [Sessions -> BOOLEAN] /\ handshaking' \in [Sessions -> BOOLEAN]
  BY DEF Decrypts, TypeInv
<1>11. read[s] + n <= Last(s)
  <2>1. read[s] \in Nat /\ Last(s) \in Nat
    BY <1>6 DEF TypeInv, CountersOK
  <2> QED
    BY <1>6, <1>7, <2>1
<1> QED
  BY <1>1, <1>2, <1>3, <1>7, <1>8, <1>9, <1>10, <1>11 DEF Reads

-------------------------------------------------------------------------------
(* The packets of a text. *)

EndOf(h) == IF h = <<>> THEN Handshake ELSE h[Len(h)][2]

LEMMA EndFacts ==
  ASSUME NEW s, Stream(s), NEW h \in Seq(Units \X Units), InOrder(s, h)
  PROVE  /\ EndOf(h) \in Nat /\ Handshake <= EndOf(h)
         /\ EndOf(h) + 1 \notin cuts[s]
         /\ EndOf(h) = Handshake \/ EndOf(h) \in cuts[s]
<1>1. Handshake \in Nat /\ MaxUnits \in Nat
  BY RecvAssumption DEF RecvAssumption
<1>2. EndOf(h) = Handshake \/ EndOf(h) \in cuts[s]
  <2>1. h # <<>> => Len(h) \in 1 .. Len(h)
    BY EmptySeq, LenProperties
  <2> QED
    BY <2>1 DEF EndOf, InOrder, InOrderOf
<1>3. \A c \in cuts[s] : c \in Nat /\ c >= Handshake + 2
  BY <1>1 DEF Stream, Units
<1>4. \A c, d \in cuts[s] : c < d => d - c >= 2
  BY DEF Stream
<1>5. EndOf(h) \in Nat /\ Handshake <= EndOf(h)
  BY <1>1, <1>2, <1>3
<1>6. EndOf(h) + 1 \notin cuts[s]
  <2>1. CASE EndOf(h) = Handshake
    BY <1>1, <1>3, <2>1
  <2>2. CASE EndOf(h) \in cuts[s]
    BY <1>3, <1>4, <1>5, <2>2
  <2> QED
    BY <1>2, <2>1, <2>2
<1> QED
  BY <1>2, <1>5, <1>6

(* A packet that starts where the one before it ends, or the handshake.    *)
LEMMA EndIsCut ==
  ASSUME NEW s, Stream(s), NEW i \in Nat, i \notin cuts[s]
  PROVE  PacketEnd(s, i) = Min({c \in cuts[s] : c >= i})
<1>1. {c \in cuts[s] : c >= i} = {c \in cuts[s] : c >= i + 1}
  <2>1. \A c \in cuts[s] : c \in Nat
    BY RecvAssumption DEF Stream, Units, RecvAssumption
  <2> QED
    BY <2>1
<1> QED
  BY <1>1 DEF PacketEnd

LEMMA HandlesInOrder ==
  ASSUME NEW s, Stream(s), NEW h \in Seq(Units \X Units), InOrder(s, h),
         NEW from, from = EndOf(h) + 1, NEW to \in Nat, NEW p, ArePackets(s, from, to, p)
  PROVE  /\ h \o p \in Seq(Units \X Units)
         /\ InOrder(s, h \o p)
         /\ EndOf(h \o p) = Rest(from, p) - 1
<1>1. PICK r : r = h \o p
  OBVIOUS
<1>2. /\ p \in Seq(Units \X Units) /\ Len(h) \in Nat /\ Len(p) \in Nat
      /\ r \in Seq(Units \X Units) /\ Len(r) = Len(h) + Len(p)
      /\ \A k \in 1 .. Len(h) : r[k] = h[k]
      /\ \A k \in 1 .. Len(p) : r[Len(h) + k] = p[k]
  <2>1. p \in Seq(Units \X Units)
    BY DEF ArePackets
  <2> QED
    BY <1>1, <2>1, ConcatFacts
<1>3. EndOf(h) \in Nat /\ EndOf(h) + 1 \notin cuts[s]
  BY EndFacts
<1>4. \A c \in cuts[s] : c \in Nat
  BY RecvAssumption DEF Stream, Units, RecvAssumption
<1>5. \A c, d \in cuts[s] : c < d => d - c >= 2
  BY DEF Stream
<1>6. ASSUME NEW k \in 1 .. Len(p)
      PROVE  /\ p[k][1] = (IF Len(h) + k = 1 THEN Handshake ELSE r[Len(h) + k - 1][2]) + 1
             /\ p[k][2] = Min({c \in cuts[s] : c >= p[k][1]})
             /\ p[k][2] \in cuts[s]
  <2>1. /\ p[k][1] = IF k = 1 THEN from ELSE p[k - 1][2] + 1
        /\ p[k][2] = PacketEnd(s, p[k][1])
        /\ p[k][2] \in cuts[s]
    BY DEF ArePackets
  <2>2. CASE k = 1
    <3>1. p[k][1] = EndOf(h) + 1
      BY <2>1, <2>2
    <3>2. p[k][2] = Min({c \in cuts[s] : c >= p[k][1]})
      BY <1>3, <2>1, <3>1, EndIsCut
    <3>3. CASE h = <<>>
      BY <1>2, <2>1, <2>2, <3>1, <3>2, <3>3 DEF EndOf
    <3>4. CASE h # <<>>
      <4>1. Len(h) \in 1 .. Len(h) /\ Len(h) + k - 1 = Len(h) /\ Len(h) + k # 1
        BY <1>2, <2>2, <3>4, EmptySeq
      <4>2. r[Len(h) + k - 1] = h[Len(h)]
        BY <1>2, <4>1
      <4> QED
        BY <2>1, <3>1, <3>2, <3>4, <4>1, <4>2 DEF EndOf
    <3> QED
      BY <3>3, <3>4
  <2>3. CASE k # 1
    <3>1. k - 1 \in 1 .. Len(p) /\ Len(h) + k # 1 /\ Len(h) + (k - 1) = Len(h) + k - 1
      BY <1>2, <2>3
    <3>2. r[Len(h) + k - 1] = p[k - 1] /\ p[k][1] = p[k - 1][2] + 1 /\ p[k - 1][2] \in cuts[s]
      <4>1. p[k - 1][2] \in cuts[s]
        BY <3>1 DEF ArePackets
      <4>2. r[Len(h) + (k - 1)] = p[k - 1]
        BY <1>2, <3>1
      <4> QED
        BY <2>1, <2>3, <3>1, <4>1, <4>2
    <3>3. p[k][1] \in Nat /\ p[k][1] \notin cuts[s]
      BY <1>4, <1>5, <3>2
    <3>4. p[k][2] = Min({c \in cuts[s] : c >= p[k][1]})
      BY <2>1, <3>3, EndIsCut
    <3> QED
      BY <2>1, <3>1, <3>2, <3>4
  <2> QED
    BY <2>2, <2>3
<1>7. InOrder(s, r)
  <2> SUFFICES ASSUME NEW i \in 1 .. Len(r)
               PROVE  /\ r[i][1] = (IF i = 1 THEN Handshake ELSE r[i - 1][2]) + 1
                      /\ r[i][2] = Min({c \in cuts[s] : c >= r[i][1]})
                      /\ r[i][2] \in cuts[s]
    BY DEF InOrder, InOrderOf
  <2>1. CASE i \in 1 .. Len(h)
    <3>1. r[i] = h[i]
      BY <1>2, <2>1
    <3>2. ASSUME i # 1
          PROVE  r[i - 1] = h[i - 1]
      <4>1. i - 1 \in 1 .. Len(h)
        BY <2>1, <3>2
      <4> QED
        BY <1>2, <4>1
    <3> QED
      BY <2>1, <3>1, <3>2 DEF InOrder, InOrderOf
  <2>2. CASE i \notin 1 .. Len(h)
    <3>1. PICK j \in 1 .. Len(p) : Len(h) + j = i
      <4>1. i - Len(h) \in 1 .. Len(p) /\ Len(h) + (i - Len(h)) = i
        BY <1>2, <2>2
      <4> QED
        BY <4>1
    <3>2. r[i] = p[j] /\ r[i - 1] = r[Len(h) + j - 1] /\ (i = 1 <=> Len(h) + j = 1)
      BY <1>2, <3>1
    <3> QED
      BY <1>6, <3>1, <3>2
  <2> QED
    BY <2>1, <2>2
<1>8. EndOf(r) = Rest(from, p) - 1
  <2>1. CASE p = <<>>
    <3>1. r = h
      BY <1>1, <2>1, ConcatEmptySeq
    <3>2. Rest(from, p) = EndOf(h) + 1
      BY <2>1 DEF Rest
    <3> QED
      BY <1>3, <3>1, <3>2
  <2>2. CASE p # <<>>
    <3>1. Len(p) \in 1 .. Len(p) /\ Rest(from, p) = p[Len(p)][2] + 1
      BY <1>2, <2>2, EmptySeq DEF Rest
    <3>2. r[Len(r)] = p[Len(p)] /\ r # <<>>
      BY <1>2, <3>1
    <3>3. p[Len(p)][2] \in Nat
      BY <1>4, <3>1 DEF ArePackets
    <3> QED
      BY <3>1, <3>2, <3>3 DEF EndOf
  <2> QED
    BY <2>1, <2>2
<1> QED
  BY <1>1, <1>2, <1>7, <1>8

(* Packets are handled from the first unit that was not: the rest of the   *)
(* text begins a packet that the text does not hold to its end. *)
Handled(s, to, rest, h) ==
  /\ HandledTo(s) + 1 \in Units /\ to \in Nat /\ HandledTo(s) + 1 <= to /\ to <= Last(s)
  /\ rest \in HandledTo(s) + 1 .. to + 1
  /\ h \in Seq(Units \X Units) /\ InOrder(s, h) /\ EndOf(h) = rest - 1
  /\ rest <= to => rest \in Units /\ \A c \in cuts[s] : c >= rest => c > to
  /\ handled' = [handled EXCEPT ![s] = h]

LEMMA PacketsHandled ==
  ASSUME TypeInv, NEW s \in Sessions, InOrder(s, handled[s]),
         NEW from, from = HandledTo(s) + 1, NEW to \in Nat, from <= to, to <= Last(s),
         handled' = [handled EXCEPT ![s] = handled[s] \o Packets(s, from, to)]
  PROVE  Handled(s, to, Rest(from, Packets(s, from, to)), handled[s] \o Packets(s, from, to))
<1>1. PICK p : p = Packets(s, from, to)
  OBVIOUS
<1>2. PICK rest : rest = Rest(from, p)
  OBVIOUS
<1>3. Stream(s) /\ handled[s] \in Seq(Units \X Units) /\ from = EndOf(handled[s]) + 1
  BY DEF TypeInv, HandledTo, EndOf
<1>4. from \in Units /\ from \in Nat /\ Last(s) \in Nat
  <2>1. EndOf(handled[s]) \in Nat /\ Last(s) \in Units
    BY <1>3, EndFacts, LastFacts
  <2>2. MaxUnits \in Nat
    BY RecvAssumption DEF RecvAssumption
  <2> QED
    BY <1>3, <2>1, <2>2 DEF Units
<1>5. ArePackets(s, from, to, p)
  BY <1>1, <1>3, <1>4, PacketsFacts
<1>6. /\ handled[s] \o p \in Seq(Units \X Units) /\ InOrder(s, handled[s] \o p)
      /\ EndOf(handled[s] \o p) = rest - 1
  BY <1>2, <1>3, <1>5, HandlesInOrder
<1>7. rest \in from .. to + 1
  BY <1>2, <1>5 DEF ArePackets
<1>8. ASSUME rest <= to
      PROVE  rest \in Units /\ \A c \in cuts[s] : c >= rest => c > to
  <2>1. rest \in Units /\ rest \in Nat
    <3>1. Last(s) \in Units
      BY <1>3, LastFacts
    <3> QED
      BY <1>4, <1>7, <1>8, <3>1, RecvAssumption DEF Units, RecvAssumption
  <2>2. rest \notin cuts[s]
    <3>1. EndOf(handled[s] \o p) + 1 \notin cuts[s]
      BY <1>3, <1>6, EndFacts
    <3> QED
      BY <1>6, <2>1, <3>1
  <2>3. ASSUME NEW c \in cuts[s], c >= rest PROVE c > to
    <3>1. c \in Nat /\ c >= rest + 1
      BY <1>3, <2>1, <2>2, <2>3 DEF Stream, Units
    <3>2. CASE rest + 1 <= to
      <4>1. PacketEnd(s, rest) > to
        BY <1>2, <1>5, <3>2 DEF ArePackets
      <4>2. PacketEnd(s, rest) <= c /\ PacketEnd(s, rest) \in Nat
        <5>1. rest + 1 <= Last(s)
          BY <1>4, <2>1, <3>2
        <5> QED
          BY <1>3, <2>1, <3>1, <5>1, PacketEndFacts DEF Units
      <4> QED
        BY <3>1, <4>1, <4>2
    <3>3. CASE ~ rest + 1 <= to
      BY <1>8, <2>1, <3>1, <3>3
    <3> QED
      BY <3>2, <3>3
  <2> QED
    BY <2>1, <2>3
<1> QED
  BY <1>1, <1>2, <1>4, <1>6, <1>7, <1>8 DEF Handled

LEMMA TextEffect ==
  ASSUME TypeInv, UnitsInv, TextInv, NEW s \in Sessions, OnRecvText(s)
  PROVE  \E n, rest, h :
           /\ Reads(s, n) /\ Handled(s, read[s] + n, rest, h)
           /\ pending[s] = NoBuf /\ UNCHANGED undefined
           /\ \/ /\ rest > read[s] + n
                 /\ bufRing' = bufRing \o <<Buf>> /\ UNCHANGED <<pending, text>>
              \/ /\ rest <= read[s] + n
                 /\ pending' = [pending EXCEPT ![s] = Buf]
                 /\ text' = [text EXCEPT ![Buf] = [session |-> s, from |-> rest, to |-> read[s] + n]]
                 /\ UNCHANGED bufRing
<1>1. PICK decrypted \in Units :
        LET from    == read[s] + 1
            to      == read[s] + GetRecvText(s, decrypted)
            packets == Packets(s, from, to)
            rest    == Rest(from, packets)
        IN
        /\ Decrypts(s, decrypted)
        /\ to >= from
        /\ pending[s] = NoBuf
        /\ handled' = [handled EXCEPT ![s] = @ \o packets]
        /\ IF rest > to
           THEN Provide(<<Buf>>) /\ UNCHANGED <<pending, text>>
           ELSE /\ pending' = [pending EXCEPT ![s] = Buf]
                /\ text' = [text EXCEPT ![Buf] = [session |-> s, from |-> rest, to |-> to]]
                /\ UNCHANGED bufRing
        /\ UNCHANGED undefined
  BY DEF OnRecvText
<1>2. PICK n : n = GetRecvText(s, decrypted)
  OBVIOUS
<1>3. PICK from : from = read[s] + 1
  OBVIOUS
<1>4. PICK rest : rest = Rest(from, Packets(s, from, read[s] + n))
  OBVIOUS
<1>5. PICK h : h = handled[s] \o Packets(s, from, read[s] + n)
  OBVIOUS
<1>6. Reads(s, n)
  BY <1>1, <1>2, DecryptsReads
<1>7. /\ pending[s] = NoBuf /\ UNCHANGED undefined
      /\ read[s] + n >= from
      /\ handled' = [handled EXCEPT ![s] = h]
      /\ IF rest > read[s] + n
         THEN Provide(<<Buf>>) /\ UNCHANGED <<pending, text>>
         ELSE /\ pending' = [pending EXCEPT ![s] = Buf]
              /\ text' = [text EXCEPT ![Buf] = [session |-> s, from |-> rest, to |-> read[s] + n]]
              /\ UNCHANGED bufRing
  BY <1>1, <1>2, <1>3, <1>4, <1>5
<1>8. InOrder(s, handled[s]) /\ HandledTo(s) = read[s]
  <2>1. ~ HoldsCutPacket(s) /\ undefined = "no"
    BY <1>6, <1>7 DEF HoldsCutPacket, BufIds, NoBuf, Reads
  <2> QED
    BY <2>1 DEF TextInv, TextOK
<1>9. read[s] \in Nat /\ n \in Nat /\ read[s] + n <= Last(s)
  BY <1>6 DEF Reads, TypeInv, CountersOK
<1>10. Handled(s, read[s] + n, rest, h)
  <2>1. PICK to \in Nat : to = read[s] + n
    BY <1>9
  <2>2. from = HandledTo(s) + 1 /\ from <= to /\ to <= Last(s)
    BY <1>3, <1>7, <1>8, <1>9, <2>1
  <2> QED
    BY <1>4, <1>5, <1>7, <1>8, <2>1, <2>2, PacketsHandled
<1>11. rest \in Int
  BY <1>8, <1>9, <1>10 DEF Handled
<1>12. \/ rest > read[s] + n /\ bufRing' = bufRing \o <<Buf>> /\ UNCHANGED <<pending, text>>
       \/ /\ rest <= read[s] + n
          /\ pending' = [pending EXCEPT ![s] = Buf]
          /\ text' = [text EXCEPT ![Buf] = [session |-> s, from |-> rest, to |-> read[s] + n]]
          /\ UNCHANGED bufRing
  <2>1. CASE rest > read[s] + n
    BY <1>7, <2>1 DEF Provide
  <2>2. CASE ~ rest > read[s] + n
    BY <1>7, <1>9, <1>11, <2>2
  <2> QED
    BY <2>1, <2>2
<1> QED
  BY <1>6, <1>7, <1>10, <1>12

LEMMA AppendsEffect ==
  ASSUME TypeInv, UnitsInv, TextInv, NEW s \in Sessions, OnRecvAppends(s)
  PROVE  \E n, rest, h :
           /\ Reads(s, n) /\ Handled(s, read[s] + n, rest, h)
           /\ HoldsCutPacket(s) /\ UNCHANGED undefined
           /\ \/ /\ rest > read[s] + n
                 /\ bufRing' = bufRing \o <<Buf, pending[s]>>
                 /\ pending' = [pending EXCEPT ![s] = NoBuf]
                 /\ text' = [text EXCEPT ![pending[s]] = <<>>]
              \/ /\ rest <= read[s] + n
                 /\ bufRing' = bufRing \o <<Buf>> /\ UNCHANGED pending
                 /\ text' = [text EXCEPT ![pending[s]] =
                               [session |-> s, from |-> rest, to |-> read[s] + n]]
<1>1. PICK decrypted \in Units :
        LET cut     == text[pending[s]]
            to      == read[s] + GetRecvText(s, decrypted)
            packets == Packets(s, cut.from, to)
            rest    == Rest(cut.from, packets)
        IN
        /\ Decrypts(s, decrypted)
        /\ to > read[s]
        /\ HoldsCutPacket(s)
        /\ handled' = [handled EXCEPT ![s] = @ \o packets]
        /\ IF rest > to
           THEN /\ Provide(<<Buf, pending[s]>>)
                /\ pending' = [pending EXCEPT ![s] = NoBuf]
                /\ text' = [text EXCEPT ![pending[s]] = <<>>]
           ELSE /\ Provide(<<Buf>>)
                /\ pending' = pending
                /\ text' = [text EXCEPT ![pending[s]] = [cut EXCEPT !.from = rest, !.to = to]]
        /\ UNCHANGED undefined
  BY DEF OnRecvAppends
<1>2. PICK n : n = GetRecvText(s, decrypted)
  OBVIOUS
<1>3. PICK cut : cut = text[pending[s]]
  OBVIOUS
<1>4. PICK rest : rest = Rest(cut.from, Packets(s, cut.from, read[s] + n))
  OBVIOUS
<1>5. PICK h : h = handled[s] \o Packets(s, cut.from, read[s] + n)
  OBVIOUS
<1>6. Reads(s, n)
  BY <1>1, <1>2, DecryptsReads
<1>7. /\ HoldsCutPacket(s) /\ UNCHANGED undefined
      /\ read[s] + n > read[s]
      /\ handled' = [handled EXCEPT ![s] = h]
      /\ IF rest > read[s] + n
         THEN /\ Provide(<<Buf, pending[s]>>)
              /\ pending' = [pending EXCEPT ![s] = NoBuf]
              /\ text' = [text EXCEPT ![pending[s]] = <<>>]
         ELSE /\ Provide(<<Buf>>)
              /\ pending' = pending
              /\ text' = [text EXCEPT ![pending[s]] =
                            [cut EXCEPT !.from = rest, !.to = read[s] + n]]
  BY <1>1, <1>2, <1>3, <1>4, <1>5
<1>8. /\ InOrder(s, handled[s]) /\ HandledTo(s) < read[s]
      /\ cut.from = HandledTo(s) + 1 /\ cut.session = s /\ cut \in Text
  <2>1. undefined = "no"
    BY <1>6 DEF Reads
  <2> QED
    BY <1>3, <1>7, <2>1 DEF TextInv, TextOK, HoldsCutPacket, TypeInv, BuffersOK
<1>9. read[s] \in Nat /\ n \in Nat /\ read[s] + n <= Last(s)
  BY <1>6 DEF Reads, TypeInv, CountersOK
<1>10. Handled(s, read[s] + n, rest, h)
  <2>1. PICK to \in Nat : to = read[s] + n
    BY <1>9
  <2>2. HandledTo(s) \in Nat
    <3>1. Stream(s) /\ handled[s] \in Seq(Units \X Units) /\ HandledTo(s) = EndOf(handled[s])
      BY DEF TypeInv, HandledTo, EndOf
    <3> QED
      BY <1>8, <3>1, EndFacts
  <2>3. PICK from : from = HandledTo(s) + 1
    OBVIOUS
  <2>4. from <= to /\ to <= Last(s) /\ from = cut.from
    BY <1>7, <1>8, <1>9, <2>1, <2>2, <2>3
  <2> QED
    BY <1>4, <1>5, <1>7, <1>8, <2>1, <2>3, <2>4, PacketsHandled
<1>11. rest \in Int
  <2>1. rest \in cut.from .. read[s] + n + 1 /\ cut.from \in Units
    BY <1>8, <1>10 DEF Handled
  <2> QED
    BY <2>1 DEF Units
<1>12. [cut EXCEPT !.from = rest, !.to = read[s] + n]
         = [session |-> s, from |-> rest, to |-> read[s] + n]
  <2>1. cut = [session |-> cut.session, from |-> cut.from, to |-> cut.to]
    BY <1>8 DEF Text
  <2>2. PICK f, t : cut = [session |-> s, from |-> f, to |-> t]
    BY <1>8, <2>1
  <2>3. PICK to : to = read[s] + n
    OBVIOUS
  <2>4. PICK c : c = [cut EXCEPT !.from = rest]
    OBVIOUS
  <2>5. c = [session |-> s, from |-> rest, to |-> t]
    BY <2>2, <2>4
  <2>6. [c EXCEPT !.to = to] = [session |-> s, from |-> rest, to |-> to]
    BY <2>5
  <2> QED
    BY <2>3, <2>4, <2>6
<1>13. \/ /\ rest > read[s] + n
          /\ bufRing' = bufRing \o <<Buf, pending[s]>>
          /\ pending' = [pending EXCEPT ![s] = NoBuf]
          /\ text' = [text EXCEPT ![pending[s]] = <<>>]
       \/ /\ rest <= read[s] + n
          /\ bufRing' = bufRing \o <<Buf>> /\ UNCHANGED pending
          /\ text' = [text EXCEPT ![pending[s]] =
                        [session |-> s, from |-> rest, to |-> read[s] + n]]
  <2>1. CASE rest > read[s] + n
    BY <1>7, <2>1 DEF Provide
  <2>2. CASE ~ rest > read[s] + n
    <3>1. rest <= read[s] + n
      BY <1>9, <1>11, <2>2
    <3> QED
      BY <1>7, <1>12, <2>2, <3>1 DEF Provide
  <2> QED
    BY <2>1, <2>2
<1> QED
  BY <1>6, <1>7, <1>10, <1>13

-------------------------------------------------------------------------------
(* Every step preserves the types. *)

LEMMA SameStream ==
  ASSUME TypeInv, cuts' = cuts
  PROVE  /\ cuts' \in [Sessions -> SUBSET Units]
         /\ \A s \in Sessions : Stream(s)' /\ Last(s)' = Last(s)
BY DEF TypeInv, Stream, Last

LEMMA ReadsType ==
  ASSUME TypeInv, NEW s \in Sessions, NEW n, Reads(s, n),
         undefined' \in {"no", "survived", "crashed"}, BuffersOK',
         handled' \in [Sessions -> Seq(Units \X Units)]
  PROVE  TypeInv'
<1>1. UNCHANGED <<cuts, armed, alive>> /\ CountersOK'
  BY DEF Reads
<1>2. closing' \in [Sessions -> BOOLEAN] /\ handshaking' \in [Sessions -> BOOLEAN]
  BY DEF Reads
<1>3. cuts' \in [Sessions -> SUBSET Units] /\ \A t \in Sessions : Stream(t)'
  BY <1>1, SameStream
<1> QED
  BY <1>1, <1>2, <1>3 DEF TypeInv

LEMMA DropsHead ==
  ASSUME TypeInv, cq # <<>>, cq' = Tail(cq)
  PROVE  cq' \in Seq(Cqes)
BY TailFacts DEF TypeInv, BuffersOK

LEMMA KernelRecvType ==
  ASSUME TypeInv, NEW s \in Sessions, KernelRecv(s)
  PROVE  TypeInv'
<1>1. PICK n \in 1 .. Last(s) - received[s] :
        /\ received' = [received EXCEPT ![s] = @ + n]
        /\ cq' = Append(cq, [session |-> s, buf |-> Head(bufRing), units |-> n])
  BY DEF KernelRecv
<1>2. /\ bufRing # <<>> /\ bufRing' = Tail(bufRing)
      /\ UNCHANGED <<cuts, armed, tlsVars, pending, closing, alive, text, handled, undefined>>
  BY DEF KernelRecv
<1>3. cuts' \in [Sessions -> SUBSET Units] /\ \A t \in Sessions : Stream(t)' /\ Last(t)' = Last(t)
  BY <1>2, SameStream
<1>4. received[s] \in Nat /\ Last(s) \in Nat /\ Last(s) \in Units /\ n \in Units /\ n \in Nat
  <2>1. Last(s) \in Units /\ received[s] \in Nat
    BY LastFacts DEF TypeInv, CountersOK
  <2> QED
    BY <1>1, <2>1, RecvAssumption DEF Units, RecvAssumption
<1>5. received[s] + n \in Nat /\ received[s] + n <= Last(s) /\ received[s] <= received[s] + n
  BY <1>1, <1>4
<1>6. CountersOK'
  <2>1. received' \in [Sessions -> Nat]
    BY <1>1, <1>5 DEF TypeInv, CountersOK
  <2>2. ASSUME NEW t \in Sessions PROVE bio'[t] <= received'[t] /\ received'[t] <= Last(t)'
    <3>1. received'[t] = IF t = s THEN received[s] + n ELSE received[t]
      BY <1>1 DEF TypeInv, CountersOK
    <3>2. bio[t] <= received[t] /\ received[t] <= Last(t) /\ bio[t] \in Nat /\ bio' = bio
      BY <1>2 DEF TypeInv, CountersOK, tlsVars
    <3>3. Last(t)' = Last(t)
      BY <1>3
    <3> QED
      BY <1>4, <1>5, <3>1, <3>2, <3>3
  <2> QED
    BY <1>2, <1>3, <2>1, <2>2 DEF TypeInv, CountersOK, tlsVars
<1>7. Head(bufRing) \in BufIds /\ bufRing' \in Seq(BufIds)
  BY <1>2, TailFacts DEF TypeInv, BuffersOK
<1>8. cq' \in Seq(Cqes)
  <2>1. [session |-> s, buf |-> Head(bufRing), units |-> n] \in Cqes
    BY <1>4, <1>7 DEF Cqes
  <2> QED
    BY <1>1, <2>1, AppendFacts DEF TypeInv, BuffersOK
<1> QED
  BY <1>2, <1>3, <1>6, <1>7, <1>8 DEF TypeInv, BuffersOK, tlsVars

LEMMA KernelRecvEndsType ==
  ASSUME TypeInv, NEW s \in Sessions, KernelRecvEnds(s)
  PROVE  TypeInv'
<1>1. /\ armed' = [armed EXCEPT ![s] = FALSE]
      /\ cq' = Append(cq, [session |-> s, buf |-> NoBuf, units |-> 0])
      /\ UNCHANGED <<cuts, received, tlsVars, pending, closing, alive, text, bufRing, handled,
                     undefined>>
  BY DEF KernelRecvEnds
<1>2. cuts' \in [Sessions -> SUBSET Units] /\ \A t \in Sessions : Stream(t)' /\ Last(t)' = Last(t)
  BY <1>1, SameStream
<1>3. cq' \in Seq(Cqes)
  <2>1. [session |-> s, buf |-> NoBuf, units |-> 0] \in Cqes
    BY DEF Cqes
  <2> QED
    BY <1>1, <2>1, AppendFacts DEF TypeInv, BuffersOK
<1>4. CountersOK'
  BY <1>1, <1>2 DEF TypeInv, CountersOK, tlsVars
<1> QED
  BY <1>1, <1>2, <1>3, <1>4 DEF TypeInv, BuffersOK, tlsVars

(* Steps that only take a completion off the queue, or close or remove a   *)
(* session. *)
LEMMA OtherType ==
  ASSUME TypeInv, cq' \in Seq(Cqes), closing' \in [Sessions -> BOOLEAN],
         alive' \in [Sessions -> BOOLEAN],
         UNCHANGED <<cuts, armed, received, tlsVars, pending, text, bufRing, handled, undefined>>
  PROVE  TypeInv'
<1>1. cuts' \in [Sessions -> SUBSET Units] /\ \A t \in Sessions : Stream(t)' /\ Last(t)' = Last(t)
  BY SameStream
<1>2. CountersOK'
  BY <1>1 DEF TypeInv, CountersOK, tlsVars
<1> QED
  BY <1>1, <1>2 DEF TypeInv, BuffersOK, tlsVars

LEMMA HandshakeType ==
  ASSUME TypeInv, UnitsInv, NEW s \in Sessions, OnRecvHandshake(s)
  PROVE  TypeInv'
<1>1. /\ Data /\ cq # <<>> /\ s = Head(cq).session /\ cq' = Tail(cq)
      /\ bio' = [bio EXCEPT ![s] = InBio(s)]
      /\ bufRing' = bufRing \o <<Buf>>
      /\ UNCHANGED <<cuts, armed, received, handshaking, ready, read, pending, alive, text, handled,
                     undefined>>
  BY DEF OnRecvHandshake, Handles, Provide
<1>2. closing' \in [Sessions -> BOOLEAN]
  BY DEF OnRecvHandshake, TypeInv
<1>3. cuts' \in [Sessions -> SUBSET Units] /\ \A t \in Sessions : Stream(t)' /\ Last(t)' = Last(t)
  BY <1>1, SameStream
<1>4. Buf \in BufIds /\ InBio(s) \in Nat /\ InBio(s) <= received[s]
  <2>1. /\ Buf \in BufIds /\ Head(cq).units \in Nat /\ bio[s] + Head(cq).units <= received[s]
        /\ bio[s] \in Nat
    BY <1>1, HeadFacts DEF TypeInv, CountersOK
  <2> QED
    BY <2>1 DEF InBio
<1>5. cq' \in Seq(Cqes) /\ bufRing' \in Seq(BufIds)
  <2>1. <<Buf>> \in Seq(BufIds)
    BY <1>4
  <2> QED
    BY <1>1, <2>1, DropsHead, ConcatFacts DEF TypeInv, BuffersOK
<1>6. CountersOK'
  <2>1. bio' \in [Sessions -> Nat]
    BY <1>1, <1>4 DEF TypeInv, CountersOK
  <2>2. \A t \in Sessions : bio'[t] <= received[t]
    BY <1>1, <1>4 DEF TypeInv, CountersOK
  <2> QED
    BY <1>1, <1>3, <2>1, <2>2 DEF TypeInv, CountersOK
<1> QED
  BY <1>1, <1>2, <1>3, <1>5, <1>6 DEF TypeInv, BuffersOK

LEMMA NoTextType ==
  ASSUME TypeInv, UnitsInv, NEW s \in Sessions, OnRecvNoText(s)
  PROVE  TypeInv' /\ \E n \in Nat : Reads(s, n)
<1>1. PICK decrypted \in Units :
        Decrypts(s, decrypted) /\ UNCHANGED <<pending, text, bufRing, handled, undefined>>
  BY DEF OnRecvNoText
<1>2. PICK n : n = GetRecvText(s, decrypted) /\ Reads(s, n)
  BY <1>1, DecryptsReads
<1>3. BuffersOK'
  <2>1. cq' \in Seq(Cqes)
    BY <1>2, DropsHead DEF Reads
  <2> QED
    BY <1>1, <2>1 DEF TypeInv, BuffersOK
<1>4. TypeInv'
  BY <1>1, <1>2, <1>3, ReadsType DEF TypeInv
<1> QED
  BY <1>2, <1>4 DEF Reads

(* What has been read of a stream is one of its units. *)
LEMMA ReadIsText ==
  ASSUME TypeInv, NEW s \in Sessions
  PROVE  [session |-> s, from |-> read[s], to |-> read[s]] \in Text
<1>1. /\ Last(s) \in Units /\ Handshake \in Nat \ {0} /\ MaxUnits \in Nat
      /\ read[s] \in Nat /\ Handshake <= read[s] /\ read[s] <= Last(s) /\ ready[s] \in Nat
  <2>1. /\ Last(s) \in Units /\ Handshake \in Nat \ {0} /\ MaxUnits \in Nat
    BY LastFacts, RecvAssumption DEF TypeInv, RecvAssumption
  <2>2. /\ read[s] \in Nat /\ ready[s] \in Nat
        /\ Handshake <= read[s] /\ read[s] <= ready[s] /\ ready[s] <= Last(s)
    BY DEF TypeInv, CountersOK
  <2> QED
    BY <2>1, <2>2 DEF Units
<1>2. read[s] \in Units /\ read[s] \in 0 .. MaxUnits
  BY <1>1 DEF Units
<1> QED
  BY <1>2 DEF Text

(* Whichever buffer a text is appended to, the types are kept. *)
LEMMA BlindType ==
  ASSUME TypeInv, NEW s \in Sessions, Buf \in BufIds, cq' \in Seq(Cqes),
         AppendsBlindly(s) \/ AppendsNowhere(s)
  PROVE  BuffersOK' /\ undefined' \in {"survived", "crashed"}
<1>1. CASE AppendsNowhere(s)
  BY <1>1 DEF AppendsNowhere, TypeInv, BuffersOK
<1>2. CASE AppendsBlindly(s)
  <2>1. pending[s] \in BufIds /\ undefined' = "survived"
    BY <1>2 DEF AppendsBlindly
  <2>2. <<Buf>> \in Seq(BufIds) /\ <<Buf, pending[s]>> \in Seq(BufIds)
    BY <2>1
  <2>3. CASE /\ Provide(<<Buf, pending[s]>>)
             /\ pending' = [pending EXCEPT ![s] = NoBuf]
             /\ text' = [text EXCEPT ![pending[s]] = <<>>]
    <3>1. bufRing' \in Seq(BufIds)
      BY <2>2, <2>3, ConcatFacts DEF Provide, TypeInv, BuffersOK
    <3> QED
      BY <2>1, <2>3, <3>1 DEF TypeInv, BuffersOK
  <2>4. CASE /\ Provide(<<Buf>>)
             /\ text' = [text EXCEPT ![pending[s]] =
                           [session |-> s, from |-> read[s], to |-> read[s]]]
             /\ UNCHANGED pending
    <3>1. bufRing' \in Seq(BufIds)
      BY <2>2, <2>4, ConcatFacts DEF Provide, TypeInv, BuffersOK
    <3>2. [session |-> s, from |-> read[s], to |-> read[s]] \in Text
      BY ReadIsText
    <3> QED
      BY <2>1, <2>4, <3>1, <3>2 DEF TypeInv, BuffersOK
  <2> QED
    BY <1>2, <2>1, <2>3, <2>4 DEF AppendsBlindly
<1> QED
  BY <1>1, <1>2

LEMMA GarbageType ==
  ASSUME TypeInv, UnitsInv, NEW s \in Sessions, OnRecvGarbage(s)
  PROVE  TypeInv' /\ undefined' \in {"survived", "crashed"}
<1>1. PICK decrypted \in Units :
        Decrypts(s, decrypted) /\ (AppendsBlindly(s) \/ AppendsNowhere(s)) /\ UNCHANGED handled
  BY DEF OnRecvGarbage
<1>2. PICK n : n = GetRecvText(s, decrypted) /\ Reads(s, n)
  BY <1>1, DecryptsReads
<1>3. Buf \in BufIds /\ cq' \in Seq(Cqes)
  BY <1>2, DropsHead DEF Reads
<1>4. BuffersOK' /\ undefined' \in {"survived", "crashed"}
  BY <1>1, <1>3, BlindType
<1>5. TypeInv'
  BY <1>1, <1>2, <1>4, ReadsType DEF TypeInv
<1> QED
  BY <1>4, <1>5

LEMMA SurvivedType ==
  ASSUME TypeInv, NEW s \in Sessions, OnRecvSurvived(s)
  PROVE  TypeInv' /\ undefined' \in {"survived", "crashed"}
<1>1. /\ cq # <<>> /\ cq' = Tail(cq) /\ undefined = "survived"
      /\ closing' \in [Sessions -> BOOLEAN]
      /\ UNCHANGED <<cuts, armed, received, tlsVars, alive, handled>>
  BY DEF OnRecvSurvived, TypeInv
<1>2. cq' \in Seq(Cqes) /\ (Data => Buf \in BufIds)
  <2>1. Head(cq) \in Cqes
    BY <1>1, TailFacts DEF TypeInv, BuffersOK
  <2> QED
    BY <1>1, <2>1, DropsHead DEF Cqes, Data, Buf
<1>3. BuffersOK' /\ undefined' \in {"survived", "crashed"}
  <2>1. CASE UNCHANGED <<pending, text, bufRing, undefined>>
    BY <1>1, <1>2, <2>1 DEF TypeInv, BuffersOK
  <2>2. CASE Data /\ Provide(<<Buf>>) /\ UNCHANGED <<pending, text, undefined>>
    <3>1. <<Buf>> \in Seq(BufIds)
      BY <1>2, <2>2
    <3>2. bufRing' \in Seq(BufIds)
      BY <2>2, <3>1, ConcatFacts DEF Provide, TypeInv, BuffersOK
    <3> QED
      BY <1>1, <1>2, <2>2, <3>2 DEF TypeInv, BuffersOK
  <2>3. CASE /\ Data
             /\ pending' = [pending EXCEPT ![s] = Buf]
             /\ text' = [text EXCEPT ![Buf] = [session |-> s, from |-> read[s], to |-> read[s]]]
             /\ UNCHANGED <<bufRing, undefined>>
    <3>1. [session |-> s, from |-> read[s], to |-> read[s]] \in Text
      BY ReadIsText
    <3> QED
      BY <1>1, <1>2, <2>3, <3>1 DEF TypeInv, BuffersOK
  <2>4. CASE Data /\ (AppendsBlindly(s) \/ AppendsNowhere(s))
    BY <1>2, <2>4, BlindType
  <2> QED
    BY <2>1, <2>2, <2>3, <2>4 DEF OnRecvSurvived
<1>4. cuts' \in [Sessions -> SUBSET Units] /\ \A t \in Sessions : Stream(t)' /\ Last(t)' = Last(t)
  BY <1>1, SameStream
<1>5. CountersOK'
  BY <1>1, <1>4 DEF TypeInv, CountersOK, tlsVars
<1> QED
  BY <1>1, <1>3, <1>4, <1>5 DEF TypeInv, tlsVars

(* What is put into the pending buffer is a text of the session. *)
LEMMA RestIsText ==
  ASSUME TypeInv, NEW s \in Sessions, NEW to, NEW rest, NEW h, Handled(s, to, rest, h), rest <= to
  PROVE  [session |-> s, from |-> rest, to |-> to] \in Text
<1>1. Last(s) \in Units /\ rest \in Units /\ to \in Nat /\ to <= Last(s)
  BY LastFacts DEF TypeInv, Handled
<1>2. to \in 0 .. MaxUnits
  BY <1>1, RecvAssumption DEF Units, RecvAssumption
<1> QED
  BY <1>1, <1>2 DEF Text

LEMMA HandledType ==
  ASSUME TypeInv, NEW s \in Sessions, NEW to, NEW rest, NEW h, Handled(s, to, rest, h)
  PROVE  handled' \in [Sessions -> Seq(Units \X Units)]
BY DEF TypeInv, Handled

LEMMA TextType ==
  ASSUME TypeInv, UnitsInv, TextInv, NEW s \in Sessions, OnRecvText(s)
  PROVE  TypeInv'
<1>1. PICK n, rest, h :
        /\ Reads(s, n) /\ Handled(s, read[s] + n, rest, h)
        /\ pending[s] = NoBuf /\ UNCHANGED undefined
        /\ \/ /\ rest > read[s] + n
              /\ bufRing' = bufRing \o <<Buf>> /\ UNCHANGED <<pending, text>>
           \/ /\ rest <= read[s] + n
              /\ pending' = [pending EXCEPT ![s] = Buf]
              /\ text' = [text EXCEPT ![Buf] = [session |-> s, from |-> rest, to |-> read[s] + n]]
              /\ UNCHANGED bufRing
  BY TextEffect
<1>2. Buf \in BufIds /\ <<Buf>> \in Seq(BufIds) /\ cq' \in Seq(Cqes)
  BY <1>1, DropsHead DEF Reads
<1>3. BuffersOK'
  <2>1. CASE bufRing' = bufRing \o <<Buf>> /\ UNCHANGED <<pending, text>>
    <3>1. bufRing' \in Seq(BufIds)
      BY <1>2, <2>1, ConcatFacts DEF TypeInv, BuffersOK
    <3> QED
      BY <1>2, <2>1, <3>1 DEF TypeInv, BuffersOK
  <2>2. CASE /\ rest <= read[s] + n
             /\ pending' = [pending EXCEPT ![s] = Buf]
             /\ text' = [text EXCEPT ![Buf] = [session |-> s, from |-> rest, to |-> read[s] + n]]
             /\ UNCHANGED bufRing
    <3>1. [session |-> s, from |-> rest, to |-> read[s] + n] \in Text
      BY <1>1, <2>2, RestIsText
    <3>2. text' \in [BufIds -> Text \cup {<<>>}]
      BY <1>2, <2>2, <3>1 DEF TypeInv, BuffersOK
    <3>3. pending' \in [Sessions -> BufIds \cup {NoBuf} \cup Garbage]
      BY <1>2, <2>2 DEF TypeInv, BuffersOK
    <3> QED
      BY <1>2, <2>2, <3>2, <3>3 DEF TypeInv, BuffersOK
  <2> QED
    BY <1>1, <2>1, <2>2
<1>4. /\ handled' \in [Sessions -> Seq(Units \X Units)]
      /\ undefined' \in {"no", "survived", "crashed"}
  BY <1>1, HandledType DEF TypeInv
<1> QED
  BY <1>1, <1>3, <1>4, ReadsType

LEMMA AppendsType ==
  ASSUME TypeInv, UnitsInv, TextInv, NEW s \in Sessions, OnRecvAppends(s)
  PROVE  TypeInv'
<1>1. PICK n, rest, h :
        /\ Reads(s, n) /\ Handled(s, read[s] + n, rest, h)
        /\ HoldsCutPacket(s) /\ UNCHANGED undefined
        /\ \/ /\ rest > read[s] + n
              /\ bufRing' = bufRing \o <<Buf, pending[s]>>
              /\ pending' = [pending EXCEPT ![s] = NoBuf]
              /\ text' = [text EXCEPT ![pending[s]] = <<>>]
           \/ /\ rest <= read[s] + n
              /\ bufRing' = bufRing \o <<Buf>> /\ UNCHANGED pending
              /\ text' = [text EXCEPT ![pending[s]] =
                            [session |-> s, from |-> rest, to |-> read[s] + n]]
  BY AppendsEffect
<1>2. Buf \in BufIds /\ pending[s] \in BufIds /\ cq' \in Seq(Cqes)
  BY <1>1, DropsHead DEF Reads, HoldsCutPacket
<1>3. <<Buf>> \in Seq(BufIds) /\ <<Buf, pending[s]>> \in Seq(BufIds)
  BY <1>2
<1>4. BuffersOK'
  <2>1. CASE /\ bufRing' = bufRing \o <<Buf, pending[s]>>
             /\ pending' = [pending EXCEPT ![s] = NoBuf]
             /\ text' = [text EXCEPT ![pending[s]] = <<>>]
    <3>1. bufRing' \in Seq(BufIds)
      BY <1>3, <2>1, ConcatFacts DEF TypeInv, BuffersOK
    <3>2. text' \in [BufIds -> Text \cup {<<>>}]
      BY <1>2, <2>1 DEF TypeInv, BuffersOK
    <3>3. pending' \in [Sessions -> BufIds \cup {NoBuf} \cup Garbage]
      BY <2>1 DEF TypeInv, BuffersOK
    <3> QED
      BY <1>2, <3>1, <3>2, <3>3 DEF BuffersOK
  <2>2. CASE /\ rest <= read[s] + n
             /\ bufRing' = bufRing \o <<Buf>> /\ UNCHANGED pending
             /\ text' = [text EXCEPT ![pending[s]] =
                           [session |-> s, from |-> rest, to |-> read[s] + n]]
    <3>1. [session |-> s, from |-> rest, to |-> read[s] + n] \in Text
      BY <1>1, <2>2, RestIsText
    <3>2. text' \in [BufIds -> Text \cup {<<>>}]
      BY <1>2, <2>2, <3>1 DEF TypeInv, BuffersOK
    <3>3. bufRing' \in Seq(BufIds)
      BY <1>3, <2>2, ConcatFacts DEF TypeInv, BuffersOK
    <3> QED
      BY <1>2, <2>2, <3>2, <3>3 DEF TypeInv, BuffersOK
  <2> QED
    BY <1>1, <2>1, <2>2
<1>5. /\ handled' \in [Sessions -> Seq(Units \X Units)]
      /\ undefined' \in {"no", "survived", "crashed"}
  BY <1>1, HandledType DEF TypeInv
<1> QED
  BY <1>1, <1>4, <1>5, ReadsType

LEMMA NextTypeInv ==
  ASSUME TypeInv, undefined = "no" => UnitsInv /\ OwnerInv /\ TextInv, Next
  PROVE  TypeInv'
<1>1. ASSUME NEW s \in Sessions, KernelRecv(s) \/ KernelRecvEnds(s) PROVE TypeInv'
  BY <1>1, KernelRecvType, KernelRecvEndsType
<1>2. ASSUME NEW s \in Sessions, OnRecvEnd(s) \/ OnRecvBioFails(s) PROVE TypeInv'
  <2>1. /\ cq # <<>> /\ cq' = Tail(cq) /\ closing' = [closing EXCEPT ![s] = TRUE]
        /\ UNCHANGED <<cuts, armed, received, tlsVars, pending, alive, text, bufRing, handled,
                       undefined>>
    BY <1>2 DEF OnRecvEnd, OnRecvBioFails, Handles
  <2>2. cq' \in Seq(Cqes) /\ closing' \in [Sessions -> BOOLEAN] /\ alive' \in [Sessions -> BOOLEAN]
    BY <2>1, DropsHead DEF TypeInv
  <2> QED
    BY <2>1, <2>2, OtherType
<1>3. ASSUME NEW s \in Sessions, OnRecvHandshake(s) PROVE TypeInv'
  BY <1>3, HandshakeType DEF OnRecvHandshake, Handles
<1>4. ASSUME NEW s \in Sessions, OnRecvNoText(s) \/ OnRecvGarbage(s) PROVE TypeInv'
  BY <1>4, NoTextType, GarbageType DEF OnRecvNoText, OnRecvGarbage, Decrypts, Handles
<1>5. ASSUME NEW s \in Sessions, OnRecvText(s) \/ OnRecvAppends(s) PROVE TypeInv'
  BY <1>5, TextType, AppendsType DEF OnRecvText, OnRecvAppends, Decrypts, Handles
<1>6. ASSUME NEW s \in Sessions, RemoveSession(s) PROVE TypeInv'
  <2>1. /\ alive' = [alive EXCEPT ![s] = FALSE]
        /\ UNCHANGED <<cuts, armed, received, tlsVars, pending, closing, text, bufRing, cq, handled,
                       undefined>>
    BY <1>6 DEF RemoveSession
  <2>2. cq' \in Seq(Cqes) /\ closing' \in [Sessions -> BOOLEAN] /\ alive' \in [Sessions -> BOOLEAN]
    BY <2>1 DEF TypeInv, BuffersOK
  <2> QED
    BY <2>1, <2>2, OtherType
<1>7. ASSUME Stale PROVE TypeInv'
  <2>1. /\ cq # <<>> /\ cq' = Tail(cq)
        /\ UNCHANGED <<cuts, armed, received, tlsVars, pending, closing, alive, text, bufRing,
                       handled, undefined>>
    BY <1>7 DEF Stale
  <2>2. cq' \in Seq(Cqes) /\ closing' \in [Sessions -> BOOLEAN] /\ alive' \in [Sessions -> BOOLEAN]
    BY <2>1, DropsHead DEF TypeInv
  <2> QED
    BY <2>1, <2>2, OtherType
<1>8. ASSUME NEW s \in Sessions, OnRecvSurvived(s) PROVE TypeInv'
  BY <1>8, SurvivedType
<1> QED
  BY <1>1, <1>2, <1>3, <1>4, <1>5, <1>6, <1>7, <1>8 DEF Next, OnRecv

-------------------------------------------------------------------------------
(* What has been received is written to the BIO in order. *)

LEMMA CqeFacts ==
  ASSUME TypeInv, NEW i \in 1 .. Len(cq)
  PROVE  /\ cq[i] \in Cqes /\ cq[i].session \in Sessions /\ cq[i].units \in Nat
         /\ cq[i].buf \in BufIds \cup {NoBuf}
         /\ bio[cq[i].session] \in Nat /\ received[cq[i].session] \in Nat
<1>1. cq[i] \in Cqes
  BY ElementOfSeq DEF TypeInv, BuffersOK
<1>2. cq[i].session \in Sessions /\ cq[i].units \in Nat /\ cq[i].buf \in BufIds \cup {NoBuf}
  BY <1>1 DEF Cqes, Units
<1> QED
  BY <1>1, <1>2 DEF TypeInv, CountersOK

LEMMA UnitsAppended ==
  ASSUME TypeInv, UnitsInv, NEW s \in Sessions, NEW n \in Nat, NEW e \in Cqes,
         e.session = s, e.units = n, cq' = Append(cq, e), bio' = bio,
         \A t \in Sessions : received'[t] = IF t = s THEN received[s] + n ELSE received[t]
  PROVE  UnitsInv'
<1>1. PICK u \in [1 .. Len(cq) -> Nat] :
        /\ \A i \in 1 .. Len(cq) :
             bio[cq[i].session] + cq[i].units <= u[i] /\ u[i] <= received[cq[i].session]
        /\ \A i, j \in 1 .. Len(cq) :
             i < j /\ cq[i].session = cq[j].session => u[i] + cq[j].units <= u[j]
  BY DEF UnitsInv
<1>2. /\ Len(cq') = Len(cq) + 1 /\ Len(cq) \in Nat /\ cq'[Len(cq) + 1] = e
      /\ \A i \in 1 .. Len(cq) : cq'[i] = cq[i]
  BY AppendFacts DEF TypeInv, BuffersOK
<1>3. bio[s] \in Nat /\ received[s] \in Nat /\ bio[s] <= received[s]
  BY DEF TypeInv, CountersOK
<1>4. PICK w : w = [i \in 1 .. Len(cq) + 1 |-> IF i = Len(cq) + 1 THEN received[s] + n ELSE u[i]]
  OBVIOUS
<1>5. w \in [1 .. Len(cq') -> Nat]
  BY <1>1, <1>2, <1>3, <1>4
<1>6. \A i \in 1 .. Len(cq) : w[i] = u[i] /\ u[i] \in Nat
  BY <1>1, <1>2, <1>4
<1>7. w[Len(cq) + 1] = received[s] + n
  BY <1>2, <1>4
<1>8. ASSUME NEW i \in 1 .. Len(cq')
      PROVE  bio'[cq'[i].session] + cq'[i].units <= w[i] /\ w[i] <= received'[cq'[i].session]
  <2>1. CASE i \in 1 .. Len(cq)
    <3>1. cq'[i] = cq[i] /\ cq[i].session \in Sessions /\ received[cq[i].session] \in Nat
      BY <1>2, <2>1, CqeFacts
    <3>2. received[cq[i].session] <= received'[cq[i].session] /\ received'[cq[i].session] \in Nat
      BY <1>3, <3>1
    <3> QED
      BY <1>1, <1>6, <2>1, <3>1, <3>2
  <2>2. CASE i = Len(cq) + 1
    BY <1>2, <1>3, <1>7, <2>2
  <2> QED
    BY <1>2, <2>1, <2>2
<1>9. ASSUME NEW i \in 1 .. Len(cq'), NEW j \in 1 .. Len(cq'), i < j,
             cq'[i].session = cq'[j].session
      PROVE  w[i] + cq'[j].units <= w[j]
  <2>1. i \in 1 .. Len(cq) /\ cq'[i] = cq[i]
    BY <1>2, <1>9
  <2>2. CASE j \in 1 .. Len(cq)
    BY <1>1, <1>2, <1>6, <1>9, <2>1, <2>2
  <2>3. CASE j = Len(cq) + 1
    <3>1. cq[i].session = s /\ w[i] <= received[s] /\ w[i] \in Nat
      BY <1>1, <1>2, <1>6, <1>9, <2>1, <2>3
    <3> QED
      BY <1>2, <1>3, <1>7, <2>3, <3>1
  <2> QED
    BY <1>2, <2>2, <2>3
<1> QED
  BY <1>5, <1>8, <1>9 DEF UnitsInv

LEMMA UnitsTaken ==
  ASSUME TypeInv, UnitsInv, cq # <<>>, cq' = Tail(cq), received' = received,
         \A t \in Sessions : bio'[t] \in Nat /\
           bio'[t] <= IF t = Head(cq).session THEN bio[t] + Head(cq).units ELSE bio[t]
  PROVE  UnitsInv'
<1>1. PICK u \in [1 .. Len(cq) -> Nat] :
        /\ \A i \in 1 .. Len(cq) :
             bio[cq[i].session] + cq[i].units <= u[i] /\ u[i] <= received[cq[i].session]
        /\ \A i, j \in 1 .. Len(cq) :
             i < j /\ cq[i].session = cq[j].session => u[i] + cq[j].units <= u[j]
  BY DEF UnitsInv
<1>2. /\ Len(cq) \in Nat \ {0} /\ Head(cq) = cq[1] /\ Len(cq') = Len(cq) - 1
      /\ \A i \in 1 .. Len(cq') : cq'[i] = cq[i + 1] /\ i + 1 \in 1 .. Len(cq) /\ i + 1 # 1
  BY TailFacts DEF TypeInv, BuffersOK
<1>3. PICK w : w = [i \in 1 .. Len(cq') |-> u[i + 1]]
  OBVIOUS
<1>4. w \in [1 .. Len(cq') -> Nat]
  BY <1>1, <1>2, <1>3
<1>5. ASSUME NEW i \in 1 .. Len(cq')
      PROVE  bio'[cq'[i].session] + cq'[i].units <= w[i] /\ w[i] <= received'[cq'[i].session]
  <2>1. PICK j \in 1 .. Len(cq) : j = i + 1 /\ 1 < j
    BY <1>2
  <2>2. cq'[i] = cq[j] /\ w[i] = u[j] /\ u[j] \in Nat
    BY <1>1, <1>2, <1>3, <2>1
  <2>3. /\ cq[j].session \in Sessions /\ cq[j].units \in Nat /\ bio[cq[j].session] \in Nat
        /\ bio'[cq[j].session] \in Nat
    BY CqeFacts
  <2>4. bio'[cq[j].session] + cq[j].units <= u[j]
    <3>1. CASE cq[j].session = cq[1].session
      <4>1. 1 \in 1 .. Len(cq) /\ u[1] \in Nat /\ cq[1].units \in Nat
        BY <1>1, <1>2, CqeFacts
      <4>2. bio[cq[1].session] + cq[1].units <= u[1] /\ u[1] + cq[j].units <= u[j]
        BY <1>1, <2>1, <3>1, <4>1
      <4>3. bio'[cq[j].session] <= bio[cq[j].session] + cq[1].units
        BY <1>2, <2>3, <3>1
      <4> QED
        BY <2>2, <2>3, <3>1, <4>1, <4>2, <4>3
    <3>2. CASE cq[j].session # cq[1].session
      <4>1. bio'[cq[j].session] <= bio[cq[j].session]
        BY <1>2, <2>3, <3>2
      <4>2. bio[cq[j].session] + cq[j].units <= u[j]
        BY <1>1
      <4> QED
        BY <2>2, <2>3, <4>1, <4>2
    <3> QED
      BY <3>1, <3>2
  <2>5. u[j] <= received[cq[j].session]
    BY <1>1
  <2> QED
    BY <2>2, <2>4, <2>5
<1>6. ASSUME NEW i \in 1 .. Len(cq'), NEW j \in 1 .. Len(cq'), i < j,
             cq'[i].session = cq'[j].session
      PROVE  w[i] + cq'[j].units <= w[j]
  <2>1. PICK k \in 1 .. Len(cq), l \in 1 .. Len(cq) : k = i + 1 /\ l = j + 1 /\ k < l
    BY <1>2, <1>6
  <2>2. cq'[i] = cq[k] /\ cq'[j] = cq[l] /\ w[i] = u[k] /\ w[j] = u[l]
    BY <1>2, <1>3, <2>1
  <2> QED
    BY <1>1, <1>6, <2>1, <2>2
<1> QED
  BY <1>4, <1>5, <1>6 DEF UnitsInv

LEMMA NextUnitsInv ==
  ASSUME TypeInv, UnitsInv, TextInv, undefined' = "no", Next
  PROVE  UnitsInv'
<1>1. ASSUME NEW s \in Sessions, KernelRecv(s) PROVE UnitsInv'
  <2>1. PICK n \in 1 .. Last(s) - received[s] :
          /\ received' = [received EXCEPT ![s] = @ + n]
          /\ cq' = Append(cq, [session |-> s, buf |-> Head(bufRing), units |-> n])
    BY <1>1 DEF KernelRecv
  <2>2. Last(s) \in Units /\ received[s] \in Nat /\ n \in Nat /\ n \in Units
    <3>1. Last(s) \in Units /\ received[s] \in Nat
      BY LastFacts DEF TypeInv, CountersOK
    <3> QED
      BY <2>1, <3>1, RecvAssumption DEF Units, RecvAssumption
  <2>3. bufRing # <<>> /\ bio' = bio
    BY <1>1 DEF KernelRecv, tlsVars
  <2>4. Head(bufRing) \in BufIds
    BY <2>3, TailFacts DEF TypeInv, BuffersOK
  <2>5. PICK e \in Cqes : e = [session |-> s, buf |-> Head(bufRing), units |-> n]
    BY <2>2, <2>4 DEF Cqes
  <2>6. e.session = s /\ e.units = n /\ cq' = Append(cq, e)
    BY <2>1, <2>5
  <2>7. \A t \in Sessions : received'[t] = IF t = s THEN received[s] + n ELSE received[t]
    BY <2>1 DEF TypeInv, CountersOK
  <2> QED
    BY <2>2, <2>3, <2>6, <2>7, UnitsAppended
<1>2. ASSUME NEW s \in Sessions, KernelRecvEnds(s) PROVE UnitsInv'
  <2>1. bio' = bio /\ received' = received
    BY <1>2 DEF KernelRecvEnds, tlsVars
  <2>2. PICK e \in Cqes : e = [session |-> s, buf |-> NoBuf, units |-> 0]
    BY DEF Cqes
  <2>3. e.session = s /\ e.units = 0 /\ cq' = Append(cq, e)
    BY <1>2, <2>2 DEF KernelRecvEnds
  <2>4. \A t \in Sessions : received'[t] = IF t = s THEN received[s] + 0 ELSE received[t]
    BY <2>1 DEF TypeInv, CountersOK
  <2> QED
    BY <2>1, <2>3, <2>4, UnitsAppended
<1>3. ASSUME cq # <<>>, cq' = Tail(cq), UNCHANGED <<received, bio>> PROVE UnitsInv'
  <2>1. Head(cq).units \in Nat
    BY <1>3, HeadFacts
  <2>2. \A t \in Sessions : bio'[t] \in Nat /\
          bio'[t] <= IF t = Head(cq).session THEN bio[t] + Head(cq).units ELSE bio[t]
    BY <1>3, <2>1 DEF TypeInv, CountersOK
  <2> QED
    BY <1>3, <2>2, UnitsTaken
<1>4. ASSUME NEW s \in Sessions, OnRecvHandshake(s) PROVE UnitsInv'
  <2>1. /\ cq # <<>> /\ s = Head(cq).session /\ cq' = Tail(cq) /\ received' = received
        /\ bio' = [bio EXCEPT ![s] = InBio(s)]
    BY <1>4 DEF OnRecvHandshake, Handles
  <2>2. Head(cq).units \in Nat
    BY <2>1, HeadFacts
  <2>3. \A t \in Sessions : bio'[t] \in Nat /\
          bio'[t] <= IF t = Head(cq).session THEN bio[t] + Head(cq).units ELSE bio[t]
    BY <2>1, <2>2 DEF InBio, TypeInv, CountersOK
  <2> QED
    BY <2>1, <2>3, UnitsTaken
<1>5. ASSUME NEW s \in Sessions, NEW n, Reads(s, n) PROVE UnitsInv'
  <2>1. cq # <<>> /\ s = Head(cq).session /\ cq' = Tail(cq) /\ received' = received
    BY <1>5 DEF Reads
  <2>2. Head(cq).units \in Nat
    BY <2>1, HeadFacts
  <2>3. \A t \in Sessions : bio'[t] = IF t = s THEN bio[s] + Head(cq).units ELSE bio[t]
    BY <1>5 DEF Reads
  <2>4. \A t \in Sessions : bio'[t] \in Nat /\
          bio'[t] <= IF t = Head(cq).session THEN bio[t] + Head(cq).units ELSE bio[t]
    BY <2>1, <2>2, <2>3 DEF TypeInv, CountersOK
  <2> QED
    BY <2>1, <2>4, UnitsTaken
<1>6. ASSUME NEW s \in Sessions, OnRecv(s) PROVE UnitsInv'
  <2>1. CASE OnRecvEnd(s) \/ OnRecvBioFails(s)
    BY <1>3, <2>1 DEF OnRecvEnd, OnRecvBioFails, Handles, tlsVars
  <2>2. CASE OnRecvNoText(s)
    BY <1>5, <2>2, NoTextType
  <2>3. CASE OnRecvText(s)
    <3>1. \E n : Reads(s, n)
      BY <2>3, TextEffect
    <3> QED
      BY <1>5, <3>1
  <2>4. CASE OnRecvAppends(s)
    <3>1. \E n : Reads(s, n)
      BY <2>4, AppendsEffect
    <3> QED
      BY <1>5, <3>1
  <2>5. ~ OnRecvGarbage(s) /\ ~ OnRecvSurvived(s)
    BY GarbageType, SurvivedType
  <2> QED
    BY <1>4, <1>6, <2>1, <2>2, <2>3, <2>4, <2>5 DEF OnRecv
<1>7. ASSUME NEW s \in Sessions, RemoveSession(s) PROVE UnitsInv'
  BY <1>7 DEF RemoveSession, tlsVars, UnitsInv
<1>8. ASSUME Stale PROVE UnitsInv'
  BY <1>3, <1>8 DEF Stale, tlsVars
<1> QED
  BY <1>1, <1>2, <1>6, <1>7, <1>8 DEF Next

-------------------------------------------------------------------------------
(* A buffer stays in one place. *)

LEMMA TakenQueue ==
  ASSUME TypeInv, OwnerInv, cq # <<>>, cq' = Tail(cq)
  PROVE  /\ \A i, j \in 1 .. Len(cq') : cq'[i].buf = cq'[j].buf /\ cq'[i].buf # NoBuf => i = j
         /\ \A i \in 1 .. Len(bufRing), j \in 1 .. Len(cq') : bufRing[i] # cq'[j].buf
         /\ \A b \in BufIds : text[b] # <<>> => \A i \in 1 .. Len(cq') : cq'[i].buf # b
         /\ Data => /\ Buf \in BufIds /\ text[Buf] = <<>>
                    /\ \A i \in 1 .. Len(cq') : cq'[i].buf # Buf
                    /\ \A i \in 1 .. Len(bufRing) : bufRing[i] # Buf
<1>1. /\ Len(cq) \in Nat \ {0} /\ Head(cq) = cq[1] /\ Len(cq') = Len(cq) - 1
      /\ \A i \in 1 .. Len(cq') : cq'[i] = cq[i + 1] /\ i + 1 \in 1 .. Len(cq) /\ i + 1 # 1
  BY TailFacts DEF TypeInv, BuffersOK
<1>2. \A i \in 1 .. Len(cq') : \E k \in 1 .. Len(cq) : k = i + 1 /\ k # 1 /\ cq'[i] = cq[k]
  BY <1>1
<1>3. ASSUME NEW i \in 1 .. Len(cq'), NEW j \in 1 .. Len(cq'),
             cq'[i].buf = cq'[j].buf, cq'[i].buf # NoBuf
      PROVE  i = j
  <2>1. PICK k \in 1 .. Len(cq) : k = i + 1 /\ cq'[i] = cq[k]
    BY <1>2
  <2>2. PICK l \in 1 .. Len(cq) : l = j + 1 /\ cq'[j] = cq[l]
    BY <1>2
  <2>3. k = l
    BY <1>3, <2>1, <2>2 DEF OwnerInv
  <2> QED
    BY <2>1, <2>2, <2>3
<1>4. \A i \in 1 .. Len(bufRing), j \in 1 .. Len(cq') : bufRing[i] # cq'[j].buf
  BY <1>2 DEF OwnerInv
<1>5. \A b \in BufIds : text[b] # <<>> => \A i \in 1 .. Len(cq') : cq'[i].buf # b
  BY <1>2 DEF OwnerInv
<1>6. ASSUME Data
      PROVE  /\ Buf \in BufIds /\ text[Buf] = <<>>
             /\ \A i \in 1 .. Len(cq') : cq'[i].buf # Buf
             /\ \A i \in 1 .. Len(bufRing) : bufRing[i] # Buf
  <2>1. 1 \in 1 .. Len(cq) /\ Buf = cq[1].buf /\ Buf # NoBuf
    BY <1>1, <1>6 DEF Data, Buf
  <2>2. Buf \in BufIds
    BY <2>1, CqeFacts
  <2>3. \A i \in 1 .. Len(cq') : cq'[i].buf # Buf
    BY <1>2, <2>1 DEF OwnerInv
  <2> QED
    BY <2>1, <2>2, <2>3 DEF OwnerInv
<1> QED
  BY <1>3, <1>4, <1>5, <1>6

LEMMA OwnerTaken ==
  ASSUME TypeInv, OwnerInv, cq # <<>>, cq' = Tail(cq), UNCHANGED <<pending, text, bufRing>>
  PROVE  OwnerInv'
<1>1. /\ \A i, j \in 1 .. Len(cq') : cq'[i].buf = cq'[j].buf /\ cq'[i].buf # NoBuf => i = j
      /\ \A i \in 1 .. Len(bufRing), j \in 1 .. Len(cq') : bufRing[i] # cq'[j].buf
      /\ \A b \in BufIds : text[b] # <<>> => \A i \in 1 .. Len(cq') : cq'[i].buf # b
  BY TakenQueue
<1> QED
  BY <1>1 DEF OwnerInv

(* The buffer returns to the ring. *)
LEMMA OwnerReturned ==
  ASSUME TypeInv, OwnerInv, Data, cq # <<>>, cq' = Tail(cq), UNCHANGED pending,
         bufRing' = bufRing \o <<Buf>>,
         \A b \in BufIds : text'[b] # <<>> => text[b] # <<>> /\ text'[b].session = text[b].session
  PROVE  OwnerInv'
<1>1. /\ \A i, j \in 1 .. Len(cq') : cq'[i].buf = cq'[j].buf /\ cq'[i].buf # NoBuf => i = j
      /\ \A i \in 1 .. Len(bufRing), j \in 1 .. Len(cq') : bufRing[i] # cq'[j].buf
      /\ \A b \in BufIds : text[b] # <<>> => \A i \in 1 .. Len(cq') : cq'[i].buf # b
      /\ Buf \in BufIds /\ text[Buf] = <<>>
      /\ \A i \in 1 .. Len(cq') : cq'[i].buf # Buf
      /\ \A i \in 1 .. Len(bufRing) : bufRing[i] # Buf
  BY TakenQueue
<1>2. /\ Len(bufRing) \in Nat /\ Len(bufRing') = Len(bufRing) + 1
      /\ \A i \in 1 .. Len(bufRing) : bufRing'[i] = bufRing[i]
      /\ bufRing'[Len(bufRing) + 1] = Buf
  <2>1. <<Buf>> \in Seq(BufIds) /\ Len(<<Buf>>) = 1 /\ <<Buf>>[1] = Buf
    BY <1>1
  <2> QED
    BY <2>1, ConcatFacts DEF TypeInv, BuffersOK
<1>3. \A i \in 1 .. Len(bufRing') :
        \/ i \in 1 .. Len(bufRing) /\ bufRing'[i] = bufRing[i]
        \/ i = Len(bufRing) + 1 /\ bufRing'[i] = Buf
  BY <1>2
<1>4. \A i, j \in 1 .. Len(bufRing') : bufRing'[i] = bufRing'[j] => i = j
  BY <1>1, <1>3 DEF OwnerInv
<1>5. ASSUME NEW i \in 1 .. Len(bufRing'), NEW j \in 1 .. Len(cq')
      PROVE  bufRing'[i] # cq'[j].buf
  <2>1. CASE i \in 1 .. Len(bufRing) /\ bufRing'[i] = bufRing[i]
    BY <1>1, <2>1
  <2>2. CASE bufRing'[i] = Buf
    BY <1>1, <2>2
  <2> QED
    BY <1>3, <2>1, <2>2
<1>6. ASSUME NEW b \in BufIds, text'[b] # <<>>
      PROVE  /\ pending'[text'[b].session] = b
             /\ \A i \in 1 .. Len(bufRing') : bufRing'[i] # b
             /\ \A i \in 1 .. Len(cq') : cq'[i].buf # b
  <2>1. text[b] # <<>> /\ text'[b].session = text[b].session /\ b # Buf
    BY <1>1, <1>6
  <2> QED
    BY <1>1, <1>3, <2>1 DEF OwnerInv
<1> QED
  BY <1>1, <1>4, <1>5, <1>6 DEF OwnerInv

(* The buffer is kept, with the packet that was cut. *)
LEMMA OwnerKept ==
  ASSUME TypeInv, OwnerInv, Data, cq # <<>>, cq' = Tail(cq), UNCHANGED bufRing,
         NEW s \in Sessions, pending[s] = NoBuf, pending' = [pending EXCEPT ![s] = Buf],
         NEW r \in Text, r.session = s, text' = [text EXCEPT ![Buf] = r]
  PROVE  OwnerInv'
<1>1. /\ \A i, j \in 1 .. Len(cq') : cq'[i].buf = cq'[j].buf /\ cq'[i].buf # NoBuf => i = j
      /\ \A i \in 1 .. Len(bufRing), j \in 1 .. Len(cq') : bufRing[i] # cq'[j].buf
      /\ \A b \in BufIds : text[b] # <<>> => \A i \in 1 .. Len(cq') : cq'[i].buf # b
      /\ Buf \in BufIds /\ text[Buf] = <<>>
      /\ \A i \in 1 .. Len(cq') : cq'[i].buf # Buf
      /\ \A i \in 1 .. Len(bufRing) : bufRing[i] # Buf
  BY TakenQueue
<1>2. ASSUME NEW b \in BufIds, text'[b] # <<>>
      PROVE  /\ pending'[text'[b].session] = b
             /\ \A i \in 1 .. Len(bufRing') : bufRing'[i] # b
             /\ \A i \in 1 .. Len(cq') : cq'[i].buf # b
  <2>1. CASE b = Buf
    <3>1. text'[b] = r /\ pending'[s] = Buf
      BY <1>1, <2>1 DEF TypeInv, BuffersOK
    <3> QED
      BY <1>1, <2>1, <3>1
  <2>2. CASE b # Buf
    <3>1. text'[b] = text[b]
      BY <2>2 DEF TypeInv, BuffersOK
    <3>2. text[b].session # s
      BY <1>2, <3>1 DEF OwnerInv, BufIds, NoBuf
    <3>3. text[b].session \in Sessions
      BY <1>2, <3>1 DEF TypeInv, BuffersOK, Text
    <3>4. pending'[text[b].session] = pending[text[b].session]
      BY <3>2, <3>3 DEF TypeInv, BuffersOK
    <3> QED
      BY <1>1, <1>2, <3>1, <3>4 DEF OwnerInv
  <2> QED
    BY <2>1, <2>2
<1> QED
  BY <1>1, <1>2 DEF OwnerInv

(* The buffer and the pending one return to the ring. *)
LEMMA OwnerBothReturned ==
  ASSUME TypeInv, OwnerInv, Data, cq # <<>>, cq' = Tail(cq),
         NEW s \in Sessions, HoldsCutPacket(s),
         bufRing' = bufRing \o <<Buf, pending[s]>>,
         pending' = [pending EXCEPT ![s] = NoBuf],
         text' = [text EXCEPT ![pending[s]] = <<>>]
  PROVE  OwnerInv'
<1>1. /\ \A i, j \in 1 .. Len(cq') : cq'[i].buf = cq'[j].buf /\ cq'[i].buf # NoBuf => i = j
      /\ \A i \in 1 .. Len(bufRing), j \in 1 .. Len(cq') : bufRing[i] # cq'[j].buf
      /\ \A b \in BufIds : text[b] # <<>> => \A i \in 1 .. Len(cq') : cq'[i].buf # b
      /\ Buf \in BufIds /\ text[Buf] = <<>>
      /\ \A i \in 1 .. Len(cq') : cq'[i].buf # Buf
      /\ \A i \in 1 .. Len(bufRing) : bufRing[i] # Buf
  BY TakenQueue
<1>2. PICK p \in BufIds : p = pending[s] /\ text[p] # <<>> /\ text[p].session = s
  BY DEF HoldsCutPacket
<1>3. p # Buf /\ \A i \in 1 .. Len(bufRing) : bufRing[i] # p
  BY <1>1, <1>2 DEF OwnerInv
<1>4. \A i \in 1 .. Len(cq') : cq'[i].buf # p
  BY <1>1, <1>2
<1>5. /\ Len(bufRing) \in Nat /\ Len(bufRing') = Len(bufRing) + 2
      /\ \A i \in 1 .. Len(bufRing) : bufRing'[i] = bufRing[i]
      /\ bufRing'[Len(bufRing) + 1] = Buf /\ bufRing'[Len(bufRing) + 2] = p
  <2>1. PICK r : r = <<Buf, p>>
    OBVIOUS
  <2>2. r \in Seq(BufIds) /\ Len(r) = 2 /\ r[1] = Buf /\ r[2] = p
    BY <1>1, <2>1
  <2>3. bufRing' = bufRing \o r
    BY <1>2, <2>1
  <2> QED
    BY <2>2, <2>3, ConcatFacts DEF TypeInv, BuffersOK
<1>6. \A i \in 1 .. Len(bufRing') :
        \/ i \in 1 .. Len(bufRing) /\ bufRing'[i] = bufRing[i]
        \/ i = Len(bufRing) + 1 /\ bufRing'[i] = Buf
        \/ i = Len(bufRing) + 2 /\ bufRing'[i] = p
  BY <1>5
<1>7. \A i, j \in 1 .. Len(bufRing') : bufRing'[i] = bufRing'[j] => i = j
  BY <1>1, <1>3, <1>6 DEF OwnerInv
<1>8. \A i \in 1 .. Len(bufRing'), j \in 1 .. Len(cq') : bufRing'[i] # cq'[j].buf
  BY <1>1, <1>4, <1>6
<1>9. ASSUME NEW b \in BufIds, text'[b] # <<>>
      PROVE  /\ pending'[text'[b].session] = b
             /\ \A i \in 1 .. Len(bufRing') : bufRing'[i] # b
             /\ \A i \in 1 .. Len(cq') : cq'[i].buf # b
  <2>1. b # p /\ text'[b] = text[b]
    BY <1>2, <1>9 DEF TypeInv, BuffersOK
  <2>2. text[b] # <<>> /\ b # Buf
    BY <1>1, <1>9, <2>1
  <2>3. text[b].session # s /\ text[b].session \in Sessions
    BY <1>2, <2>1, <2>2 DEF OwnerInv, TypeInv, BuffersOK, Text
  <2>4. pending'[text[b].session] = b
    BY <2>2, <2>3 DEF OwnerInv, TypeInv, BuffersOK
  <2>5. \A i \in 1 .. Len(bufRing) : bufRing[i] # b
    BY <2>2 DEF OwnerInv
  <2>6. \A i \in 1 .. Len(bufRing') : bufRing'[i] # b
    BY <1>6, <2>1, <2>2, <2>5
  <2> QED
    BY <1>1, <2>1, <2>2, <2>4, <2>6
<1> QED
  BY <1>1, <1>7, <1>8, <1>9 DEF OwnerInv

LEMMA OwnerReceived ==
  ASSUME TypeInv, OwnerInv, NEW s \in Sessions, KernelRecv(s)
  PROVE  OwnerInv'
<1>1. PICK n \in 1 .. Last(s) - received[s] :
        cq' = Append(cq, [session |-> s, buf |-> Head(bufRing), units |-> n])
  BY DEF KernelRecv
<1>2. bufRing # <<>> /\ bufRing' = Tail(bufRing) /\ UNCHANGED <<pending, text>>
  BY DEF KernelRecv
<1>3. /\ Len(bufRing) \in Nat \ {0} /\ Head(bufRing) = bufRing[1] /\ Head(bufRing) \in BufIds
      /\ Len(bufRing') = Len(bufRing) - 1
      /\ \A i \in 1 .. Len(bufRing') :
           bufRing'[i] = bufRing[i + 1] /\ i + 1 \in 1 .. Len(bufRing) /\ i + 1 # 1
  BY <1>2, TailFacts DEF TypeInv, BuffersOK
<1>4. PICK b \in BufIds : b = Head(bufRing)
  BY <1>3
<1>5. \A i \in 1 .. Len(bufRing') :
        \E k \in 1 .. Len(bufRing) : k = i + 1 /\ k # 1 /\ bufRing'[i] = bufRing[k]
  BY <1>3
<1>6. /\ Len(cq) \in Nat /\ Len(cq') = Len(cq) + 1 /\ cq'[Len(cq) + 1].buf = b
      /\ \A i \in 1 .. Len(cq) : cq'[i] = cq[i]
  <2>1. Last(s) \in Units /\ received[s] \in Nat
    BY LastFacts DEF TypeInv, CountersOK
  <2>2. n \in Units
    BY <1>1, <2>1, RecvAssumption DEF Units, RecvAssumption
  <2>3. PICK e \in Cqes : e = [session |-> s, buf |-> b, units |-> n]
    BY <2>2 DEF Cqes
  <2> QED
    BY <1>1, <1>4, <2>3, AppendFacts DEF TypeInv, BuffersOK
<1>7. \A i \in 1 .. Len(cq') : \/ i \in 1 .. Len(cq) /\ cq'[i] = cq[i]
                               \/ i = Len(cq) + 1 /\ cq'[i].buf = b
  BY <1>6
<1>8. 1 \in 1 .. Len(bufRing) /\ b = bufRing[1]
  BY <1>3, <1>4
<1>9. \A i, j \in 1 .. Len(bufRing') : bufRing'[i] = bufRing'[j] => i = j
  <2> SUFFICES ASSUME NEW i \in 1 .. Len(bufRing'), NEW j \in 1 .. Len(bufRing'),
                      bufRing'[i] = bufRing'[j]
               PROVE  i = j
    OBVIOUS
  <2>1. PICK k \in 1 .. Len(bufRing) : k = i + 1 /\ bufRing'[i] = bufRing[k]
    BY <1>5
  <2>2. PICK l \in 1 .. Len(bufRing) : l = j + 1 /\ bufRing'[j] = bufRing[l]
    BY <1>5
  <2>3. k = l
    BY <2>1, <2>2 DEF OwnerInv
  <2> QED
    BY <2>1, <2>2, <2>3
<1>10. \A i \in 1 .. Len(bufRing') : bufRing'[i] # b
  BY <1>5, <1>8 DEF OwnerInv
<1>11. ASSUME NEW i \in 1 .. Len(cq'), NEW j \in 1 .. Len(cq'),
              cq'[i].buf = cq'[j].buf, cq'[i].buf # NoBuf
       PROVE  i = j
  <2>1. \A k \in 1 .. Len(cq) : cq[k].buf # b
    BY <1>8 DEF OwnerInv
  <2> QED
    BY <1>7, <1>11, <2>1 DEF OwnerInv
<1>12. ASSUME NEW i \in 1 .. Len(bufRing'), NEW j \in 1 .. Len(cq')
       PROVE  bufRing'[i] # cq'[j].buf
  <2>1. CASE cq'[j].buf = b
    BY <1>10, <2>1
  <2>2. CASE j \in 1 .. Len(cq) /\ cq'[j] = cq[j]
    BY <1>5, <2>2 DEF OwnerInv
  <2> QED
    BY <1>7, <2>1, <2>2
<1>13. ASSUME NEW a \in BufIds, text[a] # <<>>
       PROVE  /\ \A i \in 1 .. Len(bufRing') : bufRing'[i] # a
              /\ \A i \in 1 .. Len(cq') : cq'[i].buf # a
  <2>1. /\ \A i \in 1 .. Len(bufRing) : bufRing[i] # a
        /\ \A i \in 1 .. Len(cq) : cq[i].buf # a
    BY <1>13 DEF OwnerInv
  <2> QED
    BY <1>5, <1>7, <1>8, <2>1
<1> QED
  BY <1>2, <1>9, <1>11, <1>12, <1>13 DEF OwnerInv

LEMMA OwnerReceiveEnds ==
  ASSUME TypeInv, OwnerInv, NEW s \in Sessions, KernelRecvEnds(s)
  PROVE  OwnerInv'
<1>1. UNCHANGED <<pending, text, bufRing>>
  BY DEF KernelRecvEnds
<1>2. /\ Len(cq) \in Nat /\ Len(cq') = Len(cq) + 1 /\ cq'[Len(cq) + 1].buf = NoBuf
      /\ \A i \in 1 .. Len(cq) : cq'[i] = cq[i]
  <2>1. PICK e \in Cqes : e = [session |-> s, buf |-> NoBuf, units |-> 0]
    BY DEF Cqes
  <2>2. cq' = Append(cq, e)
    BY <2>1 DEF KernelRecvEnds
  <2> QED
    BY <2>1, <2>2, AppendFacts DEF TypeInv, BuffersOK
<1>3. \A i \in 1 .. Len(cq') : \/ i \in 1 .. Len(cq) /\ cq'[i] = cq[i]
                               \/ cq'[i].buf = NoBuf
  BY <1>2
<1>4. NoBuf \notin BufIds
  BY DEF NoBuf, BufIds
<1>5. \A i \in 1 .. Len(bufRing) : bufRing[i] \in BufIds
  BY ElementOfSeq DEF TypeInv, BuffersOK
<1> QED
  BY <1>1, <1>3, <1>4, <1>5 DEF OwnerInv

LEMMA NextOwnerInv ==
  ASSUME TypeInv, UnitsInv, OwnerInv, TextInv, undefined' = "no", Next
  PROVE  OwnerInv'
<1>1. ASSUME NEW s \in Sessions, OnRecvHandshake(s) PROVE OwnerInv'
  <2>1. /\ Data /\ cq # <<>> /\ cq' = Tail(cq) /\ bufRing' = bufRing \o <<Buf>>
        /\ UNCHANGED <<pending, text>>
    BY <1>1 DEF OnRecvHandshake, Handles, Provide
  <2> QED
    BY <2>1, OwnerReturned
<1>2. ASSUME NEW s \in Sessions, OnRecvText(s) PROVE OwnerInv'
  <2>1. PICK n, rest, h :
          /\ Reads(s, n) /\ Handled(s, read[s] + n, rest, h)
          /\ pending[s] = NoBuf
          /\ \/ bufRing' = bufRing \o <<Buf>> /\ UNCHANGED <<pending, text>>
             \/ /\ rest <= read[s] + n
                /\ pending' = [pending EXCEPT ![s] = Buf]
                /\ text' = [text EXCEPT ![Buf] = [session |-> s, from |-> rest, to |-> read[s] + n]]
                /\ UNCHANGED bufRing
    BY <1>2, TextEffect
  <2>2. Data /\ cq # <<>> /\ cq' = Tail(cq)
    BY <1>2 DEF OnRecvText, Decrypts, Handles
  <2>3. CASE bufRing' = bufRing \o <<Buf>> /\ UNCHANGED <<pending, text>>
    BY <2>2, <2>3, OwnerReturned
  <2>4. CASE /\ rest <= read[s] + n
             /\ pending' = [pending EXCEPT ![s] = Buf]
             /\ text' = [text EXCEPT ![Buf] = [session |-> s, from |-> rest, to |-> read[s] + n]]
             /\ UNCHANGED bufRing
    <3>1. PICK r \in Text : r = [session |-> s, from |-> rest, to |-> read[s] + n]
      BY <2>1, <2>4, RestIsText
    <3> QED
      BY <2>1, <2>2, <2>4, <3>1, OwnerKept
  <2> QED
    BY <2>1, <2>3, <2>4
<1>3. ASSUME NEW s \in Sessions, OnRecvAppends(s) PROVE OwnerInv'
  <2>1. PICK n, rest, h :
          /\ HoldsCutPacket(s)
          /\ \/ /\ bufRing' = bufRing \o <<Buf, pending[s]>>
                /\ pending' = [pending EXCEPT ![s] = NoBuf]
                /\ text' = [text EXCEPT ![pending[s]] = <<>>]
             \/ /\ bufRing' = bufRing \o <<Buf>> /\ UNCHANGED pending
                /\ text' = [text EXCEPT ![pending[s]] =
                              [session |-> s, from |-> rest, to |-> read[s] + n]]
    BY <1>3, AppendsEffect
  <2>2. Data /\ cq # <<>> /\ cq' = Tail(cq)
    BY <1>3 DEF OnRecvAppends, Decrypts, Handles
  <2>3. CASE /\ bufRing' = bufRing \o <<Buf, pending[s]>>
             /\ pending' = [pending EXCEPT ![s] = NoBuf]
             /\ text' = [text EXCEPT ![pending[s]] = <<>>]
    BY <2>1, <2>2, <2>3, OwnerBothReturned
  <2>4. CASE /\ bufRing' = bufRing \o <<Buf>> /\ UNCHANGED pending
             /\ text' = [text EXCEPT ![pending[s]] =
                           [session |-> s, from |-> rest, to |-> read[s] + n]]
    <3>1. \A b \in BufIds : text'[b] # <<>> => text[b] # <<>> /\ text'[b].session = text[b].session
      BY <2>1, <2>4 DEF HoldsCutPacket, TypeInv, BuffersOK
    <3> QED
      BY <2>2, <2>4, <3>1, OwnerReturned
  <2> QED
    BY <2>1, <2>3, <2>4
<1>4. ASSUME NEW s \in Sessions, OnRecv(s) PROVE OwnerInv'
  <2>1. CASE OnRecvEnd(s) \/ OnRecvBioFails(s)
    BY <2>1, OwnerTaken DEF OnRecvEnd, OnRecvBioFails, Handles
  <2>2. CASE OnRecvNoText(s)
    BY <2>2, OwnerTaken DEF OnRecvNoText, Decrypts, Handles
  <2>3. ~ OnRecvGarbage(s) /\ ~ OnRecvSurvived(s)
    BY GarbageType, SurvivedType
  <2> QED
    BY <1>1, <1>2, <1>3, <1>4, <2>1, <2>2, <2>3 DEF OnRecv
<1>5. ASSUME NEW s \in Sessions, RemoveSession(s) PROVE OwnerInv'
  BY <1>5 DEF RemoveSession, OwnerInv
<1>6. ASSUME Stale PROVE OwnerInv'
  BY <1>6, OwnerTaken DEF Stale
<1> QED
  BY <1>4, <1>5, <1>6, OwnerReceived, OwnerReceiveEnds DEF Next

-------------------------------------------------------------------------------
(* The text that was read is handled or pending. *)

LEMMA TextKept ==
  ASSUME TypeInv, TextInv, NEW t \in Sessions, cuts' = cuts, undefined' = undefined,
         handled'[t] = handled[t], read'[t] = read[t], pending'[t] = pending[t],
         HoldsCutPacket(t)' <=> HoldsCutPacket(t),
         HoldsCutPacket(t) => text'[pending[t]] = text[pending[t]]
  PROVE  TextOK(t)'
<1>1. HandledTo(t)' = HandledTo(t)
  BY DEF HandledTo
<1>2. InOrder(t, handled[t])'
  BY DEF TextInv, TextOK, InOrder
<1>3. TextOK(t)
  BY DEF TextInv
<1>4. CASE HoldsCutPacket(t)
  BY <1>1, <1>2, <1>3, <1>4 DEF TextOK
<1>5. CASE ~ HoldsCutPacket(t)
  BY <1>1, <1>2, <1>3, <1>5 DEF TextOK
<1> QED
  BY <1>4, <1>5

(* What one session does with its own text leaves the others' alone. *)
LEMMA OthersKept ==
  ASSUME TypeInv, NEW s \in Sessions, NEW t \in Sessions, t # s, pending'[t] = pending[t],
         NEW b \in BufIds, text[b] = <<>> \/ text[b].session = s,
         NEW r, r = <<>> \/ r.session = s, text' = [text EXCEPT ![b] = r]
  PROVE  /\ HoldsCutPacket(t)' <=> HoldsCutPacket(t)
         /\ HoldsCutPacket(t) => text'[pending[t]] = text[pending[t]]
<1>1. CASE pending[t] = b
  <2>1. text'[b] = r
    BY DEF TypeInv, BuffersOK
  <2> QED
    BY <1>1, <2>1 DEF HoldsCutPacket
<1>2. CASE pending[t] \in BufIds /\ pending[t] # b
  <2>1. text'[pending[t]] = text[pending[t]]
    BY <1>2 DEF TypeInv, BuffersOK
  <2> QED
    BY <1>2, <2>1 DEF HoldsCutPacket
<1>3. CASE pending[t] \notin BufIds
  BY <1>3 DEF HoldsCutPacket
<1> QED
  BY <1>1, <1>2, <1>3

LEMMA OwnText ==
  ASSUME TypeInv, NEW s \in Sessions, NEW n, NEW rest, NEW h,
         Reads(s, n), Handled(s, read[s] + n, rest, h),
         \/ rest > read[s] + n /\ pending'[s] = NoBuf
         \/ /\ rest <= read[s] + n /\ pending'[s] \in BufIds
            /\ text'[pending'[s]] = [session |-> s, from |-> rest, to |-> read[s] + n]
  PROVE  TextOK(s)'
<1>1. PICK to \in Nat : to = read[s] + n
  BY DEF Reads, TypeInv, CountersOK
<1>2. read'[s] = to /\ cuts' = cuts
  BY <1>1 DEF Reads
<1>3. handled'[s] = h /\ InOrder(s, h) /\ EndOf(h) = rest - 1
  BY DEF Handled, TypeInv
<1>4. HandledTo(s)' = rest - 1
  BY <1>3 DEF HandledTo, EndOf
<1>5. InOrder(s, handled[s])'
  BY <1>2, <1>3 DEF InOrder
<1>6. rest \in Nat /\ rest <= to + 1
  BY <1>1 DEF Handled, Units
<1>7. CASE rest > to /\ pending'[s] = NoBuf
  <2>1. ~ HoldsCutPacket(s)'
    BY <1>7 DEF HoldsCutPacket, BufIds, NoBuf
  <2>2. HandledTo(s)' = read'[s]
    BY <1>2, <1>4, <1>6, <1>7
  <2> QED
    BY <1>5, <1>7, <2>1, <2>2 DEF TextOK
<1>8. CASE /\ rest <= to /\ pending'[s] \in BufIds
           /\ text'[pending'[s]] = [session |-> s, from |-> rest, to |-> to]
  <2>1. PICK r \in Text : r = [session |-> s, from |-> rest, to |-> to]
    BY <1>1, <1>8, RestIsText
  <2>2. text'[pending'[s]] = r /\ r.session = s /\ r.from = rest /\ r.to = to /\ r # <<>>
    BY <1>8, <2>1, TextNotEmpty
  <2>3. HoldsCutPacket(s)'
    BY <1>8, <2>2 DEF HoldsCutPacket
  <2>4. rest = HandledTo(s)' + 1 /\ HandledTo(s)' < to
    BY <1>4, <1>6, <1>8
  <2>5. ASSUME NEW c \in cuts[s], c > HandledTo(s)' PROVE c > to
    <3>1. c \in Nat
      BY RecvAssumption DEF TypeInv, Stream, Units, RecvAssumption
    <3>2. c >= rest
      BY <1>4, <1>6, <2>5, <3>1
    <3> QED
      BY <1>1, <1>8, <3>2 DEF Handled
  <2> QED
    BY <1>2, <1>5, <2>2, <2>3, <2>4, <2>5 DEF TextOK
<1> QED
  BY <1>1, <1>7, <1>8

LEMMA NextTextInv ==
  ASSUME TypeInv, UnitsInv, OwnerInv, TextInv, undefined' = "no", Next
  PROVE  TextInv'
<1>1. ASSUME UNCHANGED <<cuts, undefined, handled, read, pending, text>> PROVE TextInv'
  <2> SUFFICES ASSUME NEW t \in Sessions PROVE TextOK(t)'
    BY DEF TextInv
  <2>1. HoldsCutPacket(t)' <=> HoldsCutPacket(t)
    BY <1>1 DEF HoldsCutPacket
  <2> QED
    BY <1>1, <2>1, TextKept
<1>2. ASSUME NEW s \in Sessions, OnRecvNoText(s) PROVE TextInv'
  <2>1. PICK decrypted \in Units :
          /\ Decrypts(s, decrypted) /\ GetRecvText(s, decrypted) <= 0
          /\ UNCHANGED <<pending, text, bufRing, handled, undefined>>
    BY <1>2 DEF OnRecvNoText
  <2>2. PICK n : n = GetRecvText(s, decrypted) /\ Reads(s, n)
    BY <2>1, DecryptsReads
  <2>3. n = 0 /\ cuts' = cuts
    BY <2>1, <2>2 DEF Reads
  <2>4. \A t \in Sessions : read'[t] = read[t]
    BY <2>2, <2>3 DEF Reads, TypeInv, CountersOK
  <2> SUFFICES ASSUME NEW t \in Sessions PROVE TextOK(t)'
    BY DEF TextInv
  <2>5. HoldsCutPacket(t)' <=> HoldsCutPacket(t)
    BY <2>1 DEF HoldsCutPacket
  <2> QED
    BY <2>1, <2>3, <2>4, <2>5, TextKept
<1>3. ASSUME NEW s \in Sessions PROVE ~ OnRecvGarbage(s) /\ ~ OnRecvSurvived(s)
  BY GarbageType, SurvivedType
<1>4. ASSUME NEW s \in Sessions, NEW n, NEW rest, NEW h, NEW t \in Sessions, t # s,
             Reads(s, n), Handled(s, read[s] + n, rest, h), UNCHANGED undefined,
             pending'[t] = pending[t],
             HoldsCutPacket(t)' <=> HoldsCutPacket(t),
             HoldsCutPacket(t) => text'[pending[t]] = text[pending[t]]
      PROVE  TextOK(t)'
  <2>1. cuts' = cuts /\ read'[t] = read[t] /\ handled'[t] = handled[t]
    BY <1>4 DEF Reads, Handled, TypeInv
  <2> QED
    BY <1>4, <2>1, TextKept
<1>5. ASSUME NEW s \in Sessions, OnRecvText(s) PROVE TextInv'
  <2>1. PICK n, rest, h :
          /\ Reads(s, n) /\ Handled(s, read[s] + n, rest, h)
          /\ pending[s] = NoBuf /\ UNCHANGED undefined
          /\ \/ /\ rest > read[s] + n
                /\ bufRing' = bufRing \o <<Buf>> /\ UNCHANGED <<pending, text>>
             \/ /\ rest <= read[s] + n
                /\ pending' = [pending EXCEPT ![s] = Buf]
                /\ text' = [text EXCEPT ![Buf] = [session |-> s, from |-> rest, to |-> read[s] + n]]
                /\ UNCHANGED bufRing
    BY <1>5, TextEffect
  <2>2. cq # <<>> /\ cq' = Tail(cq) /\ Data
    BY <1>5 DEF OnRecvText, Decrypts, Handles
  <2>3. Buf \in BufIds /\ text[Buf] = <<>>
    BY <2>2, TakenQueue
  <2>4. CASE rest > read[s] + n /\ UNCHANGED <<pending, text>>
    <3>1. TextOK(s)'
      BY <2>1, <2>4, OwnText
    <3>2. ASSUME NEW t \in Sessions, t # s PROVE TextOK(t)'
      <4>1. HoldsCutPacket(t)' <=> HoldsCutPacket(t)
        BY <2>4 DEF HoldsCutPacket
      <4> QED
        BY <1>4, <2>1, <2>4, <3>2, <4>1
    <3> QED
      BY <3>1, <3>2 DEF TextInv
  <2>5. CASE /\ rest <= read[s] + n
             /\ pending' = [pending EXCEPT ![s] = Buf]
             /\ text' = [text EXCEPT ![Buf] = [session |-> s, from |-> rest, to |-> read[s] + n]]
    <3>1. PICK r : r = [session |-> s, from |-> rest, to |-> read[s] + n]
      OBVIOUS
    <3>2. pending'[s] = Buf /\ text'[Buf] = r /\ r.session = s
      BY <2>3, <2>5, <3>1 DEF TypeInv, BuffersOK
    <3>3. TextOK(s)'
      BY <2>1, <2>3, <2>5, <3>1, <3>2, OwnText
    <3>4. ASSUME NEW t \in Sessions, t # s PROVE TextOK(t)'
      <4>1. pending'[t] = pending[t]
        BY <2>5, <3>4 DEF TypeInv, BuffersOK
      <4>2. /\ HoldsCutPacket(t)' <=> HoldsCutPacket(t)
            /\ HoldsCutPacket(t) => text'[pending[t]] = text[pending[t]]
        BY <2>3, <2>5, <3>1, <3>2, <3>4, <4>1, OthersKept
      <4> QED
        BY <1>4, <2>1, <3>4, <4>1, <4>2
    <3> QED
      BY <3>3, <3>4 DEF TextInv
  <2> QED
    BY <2>1, <2>4, <2>5
<1>6. ASSUME NEW s \in Sessions, OnRecvAppends(s) PROVE TextInv'
  <2>1. PICK n, rest, h :
          /\ Reads(s, n) /\ Handled(s, read[s] + n, rest, h)
          /\ HoldsCutPacket(s) /\ UNCHANGED undefined
          /\ \/ /\ rest > read[s] + n
                /\ bufRing' = bufRing \o <<Buf, pending[s]>>
                /\ pending' = [pending EXCEPT ![s] = NoBuf]
                /\ text' = [text EXCEPT ![pending[s]] = <<>>]
             \/ /\ rest <= read[s] + n
                /\ bufRing' = bufRing \o <<Buf>> /\ UNCHANGED pending
                /\ text' = [text EXCEPT ![pending[s]] =
                              [session |-> s, from |-> rest, to |-> read[s] + n]]
    BY <1>6, AppendsEffect
  <2>2. PICK b \in BufIds : b = pending[s] /\ text[b].session = s
    BY <2>1 DEF HoldsCutPacket
  <2>3. CASE /\ rest > read[s] + n
             /\ pending' = [pending EXCEPT ![s] = NoBuf]
             /\ text' = [text EXCEPT ![b] = <<>>]
    <3>1. pending'[s] = NoBuf
      BY <2>3 DEF TypeInv, BuffersOK
    <3>2. TextOK(s)'
      BY <2>1, <2>3, <3>1, OwnText
    <3>3. ASSUME NEW t \in Sessions, t # s PROVE TextOK(t)'
      <4>1. pending'[t] = pending[t]
        BY <2>3, <3>3 DEF TypeInv, BuffersOK
      <4>2. /\ HoldsCutPacket(t)' <=> HoldsCutPacket(t)
            /\ HoldsCutPacket(t) => text'[pending[t]] = text[pending[t]]
        BY <2>2, <2>3, <3>3, <4>1, OthersKept
      <4> QED
        BY <1>4, <2>1, <3>3, <4>1, <4>2
    <3> QED
      BY <3>2, <3>3 DEF TextInv
  <2>4. CASE /\ rest <= read[s] + n /\ UNCHANGED pending
             /\ text' = [text EXCEPT ![b] = [session |-> s, from |-> rest, to |-> read[s] + n]]
    <3>1. PICK r : r = [session |-> s, from |-> rest, to |-> read[s] + n]
      OBVIOUS
    <3>2. pending'[s] = b /\ text'[b] = r /\ r.session = s
      BY <2>2, <2>4, <3>1 DEF TypeInv, BuffersOK
    <3>3. TextOK(s)'
      BY <2>1, <2>2, <2>4, <3>1, <3>2, OwnText
    <3>4. ASSUME NEW t \in Sessions, t # s PROVE TextOK(t)'
      <4>1. pending'[t] = pending[t]
        BY <2>4
      <4>2. /\ HoldsCutPacket(t)' <=> HoldsCutPacket(t)
            /\ HoldsCutPacket(t) => text'[pending[t]] = text[pending[t]]
        BY <2>2, <2>4, <3>1, <3>2, <3>4, <4>1, OthersKept
      <4> QED
        BY <1>4, <2>1, <3>4, <4>1, <4>2
    <3> QED
      BY <3>3, <3>4 DEF TextInv
  <2> QED
    BY <2>1, <2>2, <2>3, <2>4
<1>7. ASSUME NEW s \in Sessions, OnRecv(s) PROVE TextInv'
  <2>1. CASE OnRecvEnd(s) \/ OnRecvBioFails(s) \/ OnRecvHandshake(s)
    BY <1>1, <2>1 DEF OnRecvEnd, OnRecvBioFails, OnRecvHandshake, tlsVars
  <2> QED
    BY <1>2, <1>3, <1>5, <1>6, <1>7, <2>1 DEF OnRecv
<1>8. ASSUME NEW s \in Sessions, KernelRecv(s) \/ KernelRecvEnds(s) \/ RemoveSession(s)
      PROVE  TextInv'
  BY <1>1, <1>8 DEF KernelRecv, KernelRecvEnds, RemoveSession, tlsVars
<1>9. ASSUME Stale PROVE TextInv'
  BY <1>1, <1>9 DEF Stale, tlsVars
<1> QED
  BY <1>7, <1>8, <1>9 DEF Next

-------------------------------------------------------------------------------
(* The invariant holds. *)

LEMMA InitInvariants == Init => UnitsInv /\ OwnerInv /\ TextInv
<1> SUFFICES ASSUME Init PROVE UnitsInv /\ OwnerInv /\ TextInv
  OBVIOUS
<1>1. cq = <<>> /\ 1 .. Len(cq) = {}
  BY DEF Init
<1>2. UnitsInv
  <2>1. PICK u : u = [i \in 1 .. Len(cq) |-> 0]
    OBVIOUS
  <2>2. u \in [1 .. Len(cq) -> Nat]
    BY <2>1
  <2> QED
    BY <1>1, <2>2 DEF UnitsInv
<1>3. \A b \in BufIds : text[b] = <<>>
  BY DEF Init
<1>4. OwnerInv
  <2>1. BufCount \in Nat /\ bufRing = [i \in 1 .. BufCount |-> i - 1]
    BY RecvAssumption DEF Init, RecvAssumption
  <2>2. Len(bufRing) = BufCount
    BY <2>1, LenProperties
  <2>3. \A i \in 1 .. Len(bufRing) : bufRing[i] = i - 1
    BY <2>1, <2>2
  <2>4. \A i, j \in 1 .. Len(bufRing) : bufRing[i] = bufRing[j] => i = j
    BY <2>1, <2>2, <2>3
  <2> QED
    BY <1>1, <1>3, <2>4 DEF OwnerInv
<1>5. ASSUME NEW s \in Sessions PROVE TextOK(s)
  <2>1. ~ HoldsCutPacket(s)
    BY <1>3 DEF HoldsCutPacket
  <2>2. handled[s] = <<>> /\ read[s] = Handshake
    BY DEF Init
  <2>3. HandledTo(s) = read[s] /\ InOrder(s, handled[s])
    BY <2>2 DEF HandledTo, InOrder, InOrderOf
  <2>4. Garbage \subseteq {NoBuf} => pending[s] = NoBuf
    <3>1. pending[s] \in Garbage
      BY DEF Init
    <3> QED
      BY <3>1
  <2> QED
    BY <2>1, <2>2, <2>3, <2>4 DEF TextOK
<1> QED
  BY <1>2, <1>4, <1>5 DEF TextInv

LEMMA NextRecvInv ==
  ASSUME RecvInv, [Next]_vars
  PROVE  RecvInv'
<1>1. CASE Next
  <2>1. TypeInv'
    BY <1>1, NextTypeInv DEF RecvInv
  <2>2. ASSUME undefined' = "no" PROVE undefined = "no"
    <3>1. ASSUME NEW s \in Sessions, OnRecv(s) PROVE undefined = "no"
      BY <2>2, <3>1, SurvivedType
         DEF RecvInv, OnRecv, OnRecvEnd, OnRecvBioFails, OnRecvHandshake, OnRecvNoText, OnRecvText,
             OnRecvAppends, OnRecvGarbage, Decrypts, Handles
    <3> QED
      BY <1>1, <2>2, <3>1 DEF Next, KernelRecv, KernelRecvEnds, RemoveSession, Stale
  <2>3. ASSUME undefined' = "no" PROVE UnitsInv' /\ OwnerInv' /\ TextInv'
    BY <1>1, <2>2, <2>3, NextUnitsInv, NextOwnerInv, NextTextInv DEF RecvInv
  <2> QED
    BY <2>1, <2>3 DEF RecvInv
<1>2. CASE UNCHANGED vars
  <2>1. UNCHANGED <<cuts, armed, received, tlsVars, pending, closing, alive, text, bufRing, cq,
                    handled, undefined>>
    BY <1>2 DEF vars
  <2>2. TypeInv'
    BY <2>1, OtherType DEF RecvInv, TypeInv, BuffersOK
  <2> SUFFICES ASSUME undefined = "no" PROVE UnitsInv' /\ OwnerInv' /\ TextInv'
    BY <2>1, <2>2 DEF RecvInv
  <2>3. UnitsInv' /\ OwnerInv'
    BY <2>1 DEF RecvInv, UnitsInv, OwnerInv, tlsVars
  <2>4. ASSUME NEW t \in Sessions PROVE TextOK(t)'
    <3>1. HoldsCutPacket(t)' <=> HoldsCutPacket(t)
      BY <2>1 DEF HoldsCutPacket
    <3> QED
      BY <2>1, <3>1, TextKept DEF RecvInv, tlsVars
  <2> QED
    BY <2>3, <2>4 DEF TextInv
<1> QED
  BY <1>1, <1>2

(* In every reachable state the counters of a stream are in order, and     *)
(* until an undefined append a buffer is in one place and what was read is *)
(* handled or pending.                                                     *)
THEOREM Invariance == Safety => []RecvInv
<1>1. Init => RecvInv
  BY InitTypeInv, InitInvariants DEF RecvInv
<1>2. RecvInv /\ [Next]_vars => RecvInv'
  BY NextRecvInv
<1> QED
  BY <1>1, <1>2, PTL DEF Safety

LEMMA TypesFollow == RecvInv => TypeOK
<1> SUFFICES ASSUME RecvInv PROVE TypeOK
  OBVIOUS
<1>1. ASSUME NEW s \in Sessions
      PROVE  /\ received[s] \in 0 .. Last(s) /\ bio[s] \in 0 .. received[s]
             /\ ready[s] \in Handshake .. Last(s) /\ read[s] \in Handshake .. ready[s]
  <2>1. Last(s) \in Nat /\ Handshake \in Nat
    BY LastFacts, RecvAssumption DEF RecvInv, TypeInv, Units, RecvAssumption
  <2>2. /\ received[s] \in Nat /\ bio[s] \in Nat /\ ready[s] \in Nat /\ read[s] \in Nat
        /\ bio[s] <= received[s] /\ received[s] <= Last(s)
        /\ Handshake <= read[s] /\ read[s] <= ready[s] /\ ready[s] <= Last(s)
    BY DEF RecvInv, TypeInv, CountersOK
  <2> QED
    BY <2>1, <2>2
<1>2. \A b \in BufIds : text[b] = <<>> \/ text[b] \in Text
  BY DEF RecvInv, TypeInv, BuffersOK
<1> QED
  BY <1>1, <1>2 DEF RecvInv, TypeInv, BuffersOK, TypeOK

(* The state of the sessions of a worker has its types: no counter of a    *)
(* stream overtakes the one before it (OnRecv, GetRecvText), and the ring  *)
(* and the completions hold ids of the worker's buffers.                   *)
THEOREM RecvTypeCorrect == Safety => []TypeOK
BY Invariance, TypesFollow, PTL

LEMMA AtMostOne ==
  ASSUME NEW S, \A x, y \in S : x = y
  PROVE  /\ Cardinality(S) = 0 \/ Cardinality(S) = 1
         /\ S = {} => Cardinality(S) = 0
<1>1. CASE S = {}
  BY <1>1, FS_EmptySet
<1>2. CASE S # {}
  <2>1. PICK x \in S : TRUE
    BY <1>2
  <2>2. S = {x}
    BY <2>1
  <2> QED
    BY <1>2, <2>2, FS_Singleton
<1> QED
  BY <1>1, <1>2

LEMMA OwnersFollow == RecvInv => OneOwner
<1> SUFFICES ASSUME RecvInv, undefined = "no", NEW b \in BufIds
             PROVE  Cardinality({i \in DOMAIN bufRing : bufRing[i] = b})
                      + Cardinality({i \in DOMAIN cq : cq[i].buf = b})
                      + Cardinality({s \in Sessions : pending[s] = b /\ HoldsCutPacket(s)}) <= 1
  BY DEF OneOwner
<1>1. DOMAIN bufRing = 1 .. Len(bufRing) /\ DOMAIN cq = 1 .. Len(cq)
  BY LenProperties DEF RecvInv, TypeInv, BuffersOK
<1>2. PICK R : R = {i \in DOMAIN bufRing : bufRing[i] = b}
  OBVIOUS
<1>3. PICK Q : Q = {i \in DOMAIN cq : cq[i].buf = b}
  OBVIOUS
<1>4. PICK P : P = {s \in Sessions : pending[s] = b /\ HoldsCutPacket(s)}
  OBVIOUS
<1>5. b # NoBuf
  BY DEF BufIds, NoBuf
<1>6. /\ \A x, y \in R : x = y
      /\ \A x, y \in Q : x = y
      /\ \A x, y \in P : x = y
  <2>1. \A x, y \in R : x = y
    BY <1>1, <1>2 DEF RecvInv, OwnerInv
  <2>2. \A x, y \in Q : x = y
    BY <1>1, <1>3, <1>5 DEF RecvInv, OwnerInv
  <2>3. \A x, y \in P : x = y
    BY <1>4 DEF HoldsCutPacket
  <2> QED
    BY <2>1, <2>2, <2>3
<1>7. R = {} \/ Q = {}
  BY <1>1, <1>2, <1>3 DEF RecvInv, OwnerInv
<1>8. P # {} => R = {} /\ Q = {}
  <2>1. ASSUME NEW s \in P PROVE R = {} /\ Q = {}
    <3>1. text[b] # <<>>
      BY <1>4, <2>1 DEF HoldsCutPacket
    <3> QED
      BY <1>1, <1>2, <1>3, <3>1 DEF RecvInv, OwnerInv
  <2> QED
    BY <2>1
<1>9. /\ Cardinality(R) = 0 \/ Cardinality(R) = 1
      /\ Cardinality(Q) = 0 \/ Cardinality(Q) = 1
      /\ Cardinality(P) = 0 \/ Cardinality(P) = 1
      /\ R = {} => Cardinality(R) = 0
      /\ Q = {} => Cardinality(Q) = 0
      /\ P = {} => Cardinality(P) = 0
  BY <1>6, AtMostOne
<1>10. Cardinality(R) + Cardinality(Q) + Cardinality(P) <= 1
  BY <1>7, <1>8, <1>9
<1> QED
  BY <1>2, <1>3, <1>4, <1>10

(* A buffer of the shared ring is provided once, or filled by one receive, *)
(* or pending for one session: OnRecv returns it exactly once, however the *)
(* sessions of the worker take turns, until an undefined append.           *)
THEOREM BufferHasOneOwner == Safety => []OneOwner
BY Invariance, OwnersFollow, PTL

LEMMA OrderFollows == RecvInv => PacketsInOrder
<1> SUFFICES ASSUME RecvInv, undefined = "no",
                    NEW s \in Sessions, NEW i \in DOMAIN handled[s]
             PROVE  /\ handled[s][i][1] = (IF i = 1 THEN Handshake ELSE handled[s][i - 1][2]) + 1
                    /\ handled[s][i][2] = Min({c \in cuts[s] : c >= handled[s][i][1]})
  BY DEF PacketsInOrder
<1>1. DOMAIN handled[s] = 1 .. Len(handled[s])
  BY LenProperties DEF RecvInv, TypeInv
<1>2. InOrderOf(cuts[s], handled[s])
  BY DEF RecvInv, TextInv, TextOK, InOrder
<1> QED
  BY <1>1, <1>2 DEF InOrderOf

(* HandlePacket is given the peer's packets, each once and in order,       *)
(* however the stream was cut into records, receives and reads of at most  *)
(* TextSize, as long as no text was appended to a buffer that a garbage    *)
(* _pendingRecvBufId names.                                                *)
THEOREM PacketsHandledInOrder == Safety => []PacketsInOrder
BY Invariance, OrderFollows, PTL

LEMMA NothingHeldFollows == RecvInv => NothingHeldBack
<1> SUFFICES ASSUME RecvInv, NEW s \in Sessions, undefined = "no"
             PROVE  IF HoldsCutPacket(s)
                    THEN /\ text[pending[s]]
                              = [session |-> s, from |-> HandledTo(s) + 1, to |-> read[s]]
                         /\ \A c \in cuts[s] : c > HandledTo(s) => c > read[s]
                    ELSE HandledTo(s) = read[s]
  BY DEF NothingHeldBack
<1>1. TextOK(s)
  BY DEF RecvInv, TextInv
<1>2. CASE HoldsCutPacket(s)
  <2>1. PICK r \in Text : r = text[pending[s]]
    BY <1>2 DEF HoldsCutPacket, RecvInv, TypeInv, BuffersOK
  <2>2. r.session = s /\ r.from = HandledTo(s) + 1 /\ r.to = read[s]
    BY <1>1, <1>2, <2>1 DEF TextOK, HoldsCutPacket
  <2>3. r = [session |-> r.session, from |-> r.from, to |-> r.to]
    BY DEF Text
  <2>4. r = [session |-> s, from |-> HandledTo(s) + 1, to |-> read[s]]
    BY <2>2, <2>3
  <2> QED
    BY <1>1, <1>2, <2>1, <2>4 DEF TextOK
<1> QED
  BY <1>1, <1>2 DEF TextOK

(* After every OnRecv, all packets whose text was read have been handled;  *)
(* what is left is pending, begins with a packet and does not hold all of  *)
(* it: ProcessPacket stops only at a cut packet.  Until an undefined       *)
(* append, as above.                                                       *)
THEOREM ReadTextIsHandled == Safety => []NothingHeldBack
BY Invariance, NothingHeldFollows, PTL

(* Only a session that was read from can have changed what was read. *)
LEMMA WhoReads ==
  ASSUME RecvInv, [Next]_vars, read' # read, undefined' = "no"
  PROVE  undefined = "no" /\ \E s \in Sessions : OnRecvText(s) \/ OnRecvAppends(s)
<1>1. ASSUME NEW s \in Sessions, OnRecvNoText(s) PROVE read' = read
  <2>1. PICK decrypted \in Units : Decrypts(s, decrypted) /\ GetRecvText(s, decrypted) <= 0
    BY <1>1 DEF OnRecvNoText
  <2>2. UnitsInv
    BY <2>1 DEF RecvInv, Decrypts, Handles
  <2>3. Reads(s, GetRecvText(s, decrypted))
    BY <2>1, <2>2, DecryptsReads DEF RecvInv
  <2>4. PICK n : n = GetRecvText(s, decrypted)
    OBVIOUS
  <2>5. n = 0 /\ read' = [read EXCEPT ![s] = @ + n]
    BY <2>1, <2>3, <2>4 DEF Reads, Decrypts
  <2> QED
    BY <2>5 DEF RecvInv, TypeInv, CountersOK
<1>2. ASSUME NEW s \in Sessions,
             \/ KernelRecv(s) \/ KernelRecvEnds(s) \/ RemoveSession(s)
             \/ OnRecvEnd(s) \/ OnRecvBioFails(s) \/ OnRecvHandshake(s)
      PROVE  read' = read
  BY <1>2 DEF KernelRecv, KernelRecvEnds, RemoveSession, OnRecvEnd, OnRecvBioFails,
              OnRecvHandshake, tlsVars
<1>3. ASSUME NEW s \in Sessions, OnRecvGarbage(s) \/ OnRecvSurvived(s) PROVE FALSE
  <2>1. CASE OnRecvGarbage(s)
    <3>1. UnitsInv
      BY <2>1 DEF RecvInv, OnRecvGarbage, Decrypts, Handles
    <3> QED
      BY <2>1, <3>1, GarbageType DEF RecvInv
  <2> QED
    BY <1>3, <2>1, SurvivedType DEF RecvInv
<1>4. Stale \/ UNCHANGED vars => read' = read
  BY DEF Stale, vars, tlsVars
<1>5. PICK s \in Sessions : OnRecvText(s) \/ OnRecvAppends(s)
  BY <1>1, <1>2, <1>3, <1>4 DEF Next, OnRecv
<1> QED
  BY <1>5 DEF OnRecvText, OnRecvAppends, Decrypts, Handles

(* A buffer that was in the ring, in a completion or pending still is,     *)
(* when the step returns the buffer of the completion or keeps it.         *)
LEMMA NotLost ==
  ASSUME TypeInv, cq # <<>>, cq' = Tail(cq), NEW r \in Seq(BufIds), bufRing' = bufRing \o r,
         NEW b \in Lost', b # Buf,
         \A s \in Sessions : alive[s] /\ HoldsCutPacket(s) => pending[s] # b
  PROVE  b \in Lost
<1>1. /\ b \in BufIds
      /\ \A i \in DOMAIN bufRing' : bufRing'[i] # b
      /\ \A i \in DOMAIN cq' : cq'[i].buf # b
  BY DEF Lost
<1>2. \A i \in DOMAIN bufRing : bufRing[i] # b
  <2>1. /\ DOMAIN bufRing = 1 .. Len(bufRing) /\ DOMAIN bufRing' = 1 .. Len(bufRing')
        /\ Len(bufRing') = Len(bufRing) + Len(r) /\ Len(bufRing) \in Nat /\ Len(r) \in Nat
        /\ \A i \in 1 .. Len(bufRing) : bufRing'[i] = bufRing[i]
    BY ConcatFacts, LenProperties DEF TypeInv, BuffersOK
  <2> QED
    BY <1>1, <2>1
<1>3. \A i \in DOMAIN cq : cq[i].buf # b
  <2> SUFFICES ASSUME NEW i \in DOMAIN cq PROVE cq[i].buf # b
    OBVIOUS
  <2>1. DOMAIN cq = 1 .. Len(cq) /\ DOMAIN cq' = 1 .. Len(cq')
    BY DropsHead, LenProperties DEF TypeInv, BuffersOK
  <2>2. /\ Len(cq) \in Nat \ {0} /\ Head(cq) = cq[1] /\ Len(cq') = Len(cq) - 1
        /\ \A k \in 1 .. Len(cq') : cq'[k] = cq[k + 1]
    BY TailFacts DEF TypeInv, BuffersOK
  <2>3. CASE i = 1
    BY <2>2, <2>3 DEF Buf
  <2>4. CASE i # 1
    <3>1. PICK k \in 1 .. Len(cq') : i = k + 1
      <4>1. i - 1 \in 1 .. Len(cq') /\ i = (i - 1) + 1
        BY <2>1, <2>2, <2>4
      <4> QED
        BY <4>1
    <3> QED
      BY <1>1, <2>1, <2>2, <3>1
  <2> QED
    BY <2>3, <2>4
<1> QED
  BY <1>1, <1>2, <1>3 DEF Lost

LEMMA PendingFacts ==
  ASSUME TypeInv, NEW s \in Sessions, NEW b \in BufIds, NEW r, text' = [text EXCEPT ![b] = r],
         pending'[s] = b, r # <<>>, r.session = s
  PROVE  HoldsCutPacket(s)'
BY DEF HoldsCutPacket, TypeInv, BuffersOK

LEMMA TextStepLosesNothing ==
  ASSUME RecvInv, undefined = "no", NEW s \in Sessions, OnRecvText(s), NEW b \in Lost'
  PROVE  b \in Lost
<1>1. PICK n, rest, h :
        /\ Reads(s, n) /\ Handled(s, read[s] + n, rest, h)
        /\ pending[s] = NoBuf
        /\ \/ bufRing' = bufRing \o <<Buf>> /\ UNCHANGED <<pending, text>>
           \/ /\ rest <= read[s] + n
              /\ pending' = [pending EXCEPT ![s] = Buf]
              /\ text' = [text EXCEPT ![Buf] = [session |-> s, from |-> rest, to |-> read[s] + n]]
              /\ UNCHANGED bufRing
  BY TextEffect DEF RecvInv
<1>2. TypeInv /\ cq # <<>> /\ cq' = Tail(cq) /\ alive' = alive /\ alive[s] /\ Buf \in BufIds
  BY <1>1 DEF Reads, RecvInv
<1>3. /\ b \in BufIds
      /\ \A i \in DOMAIN bufRing' : bufRing'[i] # b
      /\ \A t \in Sessions : alive[t] /\ HoldsCutPacket(t)' => pending'[t] # b
  BY <1>2 DEF Lost
<1>4. bufRing \in Seq(BufIds)
  BY <1>2 DEF TypeInv, BuffersOK
<1>5. CASE bufRing' = bufRing \o <<Buf>> /\ UNCHANGED <<pending, text>>
  <2>1. PICK r \in Seq(BufIds) : r = <<Buf>> /\ Len(r) = 1 /\ r[1] = Buf
    <3>1. <<Buf>> \in Seq(BufIds) /\ Len(<<Buf>>) = 1 /\ <<Buf>>[1] = Buf
      BY <1>2
    <3> QED
      BY <3>1
  <2>2. b # Buf
    <3>1. Len(bufRing) + 1 \in DOMAIN bufRing' /\ bufRing'[Len(bufRing) + 1] = Buf
      BY <1>4, <1>5, <2>1, ConcatFacts, LenProperties
    <3> QED
      BY <1>3, <3>1
  <2>3. \A t \in Sessions : alive[t] /\ HoldsCutPacket(t) => pending[t] # b
    <3>1. \A t \in Sessions : HoldsCutPacket(t)' <=> HoldsCutPacket(t)
      BY <1>5 DEF HoldsCutPacket
    <3> QED
      BY <1>3, <1>5, <3>1
  <2> QED
    BY <1>2, <1>5, <2>1, <2>2, <2>3, NotLost
<1>6. CASE /\ rest <= read[s] + n
           /\ pending' = [pending EXCEPT ![s] = Buf]
           /\ text' = [text EXCEPT ![Buf] = [session |-> s, from |-> rest, to |-> read[s] + n]]
           /\ UNCHANGED bufRing
  <2>1. PICK r \in Text : r = [session |-> s, from |-> rest, to |-> read[s] + n]
    BY <1>1, <1>2, <1>6, RestIsText
  <2>2. r.session = s /\ r # <<>> /\ text' = [text EXCEPT ![Buf] = r] /\ text[Buf] = <<>>
    <3>1. Data
      BY <1>2 DEF Data, Buf, BufIds, NoBuf
    <3> QED
      BY <1>2, <1>6, <2>1, <3>1, TextNotEmpty, TakenQueue DEF RecvInv
  <2>3. pending'[s] = Buf /\ \A t \in Sessions : t # s => pending'[t] = pending[t]
    BY <1>2, <1>6 DEF TypeInv, BuffersOK
  <2>4. b # Buf
    <3>1. HoldsCutPacket(s)'
      BY <1>2, <2>2, <2>3, PendingFacts
    <3> QED
      BY <1>2, <1>3, <2>3, <3>1
  <2>5. ASSUME NEW t \in Sessions, alive[t], HoldsCutPacket(t) PROVE pending[t] # b
    <3>1. t # s
      BY <1>1, <2>5 DEF HoldsCutPacket, BufIds, NoBuf
    <3>2. HoldsCutPacket(t)'
      BY <1>2, <2>2, <2>3, <2>5, <3>1, OthersKept
    <3> QED
      BY <1>3, <2>3, <2>5, <3>1, <3>2
  <2>6. bufRing' = bufRing \o <<>>
    BY <1>4, <1>6, ConcatEmptySeq
  <2>7. <<>> \in Seq(BufIds)
    BY EmptySeq
  <2> QED
    BY <1>2, <2>4, <2>5, <2>6, <2>7, NotLost
<1> QED
  BY <1>1, <1>5, <1>6

LEMMA AppendStepLosesNothing ==
  ASSUME RecvInv, undefined = "no", NEW s \in Sessions, OnRecvAppends(s), NEW b \in Lost'
  PROVE  b \in Lost
<1>1. PICK n, rest, h :
        /\ Reads(s, n) /\ Handled(s, read[s] + n, rest, h)
        /\ HoldsCutPacket(s)
        /\ \/ /\ bufRing' = bufRing \o <<Buf, pending[s]>>
              /\ pending' = [pending EXCEPT ![s] = NoBuf]
              /\ text' = [text EXCEPT ![pending[s]] = <<>>]
           \/ /\ rest <= read[s] + n
              /\ bufRing' = bufRing \o <<Buf>> /\ UNCHANGED pending
              /\ text' = [text EXCEPT ![pending[s]] =
                            [session |-> s, from |-> rest, to |-> read[s] + n]]
  BY AppendsEffect DEF RecvInv
<1>2. TypeInv /\ cq # <<>> /\ cq' = Tail(cq) /\ alive' = alive /\ alive[s] /\ Buf \in BufIds
  BY <1>1 DEF Reads, RecvInv
<1>3. /\ b \in BufIds
      /\ \A i \in DOMAIN bufRing' : bufRing'[i] # b
      /\ \A t \in Sessions : alive[t] /\ HoldsCutPacket(t)' => pending'[t] # b
  BY <1>2 DEF Lost
<1>4. bufRing \in Seq(BufIds)
  BY <1>2 DEF TypeInv, BuffersOK
<1>5. PICK p \in BufIds : p = pending[s] /\ text[p].session = s
  BY <1>1 DEF HoldsCutPacket
<1>6. ASSUME NEW x, x = <<>> \/ x.session = s, text' = [text EXCEPT ![p] = x],
             NEW t \in Sessions, t # s, pending'[t] = pending[t], alive[t], HoldsCutPacket(t)
      PROVE  pending[t] # b
  <2>1. HoldsCutPacket(t)'
    BY <1>2, <1>5, <1>6, OthersKept
  <2> QED
    BY <1>3, <1>6, <2>1
<1>7. CASE /\ bufRing' = bufRing \o <<Buf, p>>
           /\ pending' = [pending EXCEPT ![s] = NoBuf]
           /\ text' = [text EXCEPT ![p] = <<>>]
  <2>1. PICK r \in Seq(BufIds) : r = <<Buf, p>> /\ Len(r) = 2 /\ r[1] = Buf /\ r[2] = p
    <3>1. /\ <<Buf, p>> \in Seq(BufIds) /\ Len(<<Buf, p>>) = 2
          /\ <<Buf, p>>[1] = Buf /\ <<Buf, p>>[2] = p
      BY <1>2
    <3> QED
      BY <3>1
  <2>2. b # Buf /\ b # p
    <3>1. /\ bufRing' \in Seq(BufIds) /\ Len(bufRing') = Len(bufRing) + 2 /\ Len(bufRing) \in Nat
          /\ bufRing'[Len(bufRing) + 1] = Buf /\ bufRing'[Len(bufRing) + 2] = p
      BY <1>4, <1>7, <2>1, ConcatFacts
    <3>2. Len(bufRing) + 1 \in DOMAIN bufRing' /\ Len(bufRing) + 2 \in DOMAIN bufRing'
      BY <3>1, LenProperties
    <3> QED
      BY <1>3, <3>1, <3>2
  <2>3. ASSUME NEW t \in Sessions, alive[t], HoldsCutPacket(t) PROVE pending[t] # b
    <3>1. CASE t = s
      BY <1>5, <2>2, <3>1
    <3>2. CASE t # s
      <4>1. pending'[t] = pending[t]
        BY <1>2, <1>7, <3>2 DEF TypeInv, BuffersOK
      <4> QED
        BY <1>6, <1>7, <2>3, <3>2, <4>1
    <3> QED
      BY <3>1, <3>2
  <2> QED
    BY <1>2, <1>7, <2>1, <2>2, <2>3, NotLost
<1>8. CASE /\ rest <= read[s] + n
           /\ bufRing' = bufRing \o <<Buf>> /\ UNCHANGED pending
           /\ text' = [text EXCEPT ![p] = [session |-> s, from |-> rest, to |-> read[s] + n]]
  <2>1. PICK r \in Seq(BufIds) : r = <<Buf>> /\ Len(r) = 1 /\ r[1] = Buf
    <3>1. <<Buf>> \in Seq(BufIds) /\ Len(<<Buf>>) = 1 /\ <<Buf>>[1] = Buf
      BY <1>2
    <3> QED
      BY <3>1
  <2>2. b # Buf
    <3>1. Len(bufRing) + 1 \in DOMAIN bufRing' /\ bufRing'[Len(bufRing) + 1] = Buf
      BY <1>4, <1>8, <2>1, ConcatFacts, LenProperties
    <3> QED
      BY <1>3, <3>1
  <2>3. PICK x \in Text : x = [session |-> s, from |-> rest, to |-> read[s] + n]
    BY <1>1, <1>2, <1>8, RestIsText
  <2>4. x.session = s /\ x # <<>> /\ text' = [text EXCEPT ![p] = x]
    BY <1>8, <2>3, TextNotEmpty
  <2>5. ASSUME NEW t \in Sessions, alive[t], HoldsCutPacket(t) PROVE pending[t] # b
    <3>1. CASE t = s
      <4>1. pending'[s] = p
        BY <1>5, <1>8
      <4>2. HoldsCutPacket(s)'
        BY <1>2, <2>4, <4>1, PendingFacts
      <4> QED
        BY <1>2, <1>3, <1>8, <3>1, <4>2
    <3>2. CASE t # s
      <4>1. pending'[t] = pending[t]
        BY <1>8
      <4> QED
        BY <1>6, <2>4, <2>5, <3>2, <4>1
    <3> QED
      BY <3>1, <3>2
  <2> QED
    BY <1>2, <1>8, <2>1, <2>2, <2>5, NotLost
<1> QED
  BY <1>1, <1>5, <1>7, <1>8

(* An OnRecv that yields text returns or keeps every buffer it works with: *)
(* none leaves the ring, the completions and the pending ids for good.     *)
THEOREM TextReturnsBuffers == Safety => TextLosesNoBuffer
<1>1. ASSUME RecvInv, [Next]_vars
      PROVE  [read' # read /\ undefined' = "no" => Lost' \subseteq Lost]_vars
  <2> SUFFICES ASSUME read' # read, undefined' = "no", NEW b \in Lost' PROVE b \in Lost
    OBVIOUS
  <2>1. undefined = "no" /\ \E s \in Sessions : OnRecvText(s) \/ OnRecvAppends(s)
    BY <1>1, WhoReads
  <2> QED
    BY <1>1, <2>1, TextStepLosesNothing, AppendStepLosesNothing
<1> QED
  BY <1>1, Invariance, PTL DEF Safety, TextLosesNoBuffer

(* All of this for good, if fresh memory held -1: then no text is ever     *)
(* appended to a buffer that does not hold the session's cut packet        *)
(* (Session.cpp:333), over cut packets, ended and destroyed sessions.  The *)
(* missing initialisation of _pendingRecvBufId is the only cause.          *)
THEOREM OnlyGarbageUndefined ==
  ASSUME Garbage \subseteq {NoBuf}
  PROVE  Safety => [](undefined = "no")
<1>1. Init => undefined = "no"
  BY DEF Init
<1>2. RecvInv /\ undefined = "no" /\ [Next]_vars => (undefined = "no")'
  <2> SUFFICES ASSUME RecvInv, undefined = "no", [Next]_vars PROVE undefined' = "no"
    OBVIOUS
  <2>1. ASSUME NEW s \in Sessions PROVE ~ OnRecvGarbage(s)
    <3> SUFFICES ASSUME OnRecvGarbage(s) PROVE FALSE
      OBVIOUS
    <3>1. PICK decrypted \in Units :
            /\ Decrypts(s, decrypted)
            /\ ~ HoldsCutPacket(s)
            /\ AppendsBlindly(s) \/ AppendsNowhere(s)
      BY DEF OnRecvGarbage
    <3>2. pending[s] # NoBuf
      BY <3>1 DEF AppendsBlindly, AppendsNowhere, BufIds, NoBuf
    <3> QED
      BY <3>1, <3>2 DEF RecvInv, TextInv, TextOK
  <2>2. ASSUME NEW s \in Sessions, OnRecv(s) PROVE undefined' = "no"
    BY <2>1, <2>2 DEF OnRecv, OnRecvEnd, OnRecvBioFails, OnRecvHandshake, OnRecvNoText, OnRecvText,
                      OnRecvAppends, OnRecvSurvived
  <2> QED
    BY <2>2 DEF Next, KernelRecv, KernelRecvEnds, RemoveSession, Stale, vars
<1> QED
  BY <1>1, <1>2, Invariance, PTL DEF Safety
===============================================================================
