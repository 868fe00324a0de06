----------------------- MODULE RtpFragmentationProofs -----------------------
(* Proofs about the packets of a frame, for every frame, MTU and modulus.   *)
EXTENDS RtpFragmentation, SequenceTheorems, WellFoundedInduction, TLAPS

-----------------------------------------------------------------------------
(* What holds of one after another holds of all: the library's induction     *)
(* theorems for a set in the place of a predicate.                           *)

\* A set of naturals that has 0, and n + 1 with each n, has them all.
LEMMA AllNumbers ==
  ASSUME NEW S \in SUBSET Nat, 0 \in S, \A n \in S : n + 1 \in S
  PROVE  S = Nat
<1> DEFINE R == OpToRel(<, Nat)
<1>1. IsWellFoundedOn(R, Nat)
  BY NatLessThanWellFounded
<1>2. \A m, n \in Nat : <<n, m>> \in R <=> n < m
  BY DEF OpToRel
<1> HIDE DEF R
<1>3. SUFFICES ASSUME Nat \ S # {} PROVE FALSE
  OBVIOUS
<1>4. PICK m \in Nat \ S : \A n \in Nat \ S : ~(<<n, m>> \in R)
  BY <1>1, <1>3, WFMin
<1>5. m - 1 \in Nat /\ m - 1 < m
  BY <1>4
<1>6. m - 1 \in S
  BY <1>2, <1>4, <1>5
<1>7. (m - 1) + 1 \in S
  BY <1>6
<1> QED BY <1>4, <1>7

-----------------------------------------------------------------------------
(* Numbers that wrap.                                                        *)

\* A remainder is the only one.
LEMMA OneRemainder ==
  ASSUME NEW m \in Nat, m > 0, NEW q \in Int, NEW r \in 0 .. m - 1
  PROVE  ((m * q) + r) % m = r
<1>1. PICK x \in Int : x = (m * q) + r
  OBVIOUS
<1>2. PICK p \in Int, t \in 0 .. m - 1 : x = (m * p) + t /\ t = x % m
  <2>1. x = (m * (x \div m)) + (x % m) /\ x % m \in 0 .. m - 1 /\ x \div m \in Int
    BY <1>1
  <2> QED BY <2>1
<1>3. PICK d \in Int : d = p - q /\ r - t = m * d
  BY <1>1, <1>2
<1>4. d < 1
  <2>1. ASSUME d >= 1 PROVE FALSE
    <3>1. m * d >= m
      BY <2>1
    <3> QED BY <1>3, <3>1
  <2> QED BY <2>1
<1>5. d > -1
  <2>1. ASSUME d <= -1 PROVE FALSE
    <3>1. m * d <= -m
      BY <2>1
    <3> QED BY <1>3, <3>1
  <2> QED BY <2>1
<1>6. d = 0
  BY <1>4, <1>5
<1>7. r - t = 0
  BY <1>3, <1>6
<1> QED BY <1>1, <1>2, <1>7

\* Every number is one, the next number is the number of the next, and numbers may be
\* added up before or after they wrap.
LEMMA Numbers ==
  /\ 0 \in SeqNums
  /\ \A n \in Nat : SeqNumber(n) \in SeqNums /\ NextSeq(SeqNumber(n)) = SeqNumber(n + 1)
  /\ \A n \in SeqNums : n \in Nat /\ SeqNumber(n) = n
  /\ \A n, k \in Nat : SeqNumber(SeqNumber(n) + k) = SeqNumber(n + k)
<1>1. PICK m \in Nat : m = SeqSpace /\ m > 1
  BY SeqSpaceAssumption
<1>2. ASSUME NEW n \in Nat, NEW k \in Nat
      PROVE  n % m \in 0 .. m - 1 /\ ((n % m) + k) % m = (n + k) % m
  <2>1. PICK q \in Int, r \in 0 .. m - 1 : n = (m * q) + r /\ r = n % m
    <3>1. n = (m * (n \div m)) + (n % m) /\ n % m \in 0 .. m - 1 /\ n \div m \in Int
      BY <1>1
    <3> QED BY <3>1
  <2>2. PICK x \in Nat : x = r + k
    OBVIOUS
  <2>3. PICK p \in Int, t \in 0 .. m - 1 : x = (m * p) + t /\ t = x % m
    <3>1. x = (m * (x \div m)) + (x % m) /\ x % m \in 0 .. m - 1 /\ x \div m \in Int
      BY <1>1
    <3> QED BY <3>1
  <2>4. n + k = (m * (q + p)) + t
    <3>1. m * (q + p) = (m * q) + (m * p)
      BY <1>1
    <3> QED BY <2>1, <2>2, <2>3, <3>1
  <2>5. (n + k) % m = t
    <3>1. ((m * (q + p)) + t) % m = t
      BY <1>1, OneRemainder
    <3> QED BY <2>4, <3>1
  <2> QED BY <2>1, <2>2, <2>3, <2>5
<1>3. ASSUME NEW n \in 0 .. m - 1 PROVE n % m = n
  BY <1>1
<1>4. \A n, k \in Nat : SeqNumber(SeqNumber(n) + k) = SeqNumber(n + k)
  BY <1>1, <1>2 DEF SeqNumber
<1>5. \A n \in Nat : SeqNumber(n) \in SeqNums /\ NextSeq(SeqNumber(n)) = SeqNumber(n + 1)
  BY <1>1, <1>2 DEF SeqNums, SeqNumber, NextSeq
<1> QED BY <1>1, <1>3, <1>4, <1>5 DEF SeqNums, SeqNumber

-----------------------------------------------------------------------------
(* FlattenSeq of the library is a recursive function.                        *)

FlattenTo(seqs, k, g) ==
  g = [i \in 1 .. k |-> IF i = 1 THEN seqs[i] ELSE g[i - 1] \o seqs[i]]

\* The recursion has a value, as far as there are sequences.
LEMMA FlattenExists ==
  ASSUME NEW seqs, NEW n \in Nat
  PROVE  \E g : FlattenTo(seqs, n, g)
<1> DEFINE S == {k \in Nat : \E g : FlattenTo(seqs, k, g)}
<1>1. 0 \in S
  <2>1. FlattenTo(seqs, 0, [i \in {} |-> 0])
    BY DEF FlattenTo
  <2> QED BY <2>1
<1>2. ASSUME NEW k \in S PROVE k + 1 \in S
  <2>1. PICK g : FlattenTo(seqs, k, g)
    OBVIOUS
  <2>2. k \in Nat
    OBVIOUS
  <2>3. PICK h : h = [i \in 1 .. k + 1 |->
                       IF i = 1 THEN seqs[i] ELSE g[i - 1] \o seqs[i]]
    OBVIOUS
  <2>8. \A i \in 1 .. k : h[i] = g[i]
    <3>1. \A i \in 1 .. k : g[i] = IF i = 1 THEN seqs[i] ELSE g[i - 1] \o seqs[i]
      BY <2>1 DEF FlattenTo
    <3>2. \A i \in 1 .. k + 1 : h[i] = IF i = 1 THEN seqs[i] ELSE g[i - 1] \o seqs[i]
      BY <2>3
    <3>3. \A i \in 1 .. k : i \in 1 .. k + 1
      BY <2>2
    <3> QED BY <3>1, <3>2, <3>3
  <2>4. \A i \in 1 .. k + 1 : i # 1 => i - 1 \in 1 .. k
    BY <2>2
  <2>5. \A i \in 1 .. k + 1 : i # 1 => h[i - 1] = g[i - 1]
    BY <2>4, <2>8
  <2>6. h = [i \in 1 .. k + 1 |-> IF i = 1 THEN seqs[i] ELSE h[i - 1] \o seqs[i]]
    BY <2>3, <2>5
  <2>7. FlattenTo(seqs, k + 1, h)
    BY <2>6 DEF FlattenTo
  <2> QED BY <2>2, <2>7
<1> HIDE DEF S
<1>3. S = Nat
  <2>1. S \in SUBSET Nat
    BY DEF S
  <2> QED BY <1>1, <1>2, <2>1, AllNumbers
<1> QED BY <1>3 DEF S

\* If the first k sequences one after another are in C[k] whenever the first k - 1 are
\* in C[k - 1], all of them are in the last C.
LEMMA FlattenClosed ==
  ASSUME NEW T, NEW seqs \in Seq(Seq(T)), NEW C, <<>> \in C[0],
         \A k \in 1 .. Len(seqs) : \A s \in C[k - 1] : s \o seqs[k] \in C[k]
  PROVE  FlattenSeq(seqs) \in C[Len(seqs)]
<1>1. Len(seqs) \in Nat /\ \A i \in 1 .. Len(seqs) : seqs[i] \in Seq(T)
  BY LenProperties, ElementOfSeq
<1>2. CASE Len(seqs) = 0
  <2>1. seqs = <<>>
    BY <1>2, EmptySeq
  <2> QED BY <1>2, <2>1 DEF FlattenSeq
<1>3. CASE Len(seqs) # 0
  <2> DEFINE n == Len(seqs)
             f == CHOOSE g : FlattenTo(seqs, n, g)
  <2>1. FlattenTo(seqs, n, f)
    BY <1>1, FlattenExists
  <2>2. FlattenSeq(seqs) = f[n]
    BY <1>3 DEF FlattenSeq, FlattenTo
  <2> HIDE DEF f
  <2> DEFINE S == {k \in Nat : k \in 1 .. n => f[k] \in C[k]}
  <2>3. 0 \in S
    OBVIOUS
  <2>4. ASSUME NEW k \in S PROVE k + 1 \in S
    <3>1. CASE k = 0
      <4>1. 1 \in 1 .. n /\ 1 - 1 = 0
        BY <1>1, <1>3
      <4>2. f[1] = seqs[1]
        BY <2>1, <4>1 DEF FlattenTo
      <4>3. <<>> \o seqs[1] = seqs[1]
        BY <1>1, <4>1, ConcatEmptySeq
      <4>4. <<>> \o seqs[1] \in C[1]
        BY <4>1
      <4>5. f[1] \in C[1]
        BY <4>2, <4>3, <4>4
      <4> QED BY <3>1, <4>5
    <3>2. CASE k # 0 /\ k + 1 \in 1 .. n
      <4>1. k \in 1 .. n /\ k + 1 # 1 /\ (k + 1) - 1 = k
        BY <1>1, <3>2
      <4>2. f[k + 1] = f[k] \o seqs[k + 1]
        BY <2>1, <3>2, <4>1 DEF FlattenTo
      <4>3. f[k] \in C[k]
        BY <4>1
      <4>4. f[k] \o seqs[k + 1] \in C[k + 1]
        BY <3>2, <4>1, <4>3
      <4>5. f[k + 1] \in C[k + 1]
        BY <4>2, <4>4
      <4> QED BY <4>1, <4>5
    <3>3. CASE k + 1 \notin 1 .. n
      BY <3>3
    <3> QED BY <3>1, <3>2, <3>3
  <2>5. S = Nat
    <3>1. S \in SUBSET Nat
      OBVIOUS
    <3> HIDE DEF S
    <3> QED BY <2>3, <2>4, <3>1, AllNumbers
  <2>6. n \in 1 .. n /\ n \in S
    BY <1>1, <1>3, <2>5
  <2> QED BY <2>2, <2>6
<1> QED BY <1>2, <1>3

-----------------------------------------------------------------------------
(* The packets of a unit.                                                    *)

Pieces ==
  [kind : {"single", "fu"}, nalu : Nat, from : Int, to : Int, start : BOOLEAN,
   end : BOOLEAN, marker : BOOLEAN, seq : Int]

Overhead(p) == IF p.kind = "fu" THEN 2 ELSE 0

\* What is so of a packet alone: it carries something and fits, the two ends of a
\* fragmented unit are not the same fragment, and only an end is marked.
Sound(p) ==
  /\ p.from <= p.to
  /\ Overhead(p) + p.to - p.from + 1 <= MaxPayload
  /\ p.kind = "fu" => ~(p.start /\ p.end)
  /\ p.marker => p.end

\* The packets s of unit n: its bytes from the first that is carried to the last.
OfUnit(s, n, size) ==
  /\ s \in Seq(Pieces)
  /\ s = <<>> <=> size = 0
  /\ \A i \in 1 .. Len(s) :
       /\ s[i].nalu = n
       /\ s[i].start <=> i = 1
       /\ s[i].end <=> i = Len(s)
       /\ i = 1 => s[i].from = Overhead(s[i]) \div 2
       /\ i > 1 => s[i].from = s[i - 1].to + 1
       /\ i = Len(s) => s[i].to = size - 1
       /\ Sound(s[i])

\* The fragments of a unit that does not fit a packet, c bytes each and what is left
\* in the last: there are two at least, and the last is neither empty nor too long.
LEMMA TwoAtLeast ==
  ASSUME NEW size \in Nat, ~IsSmall(size)
  PROVE  \E c \in Nat, count \in Nat :
           /\ c = Chunk /\ c > 0 /\ MaxPayload = c + 2
           /\ count = (size - 2 + Chunk) \div Chunk /\ count >= 2
           /\ (count - 1) * c <= size - 2 /\ size - 2 < count * c
<1>1. PICK c \in Nat : c = Chunk /\ c > 0 /\ MaxPayload = c + 2
  BY MaxPayloadAssumption DEF Chunk
<1>2. PICK a \in Nat : a = size - 2 + Chunk /\ a > 2 * c
  BY <1>1, MaxPayloadAssumption DEF IsSmall
<1>3. PICK count \in Nat : count = a \div c /\ count >= 2
  BY <1>1, <1>2
<1>4. count * c <= a /\ a < count * c + c
  <2>1. a = (c * (a \div c)) + (a % c) /\ a % c \in 0 .. c - 1
    BY <1>1, <1>2
  <2>2. c * count = count * c
    BY <1>1, <1>3
  <2> QED BY <1>1, <1>2, <1>3, <2>1, <2>2
<1>5. (count - 1) * c = count * c - c
  BY <1>1, <1>3
<1> QED BY <1>1, <1>2, <1>3, <1>4, <1>5

LEMMA UnitIsWhole ==
  ASSUME NEW n \in Nat, NEW size \in Nat
  PROVE  OfUnit(NaluPackets(n, size), n, size)
<1>1. CASE size = 0
  BY <1>1, EmptySeq DEF NaluPackets, OfUnit
<1>2. CASE size # 0 /\ IsSmall(size)
  <2>1. PICK p : p = [kind |-> "single", nalu |-> n, from |-> 0, to |-> size - 1,
                      start |-> TRUE, end |-> TRUE, marker |-> FALSE, seq |-> 0]
    OBVIOUS
  <2>2. p \in Pieces
    BY <2>1 DEF Pieces
  <2>3. NaluPackets(n, size) = <<p>>
    BY <1>2, <2>1 DEF NaluPackets, SinglePacket
  <2>4. Sound(p) /\ Overhead(p) \div 2 = 0
    BY <1>2, <2>1, MaxPayloadAssumption DEF Sound, Overhead, IsSmall
  <2>5. PICK s : s = <<p>>
    OBVIOUS
  <2>6. s \in Seq(Pieces) /\ Len(s) = 1 /\ s[1] = p /\ s # <<>>
    BY <2>2, <2>5
  <2>7. ASSUME NEW i \in 1 .. Len(s)
        PROVE  /\ s[i].nalu = n
               /\ s[i].start <=> i = 1
               /\ s[i].end <=> i = Len(s)
               /\ i = 1 => s[i].from = Overhead(s[i]) \div 2
               /\ i > 1 => s[i].from = s[i - 1].to + 1
               /\ i = Len(s) => s[i].to = size - 1
               /\ Sound(s[i])
    <3>1. i = 1 /\ s[i] = p
      BY <2>6
    <3>2. p.nalu = n /\ p.start /\ p.end /\ p.from = 0 /\ p.to = size - 1
      BY <2>1
    <3> QED BY <2>4, <2>6, <3>1, <3>2
  <2> QED BY <1>2, <2>3, <2>5, <2>6, <2>7 DEF OfUnit
<1>3. CASE size # 0 /\ ~IsSmall(size)
  <2>1. PICK c \in Nat, count \in Nat :
          /\ c = Chunk /\ c > 0 /\ MaxPayload = c + 2
          /\ count = (size - 2 + Chunk) \div Chunk /\ count >= 2
          /\ (count - 1) * c <= size - 2 /\ size - 2 < count * c
    BY <1>3, TwoAtLeast
  <2>2. PICK s : s = NaluPackets(n, size)
    OBVIOUS
  <2>3. s = [i \in 1 .. count |->
              [kind |-> "fu", nalu |-> n,
               from |-> 1 + (i - 1) * c,
               to |-> IF i = count THEN size - 1 ELSE i * c,
               start |-> i = 1, end |-> i = count, marker |-> i = count, seq |-> 0]]
    BY <1>3, <2>1, <2>2 DEF NaluPackets, FuAPackets
  <2>4. ASSUME NEW i \in 1 .. count
        PROVE  /\ s[i] \in Pieces /\ s[i].kind = "fu" /\ s[i].nalu = n
               /\ s[i].from = 1 + (i - 1) * c
               /\ s[i].to = (IF i = count THEN size - 1 ELSE i * c)
               /\ (s[i].start <=> i = 1) /\ (s[i].end <=> i = count)
               /\ (s[i].marker <=> i = count)
    <3>1. PICK a \in Int : a = 1 + (i - 1) * c
      OBVIOUS
    <3>2. PICK b \in Int : b = IF i = count THEN size - 1 ELSE i * c
      OBVIOUS
    <3>3. s[i] = [kind |-> "fu", nalu |-> n, from |-> a, to |-> b,
                  start |-> i = 1, end |-> i = count, marker |-> i = count, seq |-> 0]
      <4>1. s[i] = [kind |-> "fu", nalu |-> n,
                    from |-> 1 + (i - 1) * c,
                    to |-> IF i = count THEN size - 1 ELSE i * c,
                    start |-> i = 1, end |-> i = count, marker |-> i = count, seq |-> 0]
        BY <2>3, Zenon
      <4> QED BY <4>1, <3>1, <3>2, Zenon
    <3>4. s[i] \in Pieces
      BY <3>3 DEF Pieces
    <3>5. /\ s[i].kind = "fu" /\ s[i].nalu = n
          /\ s[i].from = 1 + (i - 1) * c
          /\ s[i].to = (IF i = count THEN size - 1 ELSE i * c)
      BY <3>1, <3>2, <3>3
    <3>6. /\ (s[i].start <=> i = 1) /\ (s[i].end <=> i = count)
          /\ (s[i].marker <=> i = count)
      <4>1. PICK f \in BOOLEAN, g \in BOOLEAN : f = (i = 1) /\ g = (i = count)
        OBVIOUS
      <4>2. s[i] = [kind |-> "fu", nalu |-> n, from |-> a, to |-> b,
                    start |-> f, end |-> g, marker |-> g, seq |-> 0]
        BY <3>3, <4>1, Zenon
      <4>3. s[i].start = f /\ s[i].end = g /\ s[i].marker = g
        BY <4>2
      <4> QED BY <4>1, <4>3
    <3> QED BY <3>4, <3>5, <3>6
  <2>5. s \in Seq(Pieces) /\ Len(s) = count
    <3>1. s \in [1 .. count -> Pieces]
      BY <2>3, <2>4
    <3> QED BY <2>1, <3>1, SeqDef
  <2>6. s # <<>>
    BY <2>1, <2>5, EmptySeq
  <2>7. ASSUME NEW i \in 1 .. count
        PROVE  /\ s[i].from <= s[i].to /\ 2 + s[i].to - s[i].from + 1 <= MaxPayload
               /\ i > 1 => s[i].from = s[i - 1].to + 1
    <3>1. PICK x \in Int : x = (i - 1) * c
      OBVIOUS
    <3>2. i * c = x + c
      BY <3>1, <2>1
    <3>3. s[i].from = 1 + x /\ s[i].to = IF i = count THEN size - 1 ELSE x + c
      BY <2>4, <3>1, <3>2
    <3>4. i = count => x <= size - 2 /\ size - 2 < x + c
      <4>1. ASSUME i = count PROVE x <= size - 2 /\ size - 2 < x + c
        <5>1. (count - 1) * c = x /\ count * c = x + c
          BY <3>1, <3>2, <4>1
        <5> QED BY <2>1, <5>1
      <4> QED BY <4>1
    <3>5. i > 1 => s[i - 1].to = x
      <4>1. ASSUME i > 1 PROVE i - 1 \in 1 .. count /\ i - 1 # count
        BY <2>1, <4>1
      <4>2. ASSUME i > 1 PROVE s[i - 1].to = (i - 1) * c
        BY <2>4, <4>1, <4>2
      <4> QED BY <3>1, <4>2
    <3> QED BY <2>1, <3>1, <3>3, <3>4, <3>5
  <2>8. ASSUME NEW i \in 1 .. count PROVE Overhead(s[i]) = 2 /\ Sound(s[i])
    <3>1. Overhead(s[i]) = 2
      BY <2>4 DEF Overhead
    <3>2. s[i].kind = "fu" => ~(s[i].start /\ s[i].end)
      BY <2>1, <2>4
    <3>3. s[i].marker => s[i].end
      BY <2>4
    <3> QED BY <2>7, <3>1, <3>2, <3>3 DEF Sound
  <2>9. s[1].from = 1
    <3>1. 1 \in 1 .. count /\ (1 - 1) * c = 0
      BY <2>1
    <3> QED BY <2>4, <3>1
  <2>10. ASSUME NEW i \in 1 .. count
         PROVE  /\ s[i].nalu = n
                /\ s[i].start <=> i = 1
                /\ s[i].end <=> i = Len(s)
                /\ i = 1 => s[i].from = Overhead(s[i]) \div 2
                /\ i > 1 => s[i].from = s[i - 1].to + 1
                /\ i = Len(s) => s[i].to = size - 1
                /\ Sound(s[i])
    BY <2>4, <2>5, <2>7, <2>8, <2>9
  <2> QED BY <1>3, <2>2, <2>5, <2>6, <2>10 DEF OfUnit
<1> QED BY <1>1, <1>2, <1>3

-----------------------------------------------------------------------------
(* The packets of a frame.                                                   *)

First(s, i) == i = 1 \/ s[i - 1].nalu # s[i].nalu
Final(s, i) == i = Len(s) \/ s[i + 1].nalu # s[i].nalu

\* A packet has its place among those of a frame: it begins a unit or goes on with the
\* one before it, and it ends a unit if the next one begins one.
InPlace(s, i, sizes) ==
  /\ i > 1 => s[i - 1].nalu <= s[i].nalu
  /\ s[i].start <=> First(s, i)
  /\ s[i].end <=> Final(s, i)
  /\ First(s, i) => s[i].from = Overhead(s[i]) \div 2
  /\ ~First(s, i) => s[i].from = s[i - 1].to + 1
  /\ Final(s, i) => s[i].to = sizes[s[i].nalu] - 1

\* s carries the first k units of the frame.
Carries(s, sizes, k) ==
  /\ s \in Seq(Pieces)
  /\ \A i \in 1 .. Len(s) : s[i].nalu \in 1 .. k /\ Sound(s[i]) /\ InPlace(s, i, sizes)
  /\ \A n \in 1 .. k : sizes[n] > 0 => \E i \in 1 .. Len(s) : s[i].nalu = n

\* The next unit after them.
LEMMA UnitJoins ==
  ASSUME NEW sizes, NEW k \in Nat, NEW s, Carries(s, sizes, k),
         NEW t, OfUnit(t, k + 1, sizes[k + 1]), sizes[k + 1] \in Nat
  PROVE  Carries(s \o t, sizes, k + 1)
<1>1. PICK m \in Nat, l \in Nat : m = Len(s) /\ l = Len(t)
  BY LenProperties DEF Carries, OfUnit
<1>2. PICK u : u = s \o t
  OBVIOUS
<1>3. /\ u \in Seq(Pieces) /\ Len(u) = m + l
      /\ \A i \in 1 .. m : u[i] = s[i]
      /\ \A j \in 1 .. l : u[m + j] = t[j]
  <2>1. s \in Seq(Pieces) /\ t \in Seq(Pieces)
    BY DEF Carries, OfUnit
  <2>2. /\ u \in Seq(Pieces) /\ Len(u) = m + l
        /\ \A i \in 1 .. m + l : u[i] = IF i <= m THEN s[i] ELSE t[i - m]
    BY <1>1, <1>2, <2>1, ConcatProperties
  <2>3. \A i \in 1 .. m : u[i] = s[i]
    BY <1>1, <2>2
  <2>4. \A j \in 1 .. l : u[m + j] = t[j]
    <3> TAKE j \in 1 .. l
    <3>1. m + j \in 1 .. m + l /\ ~(m + j <= m) /\ (m + j) - m = j
      BY <1>1
    <3> QED BY <2>2, <3>1
  <2> QED BY <2>2, <2>3, <2>4
<1>4. \A i \in 1 .. m : s[i].nalu \in 1 .. k /\ Sound(s[i]) /\ InPlace(s, i, sizes)
  BY <1>1 DEF Carries
<1>5. \A j \in 1 .. l :
        /\ t[j].nalu = k + 1
        /\ t[j].start <=> j = 1
        /\ t[j].end <=> j = l
        /\ j = 1 => t[j].from = Overhead(t[j]) \div 2
        /\ j > 1 => t[j].from = t[j - 1].to + 1
        /\ j = l => t[j].to = sizes[k + 1] - 1
        /\ Sound(t[j])
  BY <1>1 DEF OfUnit
<1>6. ASSUME NEW i \in 1 .. m
      PROVE  u[i].nalu \in 1 .. k + 1 /\ Sound(u[i]) /\ InPlace(u, i, sizes)
  <2>1. u[i] = s[i] /\ s[i].nalu \in 1 .. k /\ Sound(s[i]) /\ InPlace(s, i, sizes)
    BY <1>3, <1>4
  <2>2. i > 1 => u[i - 1] = s[i - 1]
    <3>1. ASSUME i > 1 PROVE i - 1 \in 1 .. m
      BY <3>1
    <3> QED BY <1>3, <3>1
  <2>3. First(u, i) <=> First(s, i)
    BY <2>1, <2>2 DEF First
  <2>4. Final(u, i) <=> Final(s, i)
    <3>1. CASE i < m
      <4>1. i + 1 \in 1 .. m /\ i # m /\ i # m + l
        BY <3>1
      <4>2. u[i + 1] = s[i + 1]
        BY <1>3, <4>1
      <4> QED BY <1>1, <1>3, <2>1, <4>1, <4>2 DEF Final
    <3>2. CASE i = m /\ l = 0
      <4>1. i = Len(u) /\ i = Len(s)
        BY <1>1, <1>3, <3>2
      <4> QED BY <4>1 DEF Final
    <3>3. CASE i = m /\ l # 0
      <4>1. 1 \in 1 .. l
        BY <3>3
      <4>2. u[i + 1].nalu = k + 1
        BY <1>3, <1>5, <3>3, <4>1
      <4>3. u[i + 1].nalu # u[i].nalu
        BY <2>1, <4>2
      <4> QED BY <1>1, <3>3, <4>3 DEF Final
    <3> QED BY <3>1, <3>2, <3>3
  <2>5. First(s, i) \/ i > 1
    BY DEF First
  <2>6. InPlace(u, i, sizes)
    BY <2>1, <2>2, <2>3, <2>4, <2>5 DEF InPlace
  <2> QED BY <2>1, <2>6
<1>7. ASSUME NEW j \in 1 .. l
      PROVE  u[m + j].nalu \in 1 .. k + 1 /\ Sound(u[m + j]) /\ InPlace(u, m + j, sizes)
  <2>1. PICK i \in 1 .. m + l : i = m + j
    OBVIOUS
  <2>2. u[i] = t[j] /\ t[j].nalu = k + 1
    BY <1>3, <1>5, <2>1
  <2>3. CASE j = 1
    <3>1. i > 1 => u[i - 1].nalu \in 1 .. k
      <4>1. ASSUME i > 1 PROVE i - 1 \in 1 .. m /\ i - 1 = m
        BY <2>1, <2>3, <4>1
      <4>2. ASSUME i > 1 PROVE u[i - 1] = s[i - 1] /\ s[i - 1].nalu \in 1 .. k
        BY <1>3, <1>4, <4>1, <4>2
      <4> QED BY <4>2
    <3>2. First(u, i)
      BY <2>2, <3>1 DEF First
    <3>3. i > 1 => u[i - 1].nalu <= u[i].nalu
      BY <2>2, <3>1
    <3>4. Final(u, i) <=> j = l
      <4>1. CASE l = 1
        BY <1>3, <2>1, <2>3, <4>1 DEF Final
      <4>2. CASE l # 1
        <5>1. 2 \in 1 .. l /\ i + 1 = m + 2 /\ i # m + l
          BY <2>1, <2>3, <4>2
        <5>2. u[m + 2] = t[2] /\ t[2].nalu = k + 1
          BY <1>3, <1>5, <5>1
        <5>3. u[i + 1].nalu = k + 1
          <6>1. u[i + 1] = u[m + 2]
            BY <5>1
          <6> QED BY <5>2, <6>1
        <5> QED BY <1>3, <2>2, <2>3, <4>2, <5>1, <5>3 DEF Final
      <4> QED BY <4>1, <4>2
    <3>5. InPlace(u, i, sizes)
      BY <1>5, <2>2, <2>3, <3>2, <3>3, <3>4 DEF InPlace
    <3> QED BY <1>5, <2>1, <2>2, <3>5
  <2>4. CASE j # 1
    <3>1. j - 1 \in 1 .. l /\ m + (j - 1) = i - 1 /\ i > 1 /\ i # 1 /\ j > 1
      BY <2>1, <2>4
    <3>2. u[i - 1] = t[j - 1] /\ t[j - 1].nalu = k + 1
      BY <1>3, <1>5, <3>1
    <3>3. ~First(u, i)
      BY <2>2, <3>1, <3>2 DEF First
    <3>4. Final(u, i) <=> j = l
      <4>1. CASE j = l
        BY <1>3, <2>1, <4>1 DEF Final
      <4>2. CASE j # l
        <5>1. j + 1 \in 1 .. l /\ i + 1 = m + (j + 1) /\ i # m + l
          BY <2>1, <4>2
        <5>2. u[m + (j + 1)] = t[j + 1] /\ t[j + 1].nalu = k + 1
          BY <1>3, <1>5, <5>1
        <5>3. u[i + 1] = u[m + (j + 1)]
          BY <5>1
        <5>4. u[i + 1].nalu = k + 1
          BY <5>2, <5>3
        <5> QED BY <1>3, <2>2, <4>2, <5>1, <5>4 DEF Final
      <4> QED BY <4>1, <4>2
    <3>5. InPlace(u, i, sizes)
      BY <1>5, <2>2, <2>4, <3>1, <3>2, <3>3, <3>4 DEF InPlace
    <3> QED BY <1>5, <2>1, <2>2, <3>5
  <2> QED BY <2>3, <2>4
<1>8. \A i \in 1 .. Len(u) : u[i].nalu \in 1 .. k + 1 /\ Sound(u[i]) /\ InPlace(u, i, sizes)
  <2> TAKE i \in 1 .. Len(u)
  <2>1. CASE i <= m
    <3>1. i \in 1 .. m
      BY <2>1
    <3> QED BY <1>6, <3>1
  <2>2. CASE i > m
    <3>1. i - m \in 1 .. l /\ m + (i - m) = i
      BY <1>3, <2>2
    <3> QED BY <1>7, <3>1
  <2> QED BY <1>3, <2>1, <2>2
<1>9. ASSUME NEW n \in 1 .. k + 1, sizes[n] > 0
      PROVE  \E i \in 1 .. Len(u) : u[i].nalu = n
  <2>1. CASE n = k + 1
    <3>1. t # <<>>
      BY <1>9, <2>1 DEF OfUnit
    <3>2. l # 0
      BY <1>1, <3>1, EmptySeq DEF OfUnit
    <3>3. 1 \in 1 .. l /\ m + 1 \in 1 .. Len(u)
      BY <1>3, <3>2
    <3>4. u[m + 1].nalu = n
      BY <1>3, <1>5, <2>1, <3>3
    <3> QED BY <3>3, <3>4
  <2>2. CASE n # k + 1
    <3>1. n \in 1 .. k
      BY <2>2
    <3>2. PICK i \in 1 .. m : s[i].nalu = n
      BY <1>1, <1>9, <3>1 DEF Carries
    <3>3. i \in 1 .. Len(u) /\ u[i] = s[i]
      BY <1>3
    <3> QED BY <3>2, <3>3
  <2> QED BY <2>1, <2>2
<1> QED BY <1>2, <1>3, <1>8, <1>9 DEF Carries

\* The packets of a frame before they are numbered.
AllPackets(sizes) == FlattenSeq([n \in DOMAIN sizes |-> NaluPackets(n, sizes[n])])

LEMMA FrameIsCarried ==
  ASSUME NEW sizes \in Seq(Nat)
  PROVE  Carries(AllPackets(sizes), sizes, Len(sizes))
<1> DEFINE C == [k \in 0 .. Len(sizes) |-> {s \in Seq(Pieces) : Carries(s, sizes, k)}]
<1>1. PICK q : q = [n \in DOMAIN sizes |-> NaluPackets(n, sizes[n])]
  OBVIOUS
<1>2. /\ Len(sizes) \in Nat /\ DOMAIN sizes = 1 .. Len(sizes)
      /\ \A n \in DOMAIN sizes : sizes[n] \in Nat
  BY LenProperties, ElementOfSeq
<1>3. \A n \in DOMAIN sizes : OfUnit(q[n], n, sizes[n])
  BY <1>1, <1>2, UnitIsWhole
<1>4. q \in Seq(Seq(Pieces)) /\ Len(q) = Len(sizes)
  <2>1. q \in [1 .. Len(sizes) -> Seq(Pieces)]
    BY <1>1, <1>2, <1>3 DEF OfUnit
  <2> QED BY <1>2, <2>1, SeqDef
<1>5. <<>> \in C[0]
  BY <1>2, EmptySeq DEF Carries
<1>6. ASSUME NEW k \in 1 .. Len(q), NEW s \in C[k - 1]
      PROVE  s \o q[k] \in C[k]
  <2>1. PICK j \in Nat : j = k - 1 /\ k = j + 1 /\ j \in 0 .. Len(sizes) /\ k \in 0 .. Len(sizes)
    BY <1>2, <1>4
  <2>2. Carries(s, sizes, j)
    BY <2>1
  <2>3. OfUnit(q[k], k, sizes[k]) /\ sizes[k] \in Nat
    BY <1>2, <1>3, <1>4
  <2>4. Carries(s \o q[k], sizes, k)
    BY <2>1, <2>2, <2>3, UnitJoins
  <2>5. s \o q[k] \in Seq(Pieces)
    BY <2>4 DEF Carries
  <2> QED BY <2>1, <2>4, <2>5
<1> HIDE DEF C
<1>7. FlattenSeq(q) \in C[Len(q)]
  BY <1>4, <1>5, <1>6, FlattenClosed
<1> QED BY <1>1, <1>2, <1>4, <1>7 DEF AllPackets, C

\* The packets of a frame as they are sent.
LEMMA FrameShape ==
  ASSUME NEW sizes \in Seq(Nat), NEW seq \in Nat, NEW ps, ps = FramePackets(sizes, seq)
  PROVE  /\ ps \in Seq(Pieces) /\ Len(ps) = Len(AllPackets(sizes)) /\ Len(ps) \in Nat
         /\ DOMAIN ps = 1 .. Len(ps)
         /\ Carries(ps, sizes, Len(sizes))
         /\ \A i \in 1 .. Len(ps) : ps[i].seq = SeqNumber(seq + i - 1)
         /\ \A i \in 1 .. Len(ps) : i = Len(ps) => ps[i].marker
<1>1. PICK all : all = AllPackets(sizes)
  OBVIOUS
<1>2. Carries(all, sizes, Len(sizes)) /\ all \in Seq(Pieces)
  BY <1>1, FrameIsCarried DEF Carries
<1>3. PICK n \in Nat : n = Len(all) /\ DOMAIN all = 1 .. n
  BY <1>2, LenProperties
<1>4. ps = [i \in 1 .. n |->
             [all[i] EXCEPT !.marker = @ \/ i = n, !.seq = SeqNumber(seq + i - 1)]]
  BY <1>1, <1>3 DEF FramePackets, AllPackets
<1>5. ASSUME NEW i \in 1 .. n
      PROVE  /\ ps[i] \in Pieces
             /\ ps[i].kind = all[i].kind /\ ps[i].nalu = all[i].nalu
             /\ ps[i].from = all[i].from /\ ps[i].to = all[i].to
             /\ ps[i].start = all[i].start /\ ps[i].end = all[i].end
             /\ ps[i].marker = (all[i].marker \/ i = n)
             /\ ps[i].seq = SeqNumber(seq + i - 1)
  <2>1. all[i] \in Pieces
    BY <1>2, <1>3, ElementOfSeq
  <2>2. PICK v : v = SeqNumber(seq + i - 1)
    OBVIOUS
  <2>3. v \in Int
    <3>1. seq + i - 1 \in Int
      OBVIOUS
    <3> QED BY <2>2, <3>1, SeqSpaceAssumption DEF SeqNumber
  <2>4. PICK a : a = [all[i] EXCEPT !.marker = @ \/ i = n, !.seq = v]
    OBVIOUS
  <2>5. ps[i] = a
    BY <1>4, <2>2, <2>4
  <2>6. /\ a \in Pieces
        /\ a.kind = all[i].kind /\ a.nalu = all[i].nalu
        /\ a.from = all[i].from /\ a.to = all[i].to
        /\ a.start = all[i].start /\ a.end = all[i].end
        /\ a.marker = (all[i].marker \/ i = n) /\ a.seq = v
    BY <2>1, <2>3, <2>4 DEF Pieces
  <2> QED BY <2>2, <2>5, <2>6
<1>6. ps \in Seq(Pieces) /\ Len(ps) = n /\ DOMAIN ps = 1 .. n
  <2>1. ps \in [1 .. n -> Pieces]
    BY <1>4, <1>5
  <2> QED BY <2>1, SeqDef
<1>7. \A i \in 1 .. n : all[i].nalu \in 1 .. Len(sizes) /\ Sound(all[i]) /\ InPlace(all, i, sizes)
  BY <1>2, <1>3 DEF Carries
<1>8. ASSUME NEW i \in 1 .. n
      PROVE  ps[i].nalu \in 1 .. Len(sizes) /\ Sound(ps[i]) /\ InPlace(ps, i, sizes)
  <2>1. i > 1 => /\ i - 1 \in 1 .. n /\ ps[i - 1].nalu = all[i - 1].nalu
                 /\ ps[i - 1].to = all[i - 1].to
    <3>1. ASSUME i > 1 PROVE i - 1 \in 1 .. n
      BY <3>1
    <3> QED BY <1>5, <3>1
  <2>2. i # n => ps[i + 1].nalu = all[i + 1].nalu
    <3>1. ASSUME i # n PROVE i + 1 \in 1 .. n
      BY <3>1
    <3> QED BY <1>5, <3>1
  <2>3. Overhead(ps[i]) = Overhead(all[i])
    BY <1>5 DEF Overhead
  <2>4. i = 1 \/ i > 1
    OBVIOUS
  <2>5. First(ps, i) <=> First(all, i)
    BY <1>5, <2>1, <2>4 DEF First
  <2>6. Final(ps, i) <=> Final(all, i)
    BY <1>3, <1>5, <1>6, <2>2 DEF Final
  <2>7. InPlace(ps, i, sizes)
    <3>1. First(all, i) \/ i > 1
      BY <2>4 DEF First
    <3>2. /\ i > 1 => all[i - 1].nalu <= all[i].nalu
          /\ all[i].start <=> First(all, i)
          /\ all[i].end <=> Final(all, i)
          /\ First(all, i) => all[i].from = Overhead(all[i]) \div 2
          /\ ~First(all, i) => all[i].from = all[i - 1].to + 1
          /\ Final(all, i) => all[i].to = sizes[all[i].nalu] - 1
      BY <1>7 DEF InPlace
    <3>3. i > 1 => ps[i - 1].nalu <= ps[i].nalu
      BY <1>5, <2>1, <3>2
    <3>4. (ps[i].start <=> First(ps, i)) /\ (ps[i].end <=> Final(ps, i))
      BY <1>5, <2>5, <2>6, <3>2
    <3>5. First(ps, i) => ps[i].from = Overhead(ps[i]) \div 2
      BY <1>5, <2>3, <2>5, <3>2
    <3>6. ~First(ps, i) => ps[i].from = ps[i - 1].to + 1
      BY <1>5, <2>1, <2>5, <3>1, <3>2
    <3>7. Final(ps, i) => ps[i].to = sizes[ps[i].nalu] - 1
      BY <1>5, <2>6, <3>2
    <3> QED BY <3>3, <3>4, <3>5, <3>6, <3>7 DEF InPlace
  <2>8. ps[i].end <=> Final(ps, i)
    BY <2>7 DEF InPlace
  <2>9. i = n => ps[i].end
    BY <1>6, <2>8 DEF Final
  <2>10. Sound(ps[i])
    BY <1>5, <1>7, <2>3, <2>9 DEF Sound
  <2> QED BY <1>5, <1>7, <2>7, <2>10
<1>9. ASSUME NEW u \in 1 .. Len(sizes), sizes[u] > 0
      PROVE  \E i \in 1 .. n : ps[i].nalu = u
  <2>1. PICK i \in 1 .. n : all[i].nalu = u
    BY <1>2, <1>3, <1>9 DEF Carries
  <2> QED BY <1>5, <2>1
<1>10. Carries(ps, sizes, Len(sizes))
  BY <1>6, <1>8, <1>9 DEF Carries
<1> QED BY <1>1, <1>3, <1>5, <1>6, <1>10
=============================================================================
