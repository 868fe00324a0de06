------------------------- MODULE ViewerClientProofs -------------------------
(* Proofs of the properties of ViewerClientProps, for every stream of packets, *)
(* every set of look-alikes and reads of any size.                             *)
EXTENDS ViewerClientProps, SequenceTheorems, WellFoundedInduction, TLAPS

\* A set of naturals that has 0, and n + 1 with each n, has them all.
LEMMA AllNumbers ==
  ASSUME NEW S \in SUBSET Nat, 0 \in S, \A n \in S : n + 1 \in S
  PROVE  S = Nat
<1> DEFINE R == OpToRel(<, Nat)
<1>1. IsWellFoundedOn(R, Nat)
  BY NatLessThanWellFounded
<1>2. \A m, n \in Nat : <<n, m>> \in R <=> n < m
  BY DEF OpToRel
<1> HIDE DEF R
<1>3. SUFFICES ASSUME Nat \ S # {} PROVE FALSE
  OBVIOUS
<1>4. PICK m \in Nat \ S : \A n \in Nat \ S : ~(<<n, m>> \in R)
  BY <1>1, <1>3, WFMin
<1>5. m - 1 \in Nat /\ m - 1 < m
  BY <1>4
<1>6. m - 1 \in S
  BY <1>2, <1>4, <1>5
<1>7. (m - 1) + 1 \in S
  BY <1>6
<1> QED BY <1>4, <1>7

-----------------------------------------------------------------------------
(* Bytes and packets.                                                          *)

\* The bytes that may have been sent with the first s packets
Known(s) == {b \in (0 .. s) \X Nat : b[1] # 0 => b[2] \in 1 .. Media[b[1]].size}

LEMMA MediaFacts ==
  /\ Len(Media) \in Nat /\ DOMAIN Media = 1 .. Len(Media)
  /\ \A p \in 1 .. Len(Media) :
       /\ Media[p] \in Interleaved /\ Media[p].kind \in Kinds
       /\ Media[p].size \in Nat /\ Media[p].size >= 4
<1>1. Media \in Seq(Interleaved)
  BY MediaAssumption
<1>2. Len(Media) \in Nat /\ DOMAIN Media = 1 .. Len(Media)
  BY <1>1, LenProperties
<1>3. \A p \in 1 .. Len(Media) : Media[p] \in Interleaved
  BY <1>1, ElementOfSeq
<1> QED BY <1>2, <1>3 DEF Interleaved

\* What seems to be a packet has a kind and a size.
LEMMA MarkerFacts ==
  ASSUME NEW s \in 0 .. Len(Media), NEW b \in Known(s), IsMarker(b)
  PROVE  /\ b \in Starts /\ b[1] \in 1 .. s /\ b[2] \in 1 .. Media[b[1]].size
         /\ PacketAt(b).kind \in Kinds
         /\ PacketAt(b).size \in Nat /\ PacketAt(b).size >= 4
<1>1. /\ b = <<b[1], b[2]>> /\ b[1] \in 1 .. s /\ b[2] \in 1 .. Media[b[1]].size
      /\ b[1] \in 1 .. Len(Media)
  BY MediaFacts DEF Known, IsMarker
<1>2. CASE b[2] = 1
  <2>1. b \in Starts
    BY <1>1, <1>2, MediaFacts DEF Starts
  <2> QED BY <1>1, <1>2, <2>1, MediaFacts DEF PacketAt
<1>3. CASE b[2] # 1
  <2>1. b \in DOMAIN LookAlikes
    BY <1>3 DEF IsMarker
  <2>2. LookAlikes[b] \in Interleaved /\ PacketAt(b) = LookAlikes[b]
    BY <1>3, <2>1, LookAlikesAssumption DEF PacketAt
  <2> QED BY <1>1, <2>1, <2>2 DEF Starts, Interleaved
<1> QED BY <1>2, <1>3

\* The order of bytes in the stream
Before(a, b) == a[1] < b[1] \/ (a[1] = b[1] /\ a[2] < b[2])

\* A piece of a stream of which s packets were sent: packets ascend, a byte is
\* followed by the rest of its packet.
Whole(w, i) ==
  \A k \in w[i][2] .. Media[w[i][1]].size :
    i + (k - w[i][2]) <= Len(w) /\ w[i + (k - w[i][2])] = <<w[i][1], k>>

Ascending(w) ==
  \A i, j \in 1 .. Len(w) : i < j /\ w[i][1] # 0 /\ w[j][1] # 0 => Before(w[i], w[j])

Stream(w, s) ==
  /\ w \in Seq(Known(s))
  /\ Ascending(w)
  /\ \A i \in 1 .. Len(w) : w[i][1] # 0 => Whole(w, i)

\* What is left of a stream after the first n bytes.
LEMMA CutFacts ==
  ASSUME NEW T, NEW w \in Seq(T), NEW n \in 1 .. Len(w)
  PROVE  /\ SubSeq(w, 1, n) \in Seq(T) /\ Len(SubSeq(w, 1, n)) = n
         /\ \A i \in 1 .. n : SubSeq(w, 1, n)[i] = w[i]
         /\ SubSeq(w, n + 1, Len(w)) \in Seq(T)
         /\ Len(SubSeq(w, n + 1, Len(w))) = Len(w) - n
         /\ \A i \in 1 .. Len(w) - n : SubSeq(w, n + 1, Len(w))[i] = w[n + i]
<1>1. Len(w) \in Nat /\ \A i \in 1 .. Len(w) : w[i] \in T
  BY LenProperties, ElementOfSeq
<1>2. SubSeq(w, 1, n) \in Seq(T) /\ Len(SubSeq(w, 1, n)) = n
      /\ \A i \in 1 .. n : SubSeq(w, 1, n)[i] = w[i]
  BY <1>1
<1>3. /\ SubSeq(w, n + 1, Len(w)) \in Seq(T)
      /\ Len(SubSeq(w, n + 1, Len(w))) = Len(w) - n
      /\ \A i \in 1 .. Len(w) - n : SubSeq(w, n + 1, Len(w))[i] = w[n + i]
  BY <1>1
<1> QED BY <1>2, <1>3

LEMMA TailIsStream ==
  ASSUME NEW s \in Nat, NEW w, Stream(w, s), NEW n \in 1 .. Len(w)
  PROVE  Stream(SubSeq(w, n + 1, Len(w)), s)
<1>1. PICK t : t = SubSeq(w, n + 1, Len(w))
  OBVIOUS
<1>2. /\ Len(w) \in Nat /\ t \in Seq(Known(s)) /\ Len(t) = Len(w) - n
      /\ \A i \in 1 .. Len(t) : t[i] = w[n + i] /\ n + i \in 1 .. Len(w)
      /\ \A i \in 1 .. Len(t) : t[i][1] \in Nat /\ t[i][2] \in Nat
  <2>1. w \in Seq(Known(s)) /\ Len(w) \in Nat
    BY LenProperties DEF Stream
  <2>2. PICK T : T = Known(s)
    OBVIOUS
  <2>3. w \in Seq(T)
    BY <2>1, <2>2
  <2>4. /\ t \in Seq(T) /\ Len(t) = Len(w) - n
        /\ \A i \in 1 .. Len(w) - n : t[i] = w[n + i]
    BY <1>1, <2>3, CutFacts
  <2>5. \A i \in 1 .. Len(t) : t[i] \in T
    BY <2>4, ElementOfSeq
  <2>6. \A i \in 1 .. Len(t) : n + i \in 1 .. Len(w)
    BY <2>1, <2>4
  <2>7. \A b \in T : b[1] \in Nat /\ b[2] \in Nat
    BY <2>2 DEF Known
  <2>8. \A i \in 1 .. Len(t) : t[i] = w[n + i]
    BY <2>4
  <2>9. \A i \in 1 .. Len(t) : t[i][1] \in Nat /\ t[i][2] \in Nat
    BY <2>5, <2>7
  <2> QED BY <2>1, <2>2, <2>4, <2>6, <2>8, <2>9
<1>3. Ascending(t)
  <2> SUFFICES ASSUME NEW i \in 1 .. Len(t), NEW j \in 1 .. Len(t), i < j,
                      t[i][1] # 0, t[j][1] # 0
               PROVE  Before(t[i], t[j])
    BY DEF Ascending
  <2>1. n + i < n + j /\ n + i \in 1 .. Len(w) /\ n + j \in 1 .. Len(w)
    BY <1>2
  <2>2. t[i] = w[n + i] /\ t[j] = w[n + j]
    BY <1>2
  <2>3. Ascending(w)
    BY DEF Stream
  <2>4. Before(w[n + i], w[n + j])
    BY <2>1, <2>2, <2>3 DEF Ascending
  <2> QED BY <2>2, <2>4
<1>4. ASSUME NEW i \in 1 .. Len(t), t[i][1] # 0 PROVE Whole(t, i)
  <2>1. t[i] = w[n + i] /\ n + i \in 1 .. Len(w)
    BY <1>2
  <2>2. Whole(w, n + i)
    BY <1>4, <2>1 DEF Stream
  <2>3. ASSUME NEW k \in t[i][2] .. Media[t[i][1]].size
        PROVE  i + (k - t[i][2]) <= Len(t) /\ t[i + (k - t[i][2])] = <<t[i][1], k>>
    <3>1. PICK d \in Nat : d = k - t[i][2]
      BY <1>2
    <3>2. (n + i) + d <= Len(w) /\ w[(n + i) + d] = <<t[i][1], k>>
      BY <2>1, <2>2, <3>1 DEF Whole
    <3>3. i + d <= Len(t) /\ i + d \in 1 .. Len(t) /\ n + (i + d) = (n + i) + d
      BY <1>2, <3>2
    <3> QED BY <1>2, <3>1, <3>2, <3>3
  <2> QED BY <2>3 DEF Whole
<1> QED BY <1>1, <1>2, <1>3, <1>4 DEF Stream

LEMMA BytesFacts ==
  ASSUME NEW q \in Nat, NEW n \in Nat
  PROVE  /\ Bytes(q, n) \in Seq(Nat \X Nat) /\ Len(Bytes(q, n)) = n
         /\ \A i \in 1 .. n : Bytes(q, n)[i] = <<q, i>>
<1>1. PICK c : c = [i \in 1 .. n |-> <<q, i>>]
  OBVIOUS
<1>2. \A i \in 1 .. n : <<q, i>> \in Nat \X Nat
  OBVIOUS
<1>3. c \in Seq(Nat \X Nat)
  BY <1>1, <1>2, IsASeq
<1>4. Len(c) = n /\ \A i \in 1 .. n : c[i] = <<q, i>>
  <2>1. DOMAIN c = 1 .. n /\ DOMAIN c = 1 .. Len(c) /\ Len(c) \in Nat
    BY <1>1, <1>3, LenProperties
  <2> QED BY <1>1, <2>1
<1> QED BY <1>1, <1>3, <1>4 DEF Bytes

Joined(x, w, q, n) ==
  \E l \in Nat : /\ l = Len(w) /\ Len(x) = l + n
                 /\ x = [i \in 1 .. l + n |-> x[i]]
                 /\ \A i \in 1 .. l : x[i] = w[i]
                 /\ \A i \in l + 1 .. l + n : x[i] = <<q, i - l>>

LEMMA LongerFacts ==
  ASSUME NEW s \in Nat, NEW w \in Seq(Known(s)), NEW q \in Nat, NEW n \in Nat,
         NEW x, x = w \o Bytes(q, n)
  PROVE  Joined(x, w, q, n)
<1>1. PICK T : T = Known(s)
  OBVIOUS
<1>2. w \in Seq(T) /\ Len(w) \in Nat
  BY <1>1, LenProperties
<1>3. PICK c : /\ c = Bytes(q, n) /\ Len(c) = n /\ c \in Seq(Nat \X Nat)
               /\ \A i \in 1 .. n : c[i] = <<q, i>>
  BY BytesFacts, ZenonT(60)
<1>4. PICK U : T \subseteq U /\ Nat \X Nat \subseteq U
  <2>1. T \subseteq T \cup (Nat \X Nat) /\ Nat \X Nat \subseteq T \cup (Nat \X Nat)
    OBVIOUS
  <2> QED BY <2>1
<1>5. w \in Seq(U) /\ c \in Seq(U)
  BY <1>2, <1>3, <1>4, SeqMonotonic
<1>6. x = w \o c /\ x \in Seq(U) /\ Len(x) = Len(w) + n
  BY <1>3, <1>5, ConcatProperties
<1>7. \A i \in 1 .. Len(w) + Len(c) : x[i] = IF i <= Len(w) THEN w[i] ELSE c[i - Len(w)]
  BY <1>5, <1>6, ConcatProperties
<1>8. \A i \in 1 .. Len(w) : x[i] = w[i]
  BY <1>2, <1>3, <1>7
<1>9. ASSUME NEW i \in Len(w) + 1 .. Len(w) + n PROVE x[i] = <<q, i - Len(w)>>
  <2>1. i - Len(w) \in 1 .. n /\ i \in 1 .. Len(w) + n /\ ~(i <= Len(w))
    BY <1>2
  <2>2. x[i] = c[i - Len(w)]
    BY <1>3, <1>7, <2>1
  <2> QED BY <1>3, <2>1, <2>2
<1>10. x = [i \in 1 .. Len(w) + n |-> x[i]]
  BY <1>6, LenProperties
<1>11. PICK l \in Nat : l = Len(w)
  BY <1>2
<1> QED BY <1>6, <1>8, <1>9, <1>10, <1>11, Zenon DEF Joined

\* An answer (q = 0) or a packet that joins a stream.
LEMMA LongerIsStream ==
  ASSUME NEW s \in Nat, NEW w, Stream(w, s), NEW r \in Nat, NEW q \in Nat, NEW n \in Nat,
         \/ q = 0 /\ r = s
         \/ q = r /\ r = s + 1 /\ n = Media[r].size
  PROVE  Stream(w \o Bytes(q, n), r)
<1>1. PICK x : x = w \o Bytes(q, n)
  OBVIOUS
<1>2. PICK l \in Nat : /\ l = Len(w) /\ Len(x) = l + n
                       /\ \A i \in 1 .. l : x[i] = w[i]
                       /\ \A i \in l + 1 .. l + n : x[i] = <<q, i - l>>
  <2>1. w \in Seq(Known(s))
    BY DEF Stream
  <2>2. Joined(x, w, q, n)
    BY <1>1, <2>1, LongerFacts
  <2> QED BY <2>2, Zenon DEF Joined
<1>3. /\ \A i \in 1 .. l : w[i] \in Known(s) /\ w[i][1] \in 0 .. s /\ w[i][2] \in Nat
      /\ s <= r
  <2>1. PICK T : T = Known(s)
    OBVIOUS
  <2>2. w \in Seq(T)
    BY <2>1 DEF Stream
  <2>3. \A i \in 1 .. l : w[i] \in T
    BY <1>2, <2>2, ElementOfSeq
  <2> QED BY <2>1, <2>3 DEF Known
<1>4. \A i \in 1 .. l + n : x[i] \in Known(r)
  <2>1. ASSUME NEW i \in 1 .. l PROVE x[i] \in Known(r)
    <3>1. x[i] \in Known(s)
      BY <1>2, <1>3
    <3> QED BY <1>3, <3>1 DEF Known
  <2>2. ASSUME NEW i \in l + 1 .. l + n PROVE x[i] \in Known(r)
    <3>1. x[i] = <<q, i - l>> /\ i - l \in 1 .. n /\ q \in 0 .. r
      BY <1>2
    <3> QED BY <3>1 DEF Known
  <2> QED BY <1>2, <2>1, <2>2
<1>5. x \in Seq(Known(r))
  <2>1. PICK T : T = Known(r)
    OBVIOUS
  <2>2. x = [i \in 1 .. l + n |-> x[i]]
    <3>1. w \in Seq(Known(s)) /\ l = Len(w)
      BY <1>2 DEF Stream
    <3>2. Joined(x, w, q, n)
      BY <1>1, <3>1, LongerFacts
    <3> QED BY <3>1, <3>2, Zenon DEF Joined
  <2>3. \A i \in 1 .. l + n : x[i] \in T
    BY <1>4, <2>1
  <2>4. [i \in 1 .. l + n |-> x[i]] \in Seq(T)
    BY <1>2, <2>3, IsASeq
  <2> QED BY <2>1, <2>2, <2>4
<1>6. Ascending(x)
  <2> SUFFICES ASSUME NEW i \in 1 .. l + n, NEW j \in 1 .. l + n, i < j,
                      x[i][1] # 0, x[j][1] # 0
               PROVE  Before(x[i], x[j])
    BY <1>2 DEF Ascending
  <2>1. CASE j <= l
    <3>1. x[i] = w[i] /\ x[j] = w[j] /\ i \in 1 .. l /\ j \in 1 .. l
      BY <1>2, <2>1
    <3> QED BY <1>2, <3>1 DEF Stream, Ascending
  <2>2. CASE i <= l /\ j > l
    <3>1. x[i][1] \in 0 .. s /\ x[j][1] = q
      BY <1>2, <1>3, <2>2
    <3>2. x[i][1] < x[j][1]
      BY <3>1
    <3> QED BY <3>2 DEF Before
  <2>3. CASE i > l
    <3>1. x[i] = <<q, i - l>> /\ x[j] = <<q, j - l>> /\ i - l < j - l
      BY <1>2, <2>3
    <3> QED BY <3>1 DEF Before
  <2> QED BY <1>2, <2>1, <2>2, <2>3
<1>7. ASSUME NEW i \in 1 .. l + n, x[i][1] # 0 PROVE Whole(x, i)
  <2>1. CASE i <= l
    <3>1. x[i] = w[i] /\ i \in 1 .. Len(w)
      BY <1>2, <2>1
    <3>2. Whole(w, i)
      BY <1>7, <3>1 DEF Stream
    <3> SUFFICES ASSUME NEW k \in x[i][2] .. Media[x[i][1]].size
                 PROVE  i + (k - x[i][2]) <= Len(x) /\ x[i + (k - x[i][2])] = <<x[i][1], k>>
      BY DEF Whole
    <3>3. PICK d \in Nat : d = k - x[i][2]
      BY <1>2, <1>3, <2>1
    <3>4. i + d <= Len(w) /\ w[i + d] = <<x[i][1], k>>
      BY <3>1, <3>2, <3>3 DEF Whole
    <3>5. i + d \in 1 .. l /\ i + d <= Len(x)
      BY <1>2, <3>4
    <3> QED BY <1>2, <3>3, <3>4, <3>5
  <2>2. CASE i > l
    <3>1. x[i] = <<q, i - l>> /\ q = r /\ n = Media[r].size
      BY <1>2, <1>7, <2>2
    <3> SUFFICES ASSUME NEW k \in x[i][2] .. Media[x[i][1]].size
                 PROVE  i + (k - x[i][2]) <= Len(x) /\ x[i + (k - x[i][2])] = <<x[i][1], k>>
      BY DEF Whole
    <3>2. k \in i - l .. n
      BY <3>1
    <3>3. x[i][1] = q /\ x[i][2] = i - l
      BY <3>1
    <3>4. PICK j \in l + 1 .. l + n : j = i + (k - (i - l)) /\ j - l = k /\ j <= l + n
      <4>1. /\ i + (k - (i - l)) = k + l /\ k + l \in l + 1 .. l + n
            /\ (k + l) - l = k /\ k + l <= l + n
        BY <2>2, <3>2
      <4> QED BY <4>1, Zenon
    <3>5. x[j] = <<q, k>>
      <4>1. x[j] = <<q, j - l>>
        BY <1>2, Zenon
      <4> QED BY <3>4, <4>1, Zenon
    <3>6. j = i + (k - x[i][2])
      BY <3>3, <3>4, Zenon
    <3>7. j <= Len(x)
      BY <1>2, <3>4, Zenon
    <3> QED BY <3>3, <3>5, <3>6, <3>7, Zenon
  <2> QED BY <1>2, <2>1, <2>2
<1> QED BY <1>1, <1>2, <1>5, <1>6, <1>7 DEF Stream

-----------------------------------------------------------------------------
(* Scan is a recursive function, FoldLeft one of the library: what holds of    *)
(* each step holds of the result.                                              *)

ScanStep(buf, g, i) ==
  IF i > Len(buf) THEN [packets |-> <<>>, offset |-> i - 1]
  ELSE IF Complete(buf, i)
  THEN [g[i + PacketAt(buf[i]).size] EXCEPT !.packets = <<buf[i]>> \o @]
  ELSE g[i + 1]

ScanFrom(buf, m, g) == g = [i \in m .. Len(buf) + 1 |-> ScanStep(buf, g, i)]

\* Packets have a size, and a complete one ends in the buffer.
Sized(buf) ==
  /\ Len(buf) \in Nat
  /\ \A i \in 1 .. Len(buf) : Complete(buf, i) =>
       i + PacketAt(buf[i]).size \in i + 1 .. Len(buf) + 1

\* A step depends on what comes after it only.
LEMMA StepLooksAhead ==
  ASSUME NEW buf, Sized(buf), NEW i \in 1 .. Len(buf) + 1, NEW g, NEW h,
         \A j \in i + 1 .. Len(buf) + 1 : g[j] = h[j]
  PROVE  ScanStep(buf, g, i) = ScanStep(buf, h, i)
<1>1. CASE i > Len(buf)
  BY <1>1 DEF ScanStep
<1>2. CASE i <= Len(buf) /\ Complete(buf, i)
  <2>1. PICK j \in i + 1 .. Len(buf) + 1 : j = i + PacketAt(buf[i]).size
    BY <1>2 DEF Sized
  <2>2. g[j] = h[j]
    OBVIOUS
  <2>3. ~(i > Len(buf))
    BY <1>2 DEF Sized
  <2> QED BY <1>2, <2>1, <2>2, <2>3 DEF ScanStep
<1>3. CASE i <= Len(buf) /\ ~Complete(buf, i)
  <2>1. i + 1 \in i + 1 .. Len(buf) + 1 /\ ~(i > Len(buf))
    BY <1>3 DEF Sized
  <2>2. g[i + 1] = h[i + 1]
    BY <2>1
  <2> QED BY <1>3, <2>1, <2>2 DEF ScanStep
<1> QED BY <1>1, <1>2, <1>3 DEF Sized

LEMMA ScanExists ==
  ASSUME NEW buf, Sized(buf)
  PROVE  \E g : ScanFrom(buf, 1, g)
<1> DEFINE n == Len(buf)
           S == {k \in Nat : k <= n => \E g : ScanFrom(buf, n + 1 - k, g)}
<1>1. n \in Nat
  BY DEF Sized
<1>2. 0 \in S
  <2>1. PICK g : g = [i \in n + 1 .. n + 1 |-> [packets |-> <<>>, offset |-> i - 1]]
    OBVIOUS
  <2>2. \A i \in n + 1 .. n + 1 : ScanStep(buf, g, i) = [packets |-> <<>>, offset |-> i - 1]
    BY <1>1 DEF ScanStep
  <2>3. g = [i \in n + 1 .. n + 1 |-> ScanStep(buf, g, i)]
    BY <2>1, <2>2
  <2>4. n + 1 - 0 = n + 1
    BY <1>1
  <2> QED BY <2>3, <2>4 DEF ScanFrom
<1>3. ASSUME NEW k \in S PROVE k + 1 \in S
  <2> SUFFICES ASSUME k + 1 <= n PROVE \E g : ScanFrom(buf, n + 1 - (k + 1), g)
    OBVIOUS
  <2>1. PICK m \in 1 .. n : m = n - k
    <3>1. k \in Nat /\ n - k \in 1 .. n
      BY <1>1
    <3> QED BY <3>1
  <2>2. n + 1 - k = m + 1 /\ n + 1 - (k + 1) = m /\ k <= n
    BY <1>1, <2>1
  <2>3. PICK g : ScanFrom(buf, m + 1, g)
    BY <2>2
  <2>4. PICK h : h = [i \in m .. n + 1 |-> IF i = m THEN ScanStep(buf, g, m) ELSE g[i]]
    OBVIOUS
  <2>5. \A i \in m + 1 .. n + 1 : h[i] = g[i]
    <3>1. \A i \in m + 1 .. n + 1 : i \in m .. n + 1 /\ i # m
      BY <1>1
    <3> QED BY <2>4, <3>1
  <2>6. ASSUME NEW i \in m .. n + 1 PROVE ScanStep(buf, g, i) = ScanStep(buf, h, i)
    <3>1. i \in 1 .. n + 1 /\ \A j \in i + 1 .. n + 1 : j \in m + 1 .. n + 1
      BY <1>1
    <3>2. \A j \in i + 1 .. n + 1 : g[j] = h[j]
      BY <2>5, <3>1
    <3> QED BY <3>1, <3>2, StepLooksAhead
  <2>7. \A i \in m + 1 .. n + 1 : g[i] = ScanStep(buf, g, i)
    BY <2>3 DEF ScanFrom
  <2>8. \A i \in m .. n + 1 : h[i] = ScanStep(buf, h, i)
    <3>1. ASSUME NEW i \in m .. n + 1 PROVE h[i] = ScanStep(buf, g, i)
      <4>1. i = m \/ i \in m + 1 .. n + 1
        BY <1>1
      <4> QED BY <2>4, <2>7, <4>1
    <3> QED BY <2>6, <3>1
  <2>9. ScanFrom(buf, m, h)
    BY <2>4, <2>8 DEF ScanFrom
  <2> QED BY <2>2, <2>9
<1>4. S = Nat
  <2>1. S \in SUBSET Nat
    OBVIOUS
  <2> HIDE DEF S
  <2> QED BY <1>2, <1>3, <2>1, AllNumbers
<1>5. n \in S /\ n + 1 - n = 1
  BY <1>1, <1>4
<1> QED BY <1>1, <1>5

\* If C[i] has what every step from i returns when the steps after it return what is
\* in theirs, C[1] has the result.
LEMMA ScanClosed ==
  ASSUME NEW buf, Sized(buf), NEW C,
         [packets |-> <<>>, offset |-> Len(buf)] \in C[Len(buf) + 1],
         \A i \in 1 .. Len(buf) : Complete(buf, i) =>
           \A r \in C[i + PacketAt(buf[i]).size] :
             [r EXCEPT !.packets = <<buf[i]>> \o @] \in C[i],
         \A i \in 1 .. Len(buf) : ~Complete(buf, i) => C[i + 1] \subseteq C[i]
  PROVE  Scan(buf) \in C[1]
<1> DEFINE n == Len(buf)
           f == CHOOSE g : ScanFrom(buf, 1, g)
<1>1. n \in Nat
  BY DEF Sized
<1>2. ScanFrom(buf, 1, f)
  BY ScanExists
<1>3. Scan(buf) = f[1]
  BY DEF Scan, ScanFrom, ScanStep
<1> HIDE DEF f
<1>4. \A i \in 1 .. n + 1 : f[i] = ScanStep(buf, f, i)
  BY <1>2 DEF ScanFrom
<1> DEFINE S == {k \in Nat : \A i \in 1 .. n + 1 : i >= n + 1 - k => f[i] \in C[i]}
<1>5. 0 \in S
  <2>1. n + 1 \in 1 .. n + 1 /\ (n + 1) - 1 = n /\ n + 1 > n
    BY <1>1
  <2>2. f[n + 1] = [packets |-> <<>>, offset |-> n]
    BY <1>4, <2>1 DEF ScanStep
  <2>3. \A i \in 1 .. n + 1 : i >= n + 1 - 0 => i = n + 1
    BY <1>1
  <2> QED BY <2>2, <2>3
<1>6. ASSUME NEW k \in S PROVE k + 1 \in S
  <2> SUFFICES ASSUME NEW i \in 1 .. n + 1, i >= n + 1 - (k + 1) PROVE f[i] \in C[i]
    OBVIOUS
  <2>1. \A j \in i + 1 .. n + 1 : j \in 1 .. n + 1 /\ j >= n + 1 - k
    BY <1>1
  <2>2. \A j \in i + 1 .. n + 1 : f[j] \in C[j]
    BY <2>1
  <2>3. CASE i = n + 1
    <3>1. n + 1 >= n + 1 - k
      BY <1>1
    <3> QED BY <2>3, <3>1
  <2>4. CASE i # n + 1 /\ Complete(buf, i)
    <3>1. i \in 1 .. n /\ ~(i > n)
      BY <1>1, <2>4
    <3>2. PICK j \in i + 1 .. n + 1 : j = i + PacketAt(buf[i]).size
      BY <2>4, <3>1 DEF Sized
    <3>3. f[i] = [f[j] EXCEPT !.packets = <<buf[i]>> \o @]
      BY <1>4, <2>4, <3>1, <3>2 DEF ScanStep
    <3>4. f[j] \in C[j]
      BY <2>2
    <3>5. \A r \in C[j] : [r EXCEPT !.packets = <<buf[i]>> \o @] \in C[i]
      BY <2>4, <3>1, <3>2
    <3>6. PICK r \in C[j] : r = f[j]
      BY <3>4
    <3>7. f[i] = [r EXCEPT !.packets = <<buf[i]>> \o @]
      BY <3>3, <3>6, Zenon
    <3>8. PICK c : c = [r EXCEPT !.packets = <<buf[i]>> \o @]
      OBVIOUS
    <3>9. c \in C[i]
      BY <3>5, <3>8
    <3> QED BY <3>7, <3>8, <3>9
  <2>5. CASE i # n + 1 /\ ~Complete(buf, i)
    <3>1. i \in 1 .. n /\ ~(i > n) /\ i + 1 \in i + 1 .. n + 1
      BY <1>1, <2>5
    <3>2. f[i] = f[i + 1]
      BY <1>4, <2>5, <3>1 DEF ScanStep
    <3>3. f[i + 1] \in C[i + 1]
      BY <2>2, <3>1
    <3> QED BY <2>5, <3>1, <3>2, <3>3
  <2> QED BY <2>3, <2>4, <2>5
<1>7. S = Nat
  <2>1. S \in SUBSET Nat
    OBVIOUS
  <2> HIDE DEF S
  <2> QED BY <1>5, <1>6, <2>1, AllNumbers
<1>8. n \in S /\ 1 \in 1 .. n + 1 /\ 1 >= n + 1 - n
  BY <1>1, <1>7
<1> QED BY <1>3, <1>8

FoldStep(g, seq, base, D) ==
  IF D = {} THEN base ELSE assemble(g[D \ {Max(D)}], seq[Max(D)])

FoldOver(g, seq, base, n) == g = [D \in SUBSET (1 .. n) |-> FoldStep(g, seq, base, D)]

LEMMA MaxIsLast ==
  ASSUME NEW n \in Nat, NEW D, D \subseteq 1 .. n + 1, n + 1 \in D
  PROVE  Max(D) = n + 1
<1>1. \A y \in D : n + 1 >= y
  OBVIOUS
<1>2. \A x \in D : (\A y \in D : x >= y) => x = n + 1
  OBVIOUS
<1> QED BY <1>1, <1>2, Zenon DEF Max

LEMMA FoldExists ==
  ASSUME NEW seq, NEW base, NEW n \in Nat
  PROVE  \E g : FoldOver(g, seq, base, n)
<1> DEFINE S == {k \in Nat : \E g : FoldOver(g, seq, base, k)}
<1>1. 0 \in S
  <2>1. PICK g : g = [D \in SUBSET (1 .. 0) |-> base]
    OBVIOUS
  <2>2. \A D \in SUBSET (1 .. 0) : D = {}
    OBVIOUS
  <2>3. \A D \in SUBSET (1 .. 0) : FoldStep(g, seq, base, D) = base
    BY <2>2 DEF FoldStep
  <2>4. FoldOver(g, seq, base, 0)
    BY <2>1, <2>3 DEF FoldOver
  <2> QED BY <2>4
<1>2. ASSUME NEW k \in S PROVE k + 1 \in S
  <2>1. k \in Nat
    OBVIOUS
  <2>2. PICK g : FoldOver(g, seq, base, k)
    OBVIOUS
  <2>3. PICK m \in Nat : m = k + 1
    BY <2>1
  <2>4. PICK h : h = [D \in SUBSET (1 .. m) |->
                       IF m \in D THEN assemble(g[D \ {m}], seq[m]) ELSE g[D]]
    OBVIOUS
  <2>5. \A D \in SUBSET (1 .. m) : D \ {m} \in SUBSET (1 .. k)
    BY <2>1, <2>3
  <2>6. \A D \in SUBSET (1 .. k) : D \in SUBSET (1 .. m) /\ m \notin D
    BY <2>1, <2>3
  <2>7. \A D \in SUBSET (1 .. k) : h[D] = g[D]
    BY <2>4, <2>6, Zenon
  <2>8. ASSUME NEW D \in SUBSET (1 .. m), m \in D PROVE h[D] = FoldStep(h, seq, base, D)
    <3>1. Max(D) = m /\ D # {}
      BY <2>1, <2>3, <2>8, MaxIsLast
    <3>2. h[D \ {m}] = g[D \ {m}]
      BY <2>5, <2>7
    <3>3. h[D] = assemble(g[D \ {m}], seq[m])
      BY <2>4, <2>8
    <3> QED BY <3>1, <3>2, <3>3 DEF FoldStep
  <2>9. ASSUME NEW D \in SUBSET (1 .. m), m \notin D PROVE h[D] = FoldStep(h, seq, base, D)
    <3>1. D \in SUBSET (1 .. k) /\ D \ {m} = D
      BY <2>5, <2>9
    <3>2. g[D] = FoldStep(g, seq, base, D)
      BY <2>2, <3>1 DEF FoldOver
    <3>3. D \ {Max(D)} \in SUBSET (1 .. k)
      BY <3>1
    <3>4. h[D] = g[D] /\ h[D \ {Max(D)}] = g[D \ {Max(D)}]
      BY <2>7, <3>1, <3>3
    <3> QED BY <3>2, <3>4 DEF FoldStep
  <2>10. \A D \in SUBSET (1 .. m) : h[D] = FoldStep(h, seq, base, D)
    BY <2>8, <2>9
  <2>11. FoldOver(h, seq, base, m)
    BY <2>4, <2>10, Zenon DEF FoldOver
  <2> QED BY <2>3, <2>11
<1>3. S = Nat
  <2>1. S \in SUBSET Nat
    OBVIOUS
  <2> HIDE DEF S
  <2> QED BY <1>1, <1>2, <2>1, AllNumbers
<1> QED BY <1>3

\* If assembling the first k packets gives something in C[k] whenever the first k - 1
\* give something in C[k - 1], assembling all gives something in the last C.
LEMMA FoldClosed ==
  ASSUME NEW T, NEW seq \in Seq(T), NEW base, NEW C, base \in C[0],
         \A k \in 1 .. Len(seq) : \A a \in C[k - 1] : assemble(a, seq[k]) \in C[k]
  PROVE  FoldLeft(assemble, base, seq) \in C[Len(seq)]
<1> DEFINE n == Len(seq)
           f == CHOOSE g : FoldOver(g, seq, base, n)
<1>1. n \in Nat /\ DOMAIN seq = 1 .. n
  BY LenProperties
<1>2. FoldOver(f, seq, base, n)
  BY <1>1, FoldExists
<1>3. FoldLeft(assemble, base, seq) = f[1 .. n]
  BY <1>1 DEF FoldLeft, MapThenFoldSet, FoldOver, FoldStep
<1> HIDE DEF f
<1> DEFINE S == {k \in Nat : k <= n => f[1 .. k] \in C[k]}
<1>4. 0 \in S
  <2>1. 1 .. 0 = {} /\ {} \in SUBSET (1 .. n)
    OBVIOUS
  <2>2. f[{}] = base
    BY <1>2, <2>1 DEF FoldOver, FoldStep
  <2> QED BY <2>1, <2>2
<1>5. ASSUME NEW k \in S PROVE k + 1 \in S
  <2> SUFFICES ASSUME k + 1 <= n PROVE f[1 .. k + 1] \in C[k + 1]
    OBVIOUS
  <2>1. k \in Nat /\ k <= n /\ k + 1 \in 1 .. n /\ (k + 1) - 1 = k
    BY <1>1
  <2>2. /\ 1 .. k + 1 \in SUBSET (1 .. n) /\ 1 .. k + 1 # {} /\ k + 1 \in 1 .. k + 1
        /\ (1 .. k + 1) \ {k + 1} = 1 .. k
    <3>1. \A i : i \in 1 .. k + 1 /\ i # k + 1 <=> i \in 1 .. k
      BY <2>1
    <3>2. k + 1 \in 1 .. k + 1 /\ \A i \in 1 .. k + 1 : i \in 1 .. n
      BY <1>1, <2>1
    <3> QED BY <3>1, <3>2
  <2>3. Max(1 .. k + 1) = k + 1
    BY <2>1, <2>2, MaxIsLast
  <2>4. f[1 .. k + 1] = assemble(f[1 .. k], seq[k + 1])
    BY <1>2, <2>2, <2>3 DEF FoldOver, FoldStep
  <2>5. f[1 .. k] \in C[k]
    BY <2>1
  <2>6. \A a \in C[k] : assemble(a, seq[k + 1]) \in C[k + 1]
    BY <2>1
  <2> QED BY <2>4, <2>5, <2>6
<1>6. S = Nat
  <2>1. S \in SUBSET Nat
    OBVIOUS
  <2> HIDE DEF S
  <2> QED BY <1>4, <1>5, <2>1, AllNumbers
<1>7. n \in S
  BY <1>1, <1>6
<1> QED BY <1>1, <1>3, <1>7

-----------------------------------------------------------------------------
(* What the packet loop takes.                                                 *)

\* Where the packet at a place of the buffer ends, and the next may begin
End(buf, j) == j + PacketAt(buf[j]).size

\* The packets ps are those at the places js, from place i on: complete, none inside
\* another, and no complete one elsewhere but inside one of them.
Places(buf, i, ps, js) ==
  /\ \A k \in 1 .. Len(ps) : Complete(buf, js[k]) /\ ps[k] = buf[js[k]]
  /\ \A k, l \in 1 .. Len(ps) : k < l => End(buf, js[k]) <= js[l]
  /\ \A j \in i .. Len(buf) : Complete(buf, j) =>
       \E k \in 1 .. Len(ps) : js[k] <= j /\ j < End(buf, js[k])

Taken(buf, i, ps) == \E js \in [1 .. Len(ps) -> i .. Len(buf)] : Places(buf, i, ps, js)

LEMMA StreamIsSized ==
  ASSUME NEW s \in 0 .. Len(Media), NEW buf \in Seq(Known(s))
  PROVE  /\ Sized(buf)
         /\ \A i \in 1 .. Len(buf) : Complete(buf, i) => buf[i] \in Starts
<1>1. PICK T : T = Known(s)
  OBVIOUS
<1>2. buf \in Seq(T)
  BY <1>1
<1>3. Len(buf) \in Nat /\ \A i \in 1 .. Len(buf) : buf[i] \in Known(s)
  BY <1>1, <1>2, LenProperties, ElementOfSeq
<1>4. ASSUME NEW i \in 1 .. Len(buf), Complete(buf, i)
      PROVE  /\ i + PacketAt(buf[i]).size \in i + 1 .. Len(buf) + 1
             /\ buf[i] \in Starts
  <2>1. IsMarker(buf[i]) /\ i + PacketAt(buf[i]).size - 1 <= Len(buf)
    BY <1>4 DEF Complete
  <2>2. buf[i] \in Starts /\ PacketAt(buf[i]).size \in Nat /\ PacketAt(buf[i]).size >= 4
    BY <1>3, <2>1, MarkerFacts
  <2>3. PICK z \in Nat : z = PacketAt(buf[i]).size /\ z >= 4
    BY <2>2
  <2> QED BY <1>3, <2>1, <2>2, <2>3
<1> QED BY <1>3, <1>4 DEF Sized

\* A packet taken before others.
LEMMA TakeFirst ==
  ASSUME NEW buf, Sized(buf), NEW i \in 1 .. Len(buf), Complete(buf, i), buf[i] \in Starts,
         NEW ps \in Seq(Starts), Taken(buf, End(buf, i), ps)
  PROVE  /\ <<buf[i]>> \o ps \in Seq(Starts)
         /\ Taken(buf, i, <<buf[i]>> \o ps)
<1>1. PICK z \in Nat : z = End(buf, i) /\ z \in i + 1 .. Len(buf) + 1
  BY DEF Sized, End
<1>2. PICK n \in Nat : n = Len(ps)
  BY LenProperties
<1>3. PICK m \in Nat : m = Len(buf)
  BY DEF Sized
<1>4. PICK js \in [1 .. n -> z .. m] : Places(buf, z, ps, js)
  BY <1>1, <1>2, <1>3 DEF Taken
<1>5. PICK qs : qs = <<buf[i]>> \o ps
  OBVIOUS
<1>6. /\ qs \in Seq(Starts) /\ Len(qs) = n + 1
      /\ qs[1] = buf[i] /\ \A k \in 2 .. n + 1 : qs[k] = ps[k - 1]
  <2>1. <<buf[i]>> \in Seq(Starts) /\ Len(<<buf[i]>>) = 1 /\ <<buf[i]>>[1] = buf[i]
    OBVIOUS
  <2>2. qs \in Seq(Starts) /\ Len(qs) = 1 + n
        /\ \A k \in 1 .. 1 + n : qs[k] = IF k <= 1 THEN <<buf[i]>>[k] ELSE ps[k - 1]
    BY <1>2, <1>5, <2>1, ConcatProperties
  <2>3. 1 \in 1 .. 1 + n /\ \A k \in 2 .. n + 1 : k \in 1 .. 1 + n /\ ~(k <= 1)
    OBVIOUS
  <2> QED BY <2>1, <2>2, <2>3
<1>7. PICK ls : ls = [k \in 1 .. n + 1 |-> IF k = 1 THEN i ELSE js[k - 1]]
  OBVIOUS
<1>8. /\ ls[1] = i /\ \A k \in 2 .. n + 1 : k - 1 \in 1 .. n /\ ls[k] = js[k - 1]
      /\ \A k \in 1 .. n + 1 : k = 1 \/ k \in 2 .. n + 1
  <2>1. 1 \in 1 .. n + 1 /\ \A k \in 2 .. n + 1 : k \in 1 .. n + 1 /\ k # 1 /\ k - 1 \in 1 .. n
    OBVIOUS
  <2> QED BY <1>7, <2>1
<1>9. ls \in [1 .. n + 1 -> i .. m]
  <2>1. ASSUME NEW k \in 1 .. n + 1 PROVE ls[k] \in i .. m
    <3>1. CASE k = 1
      BY <1>3, <1>8, <3>1
    <3>2. CASE k \in 2 .. n + 1
      <4>1. js[k - 1] \in z .. m
        BY <1>4, <1>8, <3>2
      <4> QED BY <1>1, <1>8, <3>2, <4>1
    <3> QED BY <1>8, <3>1, <3>2
  <2> QED BY <1>7, <2>1
<1>10. \A k \in 1 .. n : Complete(buf, js[k]) /\ ps[k] = buf[js[k]] /\ js[k] >= z
  BY <1>2, <1>4 DEF Places
<1>11. \A k \in 1 .. n + 1 : Complete(buf, ls[k]) /\ qs[k] = buf[ls[k]]
  BY <1>6, <1>8, <1>10
<1>12. ASSUME NEW k \in 1 .. n + 1, NEW l \in 1 .. n + 1, k < l
       PROVE  End(buf, ls[k]) <= ls[l]
  <2>1. l \in 2 .. n + 1
    BY <1>12
  <2>2. CASE k = 1
    BY <1>1, <1>8, <1>10, <2>1, <2>2
  <2>3. CASE k \in 2 .. n + 1
    <3>1. k - 1 < l - 1 /\ k - 1 \in 1 .. n /\ l - 1 \in 1 .. n
      BY <1>12, <2>1, <2>3
    <3>2. End(buf, js[k - 1]) <= js[l - 1]
      BY <1>2, <1>4, <3>1 DEF Places
    <3> QED BY <1>8, <2>1, <2>3, <3>2
  <2> QED BY <1>8, <2>2, <2>3
<1>13. ASSUME NEW j \in i .. m, Complete(buf, j)
       PROVE  \E k \in 1 .. n + 1 : ls[k] <= j /\ j < End(buf, ls[k])
  <2>1. CASE j < z
    <3>1. 1 \in 1 .. n + 1 /\ ls[1] <= j /\ j < End(buf, ls[1])
      BY <1>1, <1>8, <2>1
    <3> QED BY <3>1
  <2>2. CASE j >= z
    <3>1. j \in z .. m
      BY <2>2
    <3>2. PICK k \in 1 .. n : js[k] <= j /\ j < End(buf, js[k])
      BY <1>2, <1>3, <1>4, <1>13, <3>1 DEF Places
    <3>3. k + 1 \in 2 .. n + 1 /\ k + 1 \in 1 .. n + 1 /\ (k + 1) - 1 = k
      OBVIOUS
    <3>4. ls[k + 1] = js[k]
      BY <1>8, <3>3
    <3> QED BY <3>2, <3>3, <3>4
  <2> QED BY <1>1, <2>1, <2>2
<1>14. Places(buf, i, qs, ls)
  BY <1>3, <1>6, <1>11, <1>12, <1>13 DEF Places
<1>15. Taken(buf, i, qs)
  BY <1>3, <1>6, <1>9, <1>14 DEF Taken
<1> QED BY <1>5, <1>6, <1>15

\* A place where no packet is complete adds nothing.
LEMMA SkipPlace ==
  ASSUME NEW buf, Sized(buf), NEW i \in 1 .. Len(buf), ~Complete(buf, i),
         NEW ps, Taken(buf, i + 1, ps)
  PROVE  Taken(buf, i, ps)
<1>1. PICK m \in Nat : m = Len(buf)
  BY DEF Sized
<1>2. PICK js \in [1 .. Len(ps) -> i + 1 .. m] : Places(buf, i + 1, ps, js)
  BY <1>1 DEF Taken
<1>3. js \in [1 .. Len(ps) -> i .. m]
  <2>1. \A j \in i + 1 .. m : j \in i .. m
    BY <1>1
  <2> QED BY <2>1
<1>4. \A j \in i .. m : Complete(buf, j) => j \in i + 1 .. m
  BY <1>1
<1>5. Places(buf, i, ps, js)
  BY <1>1, <1>2, <1>4 DEF Places
<1> QED BY <1>1, <1>3, <1>5 DEF Taken

LEMMA ScanTakes ==
  ASSUME NEW s \in 0 .. Len(Media), NEW buf \in Seq(Known(s))
  PROVE  /\ Scan(buf).offset = Len(buf)
         /\ Scan(buf).packets \in Seq(Starts)
         /\ Taken(buf, 1, Scan(buf).packets)
<1>1. Sized(buf) /\ \A i \in 1 .. Len(buf) : Complete(buf, i) => buf[i] \in Starts
  BY StreamIsSized
<1>2. PICK n \in Nat : n = Len(buf)
  BY <1>1 DEF Sized
<1> DEFINE R(i) == {r \in [packets : Seq(Starts), offset : {n}] : Taken(buf, i, r.packets)}
           C == [i \in 1 .. n + 1 |-> R(i)]
<1>3. [packets |-> <<>>, offset |-> n] \in C[n + 1]
  <2>1. PICK r : r = [packets |-> <<>>, offset |-> n]
    OBVIOUS
  <2>2. r \in [packets : Seq(Starts), offset : {n}] /\ r.packets = <<>> /\ Len(r.packets) = 0
    BY <2>1
  <2>3. PICK js : js = [k \in 1 .. 0 |-> 0]
    OBVIOUS
  <2>4. js \in [1 .. Len(r.packets) -> n + 1 .. n]
    BY <2>2, <2>3
  <2>5. Places(buf, n + 1, r.packets, js)
    BY <1>2, <2>2 DEF Places
  <2>6. Taken(buf, n + 1, r.packets)
    BY <1>2, <2>4, <2>5 DEF Taken
  <2>7. r \in R(n + 1)
    BY <2>2, <2>6
  <2>8. n + 1 \in 1 .. n + 1
    OBVIOUS
  <2> HIDE DEF R
  <2> QED BY <2>1, <2>7, <2>8
<1>4. ASSUME NEW i \in 1 .. n, Complete(buf, i), NEW r \in C[i + PacketAt(buf[i]).size]
      PROVE  [r EXCEPT !.packets = <<buf[i]>> \o @] \in C[i]
  <2>1. PICK z \in 1 .. n + 1 : z = End(buf, i) /\ z = i + PacketAt(buf[i]).size
    BY <1>1, <1>2, <1>4 DEF Sized, End
  <2>2. /\ r \in [packets : Seq(Starts), offset : {n}]
        /\ Taken(buf, End(buf, i), r.packets)
    BY <2>1
  <2>3. PICK ps : ps = r.packets /\ ps \in Seq(Starts) /\ Taken(buf, End(buf, i), ps)
    BY <2>2
  <2>4. PICK q : q = [r EXCEPT !.packets = <<buf[i]>> \o @]
    OBVIOUS
  <2>5. <<buf[i]>> \o ps \in Seq(Starts) /\ Taken(buf, i, <<buf[i]>> \o ps)
    BY <1>1, <1>2, <1>4, <2>3, TakeFirst
  <2>6. q.packets = <<buf[i]>> \o ps
    BY <2>2, <2>3, <2>4
  <2>7. q \in [packets : Seq(Starts), offset : {n}]
    BY <2>2, <2>3, <2>4, <2>5
  <2>8. q \in R(i)
    BY <2>5, <2>6, <2>7
  <2> QED BY <2>4, <2>8
<1>5. ASSUME NEW i \in 1 .. n, ~Complete(buf, i) PROVE C[i + 1] \subseteq C[i]
  <2>1. i + 1 \in 1 .. n + 1 /\ i \in 1 .. n + 1
    OBVIOUS
  <2>2. ASSUME NEW r \in R(i + 1) PROVE r \in R(i)
    <3>1. Taken(buf, i, r.packets)
      BY <1>1, <1>2, <1>5, SkipPlace
    <3> QED BY <3>1
  <2> QED BY <2>1, <2>2
<1> HIDE DEF C
<1>6. Scan(buf) \in C[1]
  BY <1>1, <1>2, <1>3, <1>4, <1>5, ScanClosed
<1>7. Scan(buf) \in R(1)
  BY <1>6 DEF C
<1> QED BY <1>2, <1>7

-----------------------------------------------------------------------------
(* What the assembler makes of packets in their order.                         *)

\* Packets in the order of the stream, none of which lies inside another
Ordered(ps) ==
  /\ \A i, j \in 1 .. Len(ps) : i < j => Before(ps[i], ps[j])
  /\ \A i, j \in 1 .. Len(ps) : i # j /\ ps[i][2] = 1 => ps[j][1] # ps[i][1]

\* The packets from the p-th to the q-th
Run(p, q) == [i \in 1 .. q - p + 1 |-> <<p + i - 1, 1>>]

\* ps has each of them.
Has(ps, p, q) == \A k \in p .. q : \E i \in 1 .. Len(ps) : ps[i] = <<k, 1>>

Assembly == [fu : Seq(Starts), nals : Seq(Seq(Starts))]

\* What is known of the assembler a after the packets ps: it has made every unit of which
\* it got all packets, and holds those of a unit under way.
Assembled(ps, a) ==
  \A u \in Units :
    /\ Has(ps, u[1], u[2]) => \E n \in 1 .. Len(a.nals) : a.nals[n] = Run(u[1], u[2])
    /\ \A q \in u[1] .. u[2] - 1 :
         Has(ps, u[1], q) /\ Len(ps) > 0 /\ ps[Len(ps)] = <<q, 1>> => a.fu = Run(u[1], q)

LEMMA AppendFacts ==
  ASSUME NEW T, NEW s \in Seq(T), NEW e \in T
  PROVE  /\ Append(s, e) \in Seq(T) /\ Len(s) \in Nat /\ Len(Append(s, e)) = Len(s) + 1
         /\ \A i \in 1 .. Len(s) : Append(s, e)[i] = s[i]
         /\ Append(s, e)[Len(s) + 1] = e
<1>1. Len(s) \in Nat
  BY LenProperties
<1> QED BY <1>1

\* One packet keeps the types, and takes away no unit.
LEMMA AssembleTyped ==
  ASSUME NEW a \in Assembly, NEW x \in Starts, PacketAt(x).kind \in Kinds
  PROVE  /\ assemble(a, x) \in Assembly
         /\ \A n \in 1 .. Len(a.nals) : /\ n \in 1 .. Len(assemble(a, x).nals)
                                        /\ assemble(a, x).nals[n] = a.nals[n]
<1>1. PICK fu \in Seq(Starts), nals_ \in Seq(Seq(Starts)) : fu = a.fu /\ nals_ = a.nals
  BY DEF Assembly
<1>2. a = [fu |-> fu, nals |-> nals_]
  BY <1>1 DEF Assembly
<1>3. <<x>> \in Seq(Starts) /\ Append(fu, x) \in Seq(Starts) /\ <<>> \in Seq(Starts)
  BY AppendFacts
<1>4. /\ Append(nals_, <<x>>) \in Seq(Seq(Starts))
      /\ Append(nals_, Append(fu, x)) \in Seq(Seq(Starts))
  BY <1>3, AppendFacts
<1>5. PICK b : b = assemble(a, x)
  OBVIOUS
<1>6. PICK f \in Seq(Starts), e \in Seq(Starts) :
        b = [fu |-> f, nals |-> nals_] \/ b = [fu |-> f, nals |-> Append(nals_, e)]
  <2>1. CASE PacketAt(x).kind = "single"
    <3>1. b = [fu |-> fu, nals |-> Append(nals_, <<x>>)]
      BY <1>2, <1>5, <2>1 DEF assemble
    <3> QED BY <1>3, <3>1
  <2>2. CASE PacketAt(x).kind = "fu_start"
    <3>1. b = [fu |-> <<x>>, nals |-> nals_]
      BY <1>2, <1>5, <2>2 DEF assemble, FuStart
    <3> QED BY <1>3, <3>1
  <2>3. CASE PacketAt(x).kind = "fu_middle"
    <3>1. b = [fu |-> Append(fu, x), nals |-> nals_]
      BY <1>2, <1>5, <2>3 DEF assemble
    <3> QED BY <1>3, <3>1
  <2>4. CASE PacketAt(x).kind = "fu_end"
    <3>1. b = [fu |-> <<>>, nals |-> Append(nals_, Append(fu, x))]
      BY <1>2, <1>5, <2>4 DEF assemble, FuEnd
    <3> QED BY <1>3, <3>1
  <2>5. CASE PacketAt(x).kind = "unknown"
    <3>1. b = a
      BY <1>5, <2>5 DEF assemble
    <3> QED BY <1>2, <3>1
  <2> QED BY <2>1, <2>2, <2>3, <2>4, <2>5 DEF Kinds
<1>7. CASE b = [fu |-> f, nals |-> nals_]
  BY <1>1, <1>5, <1>7 DEF Assembly
<1>8. CASE b = [fu |-> f, nals |-> Append(nals_, e)]
  <2>1. /\ Append(nals_, e) \in Seq(Seq(Starts)) /\ Len(nals_) \in Nat
        /\ Len(Append(nals_, e)) = Len(nals_) + 1
        /\ \A n \in 1 .. Len(nals_) : Append(nals_, e)[n] = nals_[n]
    BY AppendFacts
  <2>2. b \in Assembly /\ b.nals = Append(nals_, e)
    BY <1>8, <2>1 DEF Assembly
  <2>3. \A n \in 1 .. Len(nals_) : n \in 1 .. Len(Append(nals_, e))
    BY <2>1
  <2> QED BY <1>1, <1>5, <2>1, <2>2, <2>3
<1> QED BY <1>6, <1>7, <1>8

LEMMA StartsFacts ==
  \A b \in Starts : b[1] \in 1 .. Len(Media) /\ b[2] \in Nat /\ b[2] >= 1
<1>1. ASSUME NEW b \in Starts PROVE b[1] \in 1 .. Len(Media) /\ b[2] \in Nat /\ b[2] >= 1
  <2>1. CASE b \in DOMAIN LookAlikes
    BY <2>1, LookAlikesAssumption, MediaFacts
  <2>2. CASE b \in {<<p, 1>> : p \in DOMAIN Media}
    BY <2>2, MediaFacts
  <2> QED BY <2>1, <2>2 DEF Starts
<1> QED BY <1>1

LEMMA RunFacts ==
  ASSUME NEW p \in Nat, NEW q \in Nat
  PROVE  /\ Run(p, p) = <<<<p, 1>>>>
         /\ p <= q => Append(Run(p, q), <<q + 1, 1>>) = Run(p, q + 1)
<1>1. Run(p, p) = <<<<p, 1>>>>
  <2>1. Run(p, p) = [i \in 1 .. 1 |-> <<p, 1>>]
    <3>1. p - p + 1 = 1 /\ \A i \in 1 .. 1 : p + i - 1 = p
      OBVIOUS
    <3> QED BY <3>1 DEF Run
  <2> QED BY <2>1
<1>2. ASSUME p <= q PROVE Append(Run(p, q), <<q + 1, 1>>) = Run(p, q + 1)
  <2>1. PICK n \in Nat : n = q - p + 1
    BY <1>2
  <2>2. n + 1 = (q + 1) - p + 1 /\ p + (n + 1) - 1 = q + 1
    BY <2>1
  <2>3. PICK f : f = [i \in 1 .. n |-> <<p + i - 1, 1>>]
    OBVIOUS
  <2>4. f \in Seq(Nat \X Nat) /\ f = Run(p, q)
    <3>1. \A i \in 1 .. n : <<p + i - 1, 1>> \in Nat \X Nat
      OBVIOUS
    <3>2. f = Run(p, q)
      BY <2>1, <2>3 DEF Run
    <3> QED BY <2>3, <3>1, <3>2, IsASeq
  <2>5. Len(f) = n /\ \A i \in 1 .. n : f[i] = <<p + i - 1, 1>>
    <3>1. DOMAIN f = 1 .. n /\ DOMAIN f = 1 .. Len(f) /\ Len(f) \in Nat
      BY <2>3, <2>4, LenProperties
    <3> QED BY <2>3, <3>1
  <2>6. PICK g : g = Append(f, <<q + 1, 1>>)
    OBVIOUS
  <2>7. /\ g \in Seq(Nat \X Nat) /\ Len(g) = n + 1
        /\ \A i \in 1 .. n : g[i] = f[i]
        /\ g[n + 1] = <<q + 1, 1>>
    <3>1. <<q + 1, 1>> \in Nat \X Nat
      OBVIOUS
    <3> QED BY <2>4, <2>5, <2>6, <3>1, AppendFacts
  <2>8. \A i \in 1 .. n + 1 : g[i] = <<p + i - 1, 1>>
    <3>1. \A i \in 1 .. n + 1 : i \in 1 .. n \/ i = n + 1
      OBVIOUS
    <3> QED BY <2>2, <2>5, <2>7, <3>1
  <2>9. g = [i \in 1 .. n + 1 |-> g[i]]
    BY <2>7, LenProperties
  <2>10. g = [i \in 1 .. n + 1 |-> <<p + i - 1, 1>>]
    BY <2>8, <2>9
  <2>11. g = Run(p, q + 1)
    BY <2>2, <2>10, Zenon DEF Run
  <2> QED BY <2>4, <2>6, <2>11
<1> QED BY <1>1, <1>2

\* The packet that completes a run is its last.
LEMMA RunEndsLast ==
  ASSUME NEW ps \in Seq(Starts), NEW x \in Starts, Ordered(Append(ps, x)),
         NEW p \in Nat, NEW q \in Nat, p <= q, Has(Append(ps, x), p, q)
  PROVE  /\ Has(ps, p, q) \/ x = <<q, 1>>
         /\ x = <<q, 1>> /\ p < q =>
              Has(ps, p, q - 1) /\ Len(ps) > 0 /\ ps[Len(ps)] = <<q - 1, 1>>
<1>1. PICK n \in Nat : n = Len(ps)
  BY LenProperties
<1>2. PICK qs : qs = Append(ps, x)
  OBVIOUS
<1>3. /\ qs \in Seq(Starts) /\ Len(qs) = n + 1 /\ qs[n + 1] = x
      /\ \A i \in 1 .. n : qs[i] = ps[i]
  BY <1>1, <1>2, AppendFacts
<1>4. \A i \in 1 .. n + 1 : qs[i][1] \in Nat /\ qs[i][2] \in Nat
  <2>1. \A i \in 1 .. n + 1 : qs[i] \in Starts
    BY <1>3, ElementOfSeq
  <2> QED BY <2>1, StartsFacts
<1>5. /\ \A i, j \in 1 .. n + 1 : i < j => Before(qs[i], qs[j])
      /\ \A i, j \in 1 .. n + 1 : i # j /\ qs[i][2] = 1 => qs[j][1] # qs[i][1]
  BY <1>2, <1>3 DEF Ordered
<1>6. \A k \in p .. q : \E i \in 1 .. n + 1 : qs[i] = <<k, 1>>
  BY <1>2, <1>3 DEF Has
<1>7. ASSUME ~Has(ps, p, q) PROVE x = <<q, 1>>
  <2>1. PICK k \in p .. q : \A i \in 1 .. n : ps[i] # <<k, 1>>
    BY <1>1, <1>7 DEF Has
  <2>2. PICK i \in 1 .. n + 1 : qs[i] = <<k, 1>>
    BY <1>6
  <2>3. i = n + 1
    BY <1>3, <2>1, <2>2
  <2>4. PICK j \in 1 .. n + 1 : qs[j] = <<q, 1>>
    <3>1. q \in p .. q
      OBVIOUS
    <3> QED BY <1>6, <3>1
  <2>5. j = n + 1
    <3>1. SUFFICES ASSUME j < n + 1 PROVE FALSE
      OBVIOUS
    <3>2. Before(<<q, 1>>, <<k, 1>>)
      BY <1>5, <2>2, <2>3, <2>4, <3>1
    <3> QED BY <3>2 DEF Before
  <2> QED BY <1>3, <2>4, <2>5
<1>8. ASSUME x = <<q, 1>>, p < q
      PROVE  Has(ps, p, q - 1) /\ n > 0 /\ ps[n] = <<q - 1, 1>>
  <2>1. ASSUME NEW k \in p .. q - 1 PROVE \E i \in 1 .. n : ps[i] = <<k, 1>>
    <3>1. PICK i \in 1 .. n + 1 : qs[i] = <<k, 1>>
      <4>1. k \in p .. q
        OBVIOUS
      <4> QED BY <1>6, <4>1
    <3>2. i # n + 1
      BY <1>3, <1>8, <3>1
    <3>3. i \in 1 .. n
      BY <3>2
    <3> QED BY <1>3, <3>1, <3>3
  <2>2. PICK i \in 1 .. n : ps[i] = <<q - 1, 1>>
    <3>1. q - 1 \in p .. q - 1
      BY <1>8
    <3> QED BY <2>1, <3>1
  <2>3. n \in 1 .. n + 1 /\ i \in 1 .. n + 1 /\ n + 1 \in 1 .. n + 1 /\ n # n + 1 /\ n > 0
    BY <2>2
  <2>4. i = n
    <3> SUFFICES ASSUME i # n PROVE FALSE
      OBVIOUS
    <3>1. PICK y : y = qs[n] /\ y[1] \in Nat /\ y[2] \in Nat
      BY <1>4, <2>3
    <3>2. Before(<<q - 1, 1>>, y) /\ Before(y, <<q, 1>>)
      <4>1. qs[i] = <<q - 1, 1>> /\ qs[n + 1] = <<q, 1>> /\ i < n /\ n < n + 1
        BY <1>3, <1>8, <2>2
      <4>2. Before(qs[i], qs[n]) /\ Before(qs[n], qs[n + 1])
        BY <1>5, <2>3, <4>1
      <4> QED BY <3>1, <4>1, <4>2
    <3>3. y[1] # q /\ y[1] # q - 1
      <4>1. qs[i] = <<q - 1, 1>> /\ qs[n + 1] = <<q, 1>>
        BY <1>3, <1>8, <2>2
      <4>2. qs[n][1] # qs[i][1] /\ qs[n][1] # qs[n + 1][1]
        BY <1>5, <2>3, <4>1
      <4> QED BY <3>1, <4>1, <4>2
    <3> QED BY <1>8, <3>1, <3>2, <3>3 DEF Before
  <2> QED BY <2>1, <2>2, <2>3, <2>4, <1>1 DEF Has
<1> QED BY <1>1, <1>7, <1>8

LEMMA OneMore ==
  ASSUME NEW ps \in Seq(Starts), NEW x \in Starts, PacketAt(x).kind \in Kinds,
         Ordered(Append(ps, x)), NEW a \in Assembly, Assembled(ps, a)
  PROVE  Assembled(Append(ps, x), assemble(a, x))
<1>1. PICK n \in Nat : n = Len(ps)
  BY LenProperties
<1>2. PICK qs : qs = Append(ps, x)
  OBVIOUS
<1>3. /\ Len(qs) = n + 1 /\ qs[n + 1] = x
      /\ \A i \in 1 .. n : qs[i] = ps[i]
  BY <1>1, <1>2, AppendFacts
<1>4. PICK b \in Assembly : b = assemble(a, x)
  BY AssembleTyped
<1>5. /\ a.fu \in Seq(Starts) /\ a.nals \in Seq(Seq(Starts))
      /\ b.nals \in Seq(Seq(Starts))
  BY <1>4 DEF Assembly
<1> SUFFICES ASSUME NEW u \in Units
             PROVE  /\ Has(qs, u[1], u[2]) =>
                         \E m \in 1 .. Len(b.nals) : b.nals[m] = Run(u[1], u[2])
                    /\ \A q \in u[1] .. u[2] - 1 :
                         Has(qs, u[1], q) /\ qs[n + 1] = <<q, 1>> => b.fu = Run(u[1], q)
  BY <1>2, <1>3, <1>4 DEF Assembled
<1>6. PICK p \in Nat, q \in Nat :
        /\ p = u[1] /\ q = u[2] /\ p >= 1 /\ p <= q
        /\ p = q => Media[p].kind = "single"
        /\ p < q => /\ Media[p].kind = "fu_start" /\ Media[q].kind = "fu_end"
                    /\ \A k \in p + 1 .. q - 1 : Media[k].kind = "fu_middle"
  <2>1. PICK p \in DOMAIN Media, q \in DOMAIN Media :
          /\ p = u[1] /\ q = u[2] /\ p <= q
          /\ \/ p = q /\ Media[p].kind = "single"
             \/ /\ Media[p].kind = "fu_start" /\ Media[q].kind = "fu_end"
                /\ \A k \in p + 1 .. q - 1 : Media[k].kind = "fu_middle"
    BY DEF Units
  <2>2. p \in Nat /\ q \in Nat /\ p >= 1
    BY <2>1, MediaFacts
  <2>3. p = q => Media[p].kind = "single"
    BY <2>1
  <2>4. p < q => p # q
    BY <2>2
  <2> QED BY <2>1, <2>2, <2>3, <2>4
<1>7. \A k \in Nat : PacketAt(<<k, 1>>) = Media[k]
  BY DEF PacketAt
<1>8. /\ Has(ps, p, q) => \E m \in 1 .. Len(a.nals) : a.nals[m] = Run(p, q)
      /\ \A r \in p .. q - 1 :
           Has(ps, p, r) /\ n > 0 /\ ps[n] = <<r, 1>> => a.fu = Run(p, r)
  BY <1>1, <1>6 DEF Assembled
<1>9. ASSUME Has(qs, p, q) PROVE \E m \in 1 .. Len(b.nals) : b.nals[m] = Run(p, q)
  <2>1. CASE Has(ps, p, q)
    BY <1>4, <1>8, <2>1, AssembleTyped
  <2>2. CASE x = <<q, 1>>
    <3>1. PICK e \in Seq(Starts) : e = Run(p, q) /\ b.nals = Append(a.nals, e)
      <4>1. CASE p = q
        <5>1. b.nals = Append(a.nals, <<x>>)
          BY <1>4, <1>6, <1>7, <2>2, <4>1 DEF assemble, Assembly
        <5>2. <<x>> = Run(p, q) /\ <<x>> \in Seq(Starts)
          BY <2>2, <4>1, RunFacts
        <5> QED BY <5>1, <5>2
      <4>2. CASE p < q
        <5>1. b.nals = Append(a.nals, Append(a.fu, x))
          BY <1>4, <1>6, <1>7, <2>2, <4>2 DEF assemble, FuEnd
        <5>2. Has(ps, p, q - 1) /\ n > 0 /\ ps[n] = <<q - 1, 1>>
          BY <1>1, <1>2, <1>6, <1>9, <2>2, <4>2, RunEndsLast
        <5>3. q - 1 \in p .. q - 1 /\ q - 1 \in Nat /\ (q - 1) + 1 = q /\ p <= q - 1
          BY <1>6, <4>2
        <5>4. a.fu = Run(p, q - 1)
          BY <1>8, <5>2, <5>3
        <5>5. Append(a.fu, x) = Run(p, q) /\ Append(a.fu, x) \in Seq(Starts)
          BY <1>5, <2>2, <5>3, <5>4, RunFacts, AppendFacts
        <5> QED BY <5>1, <5>5
      <4> QED BY <1>6, <4>1, <4>2
    <3>2. /\ Len(a.nals) \in Nat /\ Len(b.nals) = Len(a.nals) + 1
          /\ b.nals[Len(a.nals) + 1] = e
      BY <1>5, <3>1, AppendFacts
    <3>3. Len(a.nals) + 1 \in 1 .. Len(b.nals)
      BY <3>2
    <3> QED BY <3>1, <3>2, <3>3
  <2> QED BY <1>2, <1>6, <1>9, <2>1, <2>2, RunEndsLast
<1>10. ASSUME NEW r \in p .. q - 1, Has(qs, p, r), x = <<r, 1>> PROVE b.fu = Run(p, r)
  <2>1. r \in Nat /\ p <= r /\ r < q /\ p < q
    BY <1>6
  <2>2. CASE r = p
    <3>1. b.fu = <<x>>
      BY <1>4, <1>6, <1>7, <1>10, <2>1, <2>2 DEF assemble, FuStart, Assembly
    <3> QED BY <1>10, <2>2, <3>1, RunFacts
  <2>3. CASE r > p
    <3>1. Media[r].kind = "fu_middle"
      BY <1>6, <2>1, <2>3
    <3>2. b.fu = Append(a.fu, x)
      BY <1>4, <1>7, <1>10, <2>1, <3>1 DEF assemble, Assembly
    <3>3. Has(ps, p, r - 1) /\ n > 0 /\ ps[n] = <<r - 1, 1>>
      BY <1>1, <1>2, <1>6, <1>10, <2>1, <2>3, RunEndsLast
    <3>4. r - 1 \in p .. q - 1 /\ r - 1 \in Nat /\ (r - 1) + 1 = r /\ p <= r - 1
      BY <1>6, <2>1, <2>3
    <3>5. a.fu = Run(p, r - 1)
      BY <1>8, <3>3, <3>4
    <3> QED BY <1>10, <3>2, <3>4, <3>5, RunFacts
  <2> QED BY <2>1, <2>2, <2>3
<1> QED BY <1>3, <1>6, <1>9, <1>10

-----------------------------------------------------------------------------
(* The invariants.                                                             *)

\* Where main and the thread are, and how far the handshake is
ControlInv ==
  /\ main \in {"new", "running", "joining", "over"} /\ m_running \in BOOLEAN
  /\ thread \in {"off", "connect", "ask", "answer", "check", "recv"}
  /\ m_socket \in {"none", "open", "stale"}
  /\ requests \in 0 .. Requests /\ responses \in 0 .. requests
  /\ playing \in BOOLEAN /\ hungup \in BOOLEAN
  /\ main = "new" => thread = "off" /\ requests = 0
  /\ thread = "connect" => requests = 0
  /\ thread = "ask" => requests < Requests

WireInv == sent \in 0 .. Len(Media) /\ Stream(wire, sent)

\* a comes before b, and so does what is left of the packet if a is its first byte.
Apart(a, b) == Before(a, b) /\ (a[2] = 1 => b[1] # a[1])

Precede(ps, w) ==
  \A i \in 1 .. Len(ps), j \in 1 .. Len(w) : w[j][1] # 0 => Apart(ps[i], w[j])

\* What was parsed was sent, in order, and comes before all that is on its way.
ParsedInv ==
  /\ m_tcp_buffer = <<>>
  /\ parsed \in Seq(Starts) /\ Ordered(parsed)
  /\ \A i \in 1 .. Len(parsed) : parsed[i][1] <= sent
  /\ Precede(parsed, wire)

UnitsInv ==
  /\ [fu |-> fu_buffer, nals |-> nals] \in Assembly
  /\ Assembled(parsed, [fu |-> fu_buffer, nals |-> nals])

\* A packet of which w has a byte is in noted, or w has its first byte too.
Noted(w, noted) ==
  \A j \in 1 .. Len(w) : w[j][1] # 0 =>
    \/ w[j][1] \in noted
    \/ \E i \in 1 .. Len(w) : w[i] = <<w[j][1], 1>>

\* A packet on its way is whole, or was noted when its first bytes were taken.
LossInv ==
  /\ cut \subseteq 1 .. sent /\ missed \subseteq 1 .. sent
  /\ Noted(wire, cut \cup missed)
  /\ LossBeginsWithACut

Inv == ControlInv /\ WireInv /\ ParsedInv /\ UnitsInv /\ LossInv


-----------------------------------------------------------------------------
(* Steps, by what they do to the packets on their way.                         *)

Unread == UNCHANGED <<sent, missed, reading>>

Quiet == wire' = wire /\ Unread
Responds == wire' = wire \o Bytes(0, ResponseSize) /\ Unread
Sends ==
  /\ sent < Len(Media) /\ sent' = sent + 1
  /\ wire' = wire \o Bytes(sent', Media[sent'].size)
  /\ UNCHANGED <<missed, reading>>
Resets ==
  wire' = <<>> /\ missed' = missed \cup PacketsIn(wire) /\ UNCHANGED <<sent, reading>>
Answers(n) ==
  /\ wire' = SubSeq(wire, n + 1, Len(wire))
  /\ missed' = missed \cup PacketsIn(SubSeq(wire, 1, n))
  /\ UNCHANGED <<sent, reading>>
Receives(n) ==
  /\ wire' = SubSeq(wire, n + 1, Len(wire))
  /\ process_tcp_data(SubSeq(wire, 1, n))
  /\ cut' = cut \cup (PacketsIn(SubSeq(wire, 1, n)) \cap PacketsIn(wire'))
  /\ UNCHANGED <<sent, missed>>

LEMMA Steps ==
  ASSUME [Next]_vars
  PROVE  \/ Quiet \/ Responds \/ Sends \/ Resets
         \/ \E n \in 1 .. Len(wire) : Answers(n) \/ Receives(n)
<1>1. ASSUME UNCHANGED vars PROVE Quiet
  BY <1>1 DEF vars, server, incoming, Quiet, Unread
<1>2. ASSUME start \/ StopBegins \/ StopEnds PROVE Quiet
  BY <1>2 DEF start, StopBegins, StopEnds, server, incoming, Quiet, Unread
<1>3. ASSUME Server PROVE Quiet \/ Responds \/ Sends \/ Resets
  <2>1. ASSUME Play PROVE Quiet
    BY <1>3, <2>1 DEF Server, Play, incoming, Quiet, Unread
  <2>2. ASSUME Respond PROVE Responds
    BY <1>3, <2>2 DEF Server, Respond, Responds, Unread
  <2>3. ASSUME SendMedia PROVE Sends
    BY <1>3, <2>3 DEF Server, SendMedia, Sends
  <2>4. ASSUME HangUp PROVE Quiet \/ Resets
    BY <1>3, <2>4 DEF Server, HangUp, incoming, Quiet, Resets, Unread
  <2> QED
    BY <1>3, <2>1, <2>2, <2>3, <2>4 DEF Server
<1>4. ASSUME Viewer
      PROVE  Quiet \/ \E n \in 1 .. Len(wire) : Answers(n) \/ Receives(n)
  <2>1. ASSUME Connect \/ Ask \/ Check \/ ReceiveNothing PROVE Quiet
    BY <1>4, <2>1 DEF Viewer, Connect, Ask, Check, ReceiveNothing, server, incoming, Quiet, Unread
  <2>2. ASSUME Answer PROVE Quiet \/ \E n \in 1 .. Len(wire) : Answers(n)
    BY <1>4, <2>2 DEF Viewer, Answer, server, incoming, Quiet, Answers, Unread
  <2>3. ASSUME Receive PROVE \E n \in 1 .. Len(wire) : Receives(n)
    BY <1>4, <2>3 DEF Viewer, Receive, server, Receives
  <2> QED
    BY <1>4, <2>1, <2>2, <2>3 DEF Viewer
<1> QED
  BY <1>1, <1>2, <1>3, <1>4 DEF Next

LEMMA ControlHolds ==
  ASSUME ControlInv, [Next]_vars
  PROVE  ControlInv'
<1> USE DEF Requests
<1>1. ASSUME UNCHANGED vars PROVE ControlInv'
  BY <1>1 DEF vars, server, ControlInv
<1>2. ASSUME start \/ StopBegins \/ StopEnds PROVE ControlInv'
  BY <1>2 DEF start, StopBegins, StopEnds, server, ControlInv
<1>3. ASSUME Server PROVE ControlInv'
  <2>1. /\ UNCHANGED <<main, m_running, thread, m_socket, requests>>
        /\ playing' \in BOOLEAN /\ hungup' \in BOOLEAN
    BY <1>3 DEF Server, Play, Respond, SendMedia, HangUp, ControlInv
  <2>2. responses' = responses \/ responses' \in responses + 1 .. requests
    BY <1>3 DEF Server, Play, Respond, SendMedia, HangUp
  <2>3. responses' \in 0 .. requests'
    BY <2>1, <2>2 DEF ControlInv
  <2> QED
    BY <2>1, <2>3 DEF ControlInv
<1>4. ASSUME Viewer PROVE ControlInv'
  <2>1. ASSUME Connect \/ Check \/ ReceiveNothing PROVE ControlInv'
    BY <1>4, <2>1 DEF Viewer, Connect, Check, ReceiveNothing, server, ControlInv
  <2>2. ASSUME Ask PROVE ControlInv'
    BY <1>4, <2>2 DEF Viewer, Ask, server, ControlInv
  <2>3. ASSUME Answer PROVE ControlInv'
    BY <1>4, <2>3 DEF Viewer, Answer, server, ControlInv
  <2>4. ASSUME Receive PROVE ControlInv'
    BY <1>4, <2>4 DEF Viewer, Receive, server, ControlInv
  <2> QED
    BY <1>4, <2>1, <2>2, <2>3, <2>4 DEF Viewer
<1> QED
  BY <1>1, <1>2, <1>3, <1>4 DEF Next

LEMMA WireHolds ==
  ASSUME WireInv, [Next]_vars
  PROVE  WireInv'
<1>1. sent \in Nat /\ sent \in 0 .. Len(Media) /\ Len(Media) \in Nat /\ Stream(wire, sent)
  BY MediaFacts DEF WireInv
<1>2. ASSUME Quiet PROVE WireInv'
  BY <1>1, <1>2 DEF Quiet, Unread, WireInv
<1>3. ASSUME Responds PROVE WireInv'
  <2>1. ResponseSize \in Nat
    BY ResponseSizeAssumption
  <2>2. Stream(wire \o Bytes(0, ResponseSize), sent)
    BY <1>1, <2>1, LongerIsStream
  <2> QED
    BY <1>1, <1>3, <2>2 DEF Responds, Unread, WireInv
<1>4. ASSUME Sends PROVE WireInv'
  <2>1. sent' = sent + 1 /\ sent' \in 1 .. Len(Media) /\ sent' \in Nat
    BY <1>1, <1>4 DEF Sends
  <2>2. Media[sent'].size \in Nat
    BY <2>1, MediaFacts
  <2>3. Stream(wire \o Bytes(sent', Media[sent'].size), sent')
    BY <1>1, <2>1, <2>2, LongerIsStream
  <2> QED
    BY <1>4, <2>1, <2>3 DEF Sends, WireInv
<1>5. ASSUME Resets PROVE WireInv'
  <2>1. Stream(<<>>, sent)
    BY DEF Stream, Ascending
  <2> QED
    BY <1>1, <1>5, <2>1 DEF Resets, WireInv
<1>6. ASSUME NEW n \in 1 .. Len(wire), Answers(n) \/ Receives(n) PROVE WireInv'
  <2>1. Stream(SubSeq(wire, n + 1, Len(wire)), sent)
    BY <1>1, TailIsStream
  <2> QED
    BY <1>1, <1>6, <2>1 DEF Answers, Receives, WireInv
<1> QED
  BY <1>2, <1>3, <1>4, <1>5, <1>6, Steps


-----------------------------------------------------------------------------
(* What a read gives to the assembler.                                         *)

\* P are the packets of which w has a byte among its first n.
ArePackets(P, w, n) == \A p : p \in P <=> p # 0 /\ \E i \in 1 .. n : w[i][1] = p

LEMMA PacketsFacts ==
  ASSUME NEW T, NEW w \in Seq(T)
  PROVE  ArePackets(PacketsIn(w), w, Len(w))
<1>1. DOMAIN w = 1 .. Len(w)
  OBVIOUS
<1> QED
  BY <1>1 DEF PacketsIn, ToSet, ArePackets

\* The packet p lies in w from place i on.
LiesAt(w, p, i) ==
  /\ IsMarker(w[i]) /\ PacketAt(w[i]) = Media[p]
  /\ i + Media[p].size - 1 <= Len(w)
  /\ \A k \in 1 .. Media[p].size : w[i + (k - 1)] = <<p, k>>
  /\ \A j \in 1 .. Len(w) : w[j][1] = p => i <= j /\ j < i + Media[p].size

LEMMA PacketRange ==
  ASSUME NEW s \in 0 .. Len(Media), NEW w, Stream(w, s), NEW p \in 1 .. s,
         NEW i \in 1 .. Len(w), w[i] = <<p, 1>>
  PROVE  LiesAt(w, p, i)
<1>1. /\ p \in Nat /\ p # 0 /\ Media[p].size \in Nat /\ Media[p].size >= 4
      /\ s \in Nat /\ Len(w) \in Nat
  BY MediaFacts DEF Stream
<1>2. IsMarker(w[i]) /\ PacketAt(w[i]) = Media[p]
  BY <1>1 DEF IsMarker, PacketAt
<1>3. Whole(w, i) /\ Ascending(w) /\ w[i][1] = p /\ w[i][2] = 1
  BY <1>1 DEF Stream
<1>4. \A k \in 1 .. Media[p].size : i + (k - 1) <= Len(w) /\ w[i + (k - 1)] = <<p, k>>
  <2> SUFFICES ASSUME NEW k \in 1 .. Media[p].size
               PROVE  i + (k - 1) <= Len(w) /\ w[i + (k - 1)] = <<p, k>>
    OBVIOUS
  <2>1. k \in w[i][2] .. Media[w[i][1]].size
    BY <1>3, Zenon
  <2>2. i + (k - w[i][2]) <= Len(w) /\ w[i + (k - w[i][2])] = <<w[i][1], k>>
    BY <1>3, <2>1, Zenon DEF Whole
  <2> QED
    BY <1>3, <2>2, Zenon
<1>5. i + Media[p].size - 1 <= Len(w) /\ w[i + (Media[p].size - 1)] = <<p, Media[p].size>>
  <2>1. Media[p].size \in 1 .. Media[p].size
    BY <1>1
  <2>2. i + (Media[p].size - 1) <= Len(w) /\ w[i + (Media[p].size - 1)] = <<p, Media[p].size>>
    BY <1>4, <2>1, Zenon
  <2> QED
    BY <1>1, <2>2
<1>6. ASSUME NEW j \in 1 .. Len(w), w[j][1] = p
      PROVE  i <= j /\ j < i + Media[p].size
  <2>1. w[j] \in Known(s)
    BY DEF Stream
  <2>2. w[j][2] \in 1 .. Media[p].size
    BY <1>1, <1>6, <2>1 DEF Known
  <2>3. ~(j < i)
    <3>1. SUFFICES ASSUME j < i PROVE FALSE
      OBVIOUS
    <3>2. Before(w[j], w[i])
      BY <1>1, <1>3, <1>6, <3>1, Zenon DEF Ascending
    <3> QED
      BY <1>1, <1>3, <1>6, <2>2, <3>2 DEF Before
  <2>4. ~(j >= i + Media[p].size)
    <3>1. SUFFICES ASSUME j >= i + Media[p].size PROVE FALSE
      OBVIOUS
    <3>2. PICK e \in 1 .. Len(w) : e = i + (Media[p].size - 1)
      BY <1>1, <1>5
    <3>3. e < j /\ w[e] = <<p, Media[p].size>>
      BY <1>1, <1>5, <3>1, <3>2
    <3>4. Before(w[e], w[j])
      <4>1. w[e][1] = p /\ w[j][1] = p /\ e < j
        BY <1>6, <3>3
      <4> QED
        BY <1>1, <1>3, <4>1, Zenon DEF Ascending
    <3> QED
      BY <1>1, <1>6, <2>2, <3>3, <3>4 DEF Before
  <2> QED
    BY <1>1, <2>3, <2>4
<1> QED
  BY <1>2, <1>4, <1>5, <1>6 DEF LiesAt

\* The packets ps were taken out of the first n bytes of w, at the places js.
Found(w, n, ps, js) ==
  /\ js \in [1 .. Len(ps) -> 1 .. n]
  /\ \A k \in 1 .. Len(ps) :
       /\ ps[k] = w[js[k]] /\ IsMarker(w[js[k]]) /\ PacketAt(w[js[k]]).kind \in Kinds
       /\ End(w, js[k]) \in js[k] + 4 .. n + 1
  /\ \A k, l \in 1 .. Len(ps) : k < l => End(w, js[k]) <= js[l]
  /\ \A j \in 1 .. n : IsMarker(w[j]) /\ End(w, j) <= n + 1 =>
       \E k \in 1 .. Len(ps) : js[k] <= j /\ j < End(w, js[k])

LEMMA HeadTakes ==
  ASSUME NEW s \in 0 .. Len(Media), NEW w \in Seq(Known(s)), NEW n \in 1 .. Len(w),
         NEW head, head = SubSeq(w, 1, n)
  PROVE  /\ Scan(head).offset = n /\ Len(head) = n
         /\ Scan(head).packets \in Seq(Starts)
         /\ \E js : Found(w, n, Scan(head).packets, js)
<1>1. PICK T : T = Known(s)
  OBVIOUS
<1>2. w \in Seq(T)
  BY <1>1
<1>3. head \in Seq(T) /\ Len(head) = n /\ \A i \in 1 .. n : head[i] = w[i]
  BY <1>2, CutFacts
<1>4. head \in Seq(Known(s)) /\ Len(w) \in Nat
  BY <1>1, <1>2, <1>3
<1>5. PICK ps : ps = Scan(head).packets
  OBVIOUS
<1>6. Scan(head).offset = n /\ ps \in Seq(Starts) /\ Taken(head, 1, ps)
  BY <1>3, <1>4, <1>5, ScanTakes
<1>7. PICK js \in [1 .. Len(ps) -> 1 .. Len(head)] : Places(head, 1, ps, js)
  BY <1>6 DEF Taken
<1>8. js \in [1 .. Len(ps) -> 1 .. n]
  BY <1>3, <1>7
<1>9. \A i \in 1 .. n : End(head, i) = End(w, i)
  BY <1>3 DEF End
<1>10. \A i \in 1 .. n : IsMarker(w[i]) =>
         /\ PacketAt(w[i]).kind \in Kinds
         /\ PacketAt(w[i]).size \in Nat /\ PacketAt(w[i]).size >= 4
  <2> SUFFICES ASSUME NEW i \in 1 .. n, IsMarker(w[i])
               PROVE  /\ PacketAt(w[i]).kind \in Kinds
                      /\ PacketAt(w[i]).size \in Nat /\ PacketAt(w[i]).size >= 4
    OBVIOUS
  <2>1. head[i] \in Known(s) /\ head[i] = w[i]
    BY <1>3, <1>4
  <2> QED
    BY <2>1, MarkerFacts
<1>11. \A i \in 1 .. n : Complete(head, i) <=> IsMarker(w[i]) /\ End(w, i) <= n + 1
  <2> SUFFICES ASSUME NEW i \in 1 .. n
               PROVE  Complete(head, i) <=> IsMarker(w[i]) /\ End(w, i) <= n + 1
    OBVIOUS
  <2>1. Complete(head, i) <=> IsMarker(w[i]) /\ i + PacketAt(w[i]).size - 1 <= n
    BY <1>3 DEF Complete
  <2> QED
    BY <1>10, <2>1 DEF End
<1>12. ASSUME NEW k \in 1 .. Len(ps)
       PROVE  /\ ps[k] = w[js[k]] /\ IsMarker(w[js[k]]) /\ PacketAt(w[js[k]]).kind \in Kinds
              /\ End(w, js[k]) \in js[k] + 4 .. n + 1
  <2>1. js[k] \in 1 .. n
    BY <1>8
  <2>2. Complete(head, js[k]) /\ ps[k] = head[js[k]]
    BY <1>7 DEF Places
  <2>3. ps[k] = w[js[k]] /\ IsMarker(w[js[k]]) /\ End(w, js[k]) <= n + 1
    BY <1>3, <1>11, <2>1, <2>2
  <2>4. /\ PacketAt(w[js[k]]).kind \in Kinds
        /\ PacketAt(w[js[k]]).size \in Nat /\ PacketAt(w[js[k]]).size >= 4
    BY <1>10, <2>1, <2>3
  <2>5. End(w, js[k]) \in js[k] + 4 .. n + 1
    BY <2>1, <2>3, <2>4 DEF End
  <2> QED
    BY <2>3, <2>4, <2>5
<1>13. ASSUME NEW k \in 1 .. Len(ps), NEW l \in 1 .. Len(ps), k < l
       PROVE  End(w, js[k]) <= js[l]
  <2>1. js[k] \in 1 .. n
    BY <1>8
  <2>2. End(head, js[k]) <= js[l]
    BY <1>7, <1>13 DEF Places
  <2> QED
    BY <1>9, <2>1, <2>2
<1>14. ASSUME NEW j \in 1 .. n, IsMarker(w[j]), End(w, j) <= n + 1
       PROVE  \E k \in 1 .. Len(ps) : js[k] <= j /\ j < End(w, js[k])
  <2>1. Complete(head, j) /\ j \in 1 .. Len(head)
    BY <1>3, <1>11, <1>14
  <2>2. PICK k \in 1 .. Len(ps) : js[k] <= j /\ j < End(head, js[k])
    BY <1>7, <2>1 DEF Places
  <2>3. js[k] \in 1 .. n
    BY <1>8
  <2> QED
    BY <1>9, <2>2, <2>3
<1>15. Found(w, n, ps, js)
  BY <1>8, <1>12, <1>13, <1>14 DEF Found
<1> QED
  BY <1>3, <1>5, <1>6, <1>15


-----------------------------------------------------------------------------
(* What was parsed stays ahead of what is on its way.                          *)

LEMMA PrecedeTail ==
  ASSUME NEW T, NEW ps, NEW w \in Seq(T), Precede(ps, w), NEW n \in 1 .. Len(w)
  PROVE  Precede(ps, SubSeq(w, n + 1, Len(w)))
<1>1. PICK t : t = SubSeq(w, n + 1, Len(w))
  OBVIOUS
<1>2. Len(w) \in Nat /\ Len(t) = Len(w) - n /\ \A j \in 1 .. Len(w) - n : t[j] = w[n + j]
  BY <1>1, CutFacts
<1>3. ASSUME NEW i \in 1 .. Len(ps), NEW j \in 1 .. Len(t), t[j][1] # 0
      PROVE  Apart(ps[i], t[j])
  <2>1. t[j] = w[n + j] /\ n + j \in 1 .. Len(w)
    BY <1>2
  <2> QED
    BY <1>3, <2>1 DEF Precede
<1> QED
  BY <1>1, <1>3 DEF Precede

LEMMA PrecedeLonger ==
  ASSUME NEW s \in Nat, NEW w \in Seq(Known(s)), NEW ps \in Seq(Starts), Precede(ps, w),
         \A i \in 1 .. Len(ps) : ps[i][1] <= s,
         NEW q \in Nat, q = 0 \/ q = s + 1, NEW n \in Nat
  PROVE  Precede(ps, w \o Bytes(q, n))
<1>1. PICK x : x = w \o Bytes(q, n)
  OBVIOUS
<1>2. Joined(x, w, q, n)
  BY <1>1, LongerFacts
<1>3. PICK l \in Nat : /\ l = Len(w) /\ Len(x) = l + n
                       /\ \A i \in 1 .. l : x[i] = w[i]
                       /\ \A i \in l + 1 .. l + n : x[i] = <<q, i - l>>
  BY <1>2 DEF Joined
<1>4. ASSUME NEW i \in 1 .. Len(ps), NEW j \in 1 .. Len(x), x[j][1] # 0
      PROVE  Apart(ps[i], x[j])
  <2>1. CASE j <= l
    <3>1. j \in 1 .. Len(w) /\ x[j] = w[j]
      BY <1>3, <2>1
    <3> QED
      BY <1>4, <3>1 DEF Precede
  <2>2. CASE j > l
    <3>0. j \in l + 1 .. l + n
      BY <1>3, <2>2
    <3>1. x[j] = <<q, j - l>>
      BY <1>3, <3>0, Zenon
    <3>2. q = s + 1 /\ x[j][1] = q
      BY <1>4, <3>1
    <3>3. ps[i] \in Starts
      OBVIOUS
    <3>4. ps[i][1] \in 1 .. Len(Media) /\ ps[i][1] <= s
      BY <3>3, StartsFacts
    <3>5. ps[i][1] < x[j][1] /\ x[j][1] # ps[i][1]
      BY <3>2, <3>4, MediaFacts
    <3> QED
      BY <3>5 DEF Apart, Before
  <2> QED
    BY <1>3, <2>1, <2>2
<1> QED
  BY <1>1, <1>4 DEF Precede

LEMMA OrderedIfApart ==
  ASSUME NEW ps \in Seq(Starts),
         \A i, j \in 1 .. Len(ps) : i < j => Apart(ps[i], ps[j])
  PROVE  Ordered(ps)
<1>1. \A i, j \in 1 .. Len(ps) : i < j => Before(ps[i], ps[j])
  BY DEF Apart
<1>2. ASSUME NEW i \in 1 .. Len(ps), NEW j \in 1 .. Len(ps), i # j, ps[i][2] = 1
      PROVE  ps[j][1] # ps[i][1]
  <2>1. CASE i < j
    BY <1>2, <2>1 DEF Apart
  <2>2. CASE j < i
    <3>1. Before(ps[j], ps[i])
      BY <1>1, <2>2
    <3>2. ps[i] \in Starts /\ ps[j] \in Starts
      OBVIOUS
    <3>3. /\ ps[i][1] \in 1 .. Len(Media) /\ ps[j][1] \in 1 .. Len(Media)
          /\ ps[j][2] \in Nat /\ ps[j][2] >= 1
      BY <3>2, StartsFacts
    <3> QED
      BY <1>2, <3>1, <3>3, MediaFacts DEF Before
  <2> QED
    BY <1>2, <2>1, <2>2
<1> QED
  BY <1>1, <1>2 DEF Ordered

Appended(x, a, b, T) ==
  /\ x \in Seq(T) /\ Len(a) \in Nat /\ Len(b) \in Nat /\ Len(x) = Len(a) + Len(b)
  /\ \A i \in 1 .. Len(a) : x[i] = a[i]
  /\ \A i \in 1 .. Len(b) : x[Len(a) + i] = b[i]

LEMMA JoinFacts ==
  ASSUME NEW T, NEW a \in Seq(T), NEW b \in Seq(T), NEW x, x = a \o b
  PROVE  Appended(x, a, b, T)
<1> QED
  BY DEF Appended

\* The packets found in a read are in order, and before what is left.
LEMMA FoundAreApart ==
  ASSUME NEW s \in 0 .. Len(Media), NEW w, Stream(w, s), NEW n \in 1 .. Len(w),
         NEW new \in Seq(Starts), NEW js, Found(w, n, new, js)
  PROVE  \A k \in 1 .. Len(new) :
           /\ js[k] \in 1 .. n /\ js[k] \in 1 .. Len(w) /\ new[k] = w[js[k]]
           /\ new[k][1] \in 1 .. s
           /\ \A j \in 1 .. Len(w) :
                j >= End(w, js[k]) /\ w[j][1] # 0 => Apart(new[k], w[j])
<1> SUFFICES ASSUME NEW k \in 1 .. Len(new)
             PROVE  /\ js[k] \in 1 .. n /\ js[k] \in 1 .. Len(w) /\ new[k] = w[js[k]]
                    /\ new[k][1] \in 1 .. s
                    /\ \A j \in 1 .. Len(w) :
                         j >= End(w, js[k]) /\ w[j][1] # 0 => Apart(new[k], w[j])
  OBVIOUS
<1>1. Len(w) \in Nat /\ s \in Nat /\ Ascending(w) /\ w \in Seq(Known(s))
  BY MediaFacts DEF Stream
<1>2. /\ js[k] \in 1 .. n /\ new[k] = w[js[k]] /\ IsMarker(w[js[k]])
      /\ End(w, js[k]) \in js[k] + 4 .. n + 1
  BY DEF Found
<1>3. js[k] \in 1 .. Len(w)
  BY <1>1, <1>2
<1>4. w[js[k]] \in Known(s)
  BY <1>1, <1>3
<1>5. w[js[k]][1] \in 1 .. s
  BY <1>2, <1>4, MarkerFacts
<1>6. ASSUME NEW j \in 1 .. Len(w), j >= End(w, js[k]), w[j][1] # 0
      PROVE  Apart(new[k], w[j])
  <2>1. js[k] < j /\ w[js[k]][1] # 0
    BY <1>1, <1>2, <1>5, <1>6
  <2>2. Before(w[js[k]], w[j])
    BY <1>1, <1>3, <1>6, <2>1, Zenon DEF Ascending
  <2>3. ASSUME w[js[k]][2] = 1 PROVE w[j][1] # w[js[k]][1]
    <3>1. PICK p \in 1 .. s : p = w[js[k]][1]
      BY <1>5
    <3>2. w[js[k]] = <<p, 1>>
      BY <1>4, <2>3, <3>1 DEF Known
    <3>3. /\ PacketAt(w[js[k]]) = Media[p]
          /\ \A i \in 1 .. Len(w) : w[i][1] = p => js[k] <= i /\ i < js[k] + Media[p].size
      <4>1. PICK e \in 1 .. Len(w) : e = js[k]
        BY <1>3
      <4>2. w[e] = <<p, 1>>
        BY <3>2, <4>1
      <4>3. LiesAt(w, p, e)
        BY <4>2, PacketRange
      <4> QED
        BY <4>1, <4>3, Zenon DEF LiesAt
    <3>4. j >= js[k] + Media[p].size
      BY <1>6, <3>3 DEF End
    <3>5. p \in 1 .. Len(Media) /\ Media[p].size \in Nat /\ j \in Nat /\ js[k] \in Nat
      BY <1>1, <1>3, MediaFacts
    <3>6. ~(j < js[k] + Media[p].size)
      BY <3>4, <3>5
    <3> QED
      BY <3>1, <3>3, <3>6, Zenon
  <2> QED
    BY <1>2, <2>2, <2>3, Zenon DEF Apart
<1> QED
  BY <1>2, <1>3, <1>5, <1>6

LEMMA PrecedeReceived ==
  ASSUME NEW s \in 0 .. Len(Media), NEW w, Stream(w, s), NEW n \in 1 .. Len(w),
         NEW ps \in Seq(Starts), Ordered(ps), Precede(ps, w),
         \A i \in 1 .. Len(ps) : ps[i][1] <= s,
         NEW new \in Seq(Starts), NEW js, Found(w, n, new, js)
  PROVE  /\ ps \o new \in Seq(Starts) /\ Ordered(ps \o new)
         /\ \A i \in 1 .. Len(ps \o new) : (ps \o new)[i][1] <= s
         /\ Precede(ps \o new, SubSeq(w, n + 1, Len(w)))
<1>1. PICK x : x = ps \o new
  OBVIOUS
<1>2. PICK m \in Nat, l \in Nat :
        /\ m = Len(ps) /\ l = Len(new) /\ x \in Seq(Starts) /\ Len(x) = m + l
        /\ \A i \in 1 .. m : x[i] = ps[i]
        /\ \A i \in 1 .. l : x[m + i] = new[i]
  <2>1. PICK T : T = Starts
    OBVIOUS
  <2>2. ps \in Seq(T) /\ new \in Seq(T)
    BY <2>1
  <2>3. Appended(x, ps, new, T)
    BY <1>1, <2>2, JoinFacts
  <2>4. PICK m \in Nat : m = Len(ps)
    BY <2>3 DEF Appended
  <2>5. PICK l \in Nat : l = Len(new)
    BY <2>3 DEF Appended
  <2>6. /\ m = Len(ps) /\ l = Len(new) /\ x \in Seq(Starts) /\ Len(x) = m + l
        /\ \A i \in 1 .. m : x[i] = ps[i]
        /\ \A i \in 1 .. l : x[m + i] = new[i]
    BY <2>1, <2>3, <2>4, <2>5 DEF Appended
  <2> QED
    BY <2>6, Zenon
<1>3. Len(w) \in Nat /\ w \in Seq(Known(s)) /\ s \in Nat
  BY MediaFacts DEF Stream
<1>4. \A i \in m + 1 .. m + l : i - m \in 1 .. l /\ x[i] = new[i - m]
  <2> SUFFICES ASSUME NEW i \in m + 1 .. m + l PROVE i - m \in 1 .. l /\ x[i] = new[i - m]
    OBVIOUS
  <2>1. i - m \in 1 .. l /\ m + (i - m) = i
    OBVIOUS
  <2> QED
    BY <1>2, <2>1
<1>5. \A k \in 1 .. l :
        /\ js[k] \in 1 .. n /\ js[k] \in 1 .. Len(w) /\ new[k] = w[js[k]]
        /\ new[k][1] \in 1 .. s
        /\ \A j \in 1 .. Len(w) : j >= End(w, js[k]) /\ w[j][1] # 0 => Apart(new[k], w[j])
  BY <1>2, FoundAreApart
<1>6. \A i \in 1 .. Len(x), j \in 1 .. Len(x) : i < j => Apart(x[i], x[j])
  <2> SUFFICES ASSUME NEW i \in 1 .. Len(x), NEW j \in 1 .. Len(x), i < j
               PROVE  Apart(x[i], x[j])
    OBVIOUS
  <2>1. CASE j <= m
    <3>1. i \in 1 .. m /\ j \in 1 .. m
      BY <1>2, <2>1
    <3>2. Before(ps[i], ps[j]) /\ (ps[i][2] = 1 => ps[j][1] # ps[i][1])
      BY <1>2, <3>1 DEF Ordered
    <3>3. x[i] = ps[i] /\ x[j] = ps[j]
      BY <1>2, <3>1
    <3> QED
      BY <3>2, <3>3, Zenon DEF Apart
  <2>2. CASE i <= m /\ j > m
    <3>1. i \in 1 .. m /\ x[i] = ps[i]
      BY <1>2, <2>2
    <3>2. j - m \in 1 .. l /\ x[j] = new[j - m]
      BY <1>2, <1>4, <2>2
    <3>3. js[j - m] \in 1 .. Len(w) /\ x[j] = w[js[j - m]] /\ x[j][1] \in 1 .. s
      BY <1>5, <3>2
    <3>4. w[js[j - m]][1] # 0
      BY <3>3
    <3>5. Apart(ps[i], w[js[j - m]])
      BY <1>2, <3>1, <3>3, <3>4, Zenon DEF Precede
    <3> QED
      BY <3>1, <3>3, <3>5, Zenon
  <2>3. CASE i > m
    <3>1. /\ i - m \in 1 .. l /\ x[i] = new[i - m] /\ j - m \in 1 .. l /\ x[j] = new[j - m]
          /\ i - m < j - m
      <4>1. i \in m + 1 .. m + l /\ j \in m + 1 .. m + l
        BY <1>2, <2>3
      <4>2. i - m < j - m
        BY <4>1
      <4> QED
        BY <1>4, <4>1, <4>2, Zenon
    <3>2. End(w, js[i - m]) <= js[j - m]
      BY <1>2, <3>1 DEF Found
    <3>3. js[j - m] \in 1 .. Len(w) /\ new[j - m] = w[js[j - m]] /\ new[j - m][1] \in 1 .. s
      BY <1>5, <3>1
    <3>4. End(w, js[i - m]) \in Int
      BY <1>2, <1>3, <3>1 DEF Found
    <3>5. js[j - m] >= End(w, js[i - m]) /\ w[js[j - m]][1] # 0
      BY <3>2, <3>3, <3>4
    <3>6. Apart(new[i - m], w[js[j - m]])
      BY <1>5, <3>1, <3>3, <3>5
    <3> QED
      BY <3>1, <3>3, <3>6, Zenon
  <2> QED
    BY <1>2, <2>1, <2>2, <2>3
<1>7. Ordered(x)
  BY <1>2, <1>6, OrderedIfApart
<1>8. ASSUME NEW i \in 1 .. Len(x)
      PROVE  /\ x[i][1] <= s
             /\ \A j \in n + 1 .. Len(w) : w[j][1] # 0 => Apart(x[i], w[j])
  <2>1. CASE i <= m
    <3>1. i \in 1 .. m /\ x[i] = ps[i]
      BY <1>2, <2>1
    <3>2. \A j \in n + 1 .. Len(w) : j \in 1 .. Len(w)
      BY <1>3
    <3> QED
      BY <1>2, <3>1, <3>2 DEF Precede
  <2>2. CASE i > m
    <3>1. i - m \in 1 .. l /\ x[i] = new[i - m]
      BY <1>2, <1>4, <2>2
    <3>2. End(w, js[i - m]) \in js[i - m] + 4 .. n + 1 /\ js[i - m] \in 1 .. n
      BY <1>2, <3>1 DEF Found
    <3>3. \A j \in n + 1 .. Len(w) : j \in 1 .. Len(w) /\ j >= End(w, js[i - m])
      BY <1>3, <3>2
    <3>4. x[i][1] <= s
      BY <1>3, <1>5, <3>1
    <3> QED
      BY <1>5, <3>1, <3>3, <3>4
  <2> QED
    BY <1>2, <2>1, <2>2
<1>9. Precede(x, SubSeq(w, n + 1, Len(w)))
  <2>1. PICK T : T = Known(s)
    OBVIOUS
  <2>2. PICK t : t = SubSeq(w, n + 1, Len(w))
    OBVIOUS
  <2>3. w \in Seq(T)
    BY <1>3, <2>1
  <2>4. Len(t) = Len(w) - n /\ \A j \in 1 .. Len(w) - n : t[j] = w[n + j]
    BY <2>2, <2>3, CutFacts
  <2>5. ASSUME NEW i \in 1 .. Len(x), NEW j \in 1 .. Len(t), t[j][1] # 0
        PROVE  Apart(x[i], t[j])
    <3>1. n + j \in n + 1 .. Len(w) /\ t[j] = w[n + j]
      BY <1>3, <2>4
    <3> QED
      BY <1>8, <2>5, <3>1
  <2> QED
    BY <2>2, <2>5 DEF Precede
<1> QED
  BY <1>1, <1>2, <1>7, <1>8, <1>9


\* What a read of n bytes does: new packets, found at the places js, are parsed.
Parses(n, new, js) ==
  /\ new \in Seq(Starts) /\ Found(wire, n, new, js)
  /\ m_tcp_buffer' = <<>>
  /\ parsed' = parsed \o new
  /\ fu_buffer' = FoldLeft(assemble, [fu |-> fu_buffer, nals |-> nals], new).fu
  /\ nals' = FoldLeft(assemble, [fu |-> fu_buffer, nals |-> nals], new).nals

LEMMA ReceiveParses ==
  ASSUME WireInv, ParsedInv, NEW n \in 1 .. Len(wire), Receives(n)
  PROVE  \E new, js : Parses(n, new, js)
<1>1. sent \in 0 .. Len(Media) /\ wire \in Seq(Known(sent)) /\ m_tcp_buffer = <<>>
  BY DEF WireInv, Stream, ParsedInv
<1>2. PICK T : T = Known(sent)
  OBVIOUS
<1>3. PICK head : head = SubSeq(wire, 1, n)
  OBVIOUS
<1>4. head \in Seq(T)
  <2>1. wire \in Seq(T)
    BY <1>1, <1>2
  <2> QED
    BY <1>3, <2>1, CutFacts
<1>5. m_tcp_buffer \o head = head
  BY <1>1, <1>4
<1>6. /\ Scan(head).offset = n /\ Len(head) = n
      /\ Scan(head).packets \in Seq(Starts)
      /\ \E js : Found(wire, n, Scan(head).packets, js)
  BY <1>1, <1>3, HeadTakes
<1>7. Rest(head, Scan(head).offset) = <<>>
  <2>1. SubSeq(head, n + 1, n) = <<>>
    BY <1>4
  <2> QED
    BY <1>6, <2>1 DEF Rest
<1>8. process_tcp_data(head)
  BY <1>3 DEF Receives
<1>9. /\ m_tcp_buffer' = Rest(head, Scan(head).offset)
      /\ parsed' = parsed \o Scan(head).packets
      /\ fu_buffer' = FoldLeft(assemble, [fu |-> fu_buffer, nals |-> nals],
                               Scan(head).packets).fu
      /\ nals' = FoldLeft(assemble, [fu |-> fu_buffer, nals |-> nals],
                          Scan(head).packets).nals
  BY <1>5, <1>8, Zenon DEF process_tcp_data
<1>10. PICK js : Found(wire, n, Scan(head).packets, js)
  BY <1>6
<1>11. Parses(n, Scan(head).packets, js)
  BY <1>6, <1>7, <1>9, <1>10, Zenon DEF Parses
<1> QED
  BY <1>11

LEMMA ParsedHolds ==
  ASSUME WireInv, ParsedInv, [Next]_vars
  PROVE  ParsedInv'
<1>1. /\ sent \in 0 .. Len(Media) /\ sent \in Nat /\ Stream(wire, sent)
      /\ wire \in Seq(Known(sent))
  BY MediaFacts DEF WireInv, Stream
<1>2. /\ parsed \in Seq(Starts) /\ Ordered(parsed) /\ Precede(parsed, wire)
      /\ \A i \in 1 .. Len(parsed) : parsed[i][1] <= sent
  BY DEF ParsedInv
<1>3. ASSUME Quiet PROVE ParsedInv'
  BY <1>3 DEF Quiet, Unread, reading, ParsedInv
<1>4. ASSUME Responds PROVE ParsedInv'
  <2>1. ResponseSize \in Nat
    BY ResponseSizeAssumption
  <2>2. Precede(parsed, wire \o Bytes(0, ResponseSize))
    BY <1>1, <1>2, <2>1, PrecedeLonger
  <2> QED
    BY <1>4, <2>2 DEF Responds, Unread, reading, ParsedInv
<1>5. ASSUME Sends PROVE ParsedInv'
  <2>1. sent' = sent + 1 /\ sent' \in 1 .. Len(Media) /\ sent' \in Nat
    BY <1>1, <1>5, MediaFacts DEF Sends
  <2>2. Media[sent'].size \in Nat
    BY <2>1, MediaFacts
  <2>3. Precede(parsed, wire \o Bytes(sent', Media[sent'].size))
    BY <1>1, <1>2, <2>1, <2>2, PrecedeLonger
  <2>4. /\ wire' = wire \o Bytes(sent', Media[sent'].size)
        /\ parsed' = parsed /\ m_tcp_buffer' = m_tcp_buffer
    BY <1>5 DEF Sends, reading
  <2>5. \A i \in 1 .. Len(parsed) : parsed[i][1] <= sent'
    <3> SUFFICES ASSUME NEW i \in 1 .. Len(parsed) PROVE parsed[i][1] <= sent'
      OBVIOUS
    <3>1. parsed[i][1] <= sent /\ parsed[i] \in Starts
      BY <1>2
    <3>2. parsed[i][1] \in 1 .. Len(Media)
      BY <3>1, StartsFacts
    <3> QED
      BY <1>1, <2>1, <3>1, <3>2, MediaFacts
  <2>6. Precede(parsed', wire')
    BY <2>3, <2>4, Zenon
  <2> QED
    BY <1>2, <2>4, <2>5, <2>6 DEF ParsedInv
<1>6. ASSUME Resets PROVE ParsedInv'
  <2>1. Precede(parsed, <<>>)
    BY DEF Precede
  <2> QED
    BY <1>6, <2>1 DEF Resets, reading, ParsedInv
<1>7. ASSUME NEW n \in 1 .. Len(wire), Answers(n) PROVE ParsedInv'
  <2>1. PICK T : T = Known(sent)
    OBVIOUS
  <2>2. wire \in Seq(T)
    BY <1>1, <2>1
  <2>3. Precede(parsed, SubSeq(wire, n + 1, Len(wire)))
    BY <1>2, <2>2, PrecedeTail
  <2> QED
    BY <1>7, <2>3 DEF Answers, reading, ParsedInv
<1>8. ASSUME NEW n \in 1 .. Len(wire), Receives(n) PROVE ParsedInv'
  <2>1. PICK new, js : Parses(n, new, js)
    BY <1>8, ReceiveParses
  <2>2. new \in Seq(Starts) /\ Found(wire, n, new, js)
    BY <2>1 DEF Parses
  <2>3. /\ parsed \o new \in Seq(Starts) /\ Ordered(parsed \o new)
        /\ \A i \in 1 .. Len(parsed \o new) : (parsed \o new)[i][1] <= sent
        /\ Precede(parsed \o new, SubSeq(wire, n + 1, Len(wire)))
    BY <1>1, <1>2, <2>2, PrecedeReceived
  <2>4. parsed' = parsed \o new /\ m_tcp_buffer' = <<>>
    BY <2>1 DEF Parses
  <2>5. wire' = SubSeq(wire, n + 1, Len(wire)) /\ sent' = sent
    BY <1>8 DEF Receives
  <2> QED
    BY <2>3, <2>4, <2>5 DEF ParsedInv
<1> QED
  BY <1>3, <1>4, <1>5, <1>6, <1>7, <1>8, Steps

-----------------------------------------------------------------------------
(* The units.                                                                  *)

LEMMA PrefixFacts ==
  ASSUME NEW T, NEW q \in Seq(T), NEW k \in 1 .. Len(q)
  PROVE  /\ SubSeq(q, 1, k - 1) \in Seq(T) /\ q[k] \in T
         /\ SubSeq(q, 1, k) = Append(SubSeq(q, 1, k - 1), q[k])
         /\ Len(SubSeq(q, 1, k)) = k
         /\ \A i \in 1 .. k : SubSeq(q, 1, k)[i] = q[i]
<1>1. Len(q) \in Nat /\ k - 1 \in Nat
  OBVIOUS
<1>2. SubSeq(q, 1, k - 1) = [i \in 1 .. k - 1 |-> q[i]]
  BY <1>1
<1>3. SubSeq(q, 1, k) = [i \in 1 .. k |-> q[i]]
  BY <1>1
<1>4. SubSeq(q, 1, k - 1) \in Seq(T) /\ Len(SubSeq(q, 1, k - 1)) = k - 1
  BY <1>1
<1> QED
  BY <1>1, <1>2, <1>3, <1>4

LEMMA OrderedPrefix ==
  ASSUME NEW q \in Seq(Starts), Ordered(q), NEW k \in 1 .. Len(q)
  PROVE  Ordered(SubSeq(q, 1, k))
<1>1. PICK p : p = SubSeq(q, 1, k)
  OBVIOUS
<1>2. Len(p) = k /\ \A i \in 1 .. k : p[i] = q[i] /\ i \in 1 .. Len(q)
  BY <1>1, PrefixFacts
<1>3. Ordered(p)
  BY <1>2 DEF Ordered
<1> QED
  BY <1>1, <1>3

\* The kind of a packet that is taken is one of the five.
LEMMA StartKinds ==
  \A x \in Starts : PacketAt(x).kind \in Kinds
<1> SUFFICES ASSUME NEW x \in Starts PROVE PacketAt(x).kind \in Kinds
  OBVIOUS
<1>1. CASE \E p \in DOMAIN Media : x = <<p, 1>>
  BY <1>1, MediaFacts DEF PacketAt
<1>2. CASE x \in DOMAIN LookAlikes
  BY <1>2, LookAlikesAssumption, MediaFacts DEF PacketAt, Interleaved
<1> QED
  BY <1>1, <1>2 DEF Starts


LEMMA WholePrefix ==
  ASSUME NEW T, NEW q \in Seq(T)
  PROVE  SubSeq(q, 1, Len(q)) = q
<1>1. /\ SubSeq(q, 1, Len(q)) \in Seq(T) /\ Len(SubSeq(q, 1, Len(q))) = Len(q)
      /\ \A i \in 1 .. Len(q) : SubSeq(q, 1, Len(q))[i] = q[i]
  OBVIOUS
<1> QED
  BY <1>1, SeqEqual

LEMMA FoldAssembled ==
  ASSUME NEW ps \in Seq(Starts), NEW new \in Seq(Starts), Ordered(ps \o new),
         NEW a \in Assembly, Assembled(ps, a)
  PROVE  /\ FoldLeft(assemble, a, new) \in Assembly
         /\ Assembled(ps \o new, FoldLeft(assemble, a, new))
<1>1. PICK T : T = Starts
  OBVIOUS
<1>2. PICK x : x = ps \o new
  OBVIOUS
<1>3. ps \in Seq(T) /\ new \in Seq(T)
  BY <1>1
<1>4. Appended(x, ps, new, T)
  BY <1>2, <1>3, JoinFacts
<1>5. PICK m \in Nat, l \in Nat : m = Len(ps) /\ l = Len(new)
  BY <1>4 DEF Appended
<1>6. /\ x \in Seq(T) /\ Len(x) = m + l
      /\ \A i \in 1 .. m : x[i] = ps[i]
      /\ \A i \in 1 .. l : x[m + i] = new[i]
  BY <1>4, <1>5 DEF Appended
<1>7. SubSeq(x, 1, m) = ps
  <2>1. /\ SubSeq(x, 1, m) \in Seq(T) /\ Len(SubSeq(x, 1, m)) = m
        /\ \A i \in 1 .. m : SubSeq(x, 1, m)[i] = x[i]
    BY <1>6
  <2> QED
    BY <1>3, <1>5, <1>6, <2>1, SeqEqual
<1>8. SubSeq(x, 1, m + l) = x
  BY <1>6, WholePrefix
<1>9. PICK C : C = [k \in 0 .. l |-> {b \in Assembly : Assembled(SubSeq(x, 1, m + k), b)}]
  OBVIOUS
<1>10. \A k \in 0 .. l : \A b :
         b \in C[k] <=> b \in Assembly /\ Assembled(SubSeq(x, 1, m + k), b)
  BY <1>9
<1>11. a \in C[0]
  <2>1. 0 \in 0 .. l /\ m + 0 = m
    BY <1>5
  <2> QED
    BY <1>7, <1>10, <2>1
<1>12. ASSUME NEW k \in 1 .. Len(new), NEW b \in C[k - 1]
       PROVE  assemble(b, new[k]) \in C[k]
  <2>1. k - 1 \in 0 .. l /\ k \in 0 .. l /\ m + k \in 1 .. Len(x) /\ m + (k - 1) = (m + k) - 1
    BY <1>5, <1>6
  <2>2. b \in Assembly /\ Assembled(SubSeq(x, 1, (m + k) - 1), b)
    BY <1>10, <1>12, <2>1
  <2>3. PICK p : p = SubSeq(x, 1, (m + k) - 1)
    OBVIOUS
  <2>4. p \in Seq(T) /\ SubSeq(x, 1, m + k) = Append(p, x[m + k])
    BY <1>6, <2>1, <2>3, PrefixFacts
  <2>5. x[m + k] = new[k] /\ new[k] \in Starts
    BY <1>5, <1>6
  <2>6. Ordered(Append(p, new[k]))
    <3>1. Ordered(SubSeq(x, 1, m + k))
      BY <1>1, <1>2, <1>6, <2>1, OrderedPrefix
    <3> QED
      BY <2>4, <2>5, <3>1
  <2>7. PacketAt(new[k]).kind \in Kinds
    BY <2>5, StartKinds
  <2>8. p \in Seq(Starts) /\ Assembled(p, b)
    BY <1>1, <2>2, <2>3, <2>4
  <2>9. Assembled(Append(p, new[k]), assemble(b, new[k]))
    BY <2>2, <2>5, <2>6, <2>7, <2>8, OneMore
  <2>10. assemble(b, new[k]) \in Assembly
    BY <2>2, <2>5, <2>7, AssembleTyped
  <2>11. Assembled(SubSeq(x, 1, m + k), assemble(b, new[k]))
    BY <2>4, <2>5, <2>9
  <2> QED
    BY <1>10, <2>1, <2>10, <2>11
<1>13. FoldLeft(assemble, a, new) \in C[Len(new)]
  BY <1>3, <1>11, <1>12, FoldClosed
<1>14. PICK r : r = FoldLeft(assemble, a, new)
  OBVIOUS
<1>15. r \in C[l] /\ l \in 0 .. l
  BY <1>5, <1>13, <1>14
<1>16. r \in Assembly /\ Assembled(SubSeq(x, 1, m + l), r)
  BY <1>10, <1>15
<1> QED
  BY <1>2, <1>8, <1>14, <1>16

LEMMA UnitsHold ==
  ASSUME WireInv, ParsedInv, UnitsInv, [Next]_vars
  PROVE  UnitsInv'
<1>1. CASE UNCHANGED reading
  BY <1>1 DEF reading, assembler, UnitsInv
<1>2. ASSUME NEW n \in 1 .. Len(wire), Receives(n) PROVE UnitsInv'
  <2>1. PICK new, js : Parses(n, new, js)
    BY <1>2, ReceiveParses
  <2>2. PICK a : a = [fu |-> fu_buffer, nals |-> nals]
    OBVIOUS
  <2>3. a \in Assembly /\ Assembled(parsed, a) /\ parsed \in Seq(Starts)
    BY <2>2 DEF UnitsInv, ParsedInv
  <2>4. /\ new \in Seq(Starts) /\ parsed' = parsed \o new
        /\ fu_buffer' = FoldLeft(assemble, a, new).fu
        /\ nals' = FoldLeft(assemble, a, new).nals
    BY <2>1, <2>2 DEF Parses
  <2>5. Ordered(parsed \o new)
    BY <2>4, ParsedHolds DEF ParsedInv
  <2>6. PICK r : r = FoldLeft(assemble, a, new)
    OBVIOUS
  <2>7. r \in Assembly /\ Assembled(parsed \o new, r)
    BY <2>3, <2>4, <2>5, <2>6, FoldAssembled
  <2>8. r = [fu |-> r.fu, nals |-> r.nals]
    BY <2>7 DEF Assembly
  <2>9. r = [fu |-> fu_buffer', nals |-> nals']
    BY <2>4, <2>6, <2>8
  <2> QED
    BY <2>4, <2>7, <2>9 DEF UnitsInv
<1>3. Quiet \/ Responds \/ Sends \/ Resets => UNCHANGED reading
  BY DEF Quiet, Responds, Sends, Resets, Unread
<1>4. \A n \in 1 .. Len(wire) : Answers(n) => UNCHANGED reading
  BY DEF Answers
<1> QED
  BY <1>1, <1>2, <1>3, <1>4, Steps


-----------------------------------------------------------------------------
(* The losses.                                                                 *)

LEMMA PacketsWereSent ==
  ASSUME NEW s \in Nat, NEW w \in Seq(Known(s))
  PROVE  PacketsIn(w) \subseteq 1 .. s
<1>1. ArePackets(PacketsIn(w), w, Len(w))
  BY PacketsFacts
<1>2. \A i \in 1 .. Len(w) : w[i][1] \in 0 .. s
  <2> SUFFICES ASSUME NEW i \in 1 .. Len(w) PROVE w[i][1] \in 0 .. s
    OBVIOUS
  <2>1. w[i] \in Known(s)
    OBVIOUS
  <2> QED
    BY <2>1 DEF Known
<1> QED
  BY <1>1, <1>2 DEF ArePackets

\* The first n bytes of w are in h, the others in t.
Divided(w, n, h, t) ==
  /\ PacketsIn(w) = PacketsIn(h) \cup PacketsIn(t)
  /\ \A i \in 1 .. n : w[i][1] # 0 => w[i][1] \in PacketsIn(h)
  /\ \A i \in n + 1 .. Len(w) : w[i][1] # 0 => w[i][1] \in PacketsIn(t)
  /\ \A p \in PacketsIn(t) : \E i \in n + 1 .. Len(w) : w[i][1] = p

LEMMA PacketsOfTail ==
  ASSUME NEW s \in Nat, NEW w \in Seq(Known(s)), NEW n \in 1 .. Len(w),
         NEW h, h = SubSeq(w, 1, n), NEW t, t = SubSeq(w, n + 1, Len(w))
  PROVE  Divided(w, n, h, t)
<1>1. PICK T : T = Known(s)
  OBVIOUS
<1>2. w \in Seq(T)
  BY <1>1
<1>3. /\ h \in Seq(T) /\ Len(h) = n /\ \A i \in 1 .. n : h[i] = w[i]
      /\ t \in Seq(T) /\ Len(t) = Len(w) - n /\ \A i \in 1 .. Len(w) - n : t[i] = w[n + i]
      /\ Len(w) \in Nat
  BY <1>2, CutFacts
<1>4. /\ \A p : p \in PacketsIn(h) <=> p # 0 /\ \E i \in 1 .. n : h[i][1] = p
      /\ \A p : p \in PacketsIn(t) <=> p # 0 /\ \E i \in 1 .. Len(w) - n : t[i][1] = p
      /\ \A p : p \in PacketsIn(w) <=> p # 0 /\ \E i \in 1 .. Len(w) : w[i][1] = p
  <2>1. /\ ArePackets(PacketsIn(h), h, n)
        /\ ArePackets(PacketsIn(t), t, Len(w) - n)
        /\ ArePackets(PacketsIn(w), w, Len(w))
    <3>1. /\ ArePackets(PacketsIn(h), h, Len(h))
          /\ ArePackets(PacketsIn(t), t, Len(t))
          /\ ArePackets(PacketsIn(w), w, Len(w))
      BY <1>2, <1>3, PacketsFacts
    <3> QED
      BY <1>3, <3>1
  <2> QED
    BY <2>1, Zenon DEF ArePackets
<1>5. \A i \in 1 .. n : w[i][1] # 0 => w[i][1] \in PacketsIn(h)
  BY <1>3, <1>4
<1>6. \A i \in n + 1 .. Len(w) : w[i][1] # 0 => w[i][1] \in PacketsIn(t)
  <2> SUFFICES ASSUME NEW i \in n + 1 .. Len(w), w[i][1] # 0 PROVE w[i][1] \in PacketsIn(t)
    OBVIOUS
  <2>1. i - n \in 1 .. Len(w) - n /\ n + (i - n) = i
    BY <1>3
  <2>2. t[i - n] = w[i]
    BY <1>3, <2>1
  <2> QED
    BY <1>4, <2>1, <2>2
<1>7. \A p \in PacketsIn(t) : \E i \in n + 1 .. Len(w) : w[i][1] = p
  <2> SUFFICES ASSUME NEW p \in PacketsIn(t) PROVE \E i \in n + 1 .. Len(w) : w[i][1] = p
    OBVIOUS
  <2>1. PICK i \in 1 .. Len(w) - n : t[i][1] = p
    BY <1>4
  <2>2. n + i \in n + 1 .. Len(w) /\ w[n + i][1] = p
    BY <1>3, <2>1
  <2> QED
    BY <2>2
<1>8. \A p \in PacketsIn(h) : p \in PacketsIn(w)
  <2> SUFFICES ASSUME NEW p \in PacketsIn(h) PROVE p \in PacketsIn(w)
    OBVIOUS
  <2>1. PICK i \in 1 .. n : h[i][1] = p
    BY <1>4
  <2>2. i \in 1 .. Len(w) /\ w[i][1] = p
    BY <1>3, <2>1
  <2> QED
    BY <1>4, <2>2
<1>9. \A p \in PacketsIn(t) : p \in PacketsIn(w)
  <2> SUFFICES ASSUME NEW p \in PacketsIn(t) PROVE p \in PacketsIn(w)
    OBVIOUS
  <2>1. PICK i \in n + 1 .. Len(w) : w[i][1] = p
    BY <1>7
  <2>2. i \in 1 .. Len(w) /\ p # 0
    BY <1>3, <1>4
  <2> QED
    BY <1>4, <2>1, <2>2
<1>10. \A p \in PacketsIn(w) : p \in PacketsIn(h) \/ p \in PacketsIn(t)
  <2> SUFFICES ASSUME NEW p \in PacketsIn(w) PROVE p \in PacketsIn(h) \/ p \in PacketsIn(t)
    OBVIOUS
  <2>1. PICK i \in 1 .. Len(w) : w[i][1] = p
    BY <1>4
  <2>2. p # 0 /\ (i \in 1 .. n \/ i \in n + 1 .. Len(w))
    BY <1>3, <1>4
  <2> QED
    BY <1>5, <1>6, <2>1, <2>2
<1>11. PacketsIn(w) = PacketsIn(h) \cup PacketsIn(t)
  BY <1>8, <1>9, <1>10
<1> QED
  BY <1>5, <1>6, <1>7, <1>11, Zenon DEF Divided

LEMMA PacketsOfLonger ==
  ASSUME NEW s \in Nat, NEW w \in Seq(Known(s)), NEW q \in Nat, NEW n \in Nat, n > 0,
         NEW x, x = w \o Bytes(q, n), NEW r \in Nat, x \in Seq(Known(r))
  PROVE  PacketsIn(x) = IF q = 0 THEN PacketsIn(w) ELSE PacketsIn(w) \cup {q}
<1>1. Joined(x, w, q, n)
  BY LongerFacts
<1>2. PICK l \in Nat : /\ l = Len(w) /\ Len(x) = l + n
                       /\ \A i \in 1 .. l : x[i] = w[i]
                       /\ \A i \in l + 1 .. l + n : x[i] = <<q, i - l>>
  BY <1>1 DEF Joined
<1>3. /\ \A p : p \in PacketsIn(w) <=> p # 0 /\ \E i \in 1 .. l : w[i][1] = p
      /\ \A p : p \in PacketsIn(x) <=> p # 0 /\ \E i \in 1 .. l + n : x[i][1] = p
  <2>1. ArePackets(PacketsIn(w), w, l) /\ ArePackets(PacketsIn(x), x, l + n)
    <3>1. ArePackets(PacketsIn(w), w, Len(w)) /\ ArePackets(PacketsIn(x), x, Len(x))
      BY PacketsFacts
    <3> QED
      BY <1>2, <3>1
  <2> QED
    BY <2>1, Zenon DEF ArePackets
<1>4. \A i \in 1 .. l + n : (i \in 1 .. l /\ x[i][1] = w[i][1]) \/ x[i][1] = q
  <2> SUFFICES ASSUME NEW i \in 1 .. l + n
               PROVE  (i \in 1 .. l /\ x[i][1] = w[i][1]) \/ x[i][1] = q
    OBVIOUS
  <2>1. CASE i <= l
    BY <1>2, <2>1
  <2>2. CASE i > l
    <3>1. i \in l + 1 .. l + n
      BY <1>2, <2>2
    <3>2. x[i] = <<q, i - l>>
      BY <1>2, <3>1, Zenon
    <3> QED
      BY <3>2
  <2>3. i <= l \/ i > l
    OBVIOUS
  <2> QED
    BY <2>1, <2>2, <2>3
<1>5. l + 1 \in 1 .. l + n /\ x[l + 1][1] = q
  <2>1. l + 1 \in 1 .. l + n /\ l + 1 \in l + 1 .. l + n
    OBVIOUS
  <2>2. x[l + 1] = <<q, (l + 1) - l>>
    BY <1>2, <2>1, Zenon
  <2> QED
    BY <2>1, <2>2
<1>6. \A i \in 1 .. l : i \in 1 .. l + n /\ x[i][1] = w[i][1]
  BY <1>2
<1>7. ASSUME NEW p
      PROVE  p \in PacketsIn(x) <=> p \in PacketsIn(w) \/ (q # 0 /\ p = q)
  <2>1. ASSUME p \in PacketsIn(x) PROVE p \in PacketsIn(w) \/ (q # 0 /\ p = q)
    <3>1. PICK i \in 1 .. l + n : x[i][1] = p
      BY <1>3, <2>1
    <3>2. p # 0 /\ ((i \in 1 .. l /\ w[i][1] = p) \/ p = q)
      BY <1>3, <1>4, <2>1, <3>1
    <3> QED
      BY <1>3, <3>2
  <2>2. ASSUME p \in PacketsIn(w) PROVE p \in PacketsIn(x)
    <3>1. PICK i \in 1 .. l : w[i][1] = p
      BY <1>3, <2>2
    <3>2. p # 0 /\ i \in 1 .. l + n /\ x[i][1] = p
      BY <1>3, <1>6, <2>2, <3>1
    <3> QED
      BY <1>3, <3>2
  <2>3. ASSUME q # 0, p = q PROVE p \in PacketsIn(x)
    BY <1>3, <1>5, <2>3
  <2> QED
    BY <2>1, <2>2, <2>3
<1>8. CASE q = 0
  BY <1>7, <1>8
<1>9. CASE q # 0
  BY <1>7, <1>9
<1> QED
  BY <1>8, <1>9


\* The packet r does not reach into what follows the first n bytes, and was not parsed.
Skipped(w, n, ps, new, r) ==
  /\ \A t \in n + 1 .. Len(w) : w[t][1] # r
  /\ \A k \in 1 .. Len(ps) : ps[k] # <<r, 1>>
  /\ \A k \in 1 .. Len(new) : new[k] # <<r, 1>>

\* A packet that lies in a read and is not taken begins inside another, which was
\* taken: a look-alike of an earlier packet, which is skipped as are those between.
LEMMA SkippedAfterLookAlike ==
  ASSUME NEW s \in 0 .. Len(Media), NEW w, Stream(w, s), NEW n \in 1 .. Len(w),
         NEW ps \in Seq(Starts), Precede(ps, w),
         NEW new \in Seq(Starts), NEW js, Found(w, n, new, js),
         NEW p \in 1 .. s, NEW i \in 1 .. n, w[i] = <<p, 1>>, Skipped(w, n, ps, new, p)
  PROVE  \E b \in DOMAIN LookAlikes :
           b[1] \in 1 .. p - 1 /\ \A r \in b[1] .. p - 1 : Skipped(w, n, ps, new, r)
<1>1. /\ Len(w) \in Nat /\ s \in Nat /\ w \in Seq(Known(s)) /\ Ascending(w)
      /\ i \in 1 .. Len(w) /\ p \in 1 .. Len(Media) /\ p \in Nat
      /\ Media[p].size \in Nat /\ Media[p].size >= 4
  BY MediaFacts DEF Stream
<1>2. w[i][1] = p /\ w[i][2] = 1
  OBVIOUS
<1>3. LiesAt(w, p, i)
  BY <1>1, PacketRange
<1>4. IsMarker(w[i]) /\ End(w, i) <= n + 1
  <2>1. PICK e \in Nat : e = i + (Media[p].size - 1)
    BY <1>1
  <2>2. Media[p].size \in 1 .. Media[p].size
    BY <1>1
  <2>3. w[e] = <<p, Media[p].size>>
    BY <1>3, <2>1, <2>2, Zenon DEF LiesAt
  <2>4. e <= Len(w) /\ e >= 1
    BY <1>1, <1>3, <2>1 DEF LiesAt
  <2>5. ~(e \in n + 1 .. Len(w))
    BY <2>3 DEF Skipped
  <2>6. e <= n
    BY <1>1, <2>4, <2>5
  <2>7. PacketAt(w[i]) = Media[p] /\ IsMarker(w[i])
    BY <1>3 DEF LiesAt
  <2>8. End(w, i) = i + Media[p].size
    BY <2>7 DEF End
  <2> QED
    <3>1. PICK z \in Nat : z = Media[p].size
      BY <1>1, Zenon
    <3>2. e = i + (z - 1)
      BY <2>1, <3>1, Zenon
    <3>3. i + z = e + 1
      BY <3>2
    <3>4. e + 1 <= n + 1
      BY <2>6
    <3> QED BY <2>7, <2>8, <3>1, <3>3, <3>4, Zenon
<1>5. PICK k \in 1 .. Len(new) : js[k] <= i /\ i < End(w, js[k])
  BY <1>4 DEF Found
<1>6. PICK j \in 1 .. Len(w) : j = js[k]
  BY FoundAreApart
<1>7. new[k] = w[j] /\ j <= i /\ i < End(w, j) /\ j \in 1 .. n
  BY <1>5, <1>6, FoundAreApart
<1>8. PICK b : b = w[j]
  OBVIOUS
<1>9. IsMarker(b) /\ b \in Known(s)
  BY <1>1, <1>6, <1>8 DEF Found
<1>10. /\ b \in Starts /\ b[1] \in 1 .. s /\ b[2] \in Nat /\ b[2] >= 1
       /\ b[1] \in Nat /\ b[1] # 0
  <2>1. /\ b \in Starts /\ b[1] \in 1 .. s
    BY <1>9, MarkerFacts
  <2> QED
    BY <2>1, StartsFacts
<1>11. j < i
  <2>1. j # i
    <3>1. SUFFICES ASSUME j = i PROVE FALSE
      OBVIOUS
    <3>2. new[k] = <<p, 1>>
      BY <1>7, <3>1
    <3> QED
      BY <3>2 DEF Skipped
  <2> QED
    BY <1>7, <2>1
<1>12. b[1] < p
  <2>1. Before(w[j], w[i])
    <3>1. w[i][1] # 0 /\ w[j][1] # 0
      BY <1>2, <1>8, <1>10
    <3> QED
      BY <1>1, <1>11, <3>1, Zenon DEF Ascending
  <2> QED
    BY <1>1, <1>2, <1>8, <1>10, <2>1 DEF Before
<1>13. b[2] # 1
  <2> SUFFICES ASSUME b[2] = 1 PROVE FALSE
    OBVIOUS
  <2>1. PICK q \in 1 .. s : q = b[1]
    BY <1>10
  <2>2. w[j] = <<q, 1>>
    BY <1>8, <1>9, <2>1 DEF Known
  <2>3. LiesAt(w, q, j)
    BY <2>2, PacketRange
  <2>4. i < j + Media[q].size
    BY <1>7, <2>3 DEF LiesAt, End
  <2>5. Media[q].size \in Nat
    BY <1>1, <2>1, MediaFacts
  <2>6. PICK d \in 1 .. Media[q].size : i = j + (d - 1)
    <3>1. (i - j) + 1 \in 1 .. Media[q].size /\ i = j + (((i - j) + 1) - 1)
      BY <1>11, <2>4, <2>5
    <3> QED
      BY <3>1
  <2>7. w[i] = <<q, d>>
    BY <2>3, <2>6, Zenon DEF LiesAt
  <2>8. q = p
    BY <1>2, <2>7
  <2> QED
    BY <1>12, <2>1, <2>8, <1>1
<1>14. b \in DOMAIN LookAlikes
  BY <1>9, <1>13 DEF IsMarker
<1>15. ASSUME NEW r \in b[1] .. p - 1 PROVE Skipped(w, n, ps, new, r)
  <2>1. r \in Nat /\ r # 0 /\ b[1] <= r /\ r < p
    BY <1>1, <1>10
  <2>2. ASSUME NEW t \in 1 .. Len(w), w[t][1] = r, i < t PROVE FALSE
    <3>1. Before(w[i], w[t])
      <4>1. w[i][1] # 0 /\ w[t][1] # 0
        BY <1>2, <2>1, <2>2
      <4> QED
        BY <1>1, <2>2, <4>1, Zenon DEF Ascending
    <3> QED
      BY <1>1, <1>2, <2>1, <2>2, <3>1 DEF Before
  <2>3. ASSUME NEW c, c = <<r, 1>>, Apart(c, b) PROVE FALSE
    <3>1. c[1] = r /\ c[2] = 1
      BY <2>3
    <3>2. Before(c, b) /\ b[1] # r
      BY <2>3, <3>1 DEF Apart
    <3> QED
      BY <1>10, <2>1, <3>1, <3>2 DEF Before
  <2>4. ASSUME NEW t \in n + 1 .. Len(w) PROVE w[t][1] # r
    <3>1. t \in 1 .. Len(w) /\ i < t
      BY <1>1
    <3> QED
      BY <2>2, <3>1
  <2>5. ASSUME NEW l \in 1 .. Len(ps), ps[l] = <<r, 1>> PROVE FALSE
    <3>1. Apart(ps[l], b)
      BY <1>8, <1>10 DEF Precede
    <3> QED
      BY <2>3, <2>5, <3>1
  <2>6. ASSUME NEW l \in 1 .. Len(new), new[l] = <<r, 1>> PROVE FALSE
    <3>1. PICK m \in 1 .. Len(w) : m = js[l] /\ new[l] = w[m]
      <4>1. js[l] \in 1 .. Len(w) /\ new[l] = w[js[l]]
        BY FoundAreApart
      <4> QED
        BY <4>1, Zenon
    <3>2. w[m] = <<r, 1>> /\ w[m][1] = r
      BY <2>6, <3>1
    <3>3. l # k
      BY <1>7, <1>8, <1>13, <2>6
    <3>4. CASE l < k
      <4>1. End(w, js[l]) <= j
        BY <1>6, <3>4 DEF Found
      <4>2. End(w, js[l]) \in Int
        BY <1>1, <3>1 DEF Found
      <4>3. j >= End(w, js[l]) /\ w[j][1] # 0
        BY <1>8, <1>10, <4>1, <4>2
      <4>4. Apart(new[l], w[j])
        BY <4>3, FoundAreApart
      <4> QED
        BY <1>8, <2>3, <2>6, <4>4
    <3>5. CASE k < l
      <4>1. End(w, j) <= m
        BY <1>6, <3>1, <3>5 DEF Found
      <4>2. End(w, j) \in Int
        BY <1>6, <1>7 DEF Found
      <4>3. i < m
        BY <1>1, <1>7, <4>1, <4>2
      <4> QED
        BY <2>2, <3>2, <4>3
    <3> QED
      BY <3>3, <3>4, <3>5
  <2> QED
    BY <2>4, <2>5, <2>6 DEF Skipped
<1>16. b[1] \in 1 .. p - 1
  BY <1>1, <1>10, <1>12
<1> QED
  BY <1>14, <1>15, <1>16


LEMMA NotedLonger ==
  ASSUME NEW s \in Nat, NEW w \in Seq(Known(s)), NEW N, Noted(w, N),
         NEW q \in Nat, NEW n \in Nat, n > 0, NEW x, x = w \o Bytes(q, n)
  PROVE  Noted(x, N)
<1>1. Joined(x, w, q, n)
  BY LongerFacts
<1>2. PICK l \in Nat : /\ l = Len(w) /\ Len(x) = l + n
                       /\ \A i \in 1 .. l : x[i] = w[i]
                       /\ \A i \in l + 1 .. l + n : x[i] = <<q, i - l>>
  BY <1>1 DEF Joined
<1>3. ASSUME NEW j \in 1 .. Len(x), x[j][1] # 0
      PROVE  \/ x[j][1] \in N
             \/ \E i \in 1 .. Len(x) : x[i] = <<x[j][1], 1>>
  <2>1. CASE j <= l
    <3>1. j \in 1 .. Len(w) /\ x[j] = w[j]
      BY <1>2, <2>1
    <3>2. w[j][1] \in N \/ \E i \in 1 .. Len(w) : w[i] = <<w[j][1], 1>>
      BY <1>3, <3>1 DEF Noted
    <3>3. ASSUME NEW i \in 1 .. Len(w), w[i] = <<w[j][1], 1>>
          PROVE  \E k \in 1 .. Len(x) : x[k] = <<x[j][1], 1>>
      <4>1. i \in 1 .. Len(x) /\ x[i] = w[i]
        BY <1>2
      <4> QED
        BY <3>1, <3>3, <4>1
    <3> QED
      BY <3>1, <3>2, <3>3
  <2>2. CASE j > l
    <3>1. j \in l + 1 .. l + n /\ l + 1 \in l + 1 .. l + n /\ l + 1 \in 1 .. Len(x)
      BY <1>2, <2>2
    <3>2. x[j] = <<q, j - l>> /\ x[l + 1] = <<q, (l + 1) - l>>
      BY <1>2, <3>1, Zenon
    <3>3. x[l + 1] = <<x[j][1], 1>>
      BY <3>2
    <3> QED
      BY <3>1, <3>3
  <2>3. j <= l \/ j > l
    BY <1>2
  <2> QED
    BY <2>1, <2>2, <2>3
<1> QED
  BY <1>3 DEF Noted

\* The first n bytes of w are h, the others t.
Parts(w, n, h, t) == h = SubSeq(w, 1, n) /\ t = SubSeq(w, n + 1, Len(w))

\* M has all that N has, and the packets divided by the cut between h and t.
Covers(M, N, h, t) == N \subseteq M /\ PacketsIn(h) \cap PacketsIn(t) \subseteq M

LEMMA NotedTail ==
  ASSUME NEW s \in Nat, NEW w \in Seq(Known(s)), NEW n \in 1 .. Len(w),
         NEW h, NEW t, Parts(w, n, h, t),
         NEW N, Noted(w, N), NEW M, Covers(M, N, h, t)
  PROVE  Noted(t, M)
<1>1. PICK T : T = Known(s)
  OBVIOUS
<1>2. w \in Seq(T)
  BY <1>1
<1>3. Len(t) = Len(w) - n /\ (\A i \in 1 .. Len(w) - n : t[i] = w[n + i]) /\ Len(w) \in Nat
  BY <1>2, CutFacts DEF Parts
<1>4. /\ \A i \in 1 .. n : w[i][1] # 0 => w[i][1] \in PacketsIn(h)
      /\ \A i \in n + 1 .. Len(w) : w[i][1] # 0 => w[i][1] \in PacketsIn(t)
  <2>1. Divided(w, n, h, t)
    BY PacketsOfTail DEF Parts
  <2> QED
    BY <2>1, Zenon DEF Divided
<1>5. ASSUME NEW j \in 1 .. Len(t), t[j][1] # 0, t[j][1] \notin M
      PROVE  \E i \in 1 .. Len(t) : t[i] = <<t[j][1], 1>>
  <2>1. PICK p : p = t[j][1]
    OBVIOUS
  <2>2. n + j \in n + 1 .. Len(w) /\ n + j \in 1 .. Len(w) /\ w[n + j][1] = p
    BY <1>3, <2>1
  <2>3. p # 0 /\ p \notin N /\ p \notin M
    BY <1>5, <2>1 DEF Covers
  <2>4. PICK i \in 1 .. Len(w) : w[i] = <<p, 1>>
    BY <2>2, <2>3 DEF Noted
  <2>5. w[i][1] = p
    BY <2>4
  <2>6. i > n
    <3>1. SUFFICES ASSUME ~(i > n) PROVE FALSE
      OBVIOUS
    <3>2. i \in 1 .. n
      BY <1>3, <3>1
    <3>3. p \in PacketsIn(h) /\ p \in PacketsIn(t)
      BY <1>4, <2>2, <2>3, <2>5, <3>2
    <3> QED
      BY <2>3, <3>3 DEF Covers
  <2>7. i - n \in 1 .. Len(t) /\ i - n \in 1 .. Len(w) - n /\ n + (i - n) = i
    BY <1>3, <2>6
  <2>8. t[i - n] = w[i]
    BY <1>3, <2>7
  <2> QED
    BY <2>1, <2>4, <2>7, <2>8
<1> QED
  BY <1>5 DEF Noted

\* As long as nothing is read by the packet loop, the losses stay what they are.
LEMMA LossKept ==
  ASSUME LossBeginsWithACut, Given' = Given, parsed' = parsed, cut' = cut,
         missed \subseteq missed'
  PROVE  LossBeginsWithACut'
<1>1. Lost' = Lost
  BY DEF Lost
<1> QED
  BY <1>1 DEF LossBeginsWithACut

LEMMA LossHoldsWhenRead ==
  ASSUME WireInv, ParsedInv, LossInv, NEW n \in 1 .. Len(wire), Receives(n)
  PROVE  LossInv'
<1>1. /\ sent \in 0 .. Len(Media) /\ sent \in Nat /\ Stream(wire, sent)
      /\ wire \in Seq(Known(sent)) /\ Len(wire) \in Nat
  BY MediaFacts DEF WireInv, Stream
<1>2. PICK h : h = SubSeq(wire, 1, n)
  OBVIOUS
<1>3. PICK t : t = SubSeq(wire, n + 1, Len(wire))
  OBVIOUS
<1>4. /\ wire' = t /\ sent' = sent /\ missed' = missed
      /\ cut' = cut \cup (PacketsIn(h) \cap PacketsIn(t))
  BY <1>2, <1>3 DEF Receives
<1>5. PICK new, js : Parses(n, new, js)
  BY ReceiveParses
<1>6. /\ new \in Seq(Starts) /\ Found(wire, n, new, js) /\ parsed' = parsed \o new
      /\ parsed \in Seq(Starts) /\ Precede(parsed, wire)
  BY <1>5 DEF Parses, ParsedInv
<1>7. \A b : b \in ToSet(parsed') <=> \/ \E k \in 1 .. Len(parsed) : parsed[k] = b
                                      \/ \E k \in 1 .. Len(new) : new[k] = b
  <2>1. PICK T : T = Starts
    OBVIOUS
  <2>2. PICK x : x = parsed \o new
    OBVIOUS
  <2>3. Appended(x, parsed, new, T)
    BY <1>6, <2>1, <2>2, JoinFacts
  <2>4. \A b : b \in ToSet(x) <=> \E i \in 1 .. Len(x) : x[i] = b
    BY <2>3 DEF Appended, ToSet
  <2>5. ASSUME NEW b, NEW i \in 1 .. Len(x), x[i] = b
        PROVE  \/ \E k \in 1 .. Len(parsed) : parsed[k] = b
               \/ \E k \in 1 .. Len(new) : new[k] = b
    <3>1. CASE i \in 1 .. Len(parsed)
      BY <2>3, <2>5, <3>1 DEF Appended
    <3>2. CASE i > Len(parsed)
      <4>1. i - Len(parsed) \in 1 .. Len(new) /\ Len(parsed) + (i - Len(parsed)) = i
        BY <2>3, <3>2 DEF Appended
      <4>2. x[i] = new[i - Len(parsed)]
        BY <2>3, <4>1 DEF Appended
      <4> QED
        BY <2>5, <4>1, <4>2
    <3> QED
      BY <2>3, <3>1, <3>2 DEF Appended
  <2>6. ASSUME NEW b, NEW k \in 1 .. Len(parsed), parsed[k] = b
        PROVE  \E i \in 1 .. Len(x) : x[i] = b
    <3>1. k \in 1 .. Len(x) /\ x[k] = b
      BY <2>3, <2>6 DEF Appended
    <3> QED
      BY <3>1
  <2>7. ASSUME NEW b, NEW k \in 1 .. Len(new), new[k] = b
        PROVE  \E i \in 1 .. Len(x) : x[i] = b
    <3>1. Len(parsed) + k \in 1 .. Len(x)
      BY <2>3 DEF Appended
    <3>2. x[Len(parsed) + k] = b
      BY <2>3, <2>7 DEF Appended
    <3> QED
      BY <3>1, <3>2
  <2> QED
    BY <1>6, <2>2, <2>4, <2>5, <2>6, <2>7
<1>8. \A b : b \in ToSet(parsed) <=> \E k \in 1 .. Len(parsed) : parsed[k] = b
  BY <1>6 DEF ToSet
<1>9. /\ PacketsIn(wire) = PacketsIn(h) \cup PacketsIn(t)
      /\ \A i \in 1 .. n : wire[i][1] # 0 => wire[i][1] \in PacketsIn(h)
      /\ \A i \in n + 1 .. Len(wire) : wire[i][1] # 0 => wire[i][1] \in PacketsIn(t)
      /\ \A p \in PacketsIn(t) : \E i \in n + 1 .. Len(wire) : wire[i][1] = p
  <2>1. Divided(wire, n, h, t)
    BY <1>1, <1>2, <1>3, PacketsOfTail
  <2> QED
    BY <2>1, Zenon DEF Divided
<1>10. PacketsIn(wire) \subseteq 1 .. sent
  BY <1>1, PacketsWereSent
<1>11. cut' \subseteq 1 .. sent' /\ missed' \subseteq 1 .. sent'
  BY <1>4, <1>9, <1>10 DEF LossInv
<1>12. Noted(wire', cut' \cup missed')
  <2>1. PICK N : N = cut \cup missed
    OBVIOUS
  <2>2. PICK M : M = cut' \cup missed'
    OBVIOUS
  <2>3. Noted(wire, N) /\ Covers(M, N, h, t)
    BY <1>4, <2>1, <2>2 DEF LossInv, Covers
  <2>4. Parts(wire, n, h, t)
    BY <1>2, <1>3 DEF Parts
  <2>5. Noted(t, M)
    BY <1>1, <2>3, <2>4, NotedTail
  <2> QED
    BY <1>4, <2>2, <2>5
<1>13. /\ \A p : p \in Given <=> p \in 1 .. sent /\ p \notin PacketsIn(wire) /\ p \notin missed
       /\ \A p : p \in Given' <=> p \in 1 .. sent /\ p \notin PacketsIn(t) /\ p \notin missed
  BY <1>4 DEF Given
<1>14. Lost \subseteq Lost'
  <2> SUFFICES ASSUME NEW p \in Lost PROVE p \in Lost'
    OBVIOUS
  <2>1. p \in Given /\ <<p, 1>> \notin ToSet(parsed)
    BY DEF Lost
  <2>2. p \in Given' /\ p \notin PacketsIn(h)
    BY <1>9, <1>13, <2>1
  <2>3. ASSUME NEW k \in 1 .. Len(new), new[k] = <<p, 1>> PROVE FALSE
    <3>1. js[k] \in 1 .. n /\ new[k] = wire[js[k]]
      BY <1>6 DEF Found
    <3>2. wire[js[k]][1] = p
      BY <2>3, <3>1
    <3>3. p # 0
      BY <1>13, <2>1
    <3> QED
      BY <1>9, <2>2, <3>1, <3>2, <3>3
  <2>4. <<p, 1>> \notin ToSet(parsed')
    BY <1>7, <1>8, <2>1, <2>3
  <2> QED
    BY <2>2, <2>4 DEF Lost
<1>15. ASSUME NEW r \in 1 .. sent, Skipped(wire, n, parsed, new, r)
       PROVE  r \in Lost' \cup missed'
  <2>1. r \notin PacketsIn(t)
    BY <1>9, <1>15 DEF Skipped
  <2>2. <<r, 1>> \notin ToSet(parsed')
    BY <1>7, <1>15 DEF Skipped
  <2>3. CASE r \in missed
    BY <1>4, <2>3
  <2>4. CASE r \notin missed
    <3>1. r \in Given'
      BY <1>13, <2>1, <2>4
    <3> QED
      BY <2>2, <3>1 DEF Lost
  <2> QED
    BY <2>3, <2>4
<1>16. ASSUME NEW p \in Lost' \ cut'
       PROVE  /\ p - 1 \in Lost' \cup missed'
              /\ \E b \in DOMAIN LookAlikes : b[1] < p /\ b[1] \in Lost' \cup missed'
  <2>1. /\ p \in 1 .. sent /\ p \notin PacketsIn(t) /\ p \notin missed /\ p # 0
        /\ <<p, 1>> \notin ToSet(parsed') /\ p \notin cut
    BY <1>4, <1>13, <1>16 DEF Lost
  <2>2. CASE p \in Given
    <3>1. p \in Lost \ cut
      BY <1>7, <1>8, <2>1, <2>2 DEF Lost
    <3>2. /\ p - 1 \in Lost \cup missed
          /\ \E b \in DOMAIN LookAlikes : b[1] < p /\ b[1] \in Lost \cup missed
      BY <3>1 DEF LossInv, LossBeginsWithACut
    <3> QED
      BY <1>4, <1>14, <3>2
  <2>3. CASE p \notin Given
    <3>1. p \in PacketsIn(wire) /\ p \in PacketsIn(h)
      BY <1>9, <1>13, <2>1, <2>3
    <3>2. \E j \in 1 .. Len(wire) : wire[j][1] = p
      <4>1. ArePackets(PacketsIn(wire), wire, Len(wire))
        BY <1>1, PacketsFacts
      <4> QED
        BY <3>1, <4>1 DEF ArePackets
    <3>3. PICK i \in 1 .. Len(wire) : wire[i] = <<p, 1>>
      BY <2>1, <3>2 DEF LossInv, Noted
    <3>4. wire[i][1] = p
      BY <3>3
    <3>5. i \in 1 .. n
      <4>1. ~(i \in n + 1 .. Len(wire))
        BY <1>9, <2>1, <3>4
      <4> QED
        BY <1>1, <4>1
    <3>6. Skipped(wire, n, parsed, new, p)
      BY <1>7, <1>9, <2>1 DEF Skipped
    <3>7. PICK b \in DOMAIN LookAlikes :
            b[1] \in 1 .. p - 1 /\ \A r \in b[1] .. p - 1 : Skipped(wire, n, parsed, new, r)
      BY <1>1, <1>6, <2>1, <3>3, <3>5, <3>6, SkippedAfterLookAlike
    <3>8. /\ b[1] \in b[1] .. p - 1 /\ p - 1 \in b[1] .. p - 1 /\ b[1] < p
          /\ b[1] \in 1 .. sent /\ p - 1 \in 1 .. sent
      BY <1>1, <2>1, <3>7
    <3>9. b[1] \in Lost' \cup missed' /\ p - 1 \in Lost' \cup missed'
      BY <1>15, <3>7, <3>8
    <3> QED
      BY <3>8, <3>9
  <2> QED
    BY <2>2, <2>3
<1>17. LossBeginsWithACut'
  BY <1>16 DEF LossBeginsWithACut
<1> QED
  BY <1>11, <1>12, <1>17 DEF LossInv


LEMMA LossHolds ==
  ASSUME WireInv, ParsedInv, LossInv, [Next]_vars
  PROVE  LossInv'
<1>1. /\ sent \in 0 .. Len(Media) /\ sent \in Nat /\ Stream(wire, sent)
      /\ wire \in Seq(Known(sent)) /\ Len(wire) \in Nat
  BY MediaFacts DEF WireInv, Stream
<1>2. /\ cut \subseteq 1 .. sent /\ missed \subseteq 1 .. sent
      /\ Noted(wire, cut \cup missed) /\ LossBeginsWithACut
  BY DEF LossInv
<1>3. PacketsIn(wire) \subseteq 1 .. sent
  BY <1>1, PacketsWereSent
<1>4. sent' \in Nat /\ wire' \in Seq(Known(sent'))
  <2>1. WireInv'
    BY WireHolds, WireInv, [Next]_vars
  <2> QED
    BY <2>1, MediaFacts DEF WireInv, Stream
<1>5. ASSUME Quiet PROVE LossInv'
  <2>1. /\ wire' = wire /\ sent' = sent /\ missed' = missed
        /\ cut' = cut /\ parsed' = parsed
    BY <1>5 DEF Quiet, Unread, reading
  <2>2. Given' = Given
    BY <2>1 DEF Given
  <2>3. LossBeginsWithACut'
    BY <1>2, <2>1, <2>2, LossKept
  <2> QED
    BY <1>2, <2>1, <2>3 DEF LossInv
<1>6. ASSUME Responds PROVE LossInv'
  <2>1. /\ wire' = wire \o Bytes(0, ResponseSize) /\ sent' = sent /\ missed' = missed
        /\ cut' = cut /\ parsed' = parsed
    BY <1>6 DEF Responds, Unread, reading
  <2>2. ResponseSize \in Nat /\ ResponseSize > 0
    BY ResponseSizeAssumption
  <2>3. PacketsIn(wire') = PacketsIn(wire)
    BY <1>1, <1>4, <2>1, <2>2, PacketsOfLonger
  <2>4. Noted(wire', cut \cup missed)
    BY <1>1, <1>2, <2>1, <2>2, NotedLonger
  <2>5. Given' = Given
    BY <2>1, <2>3 DEF Given
  <2>6. LossBeginsWithACut'
    BY <1>2, <2>1, <2>5, LossKept
  <2> QED
    BY <1>2, <2>1, <2>4, <2>6 DEF LossInv
<1>7. ASSUME Sends PROVE LossInv'
  <2>1. /\ sent' = sent + 1 /\ sent' \in 1 .. Len(Media) /\ sent' \in Nat /\ sent' # 0
        /\ wire' = wire \o Bytes(sent', Media[sent'].size)
        /\ missed' = missed /\ cut' = cut /\ parsed' = parsed
    BY <1>1, <1>7, MediaFacts DEF Sends, reading
  <2>2. Media[sent'].size \in Nat /\ Media[sent'].size > 0
    BY <2>1, MediaFacts
  <2>3. PacketsIn(wire') = PacketsIn(wire) \cup {sent'}
    <3>1. PICK q \in Nat : q = sent'
      BY <2>1
    <3>2. PICK z \in Nat : z = Media[sent'].size
      BY <2>2
    <3>3. PICK x : x = wire'
      OBVIOUS
    <3>4. z > 0 /\ x = wire \o Bytes(q, z) /\ x \in Seq(Known(q))
      BY <1>4, <2>1, <2>2, <3>1, <3>2, <3>3
    <3>5. PacketsIn(x) = IF q = 0 THEN PacketsIn(wire) ELSE PacketsIn(wire) \cup {q}
      BY <1>1, <3>4, PacketsOfLonger
    <3> QED
      BY <2>1, <3>1, <3>3, <3>5
  <2>4. Noted(wire', cut \cup missed)
    BY <1>1, <1>2, <2>1, <2>2, NotedLonger
  <2>5. Given' = Given
    <3>1. \A p : p \in 1 .. sent' <=> p \in 1 .. sent \/ p = sent'
      BY <1>1, <2>1
    <3>2. sent' \notin 1 .. sent
      BY <1>1, <2>1
    <3> QED
      BY <2>1, <2>3, <3>1, <3>2 DEF Given
  <2>6. LossBeginsWithACut'
    BY <1>2, <2>1, <2>5, LossKept
  <2>7. \A p \in 1 .. sent : p \in 1 .. sent'
    BY <1>1, <2>1
  <2> QED
    BY <1>2, <2>1, <2>4, <2>6, <2>7 DEF LossInv
<1>8. ASSUME Resets PROVE LossInv'
  <2>1. /\ wire' = <<>> /\ sent' = sent /\ missed' = missed \cup PacketsIn(wire)
        /\ cut' = cut /\ parsed' = parsed
    BY <1>8 DEF Resets, reading
  <2>2. PacketsIn(wire') = {}
    BY <2>1 DEF PacketsIn, ToSet
  <2>3. Given' = Given
    BY <2>1, <2>2 DEF Given
  <2>4. LossBeginsWithACut'
    BY <1>2, <2>1, <2>3, LossKept
  <2>5. Noted(wire', cut' \cup missed')
    BY <2>1 DEF Noted
  <2> QED
    BY <1>2, <1>3, <2>1, <2>4, <2>5 DEF LossInv
<1>9. ASSUME NEW n \in 1 .. Len(wire), Answers(n) PROVE LossInv'
  <2>1. PICK h : h = SubSeq(wire, 1, n)
    OBVIOUS
  <2>2. PICK t : t = SubSeq(wire, n + 1, Len(wire))
    OBVIOUS
  <2>3. /\ wire' = t /\ sent' = sent /\ missed' = missed \cup PacketsIn(h)
        /\ cut' = cut /\ parsed' = parsed
    BY <1>9, <2>1, <2>2 DEF Answers, reading
  <2>4. PacketsIn(wire) = PacketsIn(h) \cup PacketsIn(t)
    <3>1. Divided(wire, n, h, t)
      BY <1>1, <2>1, <2>2, PacketsOfTail
    <3> QED
      BY <3>1 DEF Divided
  <2>5. Given' = Given
    BY <2>3, <2>4 DEF Given
  <2>6. LossBeginsWithACut'
    BY <1>2, <2>3, <2>5, LossKept
  <2>7. Noted(wire', cut' \cup missed')
    <3>1. PICK N : N = cut \cup missed
      OBVIOUS
    <3>2. PICK M : M = cut' \cup missed'
      OBVIOUS
    <3>3. Noted(wire, N) /\ Covers(M, N, h, t)
      BY <1>2, <2>3, <3>1, <3>2 DEF Covers
    <3>4. Parts(wire, n, h, t)
      BY <2>1, <2>2 DEF Parts
    <3>5. Noted(t, M)
      BY <1>1, <3>3, <3>4, NotedTail
    <3> QED
      BY <2>3, <3>2, <3>5
  <2> QED
    BY <1>2, <1>3, <2>3, <2>4, <2>6, <2>7 DEF LossInv
<1>10. ASSUME NEW n \in 1 .. Len(wire), Receives(n) PROVE LossInv'
  BY <1>10, LossHoldsWhenRead
<1> QED
  BY <1>5, <1>6, <1>7, <1>8, <1>9, <1>10, Steps

-----------------------------------------------------------------------------
LEMMA InvInitially ==
  ASSUME Init
  PROVE  Inv
<1>1. ControlInv
  <2>1. playing \in BOOLEAN /\ hungup \in BOOLEAN /\ m_running \in BOOLEAN
    BY Zenon DEF Init
  <2>2. requests \in 0 .. Requests /\ responses \in 0 .. requests
    BY DEF Init, Requests
  <2> QED
    BY <2>1, <2>2 DEF Init, ControlInv, Requests
<1>2. WireInv
  BY MediaFacts DEF Init, WireInv, Stream, Ascending
<1>3. ParsedInv
  BY DEF Init, ParsedInv, Ordered, Precede
<1>4. UnitsInv
  <2>1. PICK a : a = [fu |-> <<>>, nals |-> <<>>]
    OBVIOUS
  <2>2. a \in Assembly
    BY <2>1 DEF Assembly
  <2>3. Assembled(<<>>, a)
    <3> SUFFICES ASSUME NEW u \in Units
                 PROVE  /\ ~Has(<<>>, u[1], u[2])
                        /\ \A q \in u[1] .. u[2] - 1 : ~(Len(<<>>) > 0)
      BY DEF Assembled
    <3>1. u[1] \in u[1] .. u[2]
      BY MediaFacts DEF Units
    <3>2. ~Has(<<>>, u[1], u[2])
      BY <3>1 DEF Has
    <3> QED
      BY <3>2
  <2> QED
    BY <2>1, <2>2, <2>3 DEF Init, UnitsInv
<1>5. LossInv
  <2>1. Given = {}
    BY DEF Init, Given
  <2>2. LossBeginsWithACut
    BY <2>1 DEF LossBeginsWithACut, Lost
  <2> QED
    BY <2>2 DEF Init, LossInv, Noted
<1> QED
  BY <1>1, <1>2, <1>3, <1>4, <1>5 DEF Inv

LEMMA InvHolds ==
  ASSUME Inv, [Next]_vars
  PROVE  Inv'
<1> QED
  BY ControlHolds, WireHolds, ParsedHolds, UnitsHold, LossHolds DEF Inv

LEMMA InvIsInvariant == Spec => []Inv
<1> QED
  BY InvInitially, InvHolds, PTL DEF Spec

\* All that the viewer keeps is of its type, m_tcp_buffer is empty between two reads:
\* process_tcp_data (viewer_client.cpp:193) leaves nothing of what it looked at.
THEOREM ViewerIsTyped == Spec => []TypeOK
<1>1. ASSUME Inv PROVE TypeOK
  <2>1. /\ main \in {"new", "running", "joining", "over"} /\ m_running \in BOOLEAN
        /\ thread \in {"off", "connect", "ask", "answer", "check", "recv"}
        /\ m_socket \in {"none", "open", "stale"}
        /\ requests \in 0 .. Requests /\ responses \in 0 .. requests
        /\ playing \in BOOLEAN /\ hungup \in BOOLEAN
    BY <1>1 DEF Inv, ControlInv
  <2>2. sent \in 0 .. Len(Media) /\ wire \in Seq(Known(sent))
    BY <1>1 DEF Inv, WireInv, Stream
  <2>3. \A i \in DOMAIN wire : wire[i] \in (0 .. sent) \X Nat
    <3> SUFFICES ASSUME NEW i \in DOMAIN wire PROVE wire[i] \in (0 .. sent) \X Nat
      OBVIOUS
    <3>1. wire[i] \in Known(sent)
      BY <2>2
    <3> QED
      BY <3>1 DEF Known
  <2>4. m_tcp_buffer = <<>> /\ parsed \in Seq(Starts)
    BY <1>1 DEF Inv, ParsedInv
  <2>5. fu_buffer \in Seq(Starts) /\ nals \in Seq(Seq(Starts))
    BY <1>1 DEF Inv, UnitsInv, Assembly
  <2>6. cut \subseteq 1 .. sent /\ missed \subseteq 1 .. sent
    BY <1>1 DEF Inv, LossInv
  <2> QED
    BY <2>1, <2>2, <2>3, <2>4, <2>5, <2>6 DEF TypeOK
<1> QED
  BY <1>1, InvIsInvariant, PTL

\* The loop over the buffer (viewer_client.cpp:197) gives the assembler packets in the
\* order of the stream and none twice, wherever the reads cut it and whatever bytes of a
\* packet look like the beginning of another.
THEOREM ParsedAlwaysInOrder == Spec => []ParsedInOrder
<1>1. ASSUME Inv PROVE ParsedInOrder
  <2>1. parsed \in Seq(Starts) /\ Ordered(parsed)
    BY <1>1 DEF Inv, ParsedInv
  <2>2. DOMAIN parsed = 1 .. Len(parsed)
    BY <2>1
  <2> QED
    BY <2>1, <2>2, Zenon DEF Ordered, Before, ParsedInOrder
<1> QED
  BY <1>1, InvIsInvariant, PTL

\* H264Assembler::assemble (viewer_client.cpp:29) makes each unit of which it is given
\* every packet, of these packets only.
THEOREM UnitsAlwaysWhole == Spec => []UnitsAreWhole
<1>1. ASSUME Inv PROVE UnitsAreWhole
  <2> SUFFICES ASSUME NEW u \in Units,
                      \A p \in u[1] .. u[2] : <<p, 1>> \in ToSet(parsed)
               PROVE  Run(u[1], u[2]) \in ToSet(nals)
    BY DEF UnitsAreWhole, Run
  <2>1. parsed \in Seq(Starts) /\ nals \in Seq(Seq(Starts))
    BY <1>1 DEF Inv, ParsedInv, UnitsInv, Assembly
  <2>2. Has(parsed, u[1], u[2])
    <3>1. \A b \in ToSet(parsed) : \E i \in 1 .. Len(parsed) : parsed[i] = b
      BY <2>1 DEF ToSet
    <3> QED
      BY <3>1 DEF Has
  <2>3. PICK a : a = [fu |-> fu_buffer, nals |-> nals]
    OBVIOUS
  <2>4. Assembled(parsed, a) /\ a.nals = nals
    BY <1>1, <2>3 DEF Inv, UnitsInv
  <2>5. \E n \in 1 .. Len(nals) : nals[n] = Run(u[1], u[2])
    BY <2>2, <2>4 DEF Assembled
  <2> QED
    BY <2>1, <2>5 DEF ToSet
<1> QED
  BY <1>1, InvIsInvariant, PTL

\* The packets that process_tcp_data (viewer_client.cpp:193) loses: the first of a run
\* was divided by two reads, each of the others follows a lost one and a look-alike.
THEOREM LossAlwaysBeginsWithACut == Spec => []LossBeginsWithACut
<1>1. ASSUME Inv PROVE LossBeginsWithACut
  BY <1>1 DEF Inv, LossInv
<1> QED
  BY <1>1, InvIsInvariant, PTL

=============================================================================
