--------------------------- MODULE KeystoreProofs ---------------------------
(***************************************************************************)
(* Proof that the file an add generates opens under its alias, whatever    *)
(* the length of the certificate's name.  What is written is read back:    *)
(* a length the library writes (Octets) or the hub (derLength, wrapTLV) is *)
(* the one Read finds; so values and sequences of values come back as they *)
(* were written; so the file taken apart and put together again with the   *)
(* name in it is the file an encoder that knew the name would have made.   *)
(***************************************************************************)
EXTENDS Keystore, SigningProofs, SequenceTheorems, WellFoundedInduction, NaturalsInduction

-----------------------------------------------------------------------------
(* Recursion.  An induction is over the set of numbers that have the       *)
(* property, so that it needs no operator.                                 *)

LEMMA Least ==
    ASSUME NEW S, S \subseteq Nat, S # {}
    PROVE  \E n \in S : \A m \in S : n <= m
<1> DEFINE R == {ss \in Nat \X Nat : ss[1] < ss[2]}
<1>1. IsWellFoundedOn(R, Nat)
  BY NatLessThanWellFounded DEF OpToRel
<1>2. \E n \in S : \A m \in S : <<m, n>> \notin R
  <2> HIDE DEF R
  <2> QED
    BY <1>1, WFMin
<1>3. PICK n \in S : \A m \in S : <<m, n>> \notin R
  BY <1>2
<1>4. ASSUME NEW m \in S PROVE n <= m
  <2>1. m \in Nat /\ n \in Nat /\ <<m, n>> \notin R
    BY <1>3
  <2> QED
    BY <2>1
<1> QED
  BY <1>4

\* What holds of 0 and passes on from each number to the next holds up to N.
LEMMA Climb ==
    ASSUME NEW N \in Nat, NEW S, 0 \in S, \A i \in 0 .. N - 1 : i \in S => i + 1 \in S
    PROVE  0 .. N \subseteq S
<1> SUFFICES ASSUME (0 .. N) \ S # {} PROVE FALSE
  OBVIOUS
<1>1. PICK n \in (0 .. N) \ S : \A m \in (0 .. N) \ S : n <= m
  <2>1. (0 .. N) \ S \subseteq Nat
    OBVIOUS
  <2> QED
    BY <2>1, Least
<1>2. n # 0 /\ n - 1 \in 0 .. N - 1
  BY <1>1
<1>3. n - 1 \in S
  BY <1>1, <1>2
<1> QED
  BY <1>1, <1>2, <1>3

\* A function is defined by recursion over 0 .. N.
Recurs(g, N, a, h) == g[0] = a /\ \A i \in 1 .. N : g[i] = h[<<i, g[i - 1]>>]
LEMMA Recursion ==
    ASSUME NEW N \in Nat, NEW A, NEW a \in A, NEW h \in [(1 .. N) \X A -> A]
    PROVE  \E g \in [0 .. N -> A] : Recurs(g, N, a, h)
<1> DEFINE Up(n) == \E g \in [0 .. n -> A] : Recurs(g, n, a, h)
           S == {n \in 0 .. N : Up(n)}
<1>1. 0 \in S
  <2> DEFINE f == [i \in 0 .. 0 |-> a]
  <2>1. f \in [0 .. 0 -> A] /\ Recurs(f, 0, a, h)
    BY DEF Recurs
  <2> HIDE DEF f
  <2> QED
    BY <2>1
<1>2. ASSUME NEW n \in 0 .. N - 1, n \in S PROVE n + 1 \in S
  <2>1. PICK g \in [0 .. n -> A] : Recurs(g, n, a, h)
    BY <1>2
  <2> DEFINE f == [i \in 0 .. n + 1 |-> IF i = n + 1 THEN h[<<n + 1, g[n]>>] ELSE g[i]]
  <2>2. f \in [0 .. n + 1 -> A]
    <3>1. n + 1 \in 1 .. N /\ g[n] \in A
      BY <2>1
    <3>2. h[<<n + 1, g[n]>>] \in A
      BY <3>1
    <3> QED
      BY <3>2
  <2>3. f[0] = a
    BY <2>1 DEF Recurs
  <2>4. ASSUME NEW i \in 1 .. n + 1 PROVE f[i] = h[<<i, f[i - 1]>>]
    <3>1. f[i - 1] = g[i - 1]
      OBVIOUS
    <3>2. CASE i = n + 1
      <4>1. f[n + 1] = h[<<n + 1, g[n]>>]
        OBVIOUS
      <4>2. i - 1 = n
        BY <3>2
      <4> HIDE DEF f
      <4> QED
        BY <3>1, <3>2, <4>1, <4>2
    <3>3. CASE i \in 1 .. n
      BY <3>1, <3>3, <2>1 DEF Recurs
    <3> QED
      BY <3>2, <3>3
  <2>5. Recurs(f, n + 1, a, h)
    BY <2>3, <2>4 DEF Recurs
  <2> HIDE DEF f
  <2> QED
    BY <2>2, <2>5
<1>3. N \in S
  <2> HIDE DEF S
  <2>1. 0 .. N \subseteq S
    BY <1>1, <1>2, Climb
  <2> QED
    BY <2>1
<1> QED
  BY <1>3

-----------------------------------------------------------------------------
(* Sizes                                                                   *)

Piece == [v : Int, n : Nat \ {0}]
DER == Seq(Piece)

LEMMA Elements ==
    ASSUME NEW d \in DER
    PROVE  /\ Len(d) \in Nat /\ DOMAIN d = 1 .. Len(d)
           /\ \A i \in 1 .. Len(d) : d[i] \in Piece /\ d[i].n \in Nat \ {0} /\ d[i].v \in Int
<1>1. Len(d) \in Nat /\ DOMAIN d = 1 .. Len(d) /\ \A i \in 1 .. Len(d) : d[i] \in Piece
  BY LenProperties, ElementOfSeq DEF DER
<1> QED
  BY <1>1 DEF Piece

\* A sum, as the recursive definitions write it.
LEMMA Sums ==
    ASSUME NEW d \in DER
    PROVE  /\ SizesTo(d) \in [0 .. Len(d) -> Nat]
           /\ SizesTo(d)[0] = 0
           /\ \A i \in 1 .. Len(d) : SizesTo(d)[i] = SizesTo(d)[i - 1] + d[i].n
<1> DEFINE N == Len(d)
           P(g) == g = [i \in 0 .. N |-> IF i = 0 THEN 0 ELSE g[i - 1] + d[i].n]
           h == [x \in (1 .. N) \X Nat |-> x[2] + d[x[1]].n]
<1>1. N \in Nat /\ \A i \in 1 .. N : d[i].n \in Nat
  BY Elements
<1>2. h \in [(1 .. N) \X Nat -> Nat]
  BY <1>1
<1>3. PICK g \in [0 .. N -> Nat] : Recurs(g, N, 0, h)
  <2> HIDE DEF N, h
  <2> QED
    BY <1>1, <1>2, Recursion, 0 \in Nat, Zenon
<1>4. \A i \in 1 .. N : g[i] = g[i - 1] + d[i].n
  <2> SUFFICES ASSUME NEW i \in 1 .. N PROVE g[i] = g[i - 1] + d[i].n
    OBVIOUS
  <2>1. g[i - 1] \in Nat
    <3>1. i - 1 \in 0 .. N
      BY <1>1
    <3> HIDE DEF N
    <3> QED
      BY <1>3, <3>1
  <2> QED
    BY <1>3, <2>1 DEF Recurs
<1>5. P(g)
  BY <1>1, <1>3, <1>4 DEF Recurs
<1>6. P(SizesTo(d))
  <2>1. SizesTo(d) = CHOOSE f : P(f)
    BY DEF SizesTo
  <2> HIDE DEF P
  <2> QED
    BY <1>5, <2>1
<1>7. SizesTo(d)[0] = 0 /\ \A i \in 1 .. N : SizesTo(d)[i] = SizesTo(d)[i - 1] + d[i].n
  <2> DEFINE f == SizesTo(d)
  <2>1. \A i \in 0 .. N : f[i] = IF i = 0 THEN 0 ELSE f[i - 1] + d[i].n
    <3> HIDE DEF f, N
    <3>1. f = [i \in 0 .. N |-> IF i = 0 THEN 0 ELSE f[i - 1] + d[i].n]
      BY <1>6 DEF f
    <3> QED
      BY <3>1
  <2> HIDE DEF f
  <2> QED
    BY <2>1, <1>1 DEF f
<1>8. \A i \in 0 .. N : SizesTo(d)[i] \in Nat
  <2> DEFINE S == {i \in 0 .. N : SizesTo(d)[i] \in Nat}
  <2>1. 0 \in S /\ \A i \in 0 .. N - 1 : i \in S => i + 1 \in S
    BY <1>1, <1>7
  <2>2. 0 .. N \subseteq S
    <3> HIDE DEF S, N
    <3> QED
      BY <1>1, <2>1, Climb
  <2> QED
    BY <2>2
<1> QED
  BY <1>6, <1>7, <1>8

\* A sequence's sizes go on where another's end.
LEMMA SizesConcat ==
    ASSUME NEW s \in DER, NEW t \in DER
    PROVE  /\ \A i \in 0 .. Len(s) : SizesTo(s \o t)[i] = SizesTo(s)[i]
           /\ \A i \in 0 .. Len(t) : SizesTo(s \o t)[Len(s) + i] = Size(s) + SizesTo(t)[i]
<1> DEFINE m == Len(s)
           k == Len(t)
           S == {i \in 0 .. m : SizesTo(s \o t)[i] = SizesTo(s)[i]}
           T == {i \in 0 .. k : SizesTo(s \o t)[m + i] = Size(s) + SizesTo(t)[i]}
<1>1. /\ s \o t \in DER /\ Len(s \o t) = m + k /\ m \in Nat /\ k \in Nat
      /\ \A i \in 1 .. m : (s \o t)[i] = s[i]
      /\ \A i \in 1 .. k : (s \o t)[m + i] = t[i]
  BY ConcatProperties, LenProperties DEF DER
<1>2. /\ SizesTo(s \o t)[0] = 0
      /\ \A i \in 1 .. m + k : SizesTo(s \o t)[i] = SizesTo(s \o t)[i - 1] + (s \o t)[i].n
  BY <1>1, Sums
<1>3. /\ SizesTo(s)[0] = 0
      /\ \A i \in 1 .. m : SizesTo(s)[i] = SizesTo(s)[i - 1] + s[i].n
      /\ \A i \in 0 .. m : SizesTo(s)[i] \in Nat
  BY Sums
<1>4. /\ SizesTo(t)[0] = 0
      /\ \A i \in 1 .. k : SizesTo(t)[i] = SizesTo(t)[i - 1] + t[i].n
      /\ \A i \in 0 .. k : SizesTo(t)[i] \in Nat
      /\ \A i \in 1 .. k : t[i].n \in Nat
  BY Sums, Elements
<1>5. 0 .. m \subseteq S
  <2>1. 0 \in S
    BY <1>1, <1>2, <1>3
  <2>2. ASSUME NEW i \in 0 .. m - 1, i \in S PROVE i + 1 \in S
    BY <1>1, <1>2, <1>3, <2>2, SMTT(30)
  <2> HIDE DEF S, m
  <2> QED
    BY <1>1, <2>1, <2>2, Climb
<1>6. 0 .. k \subseteq T
  <2>1. 0 \in T
    <3>1. SizesTo(s \o t)[m] = SizesTo(s)[m]
      BY <1>1, <1>5
    <3> QED
      BY <1>1, <1>3, <1>4, <3>1 DEF Size
  <2>2. ASSUME NEW i \in 0 .. k - 1, i \in T PROVE i + 1 \in T
    <3>1. /\ i + 1 \in 1 .. k /\ m + (i + 1) \in 1 .. m + k
          /\ (m + (i + 1)) - 1 = m + i /\ (i + 1) - 1 = i
      BY <1>1
    <3>2. /\ SizesTo(s \o t)[m + (i + 1)] = SizesTo(s \o t)[m + i] + t[i + 1].n
          /\ SizesTo(t)[i + 1] = SizesTo(t)[i] + t[i + 1].n
      BY <1>1, <1>2, <1>4, <3>1
    <3>3. SizesTo(s \o t)[m + i] = Size(s) + SizesTo(t)[i]
      BY <2>2
    <3>4. Size(s) \in Nat /\ SizesTo(t)[i] \in Nat /\ t[i + 1].n \in Nat
      BY <1>1, <1>3, <1>4, <3>1 DEF Size
    <3> QED
      BY <3>1, <3>2, <3>3, <3>4
  <2> HIDE DEF T, k
  <2> QED
    BY <1>1, <2>1, <2>2, Climb
<1> QED
  BY <1>5, <1>6

LEMMA SizeConcat ==
    ASSUME NEW s \in DER, NEW t \in DER
    PROVE  s \o t \in DER /\ Size(s \o t) = Size(s) + Size(t)
<1>1. s \o t \in DER /\ Len(s \o t) = Len(s) + Len(t) /\ Len(t) \in Nat
  BY ConcatProperties, LenProperties DEF DER
<1> QED
  BY <1>1, SizesConcat DEF Size

LEMMA SizeIsNat == ASSUME NEW d \in DER PROVE Size(d) \in Nat
BY Sums, Elements DEF Size

\* Every piece adds to the size.
LEMMA SizesGrow ==
    ASSUME NEW d \in DER, NEW i \in 0 .. Len(d), NEW j \in 0 .. Len(d), i < j
    PROVE  SizesTo(d)[i] < SizesTo(d)[j]
<1> DEFINE N == Len(d) - i
           S == {k \in 0 .. N : k > 0 => SizesTo(d)[i] < SizesTo(d)[i + k]}
<1>1. Len(d) \in Nat /\ N \in Nat /\ \A k \in 1 .. Len(d) : d[k].n \in Nat \ {0}
  BY Elements
<1>2. /\ \A k \in 0 .. Len(d) : SizesTo(d)[k] \in Nat
      /\ \A k \in 1 .. Len(d) : SizesTo(d)[k] = SizesTo(d)[k - 1] + d[k].n
  BY Sums
<1>3. 0 \in S
  BY <1>1
<1>4. ASSUME NEW k \in 0 .. N - 1, k \in S PROVE k + 1 \in S
  <2>1. i + k \in 0 .. Len(d) /\ i + (k + 1) \in 1 .. Len(d) /\ (i + (k + 1)) - 1 = i + k
    BY <1>1
  <2>2. SizesTo(d)[i + (k + 1)] = SizesTo(d)[i + k] + d[i + (k + 1)].n
    BY <1>2, <2>1
  <2>3. SizesTo(d)[i] <= SizesTo(d)[i + k]
    <3>1. k = 0 => i + k = i
      BY <1>1
    <3> QED
      BY <1>1, <1>2, <1>4, <2>1, <3>1, SMTT(30)
  <2>4. SizesTo(d)[i] \in Nat /\ SizesTo(d)[i + k] \in Nat /\ d[i + (k + 1)].n \in Nat \ {0}
    BY <1>1, <1>2, <2>1
  <2> QED
    BY <1>1, <2>2, <2>3, <2>4
<1>5. j - i \in S
  <2>1. j - i \in 0 .. N
    BY <1>1
  <2> HIDE DEF S, N
  <2> QED
    BY <1>1, <1>3, <1>4, <2>1, Climb
<1> QED
  BY <1>1, <1>5

\* The size of a prefix.
LEMMA PrefixSize ==
    ASSUME NEW d \in DER, NEW i \in 0 .. Len(d)
    PROVE  SubSeq(d, 1, i) \in DER /\ Size(SubSeq(d, 1, i)) = SizesTo(d)[i]
<1> DEFINE s == SubSeq(d, 1, i)
           t == SubSeq(d, i + 1, Len(d))
<1>1. Len(d) \in Nat /\ \A k \in 1 .. Len(d) : d[k] \in Piece
  BY Elements
<1>2. s \in DER /\ Len(s) = i
  BY <1>1, SubSeqProperties DEF DER
<1>3. t \in DER
  BY <1>1, SubSeqProperties DEF DER
<1>4. d = s \o t
  <2>1. 1 \in 1 .. Len(d) + 1 /\ i \in 1 - 1 .. Len(d) /\ Len(d) \in i .. Len(d)
    BY <1>1
  <2>2. s \o t = SubSeq(d, 1, Len(d))
    BY <2>1, ConcatAdjacentSubSeq DEF DER
  <2> QED
    BY <2>2, SubSeqFull DEF DER
<1> QED
  <2> HIDE DEF s, t
  <2>1. SizesTo(s \o t)[i] = SizesTo(s)[i]
    BY <1>1, <1>2, <1>3, SizesConcat
  <2> QED
    BY <1>2, <1>4, <2>1 DEF Size, s

\* A concatenation, cut where its halves meet.
LEMMA Cut ==
    ASSUME NEW s \in DER, NEW t \in DER
    PROVE  /\ s \o t \in DER /\ Len(s \o t) = Len(s) + Len(t)
           /\ SubSeq(s \o t, 1, Len(s)) = s
           /\ SubSeq(s \o t, Len(s) + 1, Len(s \o t)) = t
           /\ s \o <<>> = s
<1>1. /\ s \o t \in DER /\ Len(s \o t) = Len(s) + Len(t) /\ Len(s) \in Nat /\ Len(t) \in Nat
      /\ \A i \in 1 .. Len(s) : s[i] \in Piece /\ (s \o t)[i] = s[i]
      /\ \A i \in 1 .. Len(t) : t[i] \in Piece /\ (s \o t)[Len(s) + i] = t[i]
  BY ConcatProperties, LenProperties, Elements DEF DER
<1>2. SubSeq(s \o t, 1, Len(s)) = s
  <2>1. /\ SubSeq(s \o t, 1, Len(s)) \in Seq(Piece)
        /\ Len(SubSeq(s \o t, 1, Len(s))) = Len(s)
        /\ \A i \in 1 .. Len(s) : SubSeq(s \o t, 1, Len(s))[i] = s[i]
    BY <1>1, SubSeqProperties
  <2> QED
    BY <2>1, SeqEqual DEF DER
<1>3. SubSeq(s \o t, Len(s) + 1, Len(s \o t)) = t
  <2> DEFINE u == SubSeq(s \o t, Len(s) + 1, Len(s) + Len(t))
  <2>1. \A i \in Len(s) + 1 .. Len(s) + Len(t) : (s \o t)[i] \in Piece
    <3> SUFFICES ASSUME NEW i \in Len(s) + 1 .. Len(s) + Len(t) PROVE (s \o t)[i] \in Piece
      OBVIOUS
    <3>1. i \in 1 .. Len(s \o t)
      BY <1>1
    <3> QED
      BY <1>1, <3>1, Elements
  <2>2. /\ u \in Seq(Piece) /\ Len(u) = Len(t)
        /\ \A i \in 1 .. Len(t) : u[i] = (s \o t)[Len(s) + i]
    BY <1>1, <2>1, SubSeqProperties
  <2>3. \A i \in 1 .. Len(u) : u[i] = t[i]
    BY <1>1, <2>2
  <2> QED
    BY <1>1, <2>2, <2>3, SeqEqual DEF DER
<1> QED
  BY <1>1, <1>2, <1>3, ConcatEmptySeq DEF DER

\* Bytes have the size that there are.
LEMMA BytesShape ==
    ASSUME NEW s \in Seq(Int)
    PROVE  /\ Bytes(s) \in DER /\ Len(Bytes(s)) = Len(s) /\ Size(Bytes(s)) = Len(s)
           /\ \A i \in 1 .. Len(s) : Bytes(s)[i].v = s[i] /\ Bytes(s)[i].n = 1
<1> DEFINE d == Bytes(s)
<1>1. Len(s) \in Nat /\ DOMAIN s = 1 .. Len(s) /\ \A i \in 1 .. Len(s) : s[i] \in Int
  BY LenProperties, ElementOfSeq
<1>2. d \in [1 .. Len(s) -> Piece] /\ \A i \in 1 .. Len(s) : d[i].v = s[i] /\ d[i].n = 1
  BY <1>1 DEF Bytes, Piece
<1>3. d \in DER /\ Len(d) = Len(s)
  BY <1>1, <1>2 DEF DER
<1>4. /\ SizesTo(d)[0] = 0
      /\ \A i \in 1 .. Len(s) : SizesTo(d)[i] = SizesTo(d)[i - 1] + d[i].n
  BY <1>3, Sums
<1> DEFINE S == {i \in 0 .. Len(s) : SizesTo(d)[i] = i}
<1>5. 0 \in S /\ \A i \in 0 .. Len(s) - 1 : i \in S => i + 1 \in S
  BY <1>1, <1>2, <1>4
<1>6. Len(s) \in S
  <2> HIDE DEF S
  <2>1. 0 .. Len(s) \subseteq S
    BY <1>1, <1>5, Climb
  <2> QED
    BY <1>1, <2>1
<1> QED
  BY <1>2, <1>3, <1>6 DEF Size

LEMMA RunShape ==
    ASSUME NEW id \in Int, NEW n \in Nat \ {0}
    PROVE  Run(id, n) \in DER /\ Len(Run(id, n)) = 1 /\ Size(Run(id, n)) = n /\ Run(id, n)[1].v = id
<1>1. Run(id, n) \in DER /\ Len(Run(id, n)) = 1 /\ Run(id, n)[1] = [v |-> id, n |-> n]
  BY DEF Run, DER, Piece
<1>2. SizesTo(Run(id, n))[1] = SizesTo(Run(id, n))[0] + Run(id, n)[1].n /\ SizesTo(Run(id, n))[0] = 0
  BY <1>1, Sums
<1> QED
  BY <1>1, <1>2 DEF Size

-----------------------------------------------------------------------------
(* One value, written and read back                                        *)

Byte == 0 .. 255
Ceiling == 4294967296       \* four octets of length
Long(n) == IF n < 128 THEN 0 ELSE Len(Octets(n))
Header(tag, n) == Bytes(<<tag>> \o LengthBytes(n))

LEMMA MarshalIs ==
    ASSUME NEW tag, NEW body
    PROVE  Marshal(tag, body) = Header(tag, Size(body)) \o body
BY DEF Marshal, Header

LEMMA OctetsShape ==
    ASSUME NEW n \in Nat, n < Ceiling
    PROVE  /\ Octets(n) \in Seq(Int) /\ Len(Octets(n)) \in 1 .. 4
           /\ \A i \in 1 .. Len(Octets(n)) : Octets(n)[i] \in Byte
           /\ Len(Octets(n)) = 1 => n = Octets(n)[1]
           /\ Len(Octets(n)) = 2 => n = 256 * Octets(n)[1] + Octets(n)[2]
           /\ Len(Octets(n)) = 3 => n = 256 * (256 * Octets(n)[1] + Octets(n)[2]) + Octets(n)[3]
           /\ Len(Octets(n)) = 4 =>
                n = 256 * (256 * (256 * Octets(n)[1] + Octets(n)[2]) + Octets(n)[3]) + Octets(n)[4]
<1> DEFINE o == Octets(n)
<1> SUFFICES /\ o \in Seq(Byte) /\ Len(o) \in 1 .. 4
             /\ Len(o) = 1 => n = o[1]
             /\ Len(o) = 2 => n = 256 * o[1] + o[2]
             /\ Len(o) = 3 => n = 256 * (256 * o[1] + o[2]) + o[3]
             /\ Len(o) = 4 => n = 256 * (256 * (256 * o[1] + o[2]) + o[3]) + o[4]
  <2>1. o \in Seq(Byte) => o \in Seq(Int) /\ \A i \in 1 .. Len(o) : o[i] \in Byte
    <3> SUFFICES ASSUME o \in Seq(Byte)
                 PROVE  o \in Seq(Int) /\ \A i \in 1 .. Len(o) : o[i] \in Byte
      OBVIOUS
    <3> HIDE DEF o
    <3>1. \A i \in 1 .. Len(o) : o[i] \in Byte
      BY ElementOfSeq
    <3>2. Byte \subseteq Int
      BY DEF Byte
    <3>3. Len(o) \in Nat /\ SubSeq(o, 1, Len(o)) = o
      BY LenProperties, SubSeqFull
    <3>4. 1 \in Int /\ Len(o) \in Int /\ \A i \in 1 .. Len(o) : o[i] \in Int
      <4>1. \A i \in 1 .. Len(o) : o[i] \in Int
        BY <3>1, <3>2, Zenon
      <4> QED
        BY <3>3, <4>1
    <3>5. SubSeq(o, 1, Len(o)) \in Seq(Int)
      BY <3>4, SubSeqProperties
    <3> QED
      BY <3>1, <3>3, <3>5
  <2> HIDE DEF o
  <2> QED
    BY <2>1 DEF o
<1>1. CASE n < 256
  <2>1. o = <<n>> /\ n \in Byte
    BY <1>1, SMT DEF Octets, Byte
  <2> HIDE DEF o
  <2> QED
    BY <2>1
<1>2. CASE n >= 256 /\ n < 65536
  <2> DEFINE a == n \div 256
             b == n % 256
  <2>1. o = <<a, b>>
    BY <1>2, SMT DEF Octets
  <2>2. a \in Byte /\ b \in Byte /\ n = 256 * a + b
    BY <1>2, SMT DEF Byte, Ceiling
  <2> HIDE DEF o, a, b
  <2> QED
    BY <2>1, <2>2
<1>3. CASE n >= 65536 /\ n < 16777216
  <2> DEFINE a == n \div 65536
             b == (n \div 256) % 256
             c == n % 256
  <2>1. o = <<a, b, c>>
    BY <1>3, SMT DEF Octets
  <2>2. a \in Byte /\ b \in Byte /\ c \in Byte /\ n = 256 * (256 * a + b) + c
    BY <1>3, SMT DEF Byte, Ceiling
  <2> HIDE DEF o, a, b, c
  <2> QED
    BY <2>1, <2>2
<1>4. CASE n >= 16777216
  <2> DEFINE a == n \div 16777216
             b == (n \div 65536) % 256
             c == (n \div 256) % 256
             e == n % 256
  <2>1. o = <<a, b, c, e>>
    BY <1>4, SMT DEF Octets
  <2>2. a \in Byte
    BY <1>4, SMT DEF Byte, Ceiling
  <2>3. b \in Byte /\ c \in Byte /\ e \in Byte
    BY SMT DEF Byte
  <2>4. n = 256 * (256 * (256 * a + b) + c) + e
    BY SMT
  <2> HIDE DEF o, a, b, c, e
  <2> QED
    BY <2>1, <2>2, <2>3, <2>4
<1> QED
  BY <1>1, <1>2, <1>3, <1>4, SMT

\* A concatenation of numbers, element by element.
LEMMA Joined ==
    ASSUME NEW s \in Seq(Int), NEW t \in Seq(Int)
    PROVE  /\ s \o t \in Seq(Int) /\ Len(s \o t) = Len(s) + Len(t)
           /\ \A i \in 1 .. Len(s) : (s \o t)[i] = s[i]
           /\ \A i \in 1 .. Len(t) : (s \o t)[Len(s) + i] = t[i]
BY ConcatProperties, LenProperties

LEMMA HeaderShape ==
    ASSUME NEW tag \in Byte, NEW n \in Nat, n < Ceiling
    PROVE  /\ Header(tag, n) \in DER /\ Long(n) \in 0 .. 4
           /\ Len(Header(tag, n)) = 2 + Long(n) /\ Size(Header(tag, n)) = 2 + Long(n)
           /\ Header(tag, n)[1].v = tag
           /\ n < 128 => Header(tag, n)[2].v = n
           /\ n >= 128 =>
                /\ Long(n) = Len(Octets(n)) /\ Header(tag, n)[2].v = 128 + Long(n)
                /\ \A i \in 1 .. Long(n) : Header(tag, n)[2 + i].v = Octets(n)[i]
<1> DEFINE b == <<tag>> \o LengthBytes(n)
<1>1. /\ Octets(n) \in Seq(Int) /\ Len(Octets(n)) \in 1 .. 4
  BY OctetsShape
<1>2. /\ b \in Seq(Int) /\ Long(n) \in 0 .. 4 /\ Len(b) = 2 + Long(n) /\ b[1] = tag
      /\ n < 128 => b[2] = n
      /\ n >= 128 =>
           /\ Long(n) = Len(Octets(n)) /\ b[2] = 128 + Long(n)
           /\ \A i \in 1 .. Long(n) : b[2 + i] = Octets(n)[i]
  <2>1. CASE n < 128
    <3> DEFINE t == <<tag>>
               l == <<n>>
    <3>1. b = t \o l /\ Long(n) = 0
      BY <2>1, Zenon DEF LengthBytes, Long
    <3>2. /\ t \in Seq(Int) /\ Len(t) = 1 /\ t[1] = tag
          /\ l \in Seq(Int) /\ Len(l) = 1 /\ l[1] = n
      BY DEF Byte
    <3> HIDE DEF t, l, b
    <3>3. /\ t \o l \in Seq(Int) /\ Len(t \o l) = 2
          /\ (t \o l)[1] = tag /\ (t \o l)[2] = n
      <4>1. /\ t \o l \in Seq(Int) /\ Len(t \o l) = Len(t) + Len(l)
            /\ \A i \in 1 .. Len(t) : (t \o l)[i] = t[i]
            /\ \A i \in 1 .. Len(l) : (t \o l)[Len(t) + i] = l[i]
        BY <3>2, Joined
      <4> QED
        BY <3>2, <4>1
    <3> QED
      BY <2>1, <3>1, <3>3
  <2>2. CASE ~(n < 128)
    <3> DEFINE o == Octets(n)
               c == <<128 + Len(o)>>
               t == <<tag>>
    <3>1. LengthBytes(n) = c \o o /\ Long(n) = Len(o)
      BY <2>2 DEF LengthBytes, Long
    <3>2. /\ c \in Seq(Int) /\ Len(c) = 1 /\ c[1] = 128 + Len(o)
          /\ t \in Seq(Int) /\ Len(t) = 1 /\ t[1] = tag
      BY <1>1 DEF Byte
    <3> HIDE DEF o, c, t
    <3>3. o \in Seq(Int) /\ Len(o) \in 1 .. 4
      BY <1>1 DEF o
    <3>4. /\ c \o o \in Seq(Int) /\ Len(c \o o) = 1 + Len(o) /\ (c \o o)[1] = 128 + Len(o)
          /\ \A i \in 1 .. Len(o) : (c \o o)[1 + i] = o[i]
      <4>1. /\ c \o o \in Seq(Int) /\ Len(c \o o) = Len(c) + Len(o)
            /\ \A i \in 1 .. Len(c) : (c \o o)[i] = c[i]
            /\ \A i \in 1 .. Len(o) : (c \o o)[Len(c) + i] = o[i]
        BY <3>2, <3>3, Joined
      <4> QED
        BY <3>2, <3>3, <4>1
    <3>5. /\ t \o (c \o o) \in Seq(Int) /\ Len(t \o (c \o o)) = 2 + Len(o)
          /\ (t \o (c \o o))[1] = tag
          /\ \A i \in 1 .. 1 + Len(o) : (t \o (c \o o))[1 + i] = (c \o o)[i]
      <4> DEFINE u == c \o o
      <4>1. u \in Seq(Int) /\ Len(u) = 1 + Len(o)
        BY <3>4
      <4> HIDE DEF u
      <4>2. /\ t \o u \in Seq(Int) /\ Len(t \o u) = Len(t) + Len(u)
            /\ \A i \in 1 .. Len(t) : (t \o u)[i] = t[i]
            /\ \A i \in 1 .. Len(u) : (t \o u)[Len(t) + i] = u[i]
        BY <3>2, <4>1, Joined, ZenonT(40)
      <4>3. /\ t \o u \in Seq(Int) /\ Len(t \o u) = 2 + Len(o) /\ (t \o u)[1] = tag
            /\ \A i \in 1 .. 1 + Len(o) : (t \o u)[1 + i] = u[i]
        BY <3>2, <3>3, <4>1, <4>2
      <4> QED
        BY <4>3 DEF u
    <3>6. b = t \o (c \o o)
      BY <3>1 DEF t
    <3>7. (t \o (c \o o))[2] = 128 + Len(o)
      BY <3>3, <3>4, <3>5
    <3>8. ASSUME NEW i \in 1 .. Len(o) PROVE (t \o (c \o o))[2 + i] = o[i]
      <4>1. 1 + i \in 1 .. 1 + Len(o) /\ 1 + (1 + i) = 2 + i
        BY <3>3
      <4> QED
        BY <3>4, <3>5, <4>1, ZenonT(40)
    <3> HIDE DEF b
    <3>9. Long(n) = Len(Octets(n)) /\ Long(n) \in 1 .. 4 /\ o = Octets(n)
      BY <3>1, <3>3 DEF o
    <3>10. b \in Seq(Int) /\ Len(b) = 2 + Long(n) /\ b[1] = tag /\ b[2] = 128 + Long(n)
      BY <3>5, <3>6, <3>7, <3>9
    <3>11. \A i \in 1 .. Long(n) : b[2 + i] = Octets(n)[i]
      BY <3>6, <3>8, <3>9
    <3> QED
      <4>1. Long(n) \in 0 .. 4
        BY <3>9
      <4> QED
        BY <2>2, <3>9, <3>10, <3>11, <4>1, Zenon
  <2> QED
    BY <2>1, <2>2
<1>3. /\ Bytes(b) \in DER /\ Len(Bytes(b)) = Len(b) /\ Size(Bytes(b)) = Len(b)
      /\ \A i \in 1 .. Len(b) : Bytes(b)[i].v = b[i]
  BY <1>2, BytesShape
<1>4. Header(tag, n) = Bytes(b)
  BY DEF Header
<1> HIDE DEF b
<1> QED
  BY <1>2, <1>3, <1>4, SMTT(30)

\* What the octets of a length come to.
LEMMA LengthValue ==
    ASSUME NEW d \in DER, NEW k \in 1 .. 4, Len(d) >= 2 + k, d[2].v = 128 + k
    PROVE  /\ LengthOctets(d) = k
           /\ k = 1 => BodyLength(d) = d[3].v
           /\ k = 2 => BodyLength(d) = 256 * d[3].v + d[4].v
           /\ k = 3 => BodyLength(d) = 256 * (256 * d[3].v + d[4].v) + d[5].v
           /\ k = 4 => BodyLength(d) = 256 * (256 * (256 * d[3].v + d[4].v) + d[5].v) + d[6].v
<1>1. LengthOctets(d) = k /\ Len(d) \in Nat
  BY Elements DEF LengthOctets
<1>2. \A i \in 1 .. k : d[2 + i].v \in Int
  <2> SUFFICES ASSUME NEW i \in 1 .. k PROVE d[2 + i].v \in Int
    OBVIOUS
  <2>1. 2 + i \in 1 .. Len(d)
    BY <1>1
  <2> QED
    BY <2>1, Elements
<1> DEFINE P(g) == g = [i \in 0 .. k |-> IF i = 0 THEN 0 ELSE 256 * g[i - 1] + d[2 + i].v]
           h == [x \in (1 .. k) \X Int |-> 256 * x[2] + d[2 + x[1]].v]
           value == CHOOSE g : P(g)
<1>3. h \in [(1 .. k) \X Int -> Int]
  BY <1>2
<1>4. PICK g \in [0 .. k -> Int] : Recurs(g, k, 0, h)
  <2>1. k \in Nat /\ 0 \in Int
    OBVIOUS
  <2> HIDE DEF h
  <2> QED
    BY <1>3, <2>1, Recursion, Zenon
<1>5. \A i \in 1 .. k : g[i] = 256 * g[i - 1] + d[2 + i].v
  <2> SUFFICES ASSUME NEW i \in 1 .. k PROVE g[i] = 256 * g[i - 1] + d[2 + i].v
    OBVIOUS
  <2>1. g[i - 1] \in Int
    BY <1>4
  <2> QED
    BY <1>4, <2>1 DEF Recurs
<1>6. P(g)
  BY <1>4, <1>5, SMTT(30) DEF Recurs
<1>7. P(value)
  <2> HIDE DEF P
  <2> QED
    BY <1>6
<1>8. BodyLength(d) = value[k]
  BY <1>1 DEF BodyLength
<1>9. value[0] = 0 /\ \A i \in 1 .. k : value[i] = 256 * value[i - 1] + d[2 + i].v
  <2> HIDE DEF value, h
  <2>1. \A i \in 0 .. k : value[i] = IF i = 0 THEN 0 ELSE 256 * value[i - 1] + d[2 + i].v
    BY <1>7
  <2> QED
    BY <2>1
<1> HIDE DEF value, P, h
<1>10. value[1] = d[3].v
  <2>0. 1 \in 1 .. k /\ 2 + 1 = 3
    OBVIOUS
  <2>1. 1 \in 1 .. k /\ d[2 + 1].v \in Int
    BY <1>2, <2>0
  <2>2. value[1] = 256 * value[0] + d[2 + 1].v /\ value[0] = 0
    BY <1>9, <2>1
  <2> QED
    BY <2>1, <2>2
<1>11. k >= 2 => value[2] = 256 * value[1] + d[4].v
  BY <1>9
<1>12. k >= 3 => value[3] = 256 * value[2] + d[5].v
  BY <1>9
<1>13. k >= 4 => value[4] = 256 * value[3] + d[6].v
  BY <1>9
<1> QED
  BY <1>1, <1>8, <1>10, <1>11, <1>12, <1>13

\* What follows a header begins where it ends.
LEMMA After ==
    ASSUME NEW s \in DER, NEW t \in DER, NEW j \in 0 .. Len(t)
    PROVE  SubSeq(s \o t, Len(s) + 1, Len(s) + j) = SubSeq(t, 1, j)
<1>1. /\ s \o t \in DER /\ Len(s) \in Nat /\ Len(t) \in Nat /\ Len(s \o t) = Len(s) + Len(t)
      /\ \A i \in 1 .. Len(t) : t[i] \in Piece /\ (s \o t)[Len(s) + i] = t[i]
  BY ConcatProperties, LenProperties, Elements DEF DER
<1> DEFINE u == SubSeq(s \o t, Len(s) + 1, Len(s) + j)
           w == SubSeq(t, 1, j)
<1>2. w \in Seq(Piece) /\ Len(w) = j /\ \A i \in 1 .. j : w[i] = t[i]
  BY <1>1, SubSeqProperties
<1>3. \A i \in Len(s) + 1 .. Len(s) + j : (s \o t)[i] \in Piece
  <2> SUFFICES ASSUME NEW i \in Len(s) + 1 .. Len(s) + j PROVE (s \o t)[i] \in Piece
    OBVIOUS
  <2>1. i \in 1 .. Len(s \o t)
    BY <1>1
  <2> QED
    BY <1>1, <2>1, Elements
<1>4. u \in Seq(Piece) /\ Len(u) = j /\ \A i \in 1 .. j : u[i] = (s \o t)[Len(s) + i]
  BY <1>1, <1>3, SubSeqProperties
<1>5. \A i \in 1 .. Len(u) : u[i] = w[i]
  BY <1>1, <1>2, <1>4
<1> HIDE DEF u, w
<1>6. u = w
  BY <1>2, <1>4, <1>5, SeqEqual
<1> QED
  BY <1>6 DEF u, w

\* The length a header was written for is the one that is read.
LEMMA HeaderLength ==
    ASSUME NEW tag \in Byte, NEW n \in Nat, n < Ceiling, NEW r \in DER
    PROVE  /\ Header(tag, n) \o r \in DER
           /\ HasHeader(Header(tag, n) \o r) /\ (Header(tag, n) \o r)[1].v = tag
           /\ LengthOctets(Header(tag, n) \o r) = Long(n) /\ BodyLength(Header(tag, n) \o r) = n
<1> DEFINE h == Header(tag, n)
           d == h \o r
           k == Long(n)
<1>1. /\ h \in DER /\ k \in 0 .. 4 /\ Len(h) = 2 + k /\ h[1].v = tag
      /\ n < 128 => h[2].v = n
      /\ n >= 128 =>
           /\ k = Len(Octets(n)) /\ h[2].v = 128 + k
           /\ \A i \in 1 .. k : h[2 + i].v = Octets(n)[i]
  BY HeaderShape
<1> HIDE DEF h
<1>2. /\ d \in DER /\ Len(d) = Len(h) + Len(r) /\ Len(r) \in Nat
      /\ \A i \in 1 .. Len(h) : d[i] = h[i]
  BY <1>1, ConcatProperties, LenProperties DEF DER
<1> HIDE DEF d
<1>3. d[1].v = tag /\ d[2].v = h[2].v /\ Len(d) >= 2 + k
  BY <1>1, <1>2
<1>4. CASE n < 128
  <2>1. k = 0
    BY <1>4 DEF Long
  <2>2. LengthOctets(d) = 0
    BY <1>1, <1>3, <1>4 DEF LengthOctets
  <2>3. BodyLength(d) = n
    BY <1>1, <1>3, <1>4, <2>2 DEF BodyLength
  <2>4. HasHeader(d)
    BY <1>1, <1>3, <1>4 DEF HasHeader, Byte
  <2> QED
    BY <1>2, <1>3, <2>1, <2>2, <2>3, <2>4 DEF d, h
<1>5. CASE n >= 128
  <2> DEFINE o == Octets(n)
  <2>1. k \in 1 .. 4 /\ Len(o) = k /\ d[2].v = 128 + k
    BY <1>1, <1>3, <1>5, OctetsShape
  <2> HIDE DEF k
  <2>2. \A i \in 1 .. k : d[2 + i].v = o[i]
    <3> SUFFICES ASSUME NEW i \in 1 .. k PROVE d[2 + i].v = o[i]
      OBVIOUS
    <3>1. 2 + i \in 1 .. Len(h)
      BY <1>1, <2>1
    <3> QED
      BY <1>1, <1>2, <1>5, <3>1
  <2>3. /\ k = 1 => n = o[1]
        /\ k = 2 => n = 256 * o[1] + o[2]
        /\ k = 3 => n = 256 * (256 * o[1] + o[2]) + o[3]
        /\ k = 4 => n = 256 * (256 * (256 * o[1] + o[2]) + o[3]) + o[4]
    BY <2>1, OctetsShape, ZenonT(40)
  <2>4. /\ LengthOctets(d) = k
        /\ k = 1 => BodyLength(d) = d[3].v
        /\ k = 2 => BodyLength(d) = 256 * d[3].v + d[4].v
        /\ k = 3 => BodyLength(d) = 256 * (256 * d[3].v + d[4].v) + d[5].v
        /\ k = 4 => BodyLength(d) = 256 * (256 * (256 * d[3].v + d[4].v) + d[5].v) + d[6].v
    <3>1. d \in DER /\ k \in 1 .. 4 /\ Len(d) >= 2 + k /\ d[2].v = 128 + k
      BY <1>2, <1>3, <2>1
    <3> QED
      BY ONLY <3>1, LengthValue
  <2> HIDE DEF o
  <2>5. BodyLength(d) = n
    <3>1. /\ d[3].v = o[1] /\ (k >= 2 => d[4].v = o[2])
          /\ (k >= 3 => d[5].v = o[3]) /\ (k >= 4 => d[6].v = o[4])
      BY <2>1, <2>2
    <3> QED
      BY <2>1, <2>3, <2>4, <3>1
  <2>6. HasHeader(d)
    <3>1. tag >= 0 /\ Len(d) >= 2
      BY <1>3, <2>1 DEF Byte
    <3> QED
      BY <1>3, <2>1, <3>1 DEF HasHeader
  <2> QED
    BY <1>2, <1>3, <2>4, <2>5, <2>6 DEF d, h, k
<1>6. n < 128 \/ n >= 128
  OBVIOUS
<1> QED
  BY <1>4, <1>5, <1>6, Zenon

Value(tag, body, rest) == [tag |-> tag, body |-> body, full |-> Marshal(tag, body), rest |-> rest]

\* Reading undoes writing, whatever the length and whatever follows.
LEMMA ReadMarshal ==
    ASSUME NEW tag \in Byte, NEW body \in DER, NEW rest \in DER, Size(body) < Ceiling
    PROVE  /\ Marshal(tag, body) \in DER /\ Marshal(tag, body) \o rest \in DER
           /\ Len(Marshal(tag, body)) >= 2
           /\ Size(Marshal(tag, body)) = 2 + Long(Size(body)) + Size(body)
           /\ Long(Size(body)) \in 0 .. 4
           /\ Marshal(tag, body)[1].v = tag
           /\ Read(Marshal(tag, body) \o rest) = Value(tag, body, rest)
<1> DEFINE n == Size(body)
           k == Long(n)
           h == Header(tag, n)
           m == Marshal(tag, body)
           d == m \o rest
           e == 2 + k + Len(body)
<1>1. /\ n \in Nat /\ k \in 0 .. 4 /\ Len(body) \in Nat /\ Len(rest) \in Nat
      /\ h \in DER /\ Len(h) = 2 + k /\ Size(h) = 2 + k /\ h[1].v = tag
  BY HeaderShape, SizeIsNat, Elements
<1>2. m = h \o body
  BY MarshalIs
<1> HIDE DEF h, m
<1>3. m \in DER /\ Len(m) = e /\ Size(m) = 2 + k + n /\ m[1].v = tag
  <2>1. m \in DER /\ Len(m) = e /\ m[1] = h[1]
    BY <1>1, <1>2, ConcatProperties DEF DER
  <2> QED
    BY <1>1, <1>2, <2>1, SizeConcat
<1>4. d = h \o (body \o rest) /\ body \o rest \in DER
  BY <1>1, <1>2, ConcatAssociative, ConcatProperties, SMTT(30) DEF DER
<1>5. /\ d \in DER /\ Len(d) = e + Len(rest)
      /\ SubSeq(d, 1, e) = m /\ SubSeq(d, e + 1, Len(d)) = rest
  BY <1>3, Cut, ZenonT(40)
<1>6. HasHeader(d) /\ d[1].v = tag /\ LengthOctets(d) = k /\ BodyLength(d) = n
  BY <1>1, <1>4, HeaderLength DEF h
<1> HIDE DEF d, k
<1>7. \A j \in 0 .. Len(body \o rest) : SubSeq(d, 3 + k, 2 + k + j) = SubSeq(body \o rest, 1, j)
  <2> SUFFICES ASSUME NEW j \in 0 .. Len(body \o rest)
               PROVE  SubSeq(d, 3 + k, 2 + k + j) = SubSeq(body \o rest, 1, j)
    OBVIOUS
  <2>1. SubSeq(h \o (body \o rest), Len(h) + 1, Len(h) + j) = SubSeq(body \o rest, 1, j)
    BY <1>1, <1>4, After
  <2>2. Len(h) + 1 = 3 + k /\ Len(h) + j = 2 + k + j
    BY <1>1
  <2> QED
    BY <1>4, <2>1, <2>2
<1>8. Len(body \o rest) = Len(body) + Len(rest) /\ SubSeq(body \o rest, 1, Len(body)) = body
  BY Cut
<1>9. SubSeq(d, 3 + k, e) = body
  <2>1. Len(body) \in 0 .. Len(body \o rest)
    BY <1>1, <1>8
  <2>2. SubSeq(d, 3 + k, e) = SubSeq(body \o rest, 1, Len(body))
    BY <1>7, <2>1, Zenon
  <2> QED
    BY <1>8, <2>2
<1>10. Ends(d) = {e}
  <2>1. Ends(d) = {x \in 2 + k .. Len(d) : Size(SubSeq(d, 3 + k, x)) = n}
    BY <1>6 DEF Ends
  <2>2. e \in 2 + k .. Len(d)
    BY <1>1, <1>5
  <2>3. ASSUME NEW x \in 2 + k .. Len(d), Size(SubSeq(d, 3 + k, x)) = n PROVE x = e
    <3> DEFINE j == x - (2 + k)
               b == Len(body)
               t == body \o rest
    <3>1. j \in 0 .. Len(t) /\ b \in 0 .. Len(t) /\ 2 + k + j = x
      BY <1>1, <1>5, <1>8
    <3>2. Size(SubSeq(t, 1, j)) = n
      BY <1>7, <2>3, <3>1
    <3>3. SizesTo(t)[j] = n
      BY <1>4, <3>1, <3>2, PrefixSize
    <3>4. SizesTo(t)[b] = n
      BY <1>4, <1>8, <3>1, PrefixSize
    <3>5. ~(j < b) /\ ~(b < j)
      <4> HIDE DEF j, b, t
      <4>1. SizesTo(t)[j] \in Nat /\ SizesTo(t)[b] \in Nat /\ t \in DER
        BY <1>1, <1>4, <3>3, <3>4 DEF t
      <4> QED
        BY <3>1, <3>3, <3>4, <4>1, SizesGrow
    <3> QED
      BY <1>1, <3>1, <3>5
  <2> QED
    BY <1>9, <2>1, <2>2, <2>3
<1>11. (CHOOSE x \in Ends(d) : \A y \in Ends(d) : x <= y) = e
  BY <1>1, <1>10
<1>12. Read(d) = Value(tag, body, rest)
  BY <1>5, <1>6, <1>9, <1>10, <1>11 DEF Read, Value, m
<1> QED
  <2>1. Len(m) >= 2
    BY <1>1, <1>3
  <2> QED
    BY <1>1, <1>3, <1>5, <1>12, <2>1, Zenon DEF d, m, k

-----------------------------------------------------------------------------
(* Sequences of values                                                     *)

\* What is read of a sequence is a part of it, or nothing.
LEMMA ReadExtent ==
    ASSUME NEW d \in DER, Read(d) # Bad
    PROVE  Len(Read(d).full) \in 1 .. Len(d)
<1> DEFINE k == LengthOctets(d)
           e == CHOOSE x \in Ends(d) : \A y \in Ends(d) : x <= y
<1>1. HasHeader(d) /\ Ends(d) # {}
  BY DEF Read
<1>2. Read(d).full = SubSeq(d, 1, e)
  BY <1>1 DEF Read
<1>3. Len(d) \in Nat /\ k \in Nat
  <2>1. Len(d) \in Nat /\ 2 \in 1 .. Len(d)
    BY <1>1, Elements DEF HasHeader
  <2>2. d[2].v \in Int
    BY <2>1, Elements
  <2> QED
    BY <1>1, <2>1, <2>2 DEF LengthOctets, HasHeader
<1>4. Ends(d) \subseteq 2 + k .. Len(d)
  BY DEF Ends
<1>5. e \in Ends(d)
  <2>1. Ends(d) \subseteq Nat
    BY <1>3, <1>4
  <2>2. \E x \in Ends(d) : \A y \in Ends(d) : x <= y
    BY <1>1, <2>1, Least
  <2> QED
    BY <2>2
<1> HIDE DEF e, k
<1>6. e \in 1 .. Len(d)
  BY <1>3, <1>4, <1>5
<1>7. Len(SubSeq(d, 1, e)) = e
  <2>1. \A i \in 1 .. e : d[i] \in Piece
    BY <1>3, <1>6, Elements
  <2> QED
    BY <1>6, <2>1, SubSeqProperties
<1> QED
  BY <1>2, <1>6, <1>7

LEMMA ValueExtent ==
    ASSUME NEW d \in DER, NEW i \in 1 .. Len(d) + 1, ValueAt(d, i) # Bad
    PROVE  i + Len(ValueAt(d, i).full) \in i + 1 .. Len(d) + 1
<1> DEFINE s == SubSeq(d, i, Len(d))
<1>1. Len(d) \in Nat /\ \A j \in i .. Len(d) : d[j] \in Piece
  BY Elements
<1>2. s \in DER /\ Len(s) = Len(d) - i + 1
  BY <1>1, SubSeqProperties DEF DER
<1>3. Len(Read(s).full) \in 1 .. Len(s)
  <2> HIDE DEF s
  <2>1. Read(s) # Bad
    BY DEF ValueAt, s
  <2> QED
    BY <1>2, <2>1, ReadExtent
<1> HIDE DEF s
<1>4. ValueAt(d, i) = Read(s)
  BY DEF ValueAt, s
<1> QED
  BY <1>1, <1>2, <1>3, <1>4

\* The recursion that Split is, from lo on.
Unfolded(d, g, i) ==
    IF ValueAt(d, i) = Bad THEN <<>>
    ELSE <<ValueAt(d, i)>> \o g[i + Len(ValueAt(d, i).full)]
Chain(d, lo, g) == \A i \in lo .. Len(d) + 1 : g[i] = Unfolded(d, g, i)

LEMMA Chains == ASSUME NEW d \in DER PROVE \E g : Chain(d, 1, g)
<1> DEFINE L == Len(d) + 1
           S == {m \in 0 .. L : \E g : Chain(d, L + 1 - m, g)}
<1>1. Len(d) \in Nat /\ L \in Nat
  BY Elements
<1>2. 0 \in S
  <2>1. Chain(d, L + 1 - 0, <<>>)
    BY <1>1 DEF Chain
  <2> QED
    BY <1>1, <2>1
<1>3. ASSUME NEW m \in 0 .. L - 1, m \in S PROVE m + 1 \in S
  <2>1. PICK g : Chain(d, L + 1 - m, g)
    BY <1>3
  <2> DEFINE j == L - m
             f == [i \in 1 .. L |-> IF i = j THEN Unfolded(d, g, j) ELSE g[i]]
  <2>2. j \in 1 .. L /\ L + 1 - m = j + 1 /\ L + 1 - (m + 1) = j
    BY <1>1
  <2>3. \A i \in j + 1 .. L : g[i] = Unfolded(d, g, i)
    BY <2>1, <2>2 DEF Chain
  <2>4. ASSUME NEW i \in j .. L PROVE Unfolded(d, f, i) = Unfolded(d, g, i)
    <3>1. i \in 1 .. Len(d) + 1
      BY <2>2
    <3>2. CASE ValueAt(d, i) = Bad
      BY <3>2 DEF Unfolded
    <3>3. CASE ValueAt(d, i) # Bad
      <4> DEFINE next == i + Len(ValueAt(d, i).full)
      <4>1. next \in i + 1 .. Len(d) + 1
        BY <3>1, <3>3, ValueExtent
      <4>2. next \in 1 .. L /\ next # j
        BY <1>1, <2>2, <4>1
      <4>3. f[next] = g[next]
        BY <4>2
      <4> HIDE DEF f
      <4> QED
        BY <4>3 DEF Unfolded
    <3> QED
      BY <3>2, <3>3
  <2>5. ASSUME NEW i \in j .. L PROVE f[i] = Unfolded(d, f, i)
    <3>1. i \in 1 .. L
      BY <2>2
    <3>2. CASE i = j
      BY <2>4, <3>1, <3>2
    <3>3. CASE i # j
      <4>1. i \in j + 1 .. L
        BY <2>2, <3>3
      <4>2. f[i] = g[i]
        BY <3>1, <3>3
      <4> HIDE DEF f
      <4> QED
        BY <2>3, <2>4, <4>1, <4>2
    <3> QED
      BY <3>2, <3>3
  <2>6. Chain(d, L + 1 - (m + 1), f)
    <3> HIDE DEF f, j
    <3> QED
      BY <2>2, <2>5 DEF Chain
  <2>7. m + 1 \in 0 .. L
    BY <1>1
  <2> HIDE DEF f, L
  <2> QED
    BY <2>6, <2>7
<1>4. L \in S
  <2> HIDE DEF S, L
  <2>1. 0 .. L \subseteq S
    BY <1>1, <1>2, <1>3, Climb
  <2> QED
    BY <1>1, <2>1
<1>5. L + 1 - L = 1
  BY <1>1
<1> QED
  BY <1>4, <1>5

\* Split unfolds, once.
From(d) ==
    CHOOSE f : f = [i \in 1 .. Len(d) + 1 |->
                        IF ValueAt(d, i) = Bad THEN <<>>
                        ELSE <<ValueAt(d, i)>> \o f[i + Len(ValueAt(d, i).full)]]
LEMMA Unfold ==
    ASSUME NEW d \in DER
    PROVE  Split(d) = From(d)[1] /\ Chain(d, 1, From(d))
<1> DEFINE P(f) == f = [i \in 1 .. Len(d) + 1 |-> Unfolded(d, f, i)]
<1>1. PICK g : Chain(d, 1, g)
  BY Chains
<1> DEFINE f == [i \in 1 .. Len(d) + 1 |-> g[i]]
<1>2. ASSUME NEW i \in 1 .. Len(d) + 1 PROVE f[i] = Unfolded(d, f, i)
  <2>1. f[i] = Unfolded(d, g, i)
    BY <1>1 DEF Chain
  <2>2. CASE ValueAt(d, i) = Bad
    BY <2>1, <2>2 DEF Unfolded
  <2>3. CASE ValueAt(d, i) # Bad
    <3> DEFINE next == i + Len(ValueAt(d, i).full)
    <3>1. next \in i + 1 .. Len(d) + 1
      BY <2>3, ValueExtent
    <3>2. Len(d) \in Nat
      BY Elements
    <3>3. next \in 1 .. Len(d) + 1
      BY <3>1, <3>2
    <3>4. f[next] = g[next]
      BY <3>3
    <3> HIDE DEF f
    <3> QED
      BY <2>1, <3>4 DEF Unfolded
  <2> QED
    BY <2>2, <2>3
<1>3. P(f)
  <2> DEFINE r == [i \in 1 .. Len(d) + 1 |-> Unfolded(d, f, i)]
  <2>1. \A i \in 1 .. Len(d) + 1 : f[i] = r[i]
    <3> HIDE DEF f
    <3> QED
      BY <1>2
  <2>2. f = [i \in 1 .. Len(d) + 1 |-> f[i]] /\ r = [i \in 1 .. Len(d) + 1 |-> r[i]]
    OBVIOUS
  <2> HIDE DEF f, r
  <2>3. f = r
    BY <2>1, <2>2
  <2> QED
    BY <2>3 DEF r
<1>4. From(d) = CHOOSE x : P(x)
  BY DEF From, Unfolded
<1>5. P(From(d))
  <2> HIDE DEF P, f
  <2> QED
    BY <1>3, <1>4
<1>6. Split(d) = From(d)[1]
  BY DEF Split, From
<1>7. Chain(d, 1, From(d))
  <2> DEFINE x == From(d)
  <2>1. x = [i \in 1 .. Len(d) + 1 |-> Unfolded(d, x, i)]
    BY <1>5
  <2> HIDE DEF x
  <2>2. Chain(d, 1, x)
    BY <2>1 DEF Chain
  <2> QED
    BY <2>2 DEF x
<1> QED
  BY <1>6, <1>7

Fits(tag, body) == tag \in Byte /\ body \in DER /\ Size(body) < Ceiling

\* What Read makes of a value written after anything and before anything.
Follows(s, tag, body, rest) ==
    /\ Marshal(tag, body) \in DER /\ Marshal(tag, body) \o rest \in DER
    /\ ValueAt(s \o (Marshal(tag, body) \o rest), Len(s) + 1) = Value(tag, body, rest)
    /\ Value(tag, body, rest) # Bad
LEMMA ValueAfter ==
    ASSUME NEW s \in DER, NEW tag, NEW body, NEW rest \in DER, Fits(tag, body)
    PROVE  Follows(s, tag, body, rest)
<1> DEFINE m == Marshal(tag, body)
<1>1. /\ m \in DER /\ m \o rest \in DER /\ Len(m) >= 2
      /\ Read(m \o rest) = Value(tag, body, rest)
  BY ReadMarshal DEF Fits
<1>2. SubSeq(s \o (m \o rest), Len(s) + 1, Len(s \o (m \o rest))) = m \o rest
  BY <1>1, Cut
<1>3. Value(tag, body, rest) # Bad
  <2>1. Value(tag, body, rest).full = m /\ Bad.full = <<>> /\ Len(<<>>) = 0
    BY DEF Value, Bad
  <2> HIDE DEF m
  <2> QED
    BY <1>1, <2>1
<1> QED
  BY <1>1, <1>2, <1>3 DEF ValueAt, Follows

LEMMA NothingAfter == ASSUME NEW d \in DER PROVE ValueAt(d, Len(d) + 1) = Bad
<1>1. SubSeq(d, Len(d) + 1, Len(d)) = <<>>
  BY Elements, SubSeqEmpty
<1>2. Read(<<>>) = Bad
  BY DEF Read, HasHeader
<1> QED
  BY <1>1, <1>2 DEF ValueAt

LEMMA Pair == ASSUME NEW a, NEW b PROVE <<a>> \o <<b>> = <<a, b>>
<1> DEFINE S == {a, b}
           s == <<a>>
           t == <<b>>
           u == <<a, b>>
<1>1. /\ s \in Seq(S) /\ Len(s) = 1 /\ s[1] = a /\ t \in Seq(S) /\ Len(t) = 1 /\ t[1] = b
      /\ u \in Seq(S) /\ Len(u) = 2 /\ u[1] = a /\ u[2] = b
  OBVIOUS
<1> HIDE DEF S, s, t, u
<1>2. /\ s \o t \in Seq(S) /\ Len(s \o t) = Len(s) + Len(t)
      /\ \A i \in 1 .. Len(s) + Len(t) : (s \o t)[i] = IF i <= Len(s) THEN s[i] ELSE t[i - Len(s)]
  BY <1>1, ConcatProperties
<1>3. Len(s \o t) = 2 /\ (s \o t)[1] = a /\ (s \o t)[2] = b
  BY <1>1, <1>2
<1>4. \A i \in 1 .. Len(u) : (s \o t)[i] = u[i]
  BY <1>1, <1>3
<1>5. s \o t = u
  BY <1>1, <1>2, <1>3, <1>4, SeqEqual
<1> QED
  BY <1>5 DEF s, t, u

LEMMA SplitOne ==
    ASSUME NEW tag, NEW body, Fits(tag, body)
    PROVE  Split(Marshal(tag, body)) = <<Value(tag, body, <<>>)>>
<1> DEFINE m == Marshal(tag, body)
           v == Value(tag, body, <<>>)
           f == From(m)
<1>1. <<>> \in DER /\ Len(<<>>) = 0
  BY EmptySeq DEF DER
<1>2. m \in DER /\ ValueAt(<<>> \o (m \o <<>>), Len(<<>>) + 1) = v /\ v # Bad
  <2>1. Follows(<<>>, tag, body, <<>>)
    BY <1>1, ValueAfter
  <2> QED
    BY <2>1, Zenon DEF Follows
<1>3. <<>> \o (m \o <<>>) = m /\ v.full = m
  BY <1>2, ConcatEmptySeq DEF DER, Value
<1> HIDE DEF m, v
<1>4. ValueAt(m, 1) = v /\ Len(m) \in Nat
  BY <1>1, <1>2, <1>3, Elements
<1>5. /\ Split(m) = f[1]
      /\ f[1] = Unfolded(m, f, 1) /\ f[Len(m) + 1] = Unfolded(m, f, Len(m) + 1)
  <2>1. 1 \in 1 .. Len(m) + 1 /\ Len(m) + 1 \in 1 .. Len(m) + 1
    BY <1>4
  <2> QED
    BY <1>2, <2>1, Unfold DEF Chain
<1> HIDE DEF f
<1>6. f[Len(m) + 1] = <<>>
  BY <1>2, <1>5, NothingAfter DEF Unfolded
<1>7. f[1] = <<v>> \o f[1 + Len(m)]
  BY <1>2, <1>3, <1>4, <1>5 DEF Unfolded
<1>8. 1 + Len(m) = Len(m) + 1
  BY <1>4
<1>9. <<v>> \o <<>> = <<v>>
  OBVIOUS
<1> QED
  BY <1>5, <1>6, <1>7, <1>8, <1>9 DEF m, v

LEMMA SplitTwo ==
    ASSUME NEW t1, NEW b1, NEW t2, NEW b2, Fits(t1, b1), Fits(t2, b2)
    PROVE  Split(Marshal(t1, b1) \o Marshal(t2, b2))
                = <<Value(t1, b1, Marshal(t2, b2)), Value(t2, b2, <<>>)>>
<1> DEFINE m1 == Marshal(t1, b1)
           m2 == Marshal(t2, b2)
           v1 == Value(t1, b1, m2)
           v2 == Value(t2, b2, <<>>)
           d == m1 \o m2
           f == From(d)
           n == Len(m1) + 1
<1>1. <<>> \in DER /\ Len(<<>>) = 0
  BY EmptySeq DEF DER
<1>2. m1 \in DER /\ m2 \in DER
  <2>1. Follows(<<>>, t1, b1, <<>>) /\ Follows(<<>>, t2, b2, <<>>)
    BY <1>1, ValueAfter
  <2> QED
    BY <2>1, Zenon DEF Follows
<1>3. d \in DER /\ ValueAt(<<>> \o d, Len(<<>>) + 1) = v1 /\ v1 # Bad
  <2>1. Follows(<<>>, t1, b1, m2)
    BY <1>1, <1>2, ValueAfter
  <2> QED
    BY <2>1, Zenon DEF Follows
<1>4. ValueAt(m1 \o (m2 \o <<>>), n) = v2 /\ v2 # Bad
  <2>1. Follows(m1, t2, b2, <<>>)
    BY <1>1, <1>2, ValueAfter
  <2> QED
    BY <2>1, Zenon DEF Follows
<1>5. v1.full = m1 /\ v2.full = m2
  BY DEF Value
<1> HIDE DEF m1, m2, v1, v2
<1>6. <<>> \o d = d /\ m2 \o <<>> = m2
  BY <1>2, <1>3, ConcatEmptySeq DEF DER
<1>7. Len(m1) \in Nat /\ Len(m2) \in Nat /\ Len(d) = Len(m1) + Len(m2)
  BY <1>2, <1>3, Elements, Cut
<1>8. ValueAt(d, 1) = v1 /\ ValueAt(d, n) = v2
  BY <1>1, <1>3, <1>4, <1>6
<1> HIDE DEF d
<1>9. /\ Split(d) = f[1]
      /\ f[1] = Unfolded(d, f, 1) /\ f[n] = Unfolded(d, f, n) /\ f[Len(d) + 1] = Unfolded(d, f, Len(d) + 1)
  <2>1. 1 \in 1 .. Len(d) + 1 /\ n \in 1 .. Len(d) + 1 /\ Len(d) + 1 \in 1 .. Len(d) + 1
    BY <1>7
  <2> HIDE DEF n
  <2> QED
    BY <1>3, <2>1, Unfold DEF Chain
<1> HIDE DEF f
<1>10. f[Len(d) + 1] = <<>>
  BY <1>3, <1>9, NothingAfter DEF Unfolded
<1>11. f[1] = <<v1>> \o f[1 + Len(m1)] /\ f[n] = <<v2>> \o f[n + Len(m2)]
  <2> HIDE DEF n
  <2> QED
    BY <1>3, <1>4, <1>5, <1>8, <1>9 DEF Unfolded
<1>12. 1 + Len(m1) = n /\ n + Len(m2) = Len(d) + 1
  BY <1>7
<1>13. <<v1>> \o (<<v2>> \o <<>>) = <<v1, v2>>
  <2>1. <<v2>> \o <<>> = <<v2>>
    OBVIOUS
  <2>2. <<v1>> \o <<v2>> = <<v1, v2>>
    BY Pair, Zenon
  <2> QED
    BY <2>1, <2>2
<1> HIDE DEF n
<1> QED
  BY <1>9, <1>10, <1>11, <1>12, <1>13 DEF d, m1, m2, v1, v2

Flat(s) == FlattenSeq(s) = IF Len(s) = 1 THEN s[1] ELSE s[1] \o s[2]
LEMMA Flatten == ASSUME NEW s, Len(s) \in {1, 2} PROVE Flat(s)
<1> DEFINE P(f) == f = [i \in 1 .. Len(s) |-> IF i = 1 THEN s[i] ELSE f[i - 1] \o s[i]]
           x == CHOOSE f : P(f)
           g == [i \in 1 .. Len(s) |-> IF i = 1 THEN s[1] ELSE s[1] \o s[2]]
<1>1. P(g)
  <2> DEFINE h == [i \in 1 .. Len(s) |-> IF i = 1 THEN s[i] ELSE g[i - 1] \o s[i]]
  <2>1. ASSUME NEW i \in 1 .. Len(s) PROVE g[i] = h[i]
    <3>1. CASE i = 1
      BY <3>1
    <3>2. CASE i = 2
      <4>1. 1 \in 1 .. Len(s) /\ 2 \in 1 .. Len(s) /\ 2 # 1 /\ 2 - 1 = 1
        BY <3>2
      <4>2. g[2] = s[1] \o s[2] /\ g[1] = s[1]
        BY <4>1, Zenon
      <4>3. h[2] = g[2 - 1] \o s[2]
        <5> HIDE DEF g
        <5> QED
          BY <4>1, Zenon
      <4> HIDE DEF g, h
      <4> QED
        BY <3>2, <4>1, <4>2, <4>3, Zenon
    <3> QED
      BY <3>1, <3>2
  <2>2. g = [i \in 1 .. Len(s) |-> g[i]] /\ h = [i \in 1 .. Len(s) |-> h[i]]
    OBVIOUS
  <2> HIDE DEF g, h
  <2>3. g = h
    BY <2>1, <2>2
  <2> QED
    BY <2>3 DEF h
<1>2. P(x)
  <2> HIDE DEF P, g
  <2> QED
    BY <1>1
<1>3. FlattenSeq(s) = x[Len(s)]
  BY SMTT(30) DEF FlattenSeq
<1>4. x[1] = s[1] /\ (Len(s) = 2 => x[2] = x[1] \o s[2])
  <2> HIDE DEF x
  <2>1. 1 \in 1 .. Len(s) /\ (Len(s) = 2 => 2 \in 1 .. Len(s))
    OBVIOUS
  <2>2. \A i \in 1 .. Len(s) : x[i] = IF i = 1 THEN s[i] ELSE x[i - 1] \o s[i]
    BY <1>2
  <2>3. x[1] = s[1]
    BY <2>1, <2>2
  <2>4. Len(s) = 2 => x[2] = x[2 - 1] \o s[2]
    BY <2>1, <2>2
  <2>5. 2 - 1 = 1
    OBVIOUS
  <2> QED
    BY <2>3, <2>4, <2>5, Zenon
<1> HIDE DEF x
<1> QED
  BY <1>3, <1>4 DEF Flat

LEMMA FlattenOne == ASSUME NEW a PROVE FlattenSeq(<<a>>) = a
<1> DEFINE s == <<a>>
<1>1. Len(s) = 1 /\ s[1] = a
  OBVIOUS
<1> HIDE DEF s
<1>2. Flat(s)
  BY <1>1, Flatten
<1>3. FlattenSeq(s) = a
  BY <1>1, <1>2, Zenon DEF Flat
<1> QED
  BY <1>3 DEF s

LEMMA FlattenTwo == ASSUME NEW a, NEW b PROVE FlattenSeq(<<a, b>>) = a \o b
<1> DEFINE s == <<a, b>>
<1>1. Len(s) = 2 /\ s[1] = a /\ s[2] = b
  OBVIOUS
<1> HIDE DEF s
<1>2. Flat(s)
  BY <1>1, Flatten
<1>3. Len(s) # 1
  BY <1>1
<1>4. FlattenSeq(s) = a \o b
  BY <1>1, <1>2, <1>3, Zenon DEF Flat
<1> QED
  BY <1>4 DEF s

\* A piece before a sequence is its head, and the sequence its tail.
LEMMA HeadAndTail ==
    ASSUME NEW s \in DER, Len(s) = 1, NEW d \in DER
    PROVE  Head(s \o d) = s[1] /\ Tail(s \o d) = d
<1>1. /\ s \o d \in DER /\ Len(s \o d) = 1 + Len(d) /\ Len(d) \in Nat
      /\ SubSeq(s \o d, 2, Len(s \o d)) = d
  <2>1. /\ s \o d \in DER /\ Len(s \o d) = Len(s) + Len(d)
        /\ SubSeq(s \o d, Len(s) + 1, Len(s \o d)) = d
    BY Cut
  <2>2. Len(s) + 1 = 2 /\ Len(d) \in Nat
    BY Elements
  <2> QED
    BY <2>1, <2>2
<1>2. s \o d # <<>>
  BY <1>1, EmptySeq
<1>3. Tail(s \o d) = d
  BY <1>1, <1>2, TailIsSubSeq DEF DER
<1>4. (s \o d)[1] = s[1]
  BY <1>1, ConcatProperties DEF DER
<1>5. Head(s \o d) = (s \o d)[1]
  BY <1>1, <1>2
<1> QED
  BY <1>3, <1>4, <1>5

-----------------------------------------------------------------------------
(* Lengths written by hand                                                 *)

LEMMA Triple == ASSUME NEW a, NEW b, NEW c PROVE <<a>> \o <<b, c>> = <<a, b, c>>
<1> DEFINE S == {a, b, c}
           s == <<a>>
           t == <<b, c>>
           u == <<a, b, c>>
<1>1. /\ s \in Seq(S) /\ Len(s) = 1 /\ s[1] = a /\ t \in Seq(S) /\ Len(t) = 2 /\ t[1] = b /\ t[2] = c
      /\ u \in Seq(S) /\ Len(u) = 3 /\ u[1] = a /\ u[2] = b /\ u[3] = c
  OBVIOUS
<1> HIDE DEF S, s, t, u
<1>2. /\ s \o t \in Seq(S) /\ Len(s \o t) = Len(s) + Len(t)
      /\ \A i \in 1 .. Len(s) + Len(t) : (s \o t)[i] = IF i <= Len(s) THEN s[i] ELSE t[i - Len(s)]
  BY <1>1, ConcatProperties
<1>3. Len(s \o t) = 3 /\ (s \o t)[1] = a /\ (s \o t)[2] = b /\ (s \o t)[3] = c
  BY <1>1, <1>2
<1>4. \A i \in 1 .. Len(u) : (s \o t)[i] = u[i]
  BY <1>1, <1>3
<1>5. s \o t = u
  BY <1>1, <1>2, <1>3, <1>4, SeqEqual
<1> QED
  BY <1>5 DEF s, t, u

LEMMA Quadruple ==
    ASSUME NEW a, NEW b, NEW c, NEW e
    PROVE  <<a>> \o <<b, c, e>> = <<a, b, c, e>>
<1> DEFINE S == {a, b, c, e}
           s == <<a>>
           t == <<b, c, e>>
           u == <<a, b, c, e>>
<1>1. /\ s \in Seq(S) /\ Len(s) = 1 /\ s[1] = a
      /\ t \in Seq(S) /\ Len(t) = 3 /\ t[1] = b /\ t[2] = c /\ t[3] = e
      /\ u \in Seq(S) /\ Len(u) = 4 /\ u[1] = a /\ u[2] = b /\ u[3] = c /\ u[4] = e
  OBVIOUS
<1> HIDE DEF S, s, t, u
<1>2. /\ s \o t \in Seq(S) /\ Len(s \o t) = Len(s) + Len(t)
      /\ \A i \in 1 .. Len(s) + Len(t) : (s \o t)[i] = IF i <= Len(s) THEN s[i] ELSE t[i - Len(s)]
  BY <1>1, ConcatProperties
<1>3. /\ Len(s \o t) = 4 /\ (s \o t)[1] = a /\ (s \o t)[2] = b /\ (s \o t)[3] = c
      /\ (s \o t)[4] = e
  BY <1>1, <1>2
<1>4. \A i \in 1 .. Len(u) : (s \o t)[i] = u[i]
  BY <1>1, <1>3
<1>5. s \o t = u
  BY <1>1, <1>2, <1>3, <1>4, SeqEqual
<1> QED
  BY <1>5 DEF s, t, u

Limit == 16777216

\* The form a length takes, by the library and by hand.
LEMMA Forms ==
    ASSUME NEW n \in Nat, n < Limit
    PROVE  /\ n < 128 => LengthBytes(n) = <<n>>
           /\ n >= 128 /\ n < 256 => LengthBytes(n) = <<129, n>>
           /\ n >= 256 /\ n < 65536 => LengthBytes(n) = <<130, n \div 256, n % 256>>
           /\ n >= 65536 =>
                /\ LengthBytes(n) = <<131, n \div 65536, (n \div 256) % 256, n % 256>>
                /\ (n \div 65536) % 256 = n \div 65536
<1> DEFINE a == n \div 256
           b == n \div 65536
           c == (n \div 256) % 256
           e == n % 256
<1>1. n < 128 => LengthBytes(n) = <<n>>
  BY Zenon DEF LengthBytes
<1>2. ASSUME NEW o, Octets(n) = o, n >= 128 PROVE LengthBytes(n) = <<128 + Len(o)>> \o o
  BY <1>2 DEF LengthBytes
<1>3. ASSUME n >= 128, n < 256 PROVE LengthBytes(n) = <<129, n>>
  <2> DEFINE o == <<n>>
  <2>1. Octets(n) = o
    BY <1>3, SMT DEF Octets
  <2>2. 128 + Len(o) = 129
    OBVIOUS
  <2>3. <<129>> \o o = <<129, n>>
    BY Pair
  <2> HIDE DEF o
  <2>4. LengthBytes(n) = <<128 + Len(o)>> \o o
    BY <1>2, <1>3, <2>1
  <2> QED
    BY <2>2, <2>3, <2>4
<1>4. ASSUME n >= 256, n < 65536 PROVE LengthBytes(n) = <<130, a, e>>
  <2> DEFINE o == <<a, e>>
  <2>1. Octets(n) = o
    BY <1>4, SMT DEF Octets
  <2>2. 128 + Len(o) = 130
    OBVIOUS
  <2>3. <<130>> \o o = <<130, a, e>>
    BY Triple
  <2> HIDE DEF o, a, e
  <2>4. n >= 128
    BY <1>4, SMT
  <2>5. LengthBytes(n) = <<128 + Len(o)>> \o o
    BY <1>2, <2>1, <2>4
  <2> QED
    BY <2>2, <2>3, <2>5
<1>5. ASSUME n >= 65536 PROVE LengthBytes(n) = <<131, b, c, e>> /\ b % 256 = b
  <2> DEFINE o == <<b, c, e>>
  <2>1. Octets(n) = o
    BY <1>5, SMT DEF Octets, Limit
  <2>2. 128 + Len(o) = 131
    OBVIOUS
  <2>3. <<131>> \o o = <<131, b, c, e>>
    BY Quadruple
  <2>4. b % 256 = b
    BY <1>5, SMT DEF Limit
  <2> HIDE DEF o, b, c, e
  <2>5. n >= 128
    BY <1>5, SMT
  <2>6. LengthBytes(n) = <<128 + Len(o)>> \o o
    BY <1>2, <2>1, <2>5
  <2> QED
    BY <2>2, <2>3, <2>4, <2>6
<1> HIDE DEF a, b, c, e
<1>6. /\ n < 128 => LengthBytes(n) = <<n>>
      /\ n >= 128 /\ n < 256 => LengthBytes(n) = <<129, n>>
      /\ n >= 256 /\ n < 65536 => LengthBytes(n) = <<130, a, e>>
      /\ n >= 65536 => LengthBytes(n) = <<131, b, c, e>> /\ b % 256 = b
  BY <1>1, <1>3, <1>4, <1>5, SMT
<1> QED
  BY <1>6, SMT DEF a, b, c, e

LEMMA DerLength ==
    ASSUME NEW n \in Nat, n < Limit
    PROVE  derLength(n) = LengthBytes(n)
<1>1. n < 128 => derLength(n) = <<n>>
  BY SMT DEF derLength
<1>2. n >= 128 /\ n < 256 => derLength(n) = <<129, n>>
  BY SMT DEF derLength
<1>3. n >= 256 /\ n < 65536 => derLength(n) = <<130, n \div 256, n % 256>>
  BY SMT DEF derLength
<1>4. n >= 65536 =>
        derLength(n) = <<131, (n \div 65536) % 256, (n \div 256) % 256, n % 256>>
  BY SMT DEF derLength
<1> QED
  BY <1>1, <1>2, <1>3, <1>4, Forms, SMT

\* wrapTLV writes what the library would, or refuses.
LEMMA WrapTLV ==
    ASSUME NEW tag, NEW tlv \in DER
    PROVE  /\ Size(tlv) < Limit => wrapTLV(tag, tlv) = Marshal(tag, tlv)
           /\ Size(tlv) >= Limit => wrapTLV(tag, tlv) = TooLarge
<1> DEFINE n == Size(tlv)
           len == CASE n < 128   -> <<n>>
                    [] n >= 128 /\ n < 256     -> <<129, n>>
                    [] n >= 256 /\ n < 65536   -> <<130, n \div 256, n % 256>>
                    [] n >= 65536 -> <<131, n \div 65536, (n \div 256) % 256, n % 256>>
<1>1. n \in Nat
  BY SizeIsNat
<1>2. wrapTLV(tag, tlv) =
        IF n >= Limit THEN TooLarge ELSE Bytes(<<tag>> \o len) \o tlv
  BY DEF wrapTLV, Limit
<1>3. Marshal(tag, tlv) = Bytes(<<tag>> \o LengthBytes(n)) \o tlv
  BY DEF Marshal
<1> HIDE DEF n
<1>4. n < Limit => len = LengthBytes(n)
  <2>1. n < 128 => len = <<n>>
    BY <1>1, SMT
  <2>2. n >= 128 /\ n < 256 => len = <<129, n>>
    BY <1>1, SMT
  <2>3. n >= 256 /\ n < 65536 => len = <<130, n \div 256, n % 256>>
    BY <1>1, SMT
  <2>4. n >= 65536 => len = <<131, n \div 65536, (n \div 256) % 256, n % 256>>
    BY <1>1, SMT
  <2> HIDE DEF len
  <2> QED
    BY <1>1, <2>1, <2>2, <2>3, <2>4, Forms, SMT
<1> HIDE DEF len
<1>5. n < Limit => ~(n >= Limit)
  BY <1>1, SMT DEF Limit
<1>6. (n < Limit => wrapTLV(tag, tlv) = Marshal(tag, tlv)) /\ (n >= Limit => wrapTLV(tag, tlv) = TooLarge)
  BY <1>2, <1>3, <1>4, <1>5, Zenon
<1> QED
  BY <1>6 DEF n

LEMMA OidDataShape == OidData \in DER /\ Len(OidData) = 1 /\ Size(OidData) = 11 /\ OidData[1].v = -1
BY RunShape DEF OidData

Few == 65536

\* The part put together by hand is the one the library would write.
LEMMA BuildData ==
    ASSUME NEW payload \in DER, Size(payload) < Few
    PROVE  buildDataContentInfo(payload) = Marshal(48, OidData \o Marshal(160, Marshal(4, payload)))
<1> DEFINE octet == Marshal(4, payload)
           m == Size(octet)
           inner == Bytes(<<160>> \o LengthBytes(m)) \o octet
           first == Bytes(<<48>>)
           tail == OidData \o inner
           seq == first \o tail
<1>1. octet \in DER /\ m \in Nat /\ m < Few + 6
  <2>1. 4 \in Byte /\ Size(payload) < Ceiling /\ Size(payload) \in Nat
    BY SizeIsNat DEF Byte, Ceiling, Few
  <2>2. octet \in DER /\ m = 2 + Long(Size(payload)) + Size(payload) /\ Long(Size(payload)) \in 0 .. 4
    BY <2>1, ReadMarshal
  <2> QED
    BY <2>1, <2>2, SMT DEF Few
<1>2. inner = Marshal(160, octet) /\ inner \in DER /\ Size(inner) \in Nat /\ Size(inner) < Few + 12
  <2>1. 160 \in Byte /\ m < Ceiling
    BY <1>1 DEF Byte, Ceiling, Few
  <2>2. inner = Marshal(160, octet)
    BY DEF Marshal
  <2>3. /\ Marshal(160, octet) \in DER /\ Size(Marshal(160, octet)) = 2 + Long(m) + m
        /\ Long(m) \in 0 .. 4
    BY <1>1, <2>1, ReadMarshal
  <2> HIDE DEF inner, octet
  <2> QED
    BY <1>1, <2>2, <2>3, SMT DEF Few
<1>3. derLength(m) = LengthBytes(m)
  <2>1. m < Limit
    BY <1>1 DEF Limit, Few
  <2> QED
    BY <1>1, <2>1, DerLength
<1>4. first \in DER /\ Len(first) = 1 /\ Size(first) = 1
  <2> DEFINE t == <<48>>
  <2>1. t \in Seq(Int) /\ Len(t) = 1
    OBVIOUS
  <2> HIDE DEF t
  <2>2. Bytes(t) \in DER /\ Len(Bytes(t)) = 1 /\ Size(Bytes(t)) = 1
    BY <2>1, BytesShape
  <2> QED
    BY <2>2 DEF t
<1>5. Bytes(<<160>> \o LengthBytes(m)) \in DER
  <2>1. 160 \in Byte /\ m < Ceiling
    BY <1>1 DEF Byte, Ceiling, Few
  <2>2. Header(160, m) \in DER
    BY <1>1, <2>1, HeaderShape
  <2> QED
    BY <2>2 DEF Header
<1> DEFINE hand == first \o OidData \o Bytes(<<160>> \o derLength(m)) \o octet
<1>6. hand = seq
  <2> DEFINE b == Bytes(<<160>> \o LengthBytes(m))
  <2>1. hand = ((first \o OidData) \o b) \o octet
    BY <1>3
  <2> HIDE DEF b, first, octet
  <2>2. /\ first \in Seq(Piece) /\ OidData \in Seq(Piece) /\ b \in Seq(Piece) /\ octet \in Seq(Piece)
    BY <1>1, <1>4, <1>5, OidDataShape DEF DER, b
  <2>3. first \o OidData \in Seq(Piece)
    BY <2>2, ConcatProperties
  <2>4. ((first \o OidData) \o b) \o octet = (first \o OidData) \o (b \o octet)
    <3> DEFINE u == first \o OidData
    <3>1. u \in Seq(Piece)
      BY <2>3
    <3> HIDE DEF u
    <3>2. (u \o b) \o octet = u \o (b \o octet)
      BY <2>2, <3>1, ConcatAssociative, SMTT(30)
    <3> QED
      BY <3>2 DEF u
  <2>5. b \o octet \in Seq(Piece)
    BY <2>2, ConcatProperties
  <2>6. (first \o OidData) \o (b \o octet) = first \o (OidData \o (b \o octet))
    <3> DEFINE w == b \o octet
    <3>1. w \in Seq(Piece)
      BY <2>5
    <3> HIDE DEF w
    <3>2. (first \o OidData) \o w = first \o (OidData \o w)
      BY <2>2, <3>1, ConcatAssociative, SMTT(30)
    <3> QED
      BY <3>2 DEF w
  <2> HIDE DEF hand
  <2>7. seq = first \o (OidData \o (b \o octet))
    BY DEF b
  <2> QED
    BY <2>1, <2>4, <2>6, <2>7
<1>7. tail \in DER /\ Size(tail) \in Nat /\ Size(tail) < Limit
  <2>1. Size(tail) = 11 + Size(inner) /\ tail \in DER
    BY <1>2, OidDataShape, SizeConcat
  <2> HIDE DEF tail, inner
  <2> QED
    BY <1>2, <2>1 DEF Limit, Few
<1>8. Size(seq) - 1 = Size(tail) /\ Tail(seq) = tail
  <2> HIDE DEF tail, first
  <2>1. Size(seq) = 1 + Size(tail) /\ Tail(seq) = tail
    BY <1>4, <1>7, SizeConcat, HeadAndTail
  <2> QED
    BY <1>7, <2>1
<1>9. buildDataContentInfo(payload) = Bytes(<<48>> \o derLength(Size(hand) - 1)) \o Tail(hand)
  BY DEF buildDataContentInfo
<1>10. buildDataContentInfo(payload) = Bytes(<<48>> \o derLength(Size(tail))) \o tail
  <2>1. Size(hand) - 1 = Size(tail) /\ Tail(hand) = tail
    <3> HIDE DEF hand, seq, tail
    <3> QED
      BY <1>6, <1>8, SMT
  <2> HIDE DEF hand, seq, tail
  <2> QED
    BY <1>9, <2>1
<1>11. derLength(Size(tail)) = LengthBytes(Size(tail))
  <2> HIDE DEF tail
  <2> QED
    BY <1>7, DerLength
<1>12. Marshal(48, tail) = Bytes(<<48>> \o LengthBytes(Size(tail))) \o tail
  BY DEF Marshal
<1>13. buildDataContentInfo(payload) = Marshal(48, tail)
  <2> HIDE DEF tail
  <2> QED
    BY <1>10, <1>11, <1>12, SMT
<1>14. tail = OidData \o Marshal(160, octet)
  <2> HIDE DEF inner
  <2> QED
    BY <1>2, SMT
<1> HIDE DEF tail
<1> QED
  BY <1>13, <1>14, SMT

-----------------------------------------------------------------------------
(* The file, with the attributes of its key left open                      *)

KeyValue == Marshal(160, ShroudedKey)
IdBody == OidLocalKeyId \o Marshal(49, KeyId)
IdAttr == Marshal(48, IdBody)
NameBody == OidFriendlyName \o Marshal(49, Marshal(30, Alias))
NameAttr == Marshal(48, NameBody)
BagBody(attrs) == OidKeyBag \o KeyValue \o Marshal(49, attrs)
Bag(attrs) == Value(48, BagBody(attrs), <<>>)
Bags(attrs) == Marshal(48, Marshal(48, BagBody(attrs)))
DataBody(attrs) == OidData \o Marshal(160, Marshal(4, Bags(attrs)))
CertBody(n) == OidEncryptedData \o Marshal(160, Certs(n))
Both(n, attrs) == Marshal(48, CertBody(n)) \o Marshal(48, DataBody(attrs))
Inner(n, attrs) == Marshal(48, Both(n, attrs))
File(n, attrs) == [content |-> Marshal(160, Marshal(4, Inner(n, attrs))), maced |-> Inner(n, attrs)]

\* A value is at most six bytes longer than its body.
Grown(tag, body) ==
    Marshal(tag, body) \in DER /\ Size(Marshal(tag, body)) \in Size(body) .. Size(body) + 6
LEMMA Grows == ASSUME NEW tag, NEW body, Fits(tag, body) PROVE Grown(tag, body)
<1>1. tag \in Byte /\ body \in DER /\ Size(body) < Ceiling /\ <<>> \in DER
  BY EmptySeq DEF Fits, DER
<1>2. /\ Marshal(tag, body) \in DER
      /\ Size(Marshal(tag, body)) = 2 + Long(Size(body)) + Size(body)
      /\ Long(Size(body)) \in 0 .. 4
  BY <1>1, ReadMarshal
<1>3. Size(body) \in Nat
  BY <1>1, SizeIsNat
<1> QED
  BY <1>2, <1>3 DEF Grown

\* A run before a body.
LEMMA Tagged ==
    ASSUME NEW id \in Int, NEW n \in Nat \ {0}, NEW d \in DER
    PROVE  /\ Run(id, n) \o d \in DER /\ Size(Run(id, n) \o d) = n + Size(d)
           /\ Head(Run(id, n) \o d) = [v |-> id, n |-> n] /\ Tail(Run(id, n) \o d) = d
<1>1. Run(id, n) \in DER /\ Len(Run(id, n)) = 1 /\ Size(Run(id, n)) = n
  BY RunShape
<1>2. Run(id, n)[1] = [v |-> id, n |-> n]
  BY DEF Run
<1> QED
  BY <1>1, <1>2, SizeConcat, HeadAndTail

Sized(d, least, most) == d \in DER /\ Size(d) \in least .. most

LEMMA Wrapped ==
    ASSUME NEW tag \in Byte, NEW d, NEW least \in Nat, NEW most \in Nat, Sized(d, least, most),
           most < Ceiling
    PROVE  Fits(tag, d) /\ Sized(Marshal(tag, d), least, most + 6)
<1>1. Fits(tag, d)
  BY SMT DEF Sized, Fits, Ceiling
<1>2. Grown(tag, d)
  BY <1>1, Grows
<1>3. Size(d) \in Nat /\ Size(d) <= most /\ Size(d) >= least
  BY SMT DEF Sized
<1>4. Marshal(tag, d) \in DER /\ Size(Marshal(tag, d)) >= Size(d) /\ Size(Marshal(tag, d)) <= Size(d) + 6
      /\ Size(Marshal(tag, d)) \in Nat
  BY <1>2, <1>3, SMT DEF Grown
<1>5. Sized(Marshal(tag, d), least, most + 6)
  BY <1>3, <1>4, SMT DEF Sized
<1> QED
  BY <1>1, <1>5, SMT

LEMMA RunSized == ASSUME NEW id \in Int, NEW n \in Nat \ {0} PROVE Sized(Run(id, n), n, n)
BY RunShape DEF Sized

LEMMA TagSized ==
    ASSUME NEW id \in Int, NEW n \in Nat \ {0}, NEW d, NEW least \in Nat, NEW most \in Nat,
           Sized(d, least, most)
    PROVE  Sized(Run(id, n) \o d, n + least, n + most)
<1>1. d \in DER /\ Size(d) \in least .. most
  BY DEF Sized
<1>2. Run(id, n) \o d \in DER /\ Size(Run(id, n) \o d) = n + Size(d)
  BY <1>1, Tagged
<1> QED
  BY <1>1, <1>2 DEF Sized

LEMMA ConcatSized ==
    ASSUME NEW s, NEW t, NEW l1 \in Nat, NEW m1 \in Nat, NEW l2 \in Nat, NEW m2 \in Nat,
           Sized(s, l1, m1), Sized(t, l2, m2)
    PROVE  Sized(s \o t, l1 + l2, m1 + m2)
<1>1. s \in DER /\ Size(s) \in l1 .. m1 /\ t \in DER /\ Size(t) \in l2 .. m2
  BY DEF Sized
<1>2. s \o t \in DER /\ Size(s \o t) = Size(s) + Size(t)
  BY <1>1, SizeConcat
<1> QED
  BY <1>1, <1>2 DEF Sized

\* What a part of the file measures.
LEMMA AttributeSizes ==
    /\ Fits(160, ShroudedKey) /\ Sized(KeyValue, 0, 1276)
    /\ Fits(48, IdBody) /\ Sized(IdAttr, 0, 45)
    /\ Fits(49, Alias) /\ Fits(30, Alias) /\ Fits(49, Marshal(30, Alias))
    /\ Fits(48, NameBody) /\ Sized(NameAttr, 0, 43)
    /\ Fits(49, KeyId)
<1>1. 48 \in Byte /\ 49 \in Byte /\ 30 \in Byte /\ 160 \in Byte
  BY DEF Byte
<1>2. /\ 28 < Ceiling /\ 1270 < Ceiling /\ 22 < Ceiling /\ 39 < Ceiling
      /\ 14 < Ceiling /\ 20 < Ceiling /\ 37 < Ceiling
  BY SMT DEF Ceiling
<1>3. Sized(ShroudedKey, 0, 1270) /\ Sized(KeyId, 0, 22) /\ Sized(Alias, 0, 14)
  <2>1. Sized(ShroudedKey, 1270, 1270) /\ Sized(KeyId, 22, 22) /\ Sized(Alias, 14, 14)
    BY RunSized DEF ShroudedKey, KeyId, Alias
  <2> QED
    BY <2>1 DEF Sized
<1>4. Fits(160, ShroudedKey) /\ Sized(KeyValue, 0, 1276)
  <2>1. Fits(160, ShroudedKey) /\ Sized(Marshal(160, ShroudedKey), 0, 1270 + 6)
    BY <1>1, <1>2, <1>3, Wrapped
  <2> QED
    BY <2>1 DEF KeyValue
<1>5. Fits(48, IdBody) /\ Sized(IdAttr, 0, 45) /\ Fits(49, KeyId)
  <2>1. Fits(49, KeyId) /\ Sized(Marshal(49, KeyId), 0, 22 + 6)
    BY <1>1, <1>2, <1>3, Wrapped
  <2>2. Sized(IdBody, 11 + 0, 11 + 28)
    BY <2>1, TagSized DEF IdBody, OidLocalKeyId
  <2>3. Sized(IdBody, 0, 39)
    BY <2>2 DEF Sized
  <2>4. Fits(48, IdBody) /\ Sized(Marshal(48, IdBody), 0, 39 + 6)
    BY <1>1, <1>2, <2>3, Wrapped
  <2> QED
    BY <2>1, <2>4 DEF IdAttr
<1>6. Fits(30, Alias) /\ Fits(49, Alias) /\ Sized(Marshal(30, Alias), 0, 20)
  <2>1. Fits(30, Alias) /\ Fits(49, Alias) /\ Sized(Marshal(30, Alias), 0, 14 + 6)
    BY <1>1, <1>2, <1>3, Wrapped
  <2> QED
    BY <2>1
<1>7. Fits(49, Marshal(30, Alias)) /\ Sized(Marshal(49, Marshal(30, Alias)), 0, 26)
  <2>1. Fits(49, Marshal(30, Alias)) /\ Sized(Marshal(49, Marshal(30, Alias)), 0, 20 + 6)
    BY <1>1, <1>2, <1>6, Wrapped, ZenonT(40)
  <2> QED
    BY <2>1
<1>8. Fits(48, NameBody) /\ Sized(NameAttr, 0, 43)
  <2>1. Sized(NameBody, 11 + 0, 11 + 26)
    BY <1>7, TagSized DEF NameBody, OidFriendlyName
  <2>2. Sized(NameBody, 0, 37)
    BY <2>1 DEF Sized
  <2>3. Fits(48, NameBody) /\ Sized(Marshal(48, NameBody), 0, 37 + 6)
    BY <1>1, <1>2, <2>2, Wrapped
  <2> QED
    BY <2>3 DEF NameAttr
<1> QED
  BY <1>4, <1>5, <1>6, <1>7, <1>8

AtSized(attrs) == Sized(attrs, 0, 100)

LEMMA BagSizes ==
    ASSUME NEW attrs, AtSized(attrs)
    PROVE  /\ Fits(49, attrs) /\ Fits(48, BagBody(attrs)) /\ Fits(48, Marshal(48, BagBody(attrs)))
           /\ Fits(4, Bags(attrs)) /\ Size(Bags(attrs)) < Few
           /\ Fits(160, Marshal(4, Bags(attrs))) /\ Fits(48, DataBody(attrs))
           /\ Sized(Marshal(48, DataBody(attrs)), 0, 1460)
<1>1. 48 \in Byte /\ 49 \in Byte /\ 4 \in Byte /\ 160 \in Byte
  BY DEF Byte
<1>2. /\ 100 < Ceiling /\ 1395 < Ceiling /\ 1401 < Ceiling /\ 1407 < Ceiling /\ 1413 < Ceiling
      /\ 1430 < Ceiling
  BY SMT DEF Ceiling
<1>3. Fits(49, attrs) /\ Sized(Marshal(49, attrs), 0, 100 + 6)
  BY <1>1, <1>2, Wrapped DEF AtSized
<1>4. Sized(BagBody(attrs), 0, 1395)
  <2>1. Sized(OidKeyBag, 13, 13)
    BY RunSized DEF OidKeyBag
  <2>2. Sized(OidKeyBag \o KeyValue, 13 + 0, 13 + 1276)
    BY <2>1, AttributeSizes, ConcatSized
  <2>3. Sized(BagBody(attrs), 13 + 0, 1289 + 106)
    BY <1>3, <2>2, ConcatSized DEF BagBody
  <2> QED
    BY <2>3 DEF Sized
<1>5. Fits(48, BagBody(attrs)) /\ Sized(Marshal(48, BagBody(attrs)), 0, 1395 + 6)
  BY <1>1, <1>2, <1>4, Wrapped
<1>6. Fits(48, Marshal(48, BagBody(attrs))) /\ Sized(Bags(attrs), 0, 1401 + 6)
  <2>1. Sized(Marshal(48, BagBody(attrs)), 0, 1401)
    BY <1>5
  <2>2. /\ Fits(48, Marshal(48, BagBody(attrs)))
        /\ Sized(Marshal(48, Marshal(48, BagBody(attrs))), 0, 1401 + 6)
    BY <1>1, <1>2, <2>1, Wrapped
  <2> QED
    BY <2>2 DEF Bags
<1>7. Size(Bags(attrs)) < Few
  BY <1>6, SMT DEF Sized, Few
<1>8. Fits(4, Bags(attrs)) /\ Sized(Marshal(4, Bags(attrs)), 0, 1413)
  <2>1. Sized(Bags(attrs), 0, 1407)
    BY <1>6
  <2>2. Fits(4, Bags(attrs)) /\ Sized(Marshal(4, Bags(attrs)), 0, 1407 + 6)
    BY <1>1, <1>2, <2>1, Wrapped
  <2> QED
    BY <2>2
<1>9. Fits(160, Marshal(4, Bags(attrs))) /\ Sized(Marshal(160, Marshal(4, Bags(attrs))), 0, 1413 + 6)
  <2>1. Sized(Marshal(4, Bags(attrs)), 0, 1413)
    BY <1>8
  <2>2. 160 \in Byte /\ 1413 < Ceiling /\ 0 \in Nat /\ 1413 \in Nat
    BY <1>1, <1>2
  <2> QED
    BY ONLY <2>1, <2>2, Wrapped
<1>10. Sized(DataBody(attrs), 0, 1430)
  <2>1. Sized(DataBody(attrs), 11 + 0, 11 + 1419)
    BY <1>9, TagSized DEF DataBody, OidData
  <2> QED
    BY <2>1 DEF Sized
<1>11. Fits(48, DataBody(attrs)) /\ Sized(Marshal(48, DataBody(attrs)), 0, 1430 + 6)
  BY <1>1, <1>2, <1>10, Wrapped
<1>12. Sized(Marshal(48, DataBody(attrs)), 0, 1460)
  BY <1>11 DEF Sized
<1> QED
  BY <1>3, <1>5, <1>6, <1>7, <1>8, <1>9, <1>11, <1>12

\* A name is at most the bytes that a form may have, in five fields and twice.
NameSize(n) == n \in 0 .. MostBytes
LEMMA NameSizes == \A n : NameSize(n) <=> n \in Nat /\ n <= MostBytes
<1>1. MostBytes \in Nat
  BY SMT DEF MostBytes
<1> QED
  BY <1>1 DEF NameSize

LEMMA FileSizes ==
    ASSUME NEW n, NameSize(n), NEW attrs, AtSized(attrs)
    PROVE  /\ Fits(160, Certs(n)) /\ Fits(48, CertBody(n)) /\ Fits(48, Both(n, attrs))
           /\ Fits(4, Inner(n, attrs)) /\ Fits(160, Marshal(4, Inner(n, attrs)))
           /\ Size(Marshal(4, Inner(n, attrs))) >= Limit => n > Megabytes
<1>1. 48 \in Byte /\ 4 \in Byte /\ 160 \in Byte
  BY DEF Byte
<1> DEFINE c == 901 + n
<1>2. c \in Nat /\ c + 3000 < Ceiling /\ n = c - 901
  <2>1. n \in Nat /\ n <= MostBytes
    BY NameSizes
  <2> QED
    BY <2>1, SMT DEF Ceiling, MostBytes
<1> HIDE DEF c
<1>3. Sized(Certs(n), c, c)
  <2>1. c \in Nat \ {0} /\ Certs(n) = Run(-6, c)
    BY <1>2, NameSizes, SMT DEF Certs, c
  <2> QED
    BY <2>1, RunSized
<1>4. Fits(160, Certs(n)) /\ Sized(Marshal(160, Certs(n)), c, c + 6)
  <2>1. c < Ceiling
    BY <1>2, SMT DEF Ceiling
  <2> QED
    BY <1>1, <1>2, <1>3, <2>1, Wrapped
<1>5. Sized(CertBody(n), 11 + c, 11 + (c + 6))
  <2>1. c + 6 \in Nat
    BY <1>2
  <2> QED
    BY <1>2, <1>4, <2>1, TagSized DEF CertBody, OidEncryptedData
<1>6. Fits(48, CertBody(n)) /\ Sized(Marshal(48, CertBody(n)), 11 + c, (11 + (c + 6)) + 6)
  <2>1. 11 + c \in Nat /\ 11 + (c + 6) \in Nat /\ 11 + (c + 6) < Ceiling
    BY <1>2, SMT DEF Ceiling
  <2> QED
    BY <1>1, <1>5, <2>1, Wrapped
<1>7. Sized(Both(n, attrs), 0, c + 1500)
  <2>1. 11 + c \in Nat /\ (11 + (c + 6)) + 6 \in Nat
    BY <1>2, SMT
  <2>2. Sized(Both(n, attrs), (11 + c) + 0, ((11 + (c + 6)) + 6) + 1460)
    BY <1>6, <2>1, BagSizes, ConcatSized DEF Both
  <2> QED
    BY <1>2, <2>2, SMT DEF Sized
<1>8. Fits(48, Both(n, attrs)) /\ Sized(Inner(n, attrs), 0, (c + 1500) + 6)
  <2>1. c + 1500 \in Nat /\ c + 1500 < Ceiling
    BY <1>2, SMT DEF Ceiling
  <2> QED
    BY <1>1, <1>7, <2>1, Wrapped DEF Inner
<1>9. Fits(4, Inner(n, attrs)) /\ Sized(Marshal(4, Inner(n, attrs)), 0, ((c + 1500) + 6) + 6)
  <2>1. (c + 1500) + 6 \in Nat /\ (c + 1500) + 6 < Ceiling
    BY <1>2, SMT DEF Ceiling
  <2> QED
    BY <1>1, <1>8, <2>1, Wrapped
<1>10. Fits(160, Marshal(4, Inner(n, attrs)))
  <2>1. ((c + 1500) + 6) + 6 \in Nat /\ ((c + 1500) + 6) + 6 < Ceiling
    BY <1>2, SMT DEF Ceiling
  <2> QED
    BY <1>1, <1>9, <2>1, Wrapped
<1>11. Size(Marshal(4, Inner(n, attrs))) >= Limit => n > Megabytes
  BY <1>2, <1>9, SMT DEF Sized, Limit, Megabytes
<1> QED
  BY <1>4, <1>6, <1>8, <1>9, <1>10, <1>11, SMT

-----------------------------------------------------------------------------
(* The file, taken apart                                                   *)

ReadsBack(tag, body) ==
    /\ Marshal(tag, body) \in DER
    /\ Read(Marshal(tag, body)).body = body /\ Read(Marshal(tag, body)).full = Marshal(tag, body)
LEMMA ReadBack == ASSUME NEW tag, NEW body, Fits(tag, body) PROVE ReadsBack(tag, body)
<1> DEFINE m == Marshal(tag, body)
<1>1. tag \in Byte /\ body \in DER /\ Size(body) < Ceiling /\ <<>> \in DER
  BY EmptySeq DEF Fits, DER
<1>2. m \in DER /\ Read(m \o <<>>) = Value(tag, body, <<>>)
  BY <1>1, ReadMarshal
<1>3. Value(tag, body, <<>>).body = body /\ Value(tag, body, <<>>).full = m
  BY DEF Value
<1> HIDE DEF m
<1>4. m \o <<>> = m
  BY <1>2, ConcatEmptySeq DEF DER
<1> QED
  BY <1>2, <1>3, <1>4 DEF ReadsBack, m

LEMMA InDER == ASSUME NEW tag, NEW body, Fits(tag, body) PROVE body \in DER /\ Marshal(tag, body) \in DER
BY ReadBack DEF ReadsBack, Fits

\* A bag's key and attributes.
LEMMA BagRead ==
    ASSUME NEW attrs, AtSized(attrs)
    PROVE  /\ Head(BagBody(attrs)) = OidKeyBag[1]
           /\ Split(Tail(BagBody(attrs))) =
                <<Value(160, ShroudedKey, Marshal(49, attrs)), Value(49, attrs, <<>>)>>
           /\ Attributes(Bag(attrs)) = Split(attrs)
<1> DEFINE k == KeyValue
           a == Marshal(49, attrs)
<1>1. Fits(160, ShroudedKey) /\ Fits(49, attrs)
  BY AttributeSizes, BagSizes
<1>2. k \in DER /\ a \in DER
  BY <1>1, InDER DEF KeyValue
<1>3. OidKeyBag \in DER /\ Len(OidKeyBag) = 1
  BY RunShape DEF OidKeyBag
<1>4. BagBody(attrs) = OidKeyBag \o (k \o a) /\ k \o a \in DER
  <2>1. BagBody(attrs) = (OidKeyBag \o k) \o a
    BY DEF BagBody
  <2> HIDE DEF k, a
  <2> QED
    BY <1>2, <1>3, <2>1, ConcatAssociative, ConcatProperties DEF DER
<1>5. Head(BagBody(attrs)) = OidKeyBag[1] /\ Tail(BagBody(attrs)) = k \o a
  <2> HIDE DEF k, a
  <2> QED
    BY <1>3, <1>4, HeadAndTail
<1>6. Split(k \o a) = <<Value(160, ShroudedKey, a), Value(49, attrs, <<>>)>>
  BY <1>1, SplitTwo DEF KeyValue
<1>7. Bag(attrs).body = BagBody(attrs) /\ Value(49, attrs, <<>>).body = attrs
  BY DEF Bag, Value
<1>8. Split(Tail(Bag(attrs).body))[2].body = attrs
  <2> DEFINE u == Value(160, ShroudedKey, a)
             w == Value(49, attrs, <<>>)
  <2>1. Tail(Bag(attrs).body) = k \o a
    BY <1>5, <1>7, Zenon
  <2>2. <<u, w>>[2] = w
    OBVIOUS
  <2>3. Split(k \o a) = <<u, w>> /\ w.body = attrs
    BY <1>6, <1>7
  <2> HIDE DEF k, a, u, w
  <2> QED
    BY <2>1, <2>2, <2>3, Zenon
<1> HIDE DEF k, a
<1> QED
  BY <1>5, <1>6, <1>8 DEF a, Attributes

LEMMA ContentsRead ==
    ASSUME NEW n, NameSize(n), NEW attrs, AtSized(attrs), NEW p12, p12.content = File(n, attrs).content
    PROVE  Contents(p12) = <<Value(48, CertBody(n), Marshal(48, DataBody(attrs))),
                             Value(48, DataBody(attrs), <<>>)>>
<1>1. p12.content = Marshal(160, Marshal(4, Inner(n, attrs)))
  BY DEF File
<1>2. Read(p12.content).body = Marshal(4, Inner(n, attrs))
  BY <1>1, FileSizes, ReadBack DEF ReadsBack
<1>3. Read(Marshal(4, Inner(n, attrs))).body = Inner(n, attrs)
  BY FileSizes, ReadBack DEF ReadsBack
<1>4. Read(Inner(n, attrs)).body = Both(n, attrs)
  BY FileSizes, ReadBack DEF ReadsBack, Inner
<1>5. Split(Both(n, attrs)) = <<Value(48, CertBody(n), Marshal(48, DataBody(attrs))),
                             Value(48, DataBody(attrs), <<>>)>>
  BY FileSizes, BagSizes, SplitTwo DEF Both
<1> QED
  BY <1>2, <1>3, <1>4, <1>5 DEF Contents

LEMMA PartsRead ==
    ASSUME NEW n, NameSize(n), NEW attrs, AtSized(attrs), NEW r
    PROVE  /\ ~IsData(Value(48, CertBody(n), r)) /\ IsData(Value(48, DataBody(attrs), r))
           /\ Read(Tail(CertBody(n))).body = Certs(n)
           /\ BagsOf(Value(48, DataBody(attrs), r)) = <<Bag(attrs)>>
<1>1. Fits(160, Certs(n)) /\ Fits(160, Marshal(4, Bags(attrs))) /\ Fits(4, Bags(attrs))
      /\ Fits(48, Marshal(48, BagBody(attrs))) /\ Fits(48, BagBody(attrs))
  BY FileSizes, BagSizes
<1>2. Marshal(160, Certs(n)) \in DER /\ Marshal(160, Marshal(4, Bags(attrs))) \in DER
  BY <1>1, InDER
<1>3. /\ Head(CertBody(n)) = [v |-> -2, n |-> 11] /\ Tail(CertBody(n)) = Marshal(160, Certs(n))
      /\ Head(DataBody(attrs)) = [v |-> -1, n |-> 11]
      /\ Tail(DataBody(attrs)) = Marshal(160, Marshal(4, Bags(attrs)))
  <2>1. \A id \in Int : \A d \in DER :
            Head(Run(id, 11) \o d) = [v |-> id, n |-> 11] /\ Tail(Run(id, 11) \o d) = d
    <3>1. 11 \in Nat \ {0}
      OBVIOUS
    <3> QED
      BY <3>1, Tagged
  <2>2. CertBody(n) = Run(-2, 11) \o Marshal(160, Certs(n))
    BY DEF CertBody, OidEncryptedData
  <2>3. DataBody(attrs) = Run(-1, 11) \o Marshal(160, Marshal(4, Bags(attrs)))
    BY DEF DataBody, OidData
  <2> DEFINE c == Marshal(160, Certs(n))
             m == Marshal(160, Marshal(4, Bags(attrs)))
             i == -2
             j == -1
  <2>4. i \in Int /\ j \in Int /\ c \in DER /\ m \in DER
    BY <1>2
  <2>5. CertBody(n) = Run(i, 11) \o c /\ DataBody(attrs) = Run(j, 11) \o m
    BY <2>2, <2>3
  <2> HIDE DEF c, m, i, j
  <2>6. /\ Head(CertBody(n)) = [v |-> i, n |-> 11] /\ Tail(CertBody(n)) = c
        /\ Head(DataBody(attrs)) = [v |-> j, n |-> 11] /\ Tail(DataBody(attrs)) = m
    BY <2>1, <2>4, <2>5, Zenon
  <2> QED
    BY <2>6 DEF c, m, i, j
<1>4. OidData[1] = [v |-> -1, n |-> 11]
  BY DEF OidData, Run
<1>5. /\ Value(48, CertBody(n), r).tag = 48 /\ Value(48, CertBody(n), r).body = CertBody(n)
      /\ Value(48, DataBody(attrs), r).tag = 48 /\ Value(48, DataBody(attrs), r).body = DataBody(attrs)
  BY DEF Value
<1>6. ~IsData(Value(48, CertBody(n), r)) /\ IsData(Value(48, DataBody(attrs), r))
  BY <1>3, <1>4, <1>5 DEF IsData
<1>7. Read(Tail(CertBody(n))).body = Certs(n)
  <2>1. Read(Marshal(160, Certs(n))).body = Certs(n)
    BY <1>1, ReadBack DEF ReadsBack
  <2> QED
    BY <1>3, <2>1
<1>8. Read(Tail(DataBody(attrs))).body = Marshal(4, Bags(attrs))
  <2>1. Read(Marshal(160, Marshal(4, Bags(attrs)))).body = Marshal(4, Bags(attrs))
    BY <1>1, ReadBack DEF ReadsBack
  <2> QED
    BY <1>3, <2>1
<1>9. Read(Marshal(4, Bags(attrs))).body = Bags(attrs)
  BY <1>1, ReadBack DEF ReadsBack
<1>10. Read(Bags(attrs)).body = Marshal(48, BagBody(attrs))
  BY <1>1, ReadBack DEF ReadsBack, Bags
<1>11. Split(Marshal(48, BagBody(attrs))) = <<Bag(attrs)>>
  BY <1>1, SplitOne DEF Bag
<1>12. BagsOf(Value(48, DataBody(attrs), r)) = <<Bag(attrs)>>
  BY <1>5, <1>8, <1>9, <1>10, <1>11 DEF BagsOf
<1> QED
  BY <1>6, <1>7, <1>12

-----------------------------------------------------------------------------
(* The key, named                                                          *)

NamedAttrs == NameAttr \o IdAttr

LEMMA AttributesSized == AtSized(IdAttr) /\ AtSized(NamedAttrs)
<1>1. AtSized(IdAttr)
  BY AttributeSizes DEF AtSized, Sized
<1>2. Sized(NamedAttrs, 0 + 0, 43 + 45)
  BY AttributeSizes, ConcatSized DEF NamedAttrs
<1> QED
  BY <1>1, <1>2 DEF AtSized, Sized

LEMMA AttributesRead ==
    /\ Attributes(Bag(IdAttr)) = <<Value(48, IdBody, <<>>)>>
    /\ Attributes(Bag(NamedAttrs)) = <<Value(48, NameBody, IdAttr), Value(48, IdBody, <<>>)>>
<1>1. Split(IdAttr) = <<Value(48, IdBody, <<>>)>>
  BY AttributeSizes, SplitOne DEF IdAttr
<1>2. Split(NamedAttrs) = <<Value(48, NameBody, IdAttr), Value(48, IdBody, <<>>)>>
  BY AttributeSizes, SplitTwo DEF NamedAttrs, NameAttr, IdAttr
<1> QED
  BY <1>1, <1>2, AttributesSized, BagRead

LEMMA AttributeHeads ==
    /\ Head(IdBody) = OidLocalKeyId[1] /\ Head(NameBody) = OidFriendlyName[1]
    /\ OidLocalKeyId[1] # OidFriendlyName[1]
<1>1. Marshal(49, KeyId) \in DER /\ Marshal(49, Marshal(30, Alias)) \in DER
  BY AttributeSizes, InDER
<1>2. /\ OidLocalKeyId \in DER /\ Len(OidLocalKeyId) = 1
      /\ OidFriendlyName \in DER /\ Len(OidFriendlyName) = 1
  BY RunShape DEF OidLocalKeyId, OidFriendlyName
<1>3. OidLocalKeyId[1] # OidFriendlyName[1]
  BY DEF OidLocalKeyId, OidFriendlyName, Run
<1>4. Head(IdBody) = OidLocalKeyId[1]
  <2> DEFINE m == Marshal(49, KeyId)
  <2>1. IdBody = OidLocalKeyId \o m /\ m \in DER
    BY <1>1 DEF IdBody
  <2> HIDE DEF m
  <2> QED
    BY <1>2, <2>1, HeadAndTail
<1>5. Head(NameBody) = OidFriendlyName[1]
  <2> DEFINE m == Marshal(49, Marshal(30, Alias))
  <2>1. NameBody = OidFriendlyName \o m /\ m \in DER
    BY <1>1 DEF NameBody
  <2> HIDE DEF m
  <2> QED
    BY <1>2, <2>1, HeadAndTail
<1> QED
  BY <1>3, <1>4, <1>5

\* The members of short sequences.
LEMMA MembersOfOne == ASSUME NEW a PROVE ToSet(<<a>>) = {a}
BY DEF ToSet
LEMMA MembersOfTwo == ASSUME NEW a, NEW b PROVE ToSet(<<a, b>>) = {a, b}
<1> DEFINE s == <<a, b>>
<1>1. DOMAIN s = {1, 2} /\ s[1] = a /\ s[2] = b
  OBVIOUS
<1> HIDE DEF s
<1>2. ToSet(s) = {a, b}
  BY <1>1, Zenon DEF ToSet
<1> QED
  BY <1>2 DEF s

\* A key needs a name until it has one.
LEMMA Needs ==
    /\ NeedsName(Bag(IdAttr)) /\ ~NeedsName(Bag(NamedAttrs))
    /\ hasAttr(Bag(NamedAttrs), OidLocalKeyId)
<1> DEFINE i == Value(48, IdBody, <<>>)
           f == Value(48, NameBody, IdAttr)
<1>1. i.body = IdBody /\ f.body = NameBody
  BY DEF Value
<1>2. ToSet(Attributes(Bag(IdAttr))) = {i} /\ ToSet(Attributes(Bag(NamedAttrs))) = {f, i}
  BY AttributesRead, MembersOfOne, MembersOfTwo
<1> HIDE DEF i, f
<1>3. /\ ~hasAttr(Bag(IdAttr), OidFriendlyName) /\ hasAttr(Bag(NamedAttrs), OidFriendlyName)
      /\ hasAttr(Bag(NamedAttrs), OidLocalKeyId)
  BY <1>1, <1>2, AttributeHeads, Zenon DEF hasAttr
<1>4. /\ Bag(IdAttr).body = BagBody(IdAttr) /\ Head(BagBody(IdAttr)) = OidKeyBag[1]
  BY AttributesSized, BagRead DEF Bag, Value
<1> QED
  BY <1>3, <1>4, Zenon DEF NeedsName

LEMMA FriendlyName == friendlyNameAttr = NameAttr
<1>1. Front(Alias \o Nul) = Alias
  <2>1. Alias \in DER /\ Len(Alias) = 1 /\ Nul \in DER /\ Len(Nul) = 1
    BY RunShape DEF Alias, Nul
  <2>2. Len(Alias \o Nul) = Len(Alias) + Len(Nul) /\ SubSeq(Alias \o Nul, 1, Len(Alias)) = Alias
    BY <2>1, Cut
  <2>3. Len(Alias \o Nul) - 1 = Len(Alias)
    BY <2>1, <2>2
  <2> QED
    BY <2>2, <2>3, Zenon DEF Front
<1> QED
  BY <1>1, Zenon DEF friendlyNameAttr, bmpStringZeroTerm, NameAttr, NameBody

LEMMA BagNamed == WithName(Bag(IdAttr)) = Marshal(48, BagBody(NamedAttrs))
<1> DEFINE i == Value(48, IdBody, <<>>)
           b == Bag(IdAttr)
           k == Value(160, ShroudedKey, Marshal(49, IdAttr))
           s == Value(49, IdAttr, <<>>)
<1>1. i.full = IdAttr /\ b.body = BagBody(IdAttr) /\ k.full = KeyValue
  BY DEF Value, IdAttr, Bag, KeyValue
<1>2. Fulls(Attributes(b)) = IdAttr
  <2>1. Attributes(b) = <<i>>
    BY AttributesRead
  <2>2. Fulls(<<i>>) = FlattenSeq(<<i.full>>)
    <3> HIDE DEF i
    <3>1. [x \in DOMAIN <<i>> |-> <<i>>[x].full] = <<i.full>>
      OBVIOUS
    <3> QED
      BY <3>1, Zenon DEF Fulls
  <2> HIDE DEF i, b
  <2> QED
    BY <1>1, <2>1, <2>2, FlattenOne, Zenon
<1>3. Split(Tail(b.body))[1].full = KeyValue
  <2>1. Split(Tail(b.body)) = <<k, s>>
    BY <1>1, AttributesSized, BagRead
  <2>2. <<k, s>>[1] = k
    OBVIOUS
  <2> HIDE DEF b, k, s
  <2> QED
    BY <1>1, <2>1, <2>2, Zenon
<1>4. WithName(b) = Marshal(48, OidKeyBag \o Split(Tail(b.body))[1].full
                     \o Marshal(49, friendlyNameAttr \o Fulls(Attributes(b))))
  <2> HIDE DEF b
  <2>1. NeedsName(b)
    BY Needs DEF b
  <2> QED
    BY <2>1, Zenon DEF WithName
<1> HIDE DEF b
<1> QED
  BY <1>2, <1>3, <1>4, FriendlyName, Zenon DEF b, BagBody, NamedAttrs

\* A function over the places of a short sequence is a short sequence.
LEMMA Places ==
    ASSUME NEW a, NEW b
    PROVE  DOMAIN <<a, b>> = {1, 2} /\ <<a, b>>[1] = a /\ <<a, b>>[2] = b
OBVIOUS

\* The parts in need of a name: the second one, until it is named.
LEMMA Unnamed ==
    ASSUME NEW n, NameSize(n), NEW attrs, AtSized(attrs)
    PROVE  /\ NeedsName(Bag(attrs)) => Hits(Contents(File(n, attrs))) = {2}
           /\ ~NeedsName(Bag(attrs)) => Hits(Contents(File(n, attrs))) = {}
<1> DEFINE u == Value(48, CertBody(n), Marshal(48, DataBody(attrs)))
           w == Value(48, DataBody(attrs), <<>>)
           cs == Contents(File(n, attrs))
<1>1. cs = <<u, w>>
  BY ContentsRead
<1>2. DOMAIN <<u, w>> = {1, 2} /\ <<u, w>>[1] = u /\ <<u, w>>[2] = w
  BY Places
<1>3. ~IsData(u) /\ IsData(w) /\ BagsOf(w) = <<Bag(attrs)>>
  BY PartsRead
<1>4. ToSet(BagsOf(w)) = {Bag(attrs)}
  BY <1>3, MembersOfOne
<1> HIDE DEF u, w, cs
<1>5. DOMAIN cs = {1, 2} /\ cs[1] = u /\ cs[2] = w
  BY <1>1, <1>2
<1>6. ASSUME NEW i
      PROVE  (i \in DOMAIN cs /\ IsData(cs[i]) /\ \E b \in ToSet(BagsOf(cs[i])) : NeedsName(b))
                <=> i = 2 /\ NeedsName(Bag(attrs))
  BY <1>3, <1>4, <1>5, Zenon
<1>7. /\ NeedsName(Bag(attrs)) => Hits(cs) = {2}
      /\ ~NeedsName(Bag(attrs)) => Hits(cs) = {}
  BY <1>6, Zenon DEF Hits
<1> QED
  BY <1>7 DEF cs

\* What is done to the part that has one.
LEMMA PartNamed ==
    ASSUME NEW r
    PROVE  Named(Value(48, DataBody(IdAttr), r)) = Marshal(48, DataBody(NamedAttrs))
<1> DEFINE ci == Value(48, DataBody(IdAttr), r)
           b == Bag(IdAttr)
           m == Marshal(48, BagBody(NamedAttrs))
<1>1. BagsOf(ci) = <<b>>
  <2>1. NameSize(0)
    BY NameSizes, SMT DEF MostBytes
  <2> QED
    BY <2>1, PartsRead, AttributesSized
<1>2. WithName(b) = m
  BY BagNamed
<1>3. [j \in DOMAIN <<b>> |-> WithName(<<b>>[j])] = <<WithName(b)>>
  <2> HIDE DEF b
  <2> QED
    OBVIOUS
<1>4. FlattenSeq([j \in DOMAIN BagsOf(ci) |-> WithName(BagsOf(ci)[j])]) = m
  <2> HIDE DEF b, ci, m
  <2> QED
    BY <1>1, <1>2, <1>3, FlattenOne, Zenon
<1>5. Named(ci) = buildDataContentInfo(Marshal(48, m))
  <2> HIDE DEF ci, m
  <2> QED
    BY <1>4, Zenon DEF Named
<1>6. Marshal(48, m) = Bags(NamedAttrs)
  BY DEF Bags
<1>7. Bags(NamedAttrs) \in DER /\ Size(Bags(NamedAttrs)) < Few
  BY AttributesSized, BagSizes DEF Fits
<1>8. buildDataContentInfo(Bags(NamedAttrs)) = Marshal(48, DataBody(NamedAttrs))
  BY <1>7, BuildData DEF DataBody
<1> HIDE DEF ci, m
<1> QED
  BY <1>5, <1>6, <1>8 DEF ci

LEMMA FileNamed ==
    ASSUME NEW n, NameSize(n)
    PROVE  withKeyBagFriendlyName(File(n, IdAttr)) =
             [content |-> wrapTLV(160, Marshal(4, Inner(n, NamedAttrs))), maced |-> Inner(n, NamedAttrs)]
<1> DEFINE p12 == File(n, IdAttr)
           u == Value(48, CertBody(n), Marshal(48, DataBody(IdAttr)))
           w == Value(48, DataBody(IdAttr), <<>>)
           cs == <<u, w>>
           t == Marshal(48, DataBody(NamedAttrs))
           f == [i \in DOMAIN cs |-> IF i = 2 THEN Named(cs[i]) ELSE cs[i].full]
<1>1. Hits(Contents(p12)) = {2}
  BY Unnamed, AttributesSized, Needs
<1>2. Contents(p12) = cs
  BY ContentsRead, AttributesSized
<1>3. u.full = Marshal(48, CertBody(n)) /\ Named(w) = t
  BY PartNamed DEF Value
<1>4. f = <<u.full, t>>
  <2> HIDE DEF u, w, t
  <2>1. cs[1] = u /\ cs[2] = w /\ DOMAIN cs = 1 .. 2
    OBVIOUS
  <2>2. DOMAIN f = 1 .. 2 /\ f[1] = u.full /\ f[2] = t
    <3> HIDE DEF cs
    <3> QED
      BY <1>3, <2>1
  <2>3. f = [i \in 1 .. 2 |-> f[i]]
    BY <2>1
  <2> HIDE DEF f
  <2> QED
    BY <2>2, <2>3
<1>5. Marshal(48, FlattenSeq(f)) = Inner(n, NamedAttrs)
  <2>1. FlattenSeq(f) = u.full \o t
    <3> HIDE DEF f, u, t
    <3> QED
      BY <1>4, FlattenTwo, Zenon
  <2>2. u.full \o t = Both(n, NamedAttrs)
    BY <1>3 DEF Both
  <2> HIDE DEF f, u, t
  <2> QED
    BY <2>1, <2>2, Zenon DEF Inner
<1>6. (CHOOSE i \in {2} : \A j \in {2} : i <= j) = 2
  OBVIOUS
<1>7. withKeyBagFriendlyName(p12) =
        [content |-> wrapTLV(160, Marshal(4, Marshal(48, FlattenSeq(f)))),
         maced |-> Marshal(48, FlattenSeq(f))]
  <2> HIDE DEF p12, cs
  <2> QED
    BY <1>1, <1>2, <1>6, Zenon DEF withKeyBagFriendlyName
<1> HIDE DEF p12, f
<1> QED
  BY <1>5, <1>7, Zenon DEF p12

LEMMA NamedOnce ==
    ASSUME NEW n, NameSize(n)
    PROVE  withKeyBagFriendlyName(File(n, NamedAttrs)) = File(n, NamedAttrs)
<1> DEFINE p12 == File(n, NamedAttrs)
<1>1. Hits(Contents(p12)) = {}
  BY Unnamed, AttributesSized, Needs
<1> HIDE DEF p12
<1>2. withKeyBagFriendlyName(p12) = p12
  BY <1>1, Zenon DEF withKeyBagFriendlyName
<1> QED
  BY <1>2 DEF p12

LEMMA EncodeIs == ASSUME NEW n PROVE Encode(n) = File(n, IdAttr)
BY DEF Encode, File, Inner, Both, CertBody, DataBody, Bags, BagBody, KeyValue, IdAttr, IdBody

-----------------------------------------------------------------------------
(* The file, opened                                                        *)

LEMMA FileOpens == ASSUME NEW n, NameSize(n) PROVE Opened(File(n, NamedAttrs))
<1> DEFINE p12 == File(n, NamedAttrs)
           attrs == NamedAttrs
           u == Value(48, CertBody(n), Marshal(48, DataBody(attrs)))
           w == Value(48, DataBody(attrs), <<>>)
           b == Bag(attrs)
           f == Value(48, NameBody, IdAttr)
           i == Value(48, IdBody, <<>>)
           k == Value(160, ShroudedKey, Marshal(49, attrs))
           s == Value(49, attrs, <<>>)
<1>1. AtSized(attrs)
  BY AttributesSized
<1>2. Read(p12.content).full = p12.content /\ Read(Read(p12.content).body).body = p12.maced
  <2>1. /\ p12.content = Marshal(160, Marshal(4, Inner(n, attrs))) /\ p12.maced = Inner(n, attrs)
    BY DEF File
  <2>2. /\ Fits(160, Marshal(4, Inner(n, attrs))) /\ Fits(4, Inner(n, attrs))
    BY <1>1, FileSizes
  <2>3. /\ Read(p12.content).full = p12.content /\ Read(p12.content).body = Marshal(4, Inner(n, attrs))
    BY <2>1, <2>2, ReadBack DEF ReadsBack
  <2>4. Read(Marshal(4, Inner(n, attrs))).body = Inner(n, attrs)
    BY <2>2, ReadBack DEF ReadsBack
  <2> QED
    BY <2>1, <2>3, <2>4
<1>3. ToSet(Contents(p12)) = {u, w}
  BY <1>1, ContentsRead, MembersOfTwo
<1>4. /\ ~IsData(u) /\ IsData(w) /\ ToSet(BagsOf(w)) = {b} /\ Read(Tail(CertBody(n))).body = Certs(n)
  BY <1>1, PartsRead, MembersOfOne
<1>5. /\ b.body = BagBody(attrs) /\ f.body = NameBody /\ k.body = ShroudedKey /\ u.body = CertBody(n)
  BY DEF Bag, Value
<1>6. Head(b.body) = OidKeyBag[1] /\ Split(Tail(b.body)) = <<k, s>> /\ <<k, s>>[1] = k
  <2>1. Head(BagBody(attrs)) = OidKeyBag[1] /\ Split(Tail(BagBody(attrs))) = <<k, s>>
    BY <1>1, BagRead
  <2>2. <<k, s>>[1] = k
    BY Places
  <2> HIDE DEF k, s, b
  <2> QED
    BY <1>5, <2>1, <2>2
<1>7. ToSet(Attributes(b)) = {f, i} /\ hasAttr(b, OidLocalKeyId)
  BY AttributesRead, MembersOfTwo, Needs
<1>8. Certs(n)[1].v = -6
  BY DEF Certs, Run
<1> HIDE DEF p12, attrs, u, w, b, f, i, k, s
<1>9. b \in KeyBags(p12)
  BY <1>3, <1>4, <1>6, Zenon DEF KeyBags
<1>10. Split(Tail(b.body))[1].body = ShroudedKey
  BY <1>5, <1>6, Zenon
<1>11. \E a \in ToSet(Attributes(b)) : a.body = OidFriendlyName \o Marshal(49, Marshal(30, Alias))
  <2>1. f \in ToSet(Attributes(b)) /\ f.body = OidFriendlyName \o Marshal(49, Marshal(30, Alias))
    BY <1>5, <1>7 DEF NameBody
  <2> QED
    BY <2>1, Zenon
<1>12. \E c \in ToSet(Contents(p12)) : ~IsData(c) /\ Read(Tail(c.body)).body[1].v = -6
  <2>1. Read(Tail(u.body)).body[1].v = -6
    BY <1>4, <1>5, <1>8
  <2>2. u \in ToSet(Contents(p12))
    BY <1>3, Zenon
  <2> QED
    BY <1>4, <2>1, <2>2
<1>13. Opened(p12)
  BY <1>2, <1>7, <1>9, <1>10, <1>11, <1>12 DEF Opened
<1> QED
  BY <1>13 DEF p12, attrs

\* The file is usable for a name of any length.
LEMMA GeneratedUsable == ASSUME NEW n, NameSize(n) PROVE Usable(n, generateKeystore(n))
<1> DEFINE x == Marshal(4, Inner(n, NamedAttrs))
           p12 == generateKeystore(n)
<1>1. p12 = [content |-> wrapTLV(160, x), maced |-> Inner(n, NamedAttrs)]
  BY EncodeIs, FileNamed DEF generateKeystore
<1>2. Fits(4, Inner(n, NamedAttrs)) /\ (Size(x) >= Limit => n > Megabytes)
  BY AttributesSized, FileSizes, SMT
<1>3. x \in DER /\ Size(x) \in Nat
  <2>1. x \in DER
    BY <1>2, InDER
  <2> HIDE DEF x
  <2> QED
    BY <2>1, SizeIsNat
<1> HIDE DEF p12
<1>4. CASE Size(x) < Limit
  <2>1. wrapTLV(160, x) = Marshal(160, x)
    <3> HIDE DEF x
    <3> QED
      BY <1>3, <1>4, WrapTLV
  <2>2. p12 = File(n, NamedAttrs)
    BY <1>1, <2>1 DEF File
  <2>3. Opened(p12) /\ withKeyBagFriendlyName(p12) = p12
    BY <2>2, FileOpens, NamedOnce
  <2> HIDE DEF x
  <2> QED
    BY <2>3, Zenon DEF Usable, p12
<1>5. CASE Size(x) >= Limit
  <2>1. wrapTLV(160, x) = TooLarge
    <3> HIDE DEF x
    <3> QED
      BY <1>3, <1>5, WrapTLV
  <2>2. p12.content = TooLarge
    BY <1>1, <2>1
  <2>3. n > Megabytes
    BY <1>2, <1>5, SMT
  <2> QED
    BY <2>2, <2>3, Zenon DEF Usable, p12
<1>6. Size(x) < Limit \/ Size(x) >= Limit
  <2> HIDE DEF x
  <2> QED
    BY <1>3, SMT DEF Limit
<1> QED
  BY <1>4, <1>5, <1>6, SMT DEF p12

\* Every keystore an add comes to store can be opened by a build under the
\* alias its passwords name, whatever the length of the certificate's name,
\* or was refused for a name of megabytes (generateKeystoreWithSubject,
\* withKeyBagFriendlyName, buildDataContentInfo, wrapTLV).
THEOREM KeystoresOpen == Spec => []GeneratedOpens
<1>1. TypeOK => GeneratedOpens
  <2> SUFFICES ASSUME TypeOK, NEW a \in Add, pc[a] \in {"store", "keyed"}
               PROVE  <<name[a], TRUE>> \in Verdicts
    BY DEF GeneratedOpens
  <2> DEFINE nm == name[a]
             n == SizeOf(nm)
             verdict == \A p12 \in {generateKeystore(n)} : Usable(n, p12)
  <2>1. nm \in [Field -> Save \cup {Unset}]
    BY DEF TypeOK
  <2>2. NameSize(n)
    <3> HIDE DEF nm
    <3> QED
      BY <2>1, KeystoreAssumption, Zenon DEF NameSize
  <2> HIDE DEF n
  <2>3. verdict = TRUE
    BY <2>2, GeneratedUsable
  <2>4. <<nm, \A p12 \in {generateKeystore(SizeOf(nm))} : Usable(SizeOf(nm), p12)>> \in Verdicts
    <3> HIDE DEF nm
    <3> QED
      BY <2>1, Zenon DEF Verdicts
  <2> HIDE DEF nm
  <2> QED
    BY <2>3, <2>4, Zenon DEF n, nm
<1> QED
  BY <1>1, SigningTypeOK, PTL
=============================================================================
