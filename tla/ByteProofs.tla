----------------------------- MODULE ByteProofs -----------------------------
(***************************************************************************)
(* Proofs about the two byte streams that firmware reads: the frames of a  *)
(* Wi-Fi connection (NetEndpoint) and the UTF-8 text that                  *)
(* bridge_core_stage turns into strokes (MCKeyMap, KeyMap).                *)
(*                                                                         *)
(* Both components are loops over bytes, written as recursive functions.   *)
(* Induction over an index is taken for a SET of indices, from the fact    *)
(* that < is well-founded on Nat; with it each recursive function is shown *)
(* to satisfy its defining equation, and what it computes for every length *)
(* follows by a second induction, upwards or from the last index down.     *)
(***************************************************************************)
EXTENDS NetEndpoint, MCKeyMap, WellFoundedInduction, SequenceTheorems, TLAPS

-----------------------------------------------------------------------------
\* Induction up to n, for a set G of indices instead of a predicate.
LEMMA Induction ==
  ASSUME NEW n \in Nat, NEW G, 0 \in G,
         \A i \in 1..n : i - 1 \in G => i \in G
  PROVE  \A i \in 0..n : i \in G
<1> SUFFICES ASSUME NEW k \in 0..n, k \notin G
             PROVE  FALSE
  OBVIOUS
<1> DEFINE Bad == (0..n) \ G
           R == OpToRel(<, Nat)
<1>1. IsWellFoundedOn(R, Nat)
  BY NatLessThanWellFounded
<1>2. \A x, y \in Nat : <<x, y>> \in R <=> x < y
  BY DEF OpToRel
<1>3. Bad \subseteq Nat /\ Bad # {}
  OBVIOUS
<1> HIDE DEF R
<1>4. PICK i \in Bad : \A j \in Bad : ~(<<j, i>> \in R)
  <2> HIDE DEF Bad
  <2> QED BY <1>1, <1>3, WFMin
<1>5. i \in 1..n /\ i - 1 \in 0..n /\ <<i - 1, i>> \in R
  BY <1>2
<1> QED
  BY <1>4, <1>5

\* A function on 0..n whose values stay in A.
LEMMA RecursionTyped ==
  ASSUME NEW n \in Nat, NEW A, NEW f, f = [i \in 0..n |-> f[i]], f[0] \in A,
         \A i \in 1..n : f[i - 1] \in A => f[i] \in A
  PROVE  f \in [0..n -> A]
<1> DEFINE G == {i \in 0..n : f[i] \in A}
<1>1. 0 \in G
  OBVIOUS
<1>2. \A i \in 1..n : i - 1 \in G => i \in G
  OBVIOUS
<1> HIDE DEF G
<1>3. \A i \in 0..n : i \in G
  BY <1>1, <1>2, Induction
<1> QED
  BY <1>3 DEF G

\* Two functions on 0..n begin alike and go on alike.
Alike(f, g, n) == f[0] = g[0] /\ \A i \in 1..n : f[i - 1] = g[i - 1] => f[i] = g[i]

\* Then they are equal there.
LEMMA RecursionUnique ==
  ASSUME NEW n \in Nat, NEW f, NEW g, Alike(f, g, n)
  PROVE  \A i \in 0..n : f[i] = g[i]
<1> DEFINE G == {i \in 0..n : f[i] = g[i]}
<1>1. 0 \in G
  BY DEF Alike
<1>2. \A i \in 1..n : i - 1 \in G => i \in G
  BY DEF Alike
<1> HIDE DEF G
<1>3. \A i \in 0..n : i \in G
  BY <1>1, <1>2, Induction
<1> QED
  BY <1>3 DEF G

-----------------------------------------------------------------------------
\* Arithmetic with a base that is not a number the provers know.

\* A product with a sum.
LEMMA Distributes ==
  ASSUME NEW x \in Int, NEW y \in Int, NEW z \in Int
  PROVE  (x - y) * z = x * z - y * z
OBVIOUS

\* A larger factor gives a larger product.
LEMMA TimesGrows ==
  ASSUME NEW x \in Nat, NEW B \in Nat, x >= 1
  PROVE  x * B >= B
OBVIOUS

\* A product of naturals is a natural.
LEMMA ProductType ==
  ASSUME NEW x \in Nat, NEW y \in Nat
  PROVE  x * y \in Nat
OBVIOUS

\* So are quotient and remainder.
LEMMA DivisionType ==
  ASSUME NEW x \in Nat, NEW B \in Nat \ {0}
  PROVE  x \div B \in Nat /\ x % B \in 0..(B - 1) /\ x = B * (x \div B) + (x % B)
OBVIOUS

\* Quotient and remainder are unique.
LEMMA DivisionUnique ==
  ASSUME NEW B \in Nat \ {0}, NEW a \in Nat, NEW d \in 0..(B - 1),
         NEW q \in Nat, NEW r \in 0..(B - 1), a * B + d = q * B + r
  PROVE  a = q /\ d = r
<1>1. q * B \in Int /\ a * B \in Int
  OBVIOUS
<1>2. CASE a < q
  <2>1. (q - a) * B >= B
    BY <1>2, TimesGrows
  <2>2. (q - a) * B = q * B - a * B
    BY Distributes
  <2> QED BY <1>1, <2>1, <2>2
<1>3. CASE q < a
  <2>1. (a - q) * B >= B
    BY <1>3, TimesGrows
  <2>2. (a - q) * B = a * B - q * B
    BY Distributes
  <2> QED BY <1>1, <2>1, <2>2
<1>4. CASE q = a
  BY <1>1, <1>4
<1> QED BY <1>2, <1>3, <1>4

\* Appending a digit and taking it off again.
LEMMA LastDigit ==
  ASSUME NEW B \in Nat \ {0}, NEW a \in Nat, NEW d \in 0..(B - 1)
  PROVE  /\ a * B + d \in Nat
         /\ (a * B + d) \div B = a
         /\ (a * B + d) % B = d
<1> DEFINE x == a * B + d
           q == x \div B
           r == x % B
<1>1. a * B \in Nat
  OBVIOUS
<1>2. x \in Nat
  BY <1>1
<1>3. q \in Nat /\ r \in 0..(B - 1) /\ x = B * q + r
  <2> HIDE DEF x
  <2> QED BY <1>2, DivisionType
<1>4. a * B + d = q * B + r
  <2> HIDE DEF q, r
  <2> QED BY <1>3
<1> HIDE DEF x, q, r
<1>5. a = q /\ d = r
  BY <1>3, <1>4, DivisionUnique
<1> QED BY <1>2, <1>5 DEF x, q, r

\* If a groups of k fit into m, then a is at most the quotient.
LEMMA GroupsFit ==
  ASSUME NEW a \in Nat, NEW k \in Nat \ {0}, NEW m \in Nat, a * k <= m
  PROVE  a <= m \div k
<1> DEFINE q == m \div k
           r == m % k
<1>1. q \in Nat /\ r \in 0..(k - 1) /\ m = k * q + r
  BY DivisionType
<1> HIDE DEF q, r
<1> SUFFICES ASSUME q < a
             PROVE  FALSE
  BY <1>1 DEF q
<1>2. (a - q) * k >= k
  BY <1>1, TimesGrows
<1>3. (a - q) * k = a * k - q * k
  BY <1>1, Distributes
<1>4. q * k \in Int /\ a * k \in Int /\ k * q = q * k
  BY <1>1
<1> QED
  BY <1>1, <1>2, <1>3, <1>4

-----------------------------------------------------------------------------
\* The length prefix.

\* The assumptions on the constants, unfolded.
LEMMA NetConstants ==
  /\ ClockMod \in Nat \ {0} /\ FirstDelay \in Nat \ {0} /\ MaxDelay \in Nat \ {0}
  /\ ConnectTimeout \in Nat \ {0} /\ Base \in Nat \ {0} /\ PrefixLen \in Nat \ {0}
  /\ FrameMax \in Nat \ {0} /\ MaxSegment \in Nat \ {0} /\ SndBuf \in Nat \ {0}
  /\ FirstDelay <= MaxDelay
  /\ PrefixLen + MaxSegment - 1 <= FrameMax
  /\ Chains \subseteq Seq(1..MaxSegment)
  /\ Streams \subseteq Seq(Bytes) /\ Responses \subseteq Seq(Bytes)
  /\ Bytes \subseteq Nat
BY NetAssumption, SMTT(60) DEF Bytes

-----------------------------------------------------------------------------
(***************************************************************************)
(* Each recursive function of NetEndpoint satisfies its own equation: by   *)
(* induction, there is a solution on 0..k for every k.                     *)
(***************************************************************************)
\* Shifted, the digits that net_process_frame writes.
LEMMA ShiftedUnfolds ==
  ASSUME NEW n, PrefixLen \in Nat
  PROVE  LET f == Shifted(n)
         IN  f = [i \in 0..PrefixLen |-> IF i = 0 THEN n ELSE f[i - 1] \div Base]
<1> DEFINE E(x, i) == x \div Base
           Rec(f, k) == f = [i \in 0..k |-> IF i = 0 THEN n ELSE E(f[i - 1], i)]
           G == {k \in 0..PrefixLen : \E f : Rec(f, k)}
<1> HIDE DEF E
<1>1. 0 \in G
  <2> DEFINE g == [i \in 0..0 |-> n]
  <2>1. Rec(g, 0)
    OBVIOUS
  <2> HIDE DEF g
  <2> QED BY <2>1
<1>2. ASSUME NEW k \in 1..PrefixLen, k - 1 \in G
      PROVE  k \in G
  <2>1. PICK f : Rec(f, k - 1)
    BY <1>2
  <2> DEFINE g == [i \in 0..k |-> IF i = k THEN E(f[k - 1], k) ELSE f[i]]
  <2>2. ASSUME NEW i \in 0..k
        PROVE  g[i] = IF i = 0 THEN n ELSE E(g[i - 1], i)
    BY <2>1
  <2>3. Rec(g, k)
    BY <2>2
  <2> HIDE DEF g
  <2> QED BY <2>3
<1>3. PrefixLen \in G
  <2> HIDE DEF G
  <2> QED BY <1>1, <1>2, Induction
<1> QED
  BY <1>3, Zenon DEF Shifted, E

\* PrefixValues, the number that net_recv_cb reads.
LEMMA PrefixValuesUnfold ==
  ASSUME NEW rx, PrefixLen \in Nat
  PROVE  LET f == PrefixValues(rx)
         IN  f = [i \in 0..PrefixLen |-> IF i = 0 THEN 0 ELSE f[i - 1] * Base + rx[i]]
<1> DEFINE E(x, i) == x * Base + rx[i]
           Rec(f, k) == f = [i \in 0..k |-> IF i = 0 THEN 0 ELSE E(f[i - 1], i)]
           G == {k \in 0..PrefixLen : \E f : Rec(f, k)}
<1> HIDE DEF E
<1>1. 0 \in G
  <2> DEFINE g == [i \in 0..0 |-> 0]
  <2>1. Rec(g, 0)
    OBVIOUS
  <2> HIDE DEF g
  <2> QED BY <2>1
<1>2. ASSUME NEW k \in 1..PrefixLen, k - 1 \in G
      PROVE  k \in G
  <2>1. PICK f : Rec(f, k - 1)
    BY <1>2
  <2> DEFINE g == [i \in 0..k |-> IF i = k THEN E(f[k - 1], k) ELSE f[i]]
  <2>2. ASSUME NEW i \in 0..k
        PROVE  g[i] = IF i = 0 THEN 0 ELSE E(g[i - 1], i)
    BY <2>1
  <2>3. Rec(g, k)
    BY <2>2
  <2> HIDE DEF g
  <2> QED BY <2>3
<1>3. PrefixLen \in G
  <2> HIDE DEF G
  <2> QED BY <1>1, <1>2, Induction
<1> QED
  BY <1>3, Zenon DEF PrefixValues, E

\* FramedParts.
LEMMA FramedPartsUnfolds ==
  ASSUME NEW payloads, Len(payloads) \in Nat
  PROVE  LET f == FramedParts(payloads)
         IN  f = [i \in 0..Len(payloads) |-> IF i = 0 THEN <<>> ELSE f[i - 1] \o Encode(payloads[i])]
<1> DEFINE n == Len(payloads)
           E(x, i) == x \o Encode(payloads[i])
           Rec(f, k) == f = [i \in 0..k |-> IF i = 0 THEN <<>> ELSE E(f[i - 1], i)]
           G == {k \in 0..n : \E f : Rec(f, k)}
<1>0. n \in Nat
  OBVIOUS
<1> HIDE DEF E
<1>1. 0 \in G
  <2> DEFINE g == [i \in 0..0 |-> <<>>]
  <2>1. Rec(g, 0)
    OBVIOUS
  <2> HIDE DEF g
  <2> QED BY <2>1
<1>2. ASSUME NEW k \in 1..n, k - 1 \in G
      PROVE  k \in G
  <2>1. PICK f : Rec(f, k - 1)
    BY <1>2
  <2> DEFINE g == [i \in 0..k |-> IF i = k THEN E(f[k - 1], k) ELSE f[i]]
  <2>2. ASSUME NEW i \in 0..k
        PROVE  g[i] = IF i = 0 THEN <<>> ELSE E(g[i - 1], i)
    BY <2>1
  <2>3. Rec(g, k)
    BY <2>2
  <2> HIDE DEF g
  <2> QED BY <2>3
<1>3. n \in G
  <2> HIDE DEF G, n
  <2> QED BY <1>0, <1>1, <1>2, Induction
<1> QED
  BY <1>3, Zenon DEF FramedParts, E, n

\* Totals.
LEMMA TotalsUnfolds ==
  ASSUME NEW chain, Len(chain) \in Nat
  PROVE  LET f == Totals(chain)
         IN  f = [i \in 0..Len(chain) |-> IF i = 0 THEN 0 ELSE f[i - 1] + chain[i]]
<1> DEFINE n == Len(chain)
           E(x, i) == x + chain[i]
           Rec(f, k) == f = [i \in 0..k |-> IF i = 0 THEN 0 ELSE E(f[i - 1], i)]
           G == {k \in 0..n : \E f : Rec(f, k)}
<1>0. n \in Nat
  OBVIOUS
<1> HIDE DEF E
<1>1. 0 \in G
  <2> DEFINE g == [i \in 0..0 |-> 0]
  <2>1. Rec(g, 0)
    OBVIOUS
  <2> HIDE DEF g
  <2> QED BY <2>1
<1>2. ASSUME NEW k \in 1..n, k - 1 \in G
      PROVE  k \in G
  <2>1. PICK f : Rec(f, k - 1)
    BY <1>2
  <2> DEFINE g == [i \in 0..k |-> IF i = k THEN E(f[k - 1], k) ELSE f[i]]
  <2>2. ASSUME NEW i \in 0..k
        PROVE  g[i] = IF i = 0 THEN 0 ELSE E(g[i - 1], i)
    BY <2>1
  <2>3. Rec(g, k)
    BY <2>2
  <2> HIDE DEF g
  <2> QED BY <2>3
<1>3. n \in G
  <2> HIDE DEF G, n
  <2> QED BY <1>0, <1>1, <1>2, Induction
<1> QED
  BY <1>3, Zenon DEF Totals, E

\* ByteByByte, the inner loop of net_recv_cb.
LEMMA ByteByByteUnfolds ==
  ASSUME NEW s, NEW len \in Nat, NEW response, NEW refused
  PROVE  LET f == ByteByByte(s, len, response, refused)
         IN  f = [i \in 0..len |-> IF i = 0 THEN s ELSE
               ReceiveByte(f[i - 1], s.stream[s.heard + i], response, refused)]
<1> DEFINE E(x, i) == ReceiveByte(x, s.stream[s.heard + i], response, refused)
           Rec(f, k) == f = [i \in 0..k |-> IF i = 0 THEN s ELSE E(f[i - 1], i)]
           G == {k \in 0..len : \E f : Rec(f, k)}
<1> HIDE DEF E
<1>1. 0 \in G
  <2> DEFINE g == [i \in 0..0 |-> s]
  <2>1. Rec(g, 0)
    OBVIOUS
  <2> HIDE DEF g
  <2> QED BY <2>1
<1>2. ASSUME NEW k \in 1..len, k - 1 \in G
      PROVE  k \in G
  <2>1. PICK f : Rec(f, k - 1)
    BY <1>2
  <2> DEFINE g == [i \in 0..k |-> IF i = k THEN E(f[k - 1], k) ELSE f[i]]
  <2>2. ASSUME NEW i \in 0..k
        PROVE  g[i] = IF i = 0 THEN s ELSE E(g[i - 1], i)
    BY <2>1
  <2>3. Rec(g, k)
    BY <2>2
  <2> HIDE DEF g
  <2> QED BY <2>3
<1>3. len \in G
  <2> HIDE DEF G
  <2> QED BY <1>1, <1>2, Induction
<1> QED
  BY <1>3, Zenon DEF ByteByByte, E

\* PbufByPbuf, its outer loop.
LEMMA PbufByPbufUnfolds ==
  ASSUME NEW chain, Len(chain) \in Nat, NEW response, NEW refused
  PROVE  LET f == PbufByPbuf(chain, response, refused)
         IN  f = [i \in 0..Len(chain) |-> IF i = 0 THEN session ELSE
               ReceivePbuf(f[i - 1], chain[i], response, refused)]
<1> DEFINE n == Len(chain)
           E(x, i) == ReceivePbuf(x, chain[i], response, refused)
           Rec(f, k) == f = [i \in 0..k |-> IF i = 0 THEN session ELSE E(f[i - 1], i)]
           G == {k \in 0..n : \E f : Rec(f, k)}
<1>0. n \in Nat
  OBVIOUS
<1> HIDE DEF E
<1>1. 0 \in G
  <2> DEFINE g == [i \in 0..0 |-> session]
  <2>1. Rec(g, 0)
    OBVIOUS
  <2> HIDE DEF g
  <2> QED BY <2>1
<1>2. ASSUME NEW k \in 1..n, k - 1 \in G
      PROVE  k \in G
  <2>1. PICK f : Rec(f, k - 1)
    BY <1>2
  <2> DEFINE g == [i \in 0..k |-> IF i = k THEN E(f[k - 1], k) ELSE f[i]]
  <2>2. ASSUME NEW i \in 0..k
        PROVE  g[i] = IF i = 0 THEN session ELSE E(g[i - 1], i)
    BY <2>1
  <2>3. Rec(g, k)
    BY <2>2
  <2> HIDE DEF g
  <2> QED BY <2>3
<1>3. n \in G
  <2> HIDE DEF G, n
  <2> QED BY <1>0, <1>1, <1>2, Induction
<1> QED
  BY <1>3, Zenon DEF PbufByPbuf, E

-----------------------------------------------------------------------------
(***************************************************************************)
(* The length prefix that is written is the one that is read.              *)
(***************************************************************************)

\* The prefix of a buffer, digit by digit.
LEMMA PrefixValuesType ==
  ASSUME NEW rx \in Seq(Bytes), Len(rx) >= PrefixLen
  PROVE  /\ PrefixValues(rx) \in [0..PrefixLen -> Nat]
         /\ PrefixValues(rx)[0] = 0
         /\ \A i \in 1..PrefixLen :
              rx[i] \in 0..(Base - 1) /\ PrefixValues(rx)[i] = PrefixValues(rx)[i - 1] * Base + rx[i]
         /\ flen(rx) \in Nat
<1> DEFINE v == PrefixValues(rx)
<1>1. PrefixLen \in Nat /\ Base \in Nat \ {0} /\ Bytes = 0..(Base - 1)
  BY NetConstants DEF Bytes
<1>2. v = [i \in 0..PrefixLen |-> IF i = 0 THEN 0 ELSE v[i - 1] * Base + rx[i]]
  BY <1>1, PrefixValuesUnfold
<1> HIDE DEF v
<1>3. \A i \in 1..PrefixLen : rx[i] \in 0..(Base - 1)
  BY <1>1
<1>4. /\ v = [i \in 0..PrefixLen |-> v[i]]
      /\ v[0] = 0
      /\ \A i \in 1..PrefixLen : v[i] = v[i - 1] * Base + rx[i]
  <2>1. v = [i \in 0..PrefixLen |-> v[i]] /\ v[0] = 0
    BY <1>1, <1>2
  <2>2. \A i \in 1..PrefixLen : i \in 0..PrefixLen /\ i # 0
    BY <1>1
  <2>3. \A i \in 1..PrefixLen : v[i] = v[i - 1] * Base + rx[i]
    BY <1>2, <2>2, Zenon
  <2> QED BY <2>1, <2>3
<1>5. v \in [0..PrefixLen -> Nat]
  <2> DEFINE A == Nat
  <2>1. v[0] \in A
    BY <1>4
  <2>2. ASSUME NEW i \in 1..PrefixLen, v[i - 1] \in A
        PROVE  v[i] \in A
    BY <1>1, <1>3, <1>4, <2>2, LastDigit
  <2> HIDE DEF A
  <2>3. v \in [0..PrefixLen -> A]
    BY <1>1, <1>4, <2>1, <2>2, RecursionTyped
  <2> QED BY <2>3 DEF A
<1> QED
  <2>1. v[PrefixLen] \in Nat
    BY <1>1, <1>5
  <2> QED BY <1>3, <1>4, <1>5, <2>1, Zenon DEF v, flen

\* A byte behind the prefix does not change it.
LEMMA PrefixKept ==
  ASSUME NEW rx \in Seq(Bytes), NEW b \in Bytes, Len(rx) >= PrefixLen
  PROVE  flen(Append(rx, b)) = flen(rx)
<1> DEFINE v == PrefixValues(rx)
           ry == Append(rx, b)
           w == PrefixValues(ry)
<1>1. PrefixLen \in Nat
  BY NetConstants
<1>2. ry \in Seq(Bytes) /\ Len(ry) >= PrefixLen /\ \A i \in 1..PrefixLen : ry[i] = rx[i]
  BY <1>1
<1> HIDE DEF ry
<1>3. v[0] = 0 /\ \A i \in 1..PrefixLen : v[i] = v[i - 1] * Base + rx[i]
  BY PrefixValuesType
<1>4. w[0] = 0 /\ \A i \in 1..PrefixLen : w[i] = w[i - 1] * Base + ry[i]
  BY <1>2, PrefixValuesType
<1> HIDE DEF v, w
<1>5. \A i \in 0..PrefixLen : v[i] = w[i]
  <2>1. v[0] = w[0] /\ \A i \in 1..PrefixLen : v[i - 1] = w[i - 1] => v[i] = w[i]
    BY <1>2, <1>3, <1>4, Zenon
  <2>2. Alike(v, w, PrefixLen)
    BY <2>1, Zenon DEF Alike
  <2> QED BY <1>1, <2>2, RecursionUnique
<1> QED
  BY <1>1, <1>5 DEF v, w, ry, flen

\* Shifting the number that was read gives back the digits.
LEMMA DigitsReadBack ==
  ASSUME NEW rx \in Seq(Bytes), Len(rx) >= PrefixLen
  PROVE  \A i \in 1..PrefixLen : Shifted(flen(rx))[PrefixLen - i] % Base = rx[i]
<1> DEFINE v == PrefixValues(rx)
           h == Shifted(flen(rx))
<1>1. PrefixLen \in Nat /\ Base \in Nat \ {0}
  BY NetConstants
<1>2. /\ v \in [0..PrefixLen -> Nat]
      /\ \A i \in 1..PrefixLen : rx[i] \in 0..(Base - 1) /\ v[i] = v[i - 1] * Base + rx[i]
      /\ flen(rx) = v[PrefixLen]
  BY PrefixValuesType DEF flen
<1>3. \A i \in 1..PrefixLen : v[i] \div Base = v[i - 1] /\ v[i] % Base = rx[i]
  <2> SUFFICES ASSUME NEW i \in 1..PrefixLen
               PROVE  v[i] \div Base = v[i - 1] /\ v[i] % Base = rx[i]
    OBVIOUS
  <2> HIDE DEF v
  <2>1. v[i - 1] \in Nat
    BY <1>1, <1>2
  <2>2. rx[i] \in 0..(Base - 1) /\ v[i] = v[i - 1] * Base + rx[i]
    BY <1>2
  <2> DEFINE a == v[i - 1]
             d == rx[i]
  <2>3. (a * Base + d) \div Base = a /\ (a * Base + d) % Base = d
    <3> HIDE DEF a, d
    <3> QED BY <1>1, <2>1, <2>2, LastDigit DEF a, d
  <2> QED BY <2>2, <2>3
<1>4. h = [k \in 0..PrefixLen |-> IF k = 0 THEN flen(rx) ELSE h[k - 1] \div Base]
  BY <1>1, ShiftedUnfolds
<1> HIDE DEF v, h
<1> DEFINE u == [k \in 0..PrefixLen |-> v[PrefixLen - k]]
<1>5. h[0] = u[0]
  BY <1>1, <1>2, <1>4
<1>6. ASSUME NEW k \in 1..PrefixLen, h[k - 1] = u[k - 1]
      PROVE  h[k] = u[k]
  <2>1. PrefixLen - (k - 1) \in 1..PrefixLen /\ PrefixLen - (k - 1) - 1 = PrefixLen - k
    BY <1>1
  <2>2. u[k - 1] = v[PrefixLen - (k - 1)] /\ u[k] = v[PrefixLen - k]
    BY <1>1
  <2>3. h[k] = h[k - 1] \div Base
    BY <1>1, <1>4
  <2> QED BY <1>3, <1>6, <2>1, <2>2, <2>3
<1> HIDE DEF u
<1>7. \A k \in 0..PrefixLen : h[k] = u[k]
  <2>1. Alike(h, u, PrefixLen)
    BY <1>5, <1>6, Zenon DEF Alike
  <2> QED BY <1>1, <2>1, RecursionUnique
<1>8. ASSUME NEW i \in 1..PrefixLen
      PROVE  h[PrefixLen - i] % Base = rx[i]
  <2>1. PrefixLen - i \in 0..PrefixLen /\ PrefixLen - (PrefixLen - i) = i
    BY <1>1
  <2>2. h[PrefixLen - i] = v[i]
    BY <1>7, <2>1 DEF u
  <2> QED BY <1>3, <2>2
<1> QED
  BY <1>8 DEF h

\* Encode makes bytes of bytes.
LEMMA EncodeType ==
  ASSUME NEW payload \in Seq(Bytes)
  PROVE  /\ Encode(payload) \in Seq(Bytes)
         /\ Len(Encode(payload)) = PrefixLen + Len(payload)
<1> DEFINE h == Shifted(Len(payload))
           prefix == [i \in 1..PrefixLen |-> h[PrefixLen - i] % Base]
<1>1. PrefixLen \in Nat /\ Base \in Nat \ {0} /\ Bytes = 0..(Base - 1)
  BY NetConstants DEF Bytes
<1>2. h = [k \in 0..PrefixLen |-> IF k = 0 THEN Len(payload) ELSE h[k - 1] \div Base]
  BY <1>1, ShiftedUnfolds
<1> HIDE DEF h
<1>3. h \in [0..PrefixLen -> Nat]
  <2> DEFINE A == Nat
  <2>1. h[0] \in A /\ h = [k \in 0..PrefixLen |-> h[k]]
    BY <1>1, <1>2
  <2>2. ASSUME NEW k \in 1..PrefixLen, h[k - 1] \in A
        PROVE  h[k] \in A
    <3>1. h[k] = h[k - 1] \div Base
      BY <1>1, <1>2
    <3> QED BY <1>1, <2>2, <3>1, DivisionType
  <2> HIDE DEF A
  <2>3. h \in [0..PrefixLen -> A]
    BY <1>1, <2>1, <2>2, RecursionTyped
  <2> QED BY <2>3 DEF A
<1>4. \A i \in 1..PrefixLen : h[PrefixLen - i] % Base \in Bytes
  <2> SUFFICES ASSUME NEW i \in 1..PrefixLen
               PROVE  h[PrefixLen - i] % Base \in Bytes
    OBVIOUS
  <2>1. h[PrefixLen - i] \in Nat
    BY <1>1, <1>3
  <2> QED BY <1>1, <2>1, DivisionType
<1>5. prefix \in Seq(Bytes) /\ Len(prefix) = PrefixLen
  BY <1>1, <1>4
<1> HIDE DEF prefix
<1>6. Encode(payload) = prefix \o payload
  BY DEF Encode, prefix, h
<1> QED
  BY <1>1, <1>5, <1>6, ConcatProperties

\* A complete buffer is the encoding of its payload.
LEMMA CompleteIsEncoded ==
  ASSUME NEW rx \in Seq(Bytes), Len(rx) >= PrefixLen, Len(rx) = PrefixLen + flen(rx)
  PROVE  Encode(SubSeq(rx, PrefixLen + 1, Len(rx))) = rx
<1> DEFINE payload == SubSeq(rx, PrefixLen + 1, Len(rx))
           h == Shifted(flen(rx))
           prefix == [i \in 1..PrefixLen |-> h[PrefixLen - i] % Base]
<1>1. PrefixLen \in Nat /\ flen(rx) \in Nat
  BY NetConstants, PrefixValuesType
<1>2. /\ payload \in Seq(Bytes) /\ Len(payload) = flen(rx)
      /\ \A i \in 1..flen(rx) : payload[i] = rx[PrefixLen + i]
  BY <1>1
<1>3. \A i \in 1..PrefixLen : h[PrefixLen - i] % Base = rx[i]
  BY DigitsReadBack
<1>4. Encode(payload) = prefix \o payload
  BY <1>2 DEF Encode
<1> HIDE DEF payload, h
<1>5. prefix = [i \in 1..PrefixLen |-> rx[i]]
  BY <1>3
<1> HIDE DEF prefix
<1>6. prefix \in Seq(Bytes) /\ Len(prefix) = PrefixLen
  BY <1>1, <1>5
<1>7. Len(rx) \in Nat /\ rx = [i \in 1..Len(rx) |-> rx[i]]
  OBVIOUS
<1>8. prefix \o payload = [i \in 1..Len(rx) |-> rx[i]]
  <2> DEFINE c == prefix \o payload
  <2>1. c \in Seq(Bytes) /\ Len(c) = Len(rx)
    <3>1. c \in Seq(Bytes) /\ Len(c) = Len(prefix) + Len(payload)
      BY <1>2, <1>6, ConcatProperties
    <3> QED BY <1>1, <1>2, <1>6, <3>1
  <2>2. ASSUME NEW i \in 1..Len(rx)
        PROVE  c[i] = rx[i]
    <3>1. CASE i <= PrefixLen
      <4>1. c[i] = prefix[i]
        BY <1>1, <1>2, <1>6, <3>1
      <4> QED BY <1>1, <1>5, <3>1, <4>1
    <3>2. CASE i > PrefixLen
      <4>1. i - PrefixLen \in 1..flen(rx) /\ PrefixLen + (i - PrefixLen) = i
        BY <1>1, <1>7, <3>2
      <4>2. \A j \in 1..Len(payload) : c[Len(prefix) + j] = payload[j]
        BY <1>2, <1>6
      <4>3. c[PrefixLen + (i - PrefixLen)] = payload[i - PrefixLen]
        BY <1>2, <1>6, <4>1, <4>2, Zenon
      <4> QED BY <1>2, <4>1, <4>3
    <3> HIDE DEF c
    <3> QED BY <1>1, <1>7, <3>1, <3>2
  <2>3. c = [i \in 1..Len(rx) |-> rx[i]]
    <3> HIDE DEF c
    <3>1. c = [i \in 1..Len(c) |-> c[i]]
      BY <2>1
    <3> QED BY <2>1, <2>2, <3>1
  <2> QED BY <2>3
<1> QED
  BY <1>4, <1>7, <1>8 DEF payload

-----------------------------------------------------------------------------
\* Several frames in a row, and the pbufs of a chain.

\* FramedParts, payload by payload.
LEMMA FramedPartsType ==
  ASSUME NEW ps \in Seq(Seq(Bytes))
  PROVE  /\ FramedParts(ps)[0] = <<>>
         /\ \A i \in 1..Len(ps) : FramedParts(ps)[i] = FramedParts(ps)[i - 1] \o Encode(ps[i])
         /\ \A i \in 0..Len(ps) : FramedParts(ps)[i] \in Seq(Bytes)
<1> DEFINE n == Len(ps)
           f == FramedParts(ps)
<1>1. n \in Nat /\ \A i \in 1..n : ps[i] \in Seq(Bytes)
  OBVIOUS
<1>2. f = [i \in 0..n |-> IF i = 0 THEN <<>> ELSE f[i - 1] \o Encode(ps[i])]
  BY <1>1, FramedPartsUnfolds
<1> HIDE DEF f, n
<1>3. f[0] = <<>> /\ f = [i \in 0..n |-> f[i]]
  BY <1>1, <1>2
<1>4. \A i \in 1..n : f[i] = f[i - 1] \o Encode(ps[i])
  <2>1. \A i \in 1..n : i \in 0..n /\ i # 0
    BY <1>1
  <2> QED BY <1>2, <2>1, Zenon
<1>5. f \in [0..n -> Seq(Bytes)]
  <2>1. f[0] \in Seq(Bytes)
    BY <1>3
  <2>2. ASSUME NEW i \in 1..n, f[i - 1] \in Seq(Bytes)
        PROVE  f[i] \in Seq(Bytes)
    <3>1. Encode(ps[i]) \in Seq(Bytes)
      BY <1>1, EncodeType
    <3> QED BY <1>4, <2>2, <3>1, ConcatProperties
  <2> QED BY <1>1, <1>3, <2>1, <2>2, RecursionTyped
<1> QED
  BY <1>3, <1>4, <1>5 DEF f, n

\* Framed makes bytes of payloads, nothing of none.
LEMMA FramedType ==
  /\ Framed(<<>>) = <<>>
  /\ \A ps \in Seq(Seq(Bytes)) : Framed(ps) \in Seq(Bytes)
<1>1. <<>> \in Seq(Seq(Bytes)) /\ Len(<<>>) = 0
  OBVIOUS
<1>2. \A ps \in Seq(Seq(Bytes)) : Len(ps) \in 0..Len(ps)
  OBVIOUS
<1> QED
  BY <1>1, <1>2, FramedPartsType, Zenon DEF Framed

\* One more frame.
LEMMA FramedAppend ==
  ASSUME NEW ps \in Seq(Seq(Bytes)), NEW p \in Seq(Bytes)
  PROVE  Framed(Append(ps, p)) = Framed(ps) \o Encode(p)
<1> DEFINE n == Len(ps)
           qs == Append(ps, p)
           f == FramedParts(ps)
           g == FramedParts(qs)
<1>1. /\ n \in Nat /\ qs \in Seq(Seq(Bytes)) /\ Len(qs) = n + 1 /\ qs[n + 1] = p
      /\ \A i \in 1..n : qs[i] = ps[i]
  OBVIOUS
<1>2. f[0] = <<>> /\ \A i \in 1..n : f[i] = f[i - 1] \o Encode(ps[i])
  BY FramedPartsType
<1> HIDE DEF qs
<1>3. g[0] = <<>> /\ \A i \in 1..(n + 1) : g[i] = g[i - 1] \o Encode(qs[i])
  BY <1>1, FramedPartsType
<1> HIDE DEF f, g
<1>4. Alike(g, f, n)
  <2>1. \A i \in 1..n : i \in 1..(n + 1)
    BY <1>1
  <2> HIDE DEF n
  <2> QED BY <1>1, <1>2, <1>3, <2>1, Zenon DEF Alike
<1>5. g[n] = f[n]
  <2> HIDE DEF n
  <2> QED BY <1>1, <1>4, RecursionUnique
<1>6. g[n + 1] = g[n] \o Encode(p)
  <2> HIDE DEF n
  <2>1. n + 1 \in 1..(n + 1) /\ (n + 1) - 1 = n
    BY <1>1
  <2> QED BY <1>1, <1>3, <2>1
<1> QED
  BY <1>1, <1>5, <1>6 DEF Framed, f, g, qs

\* How far the pbufs of a chain reach into the stream.
LEMMA TotalsType ==
  ASSUME NEW chain \in Chains
  PROVE  /\ Len(chain) \in Nat
         /\ \A i \in 1..Len(chain) : chain[i] \in 1..MaxSegment
         /\ Totals(chain)[0] = 0
         /\ \A i \in 0..Len(chain) : Totals(chain)[i] \in Nat
         /\ \A i \in 1..Len(chain) : Totals(chain)[i] = Totals(chain)[i - 1] + chain[i]
         /\ \A i \in 0..Len(chain) : Totals(chain)[i] <= Totals(chain)[Len(chain)]
<1> DEFINE n == Len(chain)
           f == Totals(chain)
<1>1. n \in Nat /\ MaxSegment \in Nat /\ \A i \in 1..n : chain[i] \in 1..MaxSegment
  BY NetConstants
<1>2. f = [i \in 0..n |-> IF i = 0 THEN 0 ELSE f[i - 1] + chain[i]]
  BY <1>1, TotalsUnfolds
<1> HIDE DEF f, n
<1>3. f[0] = 0 /\ f = [i \in 0..n |-> f[i]]
  BY <1>1, <1>2
<1>4. \A i \in 1..n : f[i] = f[i - 1] + chain[i]
  <2>1. \A i \in 1..n : i \in 0..n /\ i # 0
    BY <1>1
  <2> QED BY <1>2, <2>1, Zenon
<1>5. f \in [0..n -> Nat]
  <2> DEFINE A == Nat
  <2>1. f[0] \in A
    BY <1>3
  <2>2. \A i \in 1..n : f[i - 1] \in A => f[i] \in A
    BY <1>1, <1>4
  <2> HIDE DEF A
  <2>3. f \in [0..n -> A]
    BY <1>1, <1>3, <2>1, <2>2, RecursionTyped
  <2> QED BY <2>3 DEF A
<1>6. \A i \in 0..n : f[i] <= f[n]
  <2> DEFINE G == {i \in 0..n : \A j \in 0..i : f[j] <= f[i]}
  <2>1. 0 \in G
    BY <1>1, <1>5
  <2>2. ASSUME NEW i \in 1..n, i - 1 \in G
        PROVE  i \in G
    <3>1. f[i - 1] <= f[i]
      <4>1. f[i] = f[i - 1] + chain[i] /\ chain[i] \in Nat
        BY <1>1, <1>4
      <4>2. f[i - 1] \in Nat
        BY <1>1, <1>5
      <4> QED BY <4>1, <4>2
    <3>2. ASSUME NEW j \in 0..i
          PROVE  f[j] <= f[i]
      <4>1. CASE j = i
        BY <1>1, <1>5, <4>1
      <4>2. CASE j # i
        <5>1. j \in 0..(i - 1)
          BY <1>1, <4>2
        <5>2. f[j] <= f[i - 1]
          BY <2>2, <5>1
        <5>3. f[j] \in Nat /\ f[i - 1] \in Nat /\ f[i] \in Nat
          BY <1>1, <1>5
        <5> QED BY <3>1, <5>2, <5>3
      <4> QED BY <4>1, <4>2
    <3> QED BY <1>1, <3>2
  <2> HIDE DEF G
  <2>3. n \in G
    BY <1>1, <2>1, <2>2, Induction
  <2> QED BY <2>3 DEF G
<1> QED
  BY <1>1, <1>3, <1>4, <1>5, <1>6 DEF f, n

-----------------------------------------------------------------------------
(***************************************************************************)
(* The session.  What holds of it after every single byte:                 *)
(***************************************************************************)
Session ==
  [pcb : BOOLEAN, rx : Seq(Bytes), pending_tx : Seq(Bytes), overflow : BOOLEAN,
   stream : Seq(Bytes), heard : Nat, handled : Seq(Seq(Bytes)), answers : Seq(Seq(Bytes)),
   sent : Seq(Bytes), inflight : Nat, overrun : BOOLEAN]

\* What arrived is what was handled and what is in net_rx.
Framing(s) ==
  /\ s.heard <= Len(s.stream)
  /\ SubSeq(s.stream, 1, s.heard) = Framed(s.handled) \o s.rx

\* Every frame took more bytes than its prefix.
Counted(s) == Len(s.handled) * (PrefixLen + 1) + Len(s.rx) <= s.heard

\* net_rx holds a part of a frame; a bad length has been noticed.
Filling(s) ==
  /\ Len(s.rx) < PrefixLen => ~s.overflow
  /\ Len(s.rx) >= PrefixLen /\ ~s.overflow =>
       ~BadLength(flen(s.rx)) /\ Len(s.rx) < PrefixLen + flen(s.rx)
  /\ Len(s.rx) >= PrefixLen /\ s.overflow => BadLength(flen(s.rx))

\* What went out and what is pending are whole receipts.
Sending(s) ==
  /\ s.sent \o s.pending_tx = Framed(s.answers)
  /\ s.inflight <= SndBuf

SessionOK(s) ==
  /\ s \in Session /\ ~s.overrun
  /\ s.pcb => Framing(s) /\ Counted(s) /\ Filling(s) /\ Sending(s)
  /\ ~s.pcb => s = NoSession

\* The same with j bytes of a pbuf read: after a bad length net_rx fills up
\* no further than the pbuf goes.
During(s, j) == SessionOK(s) /\ (s.overflow => Len(s.rx) < PrefixLen + j)

\* A closed session satisfies what is claimed of every session.
LEMMA NoSessionOK == SessionOK(NoSession)
BY DEF SessionOK, Session, NoSession

\* A session that is closed after a bad length is no session.
LEMMA ClosedAgain ==
  [NoSession EXCEPT !.overrun = FALSE] = NoSession /\ NoSession.overflow = FALSE
<1>1. ASSUME NEW s \in Session, s.overrun = FALSE
      PROVE  [s EXCEPT !.overrun = FALSE] = s
  BY <1>1 DEF Session
<1>2. NoSession \in Session /\ NoSession.overrun = FALSE /\ NoSession.overflow = FALSE
  BY DEF Session, NoSession
<1> QED BY <1>1, <1>2

\* A sequence is what it begins with and the rest.
LEMMA SplitSequence ==
  ASSUME NEW S, NEW p \in Seq(S), NEW n \in 0..Len(p)
  PROVE  /\ SubSeq(p, 1, n) \in Seq(S)
         /\ SubSeq(p, n + 1, Len(p)) \in Seq(S)
         /\ SubSeq(p, 1, n) \o SubSeq(p, n + 1, Len(p)) = p
<1>1. Len(p) \in Nat /\ 1 \in 1..(Len(p) + 1) /\ n \in (1 - 1)..Len(p)
      /\ Len(p) \in n..Len(p)
  OBVIOUS
<1>2. SubSeq(p, 1, n) \o SubSeq(p, n + 1, Len(p)) = SubSeq(p, 1, Len(p))
  BY <1>1, ConcatAdjacentSubSeq, Zenon
<1>3. SubSeq(p, 1, Len(p)) = p
  BY SubSeqFull
<1>4. SubSeq(p, 1, n) \in Seq(S)
  BY <1>1, SubSeqProperties
<1>5. SubSeq(p, n + 1, Len(p)) \in Seq(S)
  BY <1>1, SubSeqProperties
<1> QED BY <1>2, <1>3, <1>4, <1>5

\* net_sent_cb moves bytes from the pending receipt to the send buffer.
LEMMA SentKeeps ==
  ASSUME NEW s \in Session, s.inflight <= SndBuf, NEW refused
  PROVE  LET r == net_sent_cb(s, refused)
         IN  /\ r \in Session
             /\ r.sent \o r.pending_tx = s.sent \o s.pending_tx
             /\ r.inflight <= SndBuf
             /\ r.pcb = s.pcb /\ r.rx = s.rx /\ r.overflow = s.overflow
             /\ r.stream = s.stream /\ r.heard = s.heard /\ r.handled = s.handled
             /\ r.answers = s.answers /\ r.overrun = s.overrun
<1> DEFINE p == s.pending_tx
           n == Smaller(Len(p), SndBuf - s.inflight)
           out == SubSeq(p, 1, n)
           rest == SubSeq(p, n + 1, Len(p))
           r == net_sent_cb(s, refused)
           t == [s EXCEPT !.sent = s.sent \o out, !.inflight = s.inflight + n,
                          !.pending_tx = rest]
<1>1. p \in Seq(Bytes) /\ Len(p) \in Nat /\ s.inflight \in Nat /\ SndBuf \in Nat
      /\ s.sent \in Seq(Bytes)
  BY NetConstants DEF Session
<1>2. n \in 0..Len(p) /\ s.inflight + n <= SndBuf
  BY <1>1 DEF Smaller
<1>3. r = s \/ r = t
  BY DEF net_sent_cb
<1> HIDE DEF p, n
<1>4. out \in Seq(Bytes) /\ rest \in Seq(Bytes) /\ out \o rest = p
  BY <1>1, <1>2, SplitSequence
<1> HIDE DEF out, rest
<1>5. s.sent \o out \in Seq(Bytes) /\ (s.sent \o out) \o rest = s.sent \o p
  <2>1. s.sent \o out \in Seq(Bytes)
    BY <1>1, <1>4, ConcatProperties
  <2>2. (s.sent \o out) \o rest = s.sent \o (out \o rest)
    <3> DEFINE sent == s.sent
    <3>1. sent \in Seq(Bytes) /\ out \in Seq(Bytes) /\ rest \in Seq(Bytes)
      BY <1>1, <1>4
    <3> HIDE DEF sent
    <3>2. (sent \o out) \o rest = sent \o (out \o rest)
      BY <3>1, ConcatAssociative
    <3> QED BY <3>2 DEF sent
  <2> QED BY <1>4, <2>1, <2>2
<1>6. t \in Session /\ t.sent \o t.pending_tx = s.sent \o p /\ t.inflight <= SndBuf
  <2>1. t.sent = s.sent \o out /\ t.pending_tx = rest /\ t.inflight = s.inflight + n
    BY DEF Session
  <2>2. s.inflight + n \in Nat
    BY <1>1, <1>2
  <2>3. t \in Session
    BY <1>4, <1>5, <2>2 DEF Session
  <2> HIDE DEF t
  <2> QED BY <1>2, <1>5, <2>1, <2>3
<1>7. /\ t.pcb = s.pcb /\ t.rx = s.rx /\ t.overflow = s.overflow
      /\ t.stream = s.stream /\ t.heard = s.heard /\ t.handled = s.handled
      /\ t.answers = s.answers /\ t.overrun = s.overrun
  BY DEF Session
<1> HIDE DEF r, t
<1> QED
  BY <1>3, <1>6, <1>7 DEF p, r

\* The fields of a session.
LEMMA SessionFields ==
  ASSUME NEW s \in Session
  PROVE  /\ s.pcb \in BOOLEAN /\ s.overflow \in BOOLEAN /\ s.overrun \in BOOLEAN
         /\ s.rx \in Seq(Bytes) /\ s.pending_tx \in Seq(Bytes) /\ s.stream \in Seq(Bytes)
         /\ s.sent \in Seq(Bytes) /\ s.heard \in Nat /\ s.inflight \in Nat
         /\ s.handled \in Seq(Seq(Bytes)) /\ s.answers \in Seq(Seq(Bytes))
         /\ Len(s.rx) \in Nat /\ Len(s.handled) \in Nat /\ Len(s.stream) \in Nat
BY DEF Session

\* net_rx has room for a byte.
LEMMA RoomForByte ==
  ASSUME NEW s, NEW j \in Nat, During(s, j), s.pcb, j < MaxSegment
  PROVE  Len(s.rx) < FrameMax
<1>1. s \in Session /\ Filling(s)
  BY DEF During, SessionOK
<1>2. Len(s.rx) \in Nat /\ s.overflow \in BOOLEAN /\ s.rx \in Seq(Bytes)
  BY <1>1, SessionFields
<1>3. /\ PrefixLen \in Nat /\ FrameMax \in Nat /\ MaxSegment \in Nat \ {0}
      /\ PrefixLen + MaxSegment - 1 <= FrameMax
  BY NetConstants
<1>4. CASE Len(s.rx) < PrefixLen
  BY <1>2, <1>3, <1>4
<1>5. CASE s.overflow
  <2>1. Len(s.rx) < PrefixLen + j
    BY <1>5 DEF During
  <2> QED BY <1>2, <1>3, <2>1
<1>6. CASE Len(s.rx) >= PrefixLen /\ ~s.overflow
  <2>1. flen(s.rx) \in Nat
    BY <1>2, <1>6, PrefixValuesType
  <2>2. ~BadLength(flen(s.rx)) /\ Len(s.rx) < PrefixLen + flen(s.rx)
    BY <1>1, <1>6 DEF Filling
  <2>3. flen(s.rx) <= FrameMax - PrefixLen
    BY <1>3, <2>1, <2>2 DEF BadLength
  <2> QED BY <1>2, <1>3, <2>1, <2>2, <2>3
<1> QED BY <1>2, <1>3, <1>4, <1>5, <1>6

\* One more byte of a stream behind what was heard of it.
LEMMA OneMoreByte ==
  ASSUME NEW stream \in Seq(Bytes), NEW h \in Nat, h < Len(stream),
         NEW F \in Seq(Bytes), NEW rx \in Seq(Bytes),
         SubSeq(stream, 1, h) = F \o rx
  PROVE  /\ stream[h + 1] \in Bytes
         /\ SubSeq(stream, 1, h + 1) = F \o Append(rx, stream[h + 1])
<1> DEFINE b == stream[h + 1]
<1>1. Len(stream) \in Nat /\ h + 1 \in 1..Len(stream) /\ 1 \in 1..Len(stream)
  OBVIOUS
<1>2. b \in Bytes
  BY <1>1
<1>3. SubSeq(stream, 1, h + 1) = SubSeq(stream, 1, h) \o <<b>>
  <2>1. h + 1 \in 1..Len(stream) /\ (h + 1) - 1 = h
    BY <1>1
  <2>2. SubSeq(stream, 1, h + 1) = SubSeq(stream, 1, (h + 1) - 1) \o <<stream[h + 1]>>
    BY <1>1, <2>1, SubSeqRecursiveSecond, Zenon
  <2> QED BY <2>1, <2>2
<1> HIDE DEF b
<1>4. <<b>> \in Seq(Bytes)
  BY <1>2
<1>5. (F \o rx) \o <<b>> = F \o (rx \o <<b>>)
  BY <1>4, ConcatAssociative, SMTT(60)
<1>6. Append(rx, b) = rx \o <<b>>
  BY <1>2, AppendIsConcat
<1> QED BY <1>2, <1>3, <1>5, <1>6 DEF b

\* The session with one more byte in net_rx, before anything is done about it.
Got(s) ==
  [s EXCEPT !.rx = Append(s.rx, s.stream[s.heard + 1]), !.heard = s.heard + 1,
            !.overrun = s.overrun \/ Len(s.rx) >= FrameMax]

\* Counting received bytes leaves the rest of a session alone.
LEMMA GotKeeps ==
  ASSUME NEW s, NEW j \in Nat, During(s, j), s.pcb, j < MaxSegment,
         s.heard < Len(s.stream)
  PROVE  LET g == Got(s)
         IN  /\ g \in Session /\ ~g.overrun /\ g.pcb
             /\ Framing(g) /\ Counted(g) /\ Sending(g)
             /\ s.stream[s.heard + 1] \in Bytes
             /\ g.rx = Append(s.rx, s.stream[s.heard + 1])
             /\ Len(g.rx) = Len(s.rx) + 1 /\ g.heard = s.heard + 1
             /\ g.stream = s.stream /\ g.overflow = s.overflow /\ g.handled = s.handled
             /\ g.pending_tx = s.pending_tx /\ g.sent = s.sent /\ g.answers = s.answers
             /\ g.inflight = s.inflight
<1> DEFINE g == Got(s)
           b == s.stream[s.heard + 1]
<1>1. s \in Session /\ ~s.overrun /\ Framing(s) /\ Counted(s) /\ Sending(s)
  BY DEF During, SessionOK
<1>2. ~(Len(s.rx) >= FrameMax)
  BY RoomForByte, NetConstants, SessionFields, <1>1
<1>3. /\ s.rx \in Seq(Bytes) /\ s.stream \in Seq(Bytes) /\ s.heard \in Nat
      /\ s.handled \in Seq(Seq(Bytes)) /\ Len(s.handled) \in Nat /\ Len(s.stream) \in Nat
      /\ Len(s.rx) \in Nat
  BY <1>1, SessionFields
<1>4. Framed(s.handled) \in Seq(Bytes)
  BY <1>3, FramedType
<1>5. b \in Bytes /\ SubSeq(s.stream, 1, s.heard + 1) = Framed(s.handled) \o Append(s.rx, b)
  <2>1. SubSeq(s.stream, 1, s.heard) = Framed(s.handled) \o s.rx
    BY <1>1 DEF Framing
  <2> DEFINE stream == s.stream
             h == s.heard
             F == Framed(s.handled)
             rx == s.rx
  <2>2. /\ stream \in Seq(Bytes) /\ h \in Nat /\ h < Len(stream) /\ F \in Seq(Bytes)
        /\ rx \in Seq(Bytes) /\ SubSeq(stream, 1, h) = F \o rx
    BY <1>3, <1>4, <2>1
  <2> HIDE DEF stream, h, F, rx
  <2>3. /\ stream[h + 1] \in Bytes
        /\ SubSeq(stream, 1, h + 1) = F \o Append(rx, stream[h + 1])
    BY <2>2, OneMoreByte
  <2> QED BY <2>3 DEF stream, h, F, rx
<1> HIDE DEF b
<1>6. Append(s.rx, b) \in Seq(Bytes) /\ Len(Append(s.rx, b)) = Len(s.rx) + 1
  BY <1>3, <1>5, AppendProperties
<1>7. g = [s EXCEPT !.rx = Append(s.rx, b), !.heard = s.heard + 1, !.overrun = FALSE]
  BY <1>1, <1>2 DEF Got, b
<1> HIDE DEF g
<1>8. g \in Session
  <2>1. s.heard + 1 \in Nat
    BY <1>3
  <2> QED BY <1>1, <1>6, <1>7, <2>1 DEF Session
<1>9. /\ g.rx = Append(s.rx, b) /\ g.heard = s.heard + 1 /\ g.overrun = FALSE /\ g.pcb = s.pcb
      /\ g.stream = s.stream /\ g.overflow = s.overflow /\ g.handled = s.handled
      /\ g.pending_tx = s.pending_tx /\ g.sent = s.sent /\ g.answers = s.answers
      /\ g.inflight = s.inflight
  BY <1>1, <1>7 DEF Session
<1>10. Framing(g)
  <2>1. s.heard + 1 <= Len(s.stream)
    BY <1>3
  <2> QED BY <1>5, <1>9, <2>1 DEF Framing
<1>11. Counted(g)
  <2> DEFINE c == Len(s.handled) * (PrefixLen + 1)
  <2>1. c \in Nat
    <3>1. PrefixLen + 1 \in Nat
      BY NetConstants
    <3> QED BY <1>3, <3>1, ProductType
  <2>2. c + Len(s.rx) <= s.heard
    BY <1>1 DEF Counted
  <2> HIDE DEF c
  <2>3. c + (Len(s.rx) + 1) <= s.heard + 1
    BY <1>3, <2>1, <2>2
  <2> QED BY <1>6, <1>9, <2>3 DEF Counted, c
<1>12. Sending(g)
  BY <1>1, <1>9 DEF Sending
<1> QED
  BY <1>5, <1>6, <1>8, <1>9, <1>10, <1>11, <1>12 DEF g, b

\* The session after its frame is handled and before it is answered.
Done(g) ==
  [g EXCEPT !.rx = <<>>,
            !.handled = Append(g.handled, SubSeq(g.rx, PrefixLen + 1, Len(g.rx)))]

\* A complete frame becomes one more handled frame.
LEMMA DoneKeeps ==
  ASSUME NEW g \in Session, Framing(g), Counted(g), Sending(g), ~g.overflow,
         Len(g.rx) = PrefixLen + flen(g.rx), Len(g.rx) > PrefixLen
  PROVE  LET d == Done(g)
         IN  /\ d \in Session /\ Framing(d) /\ Counted(d) /\ Filling(d) /\ Sending(d)
             /\ d.pcb = g.pcb /\ d.stream = g.stream /\ d.heard = g.heard
             /\ d.overrun = g.overrun /\ d.overflow = g.overflow
             /\ d.pending_tx = g.pending_tx /\ d.answers = g.answers /\ d.sent = g.sent
             /\ d.inflight = g.inflight /\ d.rx = <<>>
<1> DEFINE d == Done(g)
           p == SubSeq(g.rx, PrefixLen + 1, Len(g.rx))
<1>1. /\ g.rx \in Seq(Bytes) /\ g.handled \in Seq(Seq(Bytes)) /\ g.heard \in Nat
      /\ Len(g.rx) \in Nat /\ Len(g.handled) \in Nat
  BY SessionFields
<1>2. PrefixLen \in Nat \ {0}
  BY NetConstants
<1>3. p \in Seq(Bytes)
  BY <1>1, <1>2, SplitSequence
<1>4. Encode(p) = g.rx
  BY <1>1, <1>2, CompleteIsEncoded
<1> HIDE DEF p
<1>5. /\ Append(g.handled, p) \in Seq(Seq(Bytes))
      /\ Len(Append(g.handled, p)) = Len(g.handled) + 1
  BY <1>1, <1>3, AppendProperties
<1>6. d = [g EXCEPT !.rx = <<>>, !.handled = Append(g.handled, p)]
  BY DEF Done, p
<1> HIDE DEF d
<1>7. d \in Session
  <2>1. <<>> \in Seq(Bytes)
    OBVIOUS
  <2> QED BY <1>5, <1>6, <2>1 DEF Session
<1>8. /\ d.rx = <<>> /\ d.handled = Append(g.handled, p) /\ d.pcb = g.pcb
      /\ d.stream = g.stream /\ d.heard = g.heard /\ d.overrun = g.overrun
      /\ d.overflow = g.overflow /\ d.pending_tx = g.pending_tx /\ d.answers = g.answers
      /\ d.sent = g.sent /\ d.inflight = g.inflight
  BY <1>6 DEF Session
<1>9. Framing(d)
  <2>1. Framed(g.handled) \in Seq(Bytes) /\ Framed(d.handled) \in Seq(Bytes)
    BY <1>1, <1>5, <1>8, FramedType
  <2>2. Framed(d.handled) = Framed(g.handled) \o g.rx
    BY <1>1, <1>3, <1>4, <1>8, FramedAppend
  <2>3. Framed(d.handled) \o <<>> = Framed(d.handled)
    BY <2>1, ConcatEmptySeq
  <2> QED BY <1>8, <2>2, <2>3 DEF Framing
<1>10. Counted(d)
  <2> DEFINE c == Len(g.handled) * (PrefixLen + 1)
             c1 == (Len(g.handled) + 1) * (PrefixLen + 1)
  <2>1. c \in Nat /\ c1 = c + (PrefixLen + 1)
    <3> DEFINE m == Len(g.handled)
               k == PrefixLen + 1
    <3>1. m \in Nat /\ k \in Nat
      BY <1>1, <1>2
    <3> HIDE DEF m, k
    <3>2. m * k \in Nat /\ (m + 1) * k = m * k + k
      BY <3>1
    <3> QED BY <3>2 DEF m, k
  <2>2. c + Len(g.rx) <= g.heard
    BY DEF Counted
  <2> HIDE DEF c, c1
  <2>3. c1 + 0 <= g.heard
    BY <1>1, <1>2, <2>1, <2>2
  <2>4. Len(d.rx) = 0
    BY <1>8
  <2> QED BY <1>5, <1>8, <2>3, <2>4 DEF Counted, c1
<1>11. Filling(d)
  BY <1>2, <1>8 DEF Filling
<1>12. Sending(d)
  BY <1>8 DEF Sending
<1> QED
  BY <1>7, <1>8, <1>9, <1>10, <1>11, <1>12 DEF d

\* net_process_frame keeps the session in order, answer or not, or closes it.
LEMMA ProcessKeeps ==
  ASSUME NEW g \in Session, g.pcb, ~g.overrun, Framing(g), Counted(g), Sending(g),
         ~g.overflow, Len(g.rx) = PrefixLen + flen(g.rx), Len(g.rx) > PrefixLen,
         NEW answer \in Responses, NEW refused
  PROVE  LET r == net_process_frame(g, answer, refused)
         IN  /\ SessionOK(r) /\ ~r.overflow
             /\ r.pcb => r.stream = g.stream /\ r.heard = g.heard
<1> DEFINE d == Done(g)
           e == [d EXCEPT !.pending_tx = Encode(answer), !.answers = Append(d.answers, answer)]
           r == net_process_frame(g, answer, refused)
<1>1. /\ d \in Session /\ Framing(d) /\ Counted(d) /\ Filling(d) /\ Sending(d)
      /\ d.pcb = g.pcb /\ d.stream = g.stream /\ d.heard = g.heard /\ d.overrun = g.overrun
      /\ d.overflow = g.overflow /\ d.pending_tx = g.pending_tx
  BY DoneKeeps
<1>2. r = IF answer = <<>> THEN d
          ELSE IF g.pending_tx # <<>> THEN NoSession ELSE net_sent_cb(e, refused)
  BY DEF net_process_frame, Outrun, Done
<1> HIDE DEF d, r
<1>3. CASE answer = <<>>
  <2>1. r = d
    BY <1>2, <1>3
  <2> QED BY <1>1, <2>1 DEF SessionOK, r
<1>4. CASE answer # <<>> /\ g.pending_tx # <<>>
  <2>1. r = NoSession /\ NoSession.overflow = FALSE /\ NoSession.pcb = FALSE
    BY <1>2, <1>4 DEF NoSession
  <2> QED BY <2>1, NoSessionOK DEF r
<1>5. CASE answer # <<>> /\ g.pending_tx = <<>>
  <2>1. answer \in Seq(Bytes) /\ d.sent \in Seq(Bytes) /\ d.answers \in Seq(Seq(Bytes))
    BY <1>1, NetConstants, SessionFields
  <2>2. Encode(answer) \in Seq(Bytes) /\ Append(d.answers, answer) \in Seq(Seq(Bytes))
    BY <2>1, EncodeType, AppendProperties
  <2>3. e \in Session
    BY <1>1, <2>2 DEF Session
  <2>4. /\ e.pcb = d.pcb /\ e.stream = d.stream /\ e.heard = d.heard /\ e.overrun = d.overrun
        /\ e.overflow = d.overflow /\ e.rx = d.rx /\ e.handled = d.handled
        /\ e.sent = d.sent /\ e.inflight = d.inflight
        /\ e.pending_tx = Encode(answer) /\ e.answers = Append(d.answers, answer)
    BY <1>1 DEF Session
  <2> HIDE DEF e
  <2>5. e.sent \o e.pending_tx = Framed(e.answers)
    <3>1. d.sent \o <<>> = Framed(d.answers)
      BY <1>1, <1>5 DEF Sending
    <3>2. d.sent \o <<>> = d.sent
      BY <2>1, ConcatEmptySeq
    <3>3. Framed(e.answers) = Framed(d.answers) \o Encode(answer)
      BY <2>1, <2>4, FramedAppend
    <3> QED BY <2>4, <3>1, <3>2, <3>3
  <2>6. e.inflight <= SndBuf
    BY <1>1, <2>4 DEF Sending
  <2>7. r = net_sent_cb(e, refused)
    BY <1>2, <1>5
  <2>8. /\ r \in Session /\ r.sent \o r.pending_tx = e.sent \o e.pending_tx
        /\ r.inflight <= SndBuf
        /\ r.pcb = e.pcb /\ r.rx = e.rx /\ r.overflow = e.overflow
        /\ r.stream = e.stream /\ r.heard = e.heard /\ r.handled = e.handled
        /\ r.answers = e.answers /\ r.overrun = e.overrun
    BY <2>3, <2>6, <2>7, SentKeeps, ZenonT(60)
  <2>9. Sending(r)
    BY <2>5, <2>8 DEF Sending
  <2>10. Framing(r) /\ Counted(r) /\ Filling(r)
    BY <1>1, <2>4, <2>8 DEF Framing, Counted, Filling
  <2> QED BY <1>1, <2>4, <2>8, <2>9, <2>10 DEF SessionOK, r
<1> QED BY <1>3, <1>4, <1>5

\* The answers that net_recv_cb may draw while it reads this stream.
Oracle(stream) == [1..(Len(stream) \div (PrefixLen + 1)) -> Responses]

\* One byte of net_recv_cb.
LEMMA ByteKeeps ==
  ASSUME NEW s, NEW j \in Nat, During(s, j), j < MaxSegment,
         NEW b, NEW response, NEW refused,
         s.pcb => /\ s.heard < Len(s.stream)
                  /\ b = s.stream[s.heard + 1]
                  /\ response \in Oracle(s.stream)
  PROVE  LET r == ReceiveByte(s, b, response, refused)
         IN  /\ During(r, j + 1)
             /\ r.pcb => s.pcb /\ r.stream = s.stream /\ r.heard = s.heard + 1
<1> DEFINE g == Got(s)
           r == ReceiveByte(s, b, response, refused)
<1>1. CASE ~s.pcb
  <2>1. r = s /\ s = NoSession
    BY <1>1 DEF ReceiveByte, During, SessionOK
  <2>2. NoSession.overflow = FALSE /\ NoSession.pcb = FALSE
    BY DEF NoSession
  <2> HIDE DEF r
  <2> QED BY <2>1, <2>2, NoSessionOK DEF During, r
<1>2. CASE s.pcb
  <2>1. /\ s \in Session /\ Filling(s) /\ s.rx \in Seq(Bytes) /\ Len(s.rx) \in Nat
        /\ s.overflow \in BOOLEAN /\ s.stream \in Seq(Bytes) /\ Len(s.stream) \in Nat
        /\ Len(s.handled) \in Nat /\ s.heard \in Nat
    BY <1>2, SessionFields DEF During, SessionOK
  <2>2. /\ g \in Session /\ ~g.overrun /\ g.pcb
        /\ Framing(g) /\ Counted(g) /\ Sending(g)
        /\ b \in Bytes /\ g.rx = Append(s.rx, b) /\ Len(g.rx) = Len(s.rx) + 1
        /\ g.heard = s.heard + 1 /\ g.stream = s.stream /\ g.overflow = s.overflow
        /\ g.handled = s.handled
    BY <1>2, GotKeeps
  <2>3. r = IF Len(s.rx) < PrefixLen
            THEN [g EXCEPT !.overflow = g.overflow \/ (Len(g.rx) = PrefixLen /\ BadLength(flen(g.rx)))]
            ELSE IF Complete(g.rx)
                 THEN net_process_frame(g, response[Len(s.handled) + 1], refused[Len(s.handled) + 1])
            ELSE g
    BY <1>2 DEF ReceiveByte, Got
  <2>4. PrefixLen \in Nat \ {0} /\ FrameMax \in Nat /\ MaxSegment \in Nat
        /\ PrefixLen + MaxSegment - 1 <= FrameMax
    BY NetConstants
  <2> HIDE DEF g, r
  <2>5. g.rx \in Seq(Bytes) /\ Len(g.rx) \in Nat
    BY <2>2, SessionFields
  <2>6. CASE Len(s.rx) < PrefixLen
    <3> DEFINE o == g.overflow \/ (Len(g.rx) = PrefixLen /\ BadLength(flen(g.rx)))
    <3>1. r = [g EXCEPT !.overflow = o]
      BY <2>3, <2>6
    <3>2. o \in BOOLEAN
      BY <2>1, <2>2 DEF BadLength
    <3>3. ~g.overflow
      BY <2>1, <2>2, <2>6 DEF Filling
    <3>4. o => Len(g.rx) = PrefixLen /\ BadLength(flen(g.rx))
      BY <3>3
    <3>5. Len(g.rx) = PrefixLen /\ ~o => ~BadLength(flen(g.rx))
      OBVIOUS
    <3> HIDE DEF o
    <3>6. r \in Session
      BY <2>2, <3>1, <3>2 DEF Session
    <3>7. /\ r.overflow = o /\ r.rx = g.rx /\ r.pcb = g.pcb /\ r.overrun = g.overrun
          /\ r.stream = g.stream /\ r.heard = g.heard /\ r.handled = g.handled
          /\ r.sent = g.sent /\ r.pending_tx = g.pending_tx /\ r.answers = g.answers
          /\ r.inflight = g.inflight
      BY <2>2, <3>1 DEF Session
    <3>8. Framing(r) /\ Counted(r) /\ Sending(r)
      BY <2>2, <3>7 DEF Framing, Counted, Sending
    <3>9. Len(g.rx) >= PrefixLen => Len(g.rx) = PrefixLen /\ flen(g.rx) \in Nat
      <4>1. Len(g.rx) >= PrefixLen => Len(g.rx) = PrefixLen
        BY <2>1, <2>2, <2>4, <2>6
      <4>2. Len(g.rx) >= PrefixLen => flen(g.rx) \in Nat
        BY <2>5, PrefixValuesType
      <4> QED BY <4>1, <4>2
    <3>10. Filling(r)
      <4>1. CASE Len(g.rx) < PrefixLen
        BY <2>4, <2>5, <3>4, <3>7, <4>1 DEF Filling
      <4>2. CASE Len(g.rx) >= PrefixLen
        <5>1. ~BadLength(flen(g.rx)) => Len(g.rx) < PrefixLen + flen(g.rx)
          BY <2>4, <3>9, <4>2 DEF BadLength
        <5> QED BY <2>4, <3>4, <3>5, <3>7, <3>9, <4>2, <5>1 DEF Filling
      <4> QED BY <2>4, <2>5, <4>1, <4>2
    <3>11. r.overflow => Len(r.rx) < PrefixLen + (j + 1)
      BY <2>4, <3>4, <3>7
    <3> QED BY <1>2, <2>2, <3>6, <3>7, <3>8, <3>10, <3>11 DEF During, SessionOK, r
  <2>7. CASE Len(s.rx) >= PrefixLen
    <3>1. flen(g.rx) = flen(s.rx) /\ flen(s.rx) \in Nat
      BY <2>1, <2>2, <2>7, PrefixKept, PrefixValuesType
    <3>2. s.overflow => Len(s.rx) < PrefixLen + j /\ BadLength(flen(s.rx))
      BY <2>1, <2>7 DEF During, Filling
    <3>3. ~s.overflow => ~BadLength(flen(s.rx)) /\ Len(s.rx) < PrefixLen + flen(s.rx)
      BY <2>1, <2>7 DEF Filling
    <3>4. CASE Complete(g.rx)
      <4>1. Len(g.rx) = PrefixLen + flen(g.rx) /\ Len(g.rx) > PrefixLen
        BY <2>1, <2>2, <2>4, <2>7, <3>4 DEF Complete
      <4>2. ~g.overflow
        <5> SUFFICES ASSUME s.overflow
                     PROVE  FALSE
          BY <2>1, <2>2
        <5>1. flen(s.rx) = 0 \/ flen(s.rx) > FrameMax - PrefixLen
          BY <3>2 DEF BadLength
        <5>2. Len(s.rx) + 1 = PrefixLen + flen(s.rx) /\ Len(s.rx) < PrefixLen + j
          BY <2>2, <3>1, <3>2, <4>1
        <5> QED BY <2>1, <2>4, <2>7, <3>1, <5>1, <5>2
      <4>3. response[Len(s.handled) + 1] \in Responses
        <5> DEFINE m == Len(s.handled)
                   k == PrefixLen + 1
                   L == Len(s.stream)
        <5>1. m \in Nat /\ k \in Nat \ {0} /\ L \in Nat
          BY <2>1, <2>4
        <5>2. m * k + Len(g.rx) <= L
          <6>1. m * k + Len(g.rx) <= g.heard /\ g.heard <= L
            BY <2>2 DEF Counted, Framing
          <6>2. g.heard \in Nat
            BY <2>2, SessionFields
          <6> HIDE DEF m, k, L
          <6> DEFINE c == m * k
          <6>3. c \in Nat
            BY <5>1, ProductType
          <6> HIDE DEF c
          <6>4. c + Len(g.rx) <= g.heard
            BY <6>1 DEF c
          <6>5. c + Len(g.rx) <= L
            BY <2>5, <5>1, <6>1, <6>2, <6>3, <6>4
          <6> QED BY <6>5 DEF c
        <5>3. Len(g.rx) >= k
          BY <2>4, <2>5, <4>1
        <5> HIDE DEF m, k, L
        <5>4. (m + 1) * k <= L
          <6> DEFINE c == m * k
          <6>1. c \in Nat /\ (m + 1) * k = c + k
            BY <5>1
          <6>2. c + Len(g.rx) <= L
            BY <5>2
          <6> HIDE DEF c
          <6>3. c + k <= L
            BY <2>5, <5>1, <5>3, <6>1, <6>2
          <6> QED BY <6>1, <6>3
        <5>5. m + 1 \in Nat
          BY <5>1
        <5>6. m + 1 <= L \div k
          BY <5>1, <5>4, <5>5, GroupsFit
        <5>7. m + 1 \in 1..(L \div k)
          BY <5>1, <5>6, DivisionType
        <5>8. response \in [1..(L \div k) -> Responses]
          BY <1>2 DEF Oracle, L, k
        <5> QED BY <5>7, <5>8 DEF m
      <4>4. r = net_process_frame(g, response[Len(s.handled) + 1], refused[Len(s.handled) + 1])
        BY <2>1, <2>3, <2>4, <2>7, <3>4
      <4>5. SessionOK(r) /\ ~r.overflow /\ (r.pcb => r.stream = g.stream /\ r.heard = g.heard)
        BY <2>2, <4>1, <4>2, <4>3, <4>4, ProcessKeeps
      <4> QED BY <1>2, <2>2, <4>5 DEF During, r
    <3>5. CASE ~Complete(g.rx)
      <4>1. r = g
        BY <2>1, <2>3, <2>4, <2>7, <3>5
      <4>2. Filling(g)
        <5>1. Len(g.rx) >= PrefixLen
          BY <2>1, <2>2, <2>4, <2>7
        <5>2. ~g.overflow => ~BadLength(flen(g.rx)) /\ Len(g.rx) < PrefixLen + flen(g.rx)
          <6>1. Len(g.rx) # PrefixLen + flen(s.rx)
            BY <3>1, <3>5 DEF Complete
          <6>2. Len(s.rx) < PrefixLen + flen(s.rx) => Len(g.rx) < PrefixLen + flen(s.rx)
            <7> DEFINE f == flen(s.rx)
                       a == Len(s.rx)
                       c == Len(g.rx)
            <7>1. f \in Nat /\ a \in Nat /\ c = a + 1 /\ c # PrefixLen + f
              BY <2>1, <2>2, <3>1, <6>1
            <7> HIDE DEF f, a, c
            <7>2. a < PrefixLen + f => c < PrefixLen + f
              BY <2>4, <7>1
            <7> QED BY <7>2 DEF f, a, c
          <6> QED BY <2>2, <3>1, <3>3, <6>2
        <5>3. g.overflow => BadLength(flen(g.rx))
          BY <2>2, <3>1, <3>2
        <5> QED BY <2>4, <2>5, <5>1, <5>2, <5>3 DEF Filling
      <4>3. g.overflow => Len(g.rx) < PrefixLen + (j + 1)
        BY <2>1, <2>2, <2>4, <3>2
      <4> QED BY <1>2, <2>2, <4>1, <4>2, <4>3 DEF During, SessionOK, r
    <3> QED BY <3>4, <3>5
  <2> QED BY <2>1, <2>4, <2>6, <2>7
<1> QED
  <2>1. s.pcb \in BOOLEAN
    BY SessionFields DEF During, SessionOK
  <2> QED BY <1>1, <1>2, <2>1

\* One pbuf.
LEMMA PbufKeeps ==
  ASSUME NEW s, SessionOK(s), ~s.overflow, NEW len \in 1..MaxSegment,
         NEW response, NEW refused,
         s.pcb => s.heard + len <= Len(s.stream) /\ response \in Oracle(s.stream)
  PROVE  LET r == ByteByByte(s, len, response, refused)[len]
         IN  /\ SessionOK(r)
             /\ r.pcb => s.pcb /\ r.stream = s.stream /\ r.heard = s.heard + len
<1> DEFINE st == ByteByByte(s, len, response, refused)
           Follows(x, i) == x.pcb => s.pcb /\ x.stream = s.stream /\ x.heard = s.heard + i
           G == {i \in 0..len : During(st[i], i) /\ Follows(st[i], i)}
<1>1. len \in Nat /\ MaxSegment \in Nat /\ s \in Session
  BY NetConstants DEF SessionOK
<1>2. s.heard \in Nat /\ Len(s.stream) \in Nat
  BY <1>1, SessionFields
<1>3. st = [i \in 0..len |-> IF i = 0 THEN s
              ELSE ReceiveByte(st[i - 1], s.stream[s.heard + i], response, refused)]
  BY <1>1, ByteByByteUnfolds
<1> HIDE DEF st
<1>4. 0 \in G
  <2>1. st[0] = s
    BY <1>1, <1>3
  <2>2. During(s, 0) /\ Follows(s, 0)
    BY <1>2 DEF During
  <2> QED BY <1>1, <2>1, <2>2
<1>5. ASSUME NEW i \in 1..len, i - 1 \in G
      PROVE  i \in G
  <2> DEFINE x == st[i - 1]
             b == s.stream[s.heard + i]
  <2>1. During(x, i - 1) /\ Follows(x, i - 1)
    BY <1>5
  <2>2. st[i] = ReceiveByte(x, b, response, refused)
    <3>1. i \in 0..len /\ i # 0
      BY <1>1
    <3> QED BY <1>3, <3>1
  <2>3. i - 1 \in Nat /\ i - 1 < MaxSegment /\ (i - 1) + 1 = i
    BY <1>1
  <2>4. x.pcb => /\ x.heard < Len(x.stream)
                 /\ b = x.stream[x.heard + 1]
                 /\ response \in Oracle(x.stream)
    <3> SUFFICES ASSUME x.pcb
                 PROVE  /\ x.heard < Len(x.stream)
                        /\ b = x.stream[x.heard + 1]
                        /\ response \in Oracle(x.stream)
      OBVIOUS
    <3>1. s.pcb /\ x.stream = s.stream /\ x.heard = s.heard + (i - 1)
      BY <2>1
    <3>2. x.heard + 1 = s.heard + i /\ x.heard < s.heard + len
      BY <1>1, <1>2, <3>1
    <3> QED BY <1>1, <1>2, <3>1, <3>2
  <2> HIDE DEF x, b
  <2> DEFINE j == i - 1
             y == ReceiveByte(x, b, response, refused)
  <2>5. j \in Nat /\ j < MaxSegment /\ During(x, j)
    BY <2>1, <2>3
  <2>6. During(y, j + 1) /\ (y.pcb => x.pcb /\ y.stream = x.stream /\ y.heard = x.heard + 1)
    <3> HIDE DEF j, y
    <3> QED BY <2>4, <2>5, ByteKeeps DEF y
  <2>7. During(y, i)
    BY <2>3, <2>6
  <2>8. Follows(y, i)
    <3> SUFFICES ASSUME y.pcb
                 PROVE  s.pcb /\ y.stream = s.stream /\ y.heard = s.heard + i
      OBVIOUS
    <3> HIDE DEF y
    <3>1. s.pcb /\ x.stream = s.stream /\ x.heard = s.heard + (i - 1)
      BY <2>1, <2>6
    <3> QED BY <1>1, <1>2, <2>6, <3>1
  <2>9. During(st[i], i) /\ Follows(st[i], i) /\ i \in 0..len
    BY <1>1, <2>2, <2>7, <2>8
  <2> HIDE DEF Follows
  <2> QED BY <2>9
<1>6. len \in G
  <2> HIDE DEF G
  <2>1. len \in Nat /\ len \in 0..len
    BY <1>1
  <2>2. \A i \in 0..len : i \in G
    BY <1>4, <1>5, <2>1, Induction, Zenon
  <2> QED BY <2>1, <2>2
<1> QED
  BY <1>6 DEF During, st

\* A whole chain, and the session that is closed if a length was bad.
LEMMA ReceivedKeeps ==
  ASSUME SessionOK(session), ~session.overflow, session.pcb,
         NEW chain \in Chains, NEW refused,
         NEW response \in Oracle(session.stream),
         session.heard + Totals(chain)[Len(chain)] <= Len(session.stream)
  PROVE  LET r == Received(chain, response, refused)
         IN  SessionOK(r) /\ ~r.overflow
<1> DEFINE n == Len(chain)
           total == Totals(chain)
           st == PbufByPbuf(chain, response, refused)
           Follows(x, i) == x.pcb => /\ x.stream = session.stream
                                     /\ x.heard <= session.heard + total[i]
           G == {i \in 0..n : SessionOK(st[i]) /\ Follows(st[i], i)}
<1>1. /\ n \in Nat /\ \A i \in 1..n : chain[i] \in 1..MaxSegment
      /\ total[0] = 0 /\ \A i \in 0..n : total[i] \in Nat /\ total[i] <= total[n]
      /\ \A i \in 1..n : total[i] = total[i - 1] + chain[i]
  BY TotalsType
<1>2. st = [i \in 0..n |-> IF i = 0 THEN session
              ELSE ReceivePbuf(st[i - 1], chain[i], response, refused)]
  BY <1>1, PbufByPbufUnfolds
<1>3. session.heard \in Nat /\ Len(session.stream) \in Nat
  BY SessionFields DEF SessionOK
<1>4. session.heard + total[n] <= Len(session.stream)
  OBVIOUS
<1> HIDE DEF n, total, st
<1>5. 0 \in G
  <2>1. st[0] = session
    BY <1>1, <1>2
  <2>2. Follows(session, 0)
    BY <1>1, <1>3
  <2> QED BY <1>1, <2>1, <2>2
<1>6. ASSUME NEW i \in 1..n, i - 1 \in G
      PROVE  i \in G
  <2> DEFINE x == st[i - 1]
             len == chain[i]
             y == ReceivePbuf(x, len, response, refused)
  <2>1. SessionOK(x) /\ Follows(x, i - 1)
    BY <1>6
  <2>2. i \in 0..n /\ i # 0 /\ i - 1 \in 0..n
    BY <1>1
  <2>3. st[i] = y
    BY <1>2, <2>2
  <2>4. len \in 1..MaxSegment /\ len \in Nat
    BY <1>1, NetConstants
  <2>5. /\ total[i] = total[i - 1] + len /\ total[i - 1] \in Nat /\ total[n] \in Nat
        /\ total[i] <= total[n]
    BY <1>1, <2>2
  <2> HIDE DEF x, len
  <2>6. x.heard \in Nat
    BY <2>1, SessionFields DEF SessionOK
  <2>7. SessionOK(y) /\ Follows(y, i)
    <3>1. CASE x.overflow
      <4>1. y = x
        BY <3>1 DEF ReceivePbuf
      <4>2. Follows(x, i)
        BY <1>3, <2>1, <2>4, <2>5, <2>6
      <4> HIDE DEF y, Follows
      <4> QED BY <2>1, <4>1, <4>2
    <3>2. CASE ~x.overflow
      <4>1. y = ByteByByte(x, len, response, refused)[len]
        BY <3>2 DEF ReceivePbuf
      <4>2. x.pcb => x.heard + len <= Len(x.stream) /\ response \in Oracle(x.stream)
        <5> SUFFICES ASSUME x.pcb
                     PROVE  x.heard + len <= Len(x.stream) /\ response \in Oracle(x.stream)
          OBVIOUS
        <5>1. x.stream = session.stream /\ x.heard <= session.heard + total[i - 1]
          BY <2>1
        <5>2. x.heard + len <= session.heard + total[n]
          BY <1>3, <2>4, <2>5, <2>6, <5>1, SMTT(60)
        <5>3. x.heard + len <= Len(session.stream)
          BY <1>3, <1>4, <2>4, <2>5, <2>6, <5>2
        <5> QED BY <5>1, <5>3
      <4> HIDE DEF y
      <4>3. SessionOK(y) /\ (y.pcb => x.pcb /\ y.stream = x.stream /\ y.heard = x.heard + len)
        BY <2>1, <2>4, <3>2, <4>1, <4>2, PbufKeeps
      <4> QED BY <1>3, <2>1, <2>4, <2>5, <2>6, <4>3
    <3> QED BY <3>1, <3>2
  <2> HIDE DEF y, Follows
  <2> QED BY <2>2, <2>3, <2>7
<1>7. n \in G
  <2> HIDE DEF G
  <2>1. n \in Nat /\ n \in 0..n
    BY <1>1
  <2>2. \A i \in 0..n : i \in G
    BY <1>5, <1>6, <2>1, Induction, Zenon
  <2> QED BY <2>1, <2>2
<1>8. SessionOK(st[n])
  BY <1>7
<1>9. Received(chain, response, refused) =
        IF st[n].overflow THEN [NoSession EXCEPT !.overrun = st[n].overrun] ELSE st[n]
  BY DEF Received, st, n
<1>10. st[n].overrun = FALSE /\ st[n].overflow \in BOOLEAN
  BY <1>8, SessionFields DEF SessionOK
<1>11. [NoSession EXCEPT !.overrun = FALSE] = NoSession /\ NoSession.overflow = FALSE
  BY ClosedAgain
<1> QED
  BY <1>8, <1>9, <1>10, <1>11, NoSessionOK

-----------------------------------------------------------------------------
\* The endpoint.

WifiOK ==
  /\ now \in 0..(ClockMod - 1) /\ retry_at \in 0..(ClockMod - 1)
  /\ net_state \in {"NO_RECORD", "RETRY_WAIT", "CONNECTING", "READY"}
  /\ delay \in FirstDelay..MaxDelay
  /\ {listener, record, healthy, joining, have_ip} \subseteq BOOLEAN
  /\ link \in {"down", "join"}

\* The inductive invariant.
NetInv == WifiOK /\ SessionOK(session) /\ ~session.overflow

\* An acknowledgement makes room in the send buffer.
LEMMA AcknowledgeKeeps ==
  ASSUME SessionOK(session), ~session.overflow, session.pcb,
         NEW n \in 1..session.inflight, NEW refused
  PROVE  LET r == net_sent_cb([session EXCEPT !.inflight = @ - n], refused)
         IN  SessionOK(r) /\ ~r.overflow
<1> DEFINE s == [session EXCEPT !.inflight = session.inflight - n]
           r == net_sent_cb(s, refused)
<1>1. /\ session \in Session /\ session.inflight \in Nat /\ session.inflight <= SndBuf
      /\ session.overrun = FALSE
      /\ Framing(session) /\ Counted(session) /\ Filling(session) /\ Sending(session)
  BY SessionFields DEF SessionOK, Sending
<1>2. session.inflight - n \in Nat /\ session.inflight - n <= SndBuf
  BY <1>1, NetConstants
<1>3. s \in Session
  BY <1>1, <1>2 DEF Session
<1>4. /\ s.inflight = session.inflight - n /\ s.pcb = session.pcb /\ s.rx = session.rx
      /\ s.overflow = session.overflow /\ s.stream = session.stream
      /\ s.heard = session.heard /\ s.handled = session.handled
      /\ s.answers = session.answers /\ s.overrun = session.overrun
      /\ s.sent = session.sent /\ s.pending_tx = session.pending_tx
  BY <1>1 DEF Session
<1> HIDE DEF s
<1>5. /\ r \in Session /\ r.sent \o r.pending_tx = s.sent \o s.pending_tx
      /\ r.inflight <= SndBuf
      /\ r.pcb = s.pcb /\ r.rx = s.rx /\ r.overflow = s.overflow
      /\ r.stream = s.stream /\ r.heard = s.heard /\ r.handled = s.handled
      /\ r.answers = s.answers /\ r.overrun = s.overrun
  BY <1>2, <1>3, <1>4, SentKeeps
<1> HIDE DEF r
<1>6. Framing(r) /\ Counted(r) /\ Filling(r) /\ Sending(r)
  BY <1>1, <1>4, <1>5 DEF Framing, Counted, Filling, Sending
<1> QED
  BY <1>1, <1>4, <1>5, <1>6 DEF SessionOK, r, s

\* A new connection has heard nothing.
LEMMA AcceptKeeps ==
  ASSUME NEW stream \in Streams
  PROVE  LET r == [NoSession EXCEPT !.pcb = TRUE, !.stream = stream]
         IN  SessionOK(r) /\ ~r.overflow
<1> DEFINE r == [NoSession EXCEPT !.pcb = TRUE, !.stream = stream]
<1>1. NoSession \in Session
  BY DEF Session, NoSession
<1>2. stream \in Seq(Bytes) /\ Len(stream) \in Nat /\ PrefixLen \in Nat \ {0} /\ SndBuf \in Nat
  BY NetConstants
<1>3. r \in Session
  BY <1>1, <1>2 DEF Session
<1>4. /\ r.pcb = TRUE /\ r.stream = stream /\ r.rx = <<>> /\ r.pending_tx = <<>>
      /\ r.overflow = FALSE /\ r.heard = 0 /\ r.handled = <<>> /\ r.answers = <<>>
      /\ r.sent = <<>> /\ r.inflight = 0 /\ r.overrun = FALSE
  BY DEF NoSession
<1> HIDE DEF r
<1>5. <<>> \o <<>> = <<>> /\ Len(<<>>) = 0 /\ Framed(<<>>) = <<>>
  BY FramedType
<1>6. Framing(r)
  <2>1. SubSeq(stream, 1, 0) = <<>>
    BY SubSeqEmpty
  <2>2. SubSeq(r.stream, 1, r.heard) = Framed(r.handled) \o r.rx
    BY <1>4, <1>5, <2>1
  <2>3. r.heard <= Len(r.stream)
    BY <1>2, <1>4
  <2> QED BY <2>2, <2>3 DEF Framing
<1>7. Counted(r)
  <2>1. 0 * (PrefixLen + 1) + 0 <= 0
    BY <1>2
  <2> QED BY <1>4, <1>5, <2>1 DEF Counted
<1>8. Filling(r)
  BY <1>2, <1>4, <1>5 DEF Filling
<1>9. Sending(r)
  BY <1>2, <1>4, <1>5 DEF Sending
<1> QED
  BY <1>3, <1>4, <1>6, <1>7, <1>8, <1>9 DEF SessionOK, r

\* The clock and the delay begin within their bounds.
LEMMA FirstValues == 0 \in 0..(ClockMod - 1) /\ FirstDelay \in FirstDelay..MaxDelay
BY NetConstants

\* net_endpoint_poll keeps the types of the state machine.
LEMMA PollKeepsWifi ==
  ASSUME WifiOK, net_endpoint_poll
  PROVE  WifiOK' /\ (session' = session \/ session' = NoSession)
<1>1. /\ ClockMod \in Nat \ {0} /\ FirstDelay \in Nat /\ MaxDelay \in Nat
      /\ ConnectTimeout \in Nat /\ FirstDelay <= MaxDelay
  BY NetConstants
<1>2. now' \in 0..(ClockMod - 1)
  BY <1>1 DEF WifiOK, net_endpoint_poll
<1>3. After(ConnectTimeout) \in 0..(ClockMod - 1) /\ After(delay) \in 0..(ClockMod - 1)
  <2>1. ASSUME NEW d \in Nat
        PROVE  After(d) \in 0..(ClockMod - 1)
    <3> DEFINE t == now'
    <3>1. t \in 0..(ClockMod - 1)
      BY <1>2
    <3> HIDE DEF t
    <3>2. t + d \in Nat
      BY <1>1, <3>1
    <3>3. (t + d) % ClockMod \in 0..(ClockMod - 1)
      BY <1>1, <3>2, DivisionType
    <3> QED BY <3>3 DEF After, t
  <2>2. delay \in Nat
    BY <1>1 DEF WifiOK
  <2> QED BY <1>1, <2>1, <2>2
<1>4. BackOff => retry_at' \in 0..(ClockMod - 1) /\ delay' \in FirstDelay..MaxDelay
  BY <1>1, <1>3 DEF BackOff, Smaller, WifiOK
<1>5. FirstDelay \in FirstDelay..MaxDelay
  BY <1>1
<1> HIDE DEF After
<1>6. CASE PollNoRecord \/ PollWaiting \/ PollReady
  BY <1>2, <1>6 DEF PollNoRecord, PollWaiting, PollReady, Keep, WifiOK, wifi, driver
<1>7. CASE PollReconnected \/ PollCleared
  BY <1>2, <1>3, <1>7 DEF PollReconnected, PollCleared, Keep, WifiOK, driver
<1>8. CASE PollConnect
  BY <1>2, <1>3, <1>4, <1>8 DEF PollConnect, WifiOK
<1>9. CASE PollListen
  BY <1>2, <1>5, <1>9 DEF PollListen, WifiOK, driver
<1>10. CASE PollConnecting
  BY <1>2, <1>4, <1>10 DEF PollConnecting, WifiOK
<1>11. CASE PollLost
  BY <1>2, <1>3, <1>11 DEF PollLost, WifiOK, driver
<1> QED
  BY <1>6, <1>7, <1>8, <1>9, <1>10, <1>11 DEF net_endpoint_poll

\* Every step keeps the invariant.
LEMMA NetStep ==
  ASSUME NetInv, [Next]_vars
  PROVE  NetInv'
<1> USE DEF NetInv
<1>1. CASE net_endpoint_poll
  <2>1. WifiOK' /\ (session' = session \/ session' = NoSession)
    BY <1>1, PollKeepsWifi
  <2> QED BY <2>1, NoSessionOK, ClosedAgain
<1>2. CASE Driver \/ RadioCommand
  <2>1. session' = session
    BY <1>2 DEF Driver, RadioCommand
  <2>2. WifiOK'
    BY <1>2 DEF Driver, Associate, Lease, LinkLost, LeaseLost, RadioCommand, WifiOK, wifi, driver
  <2> QED BY <2>1, <2>2
<1>3. CASE PowerCycle
  <2>1. session' = NoSession
    BY <1>3 DEF PowerCycle
  <2>2. WifiOK'
    BY <1>3, FirstValues DEF PowerCycle, StartState, WifiOK
  <2> QED BY <2>1, <2>2, NoSessionOK, ClosedAgain
<1>4. ASSUME UNCHANGED <<now, wifi, record, driver>>
      PROVE  WifiOK'
  BY <1>4 DEF WifiOK, wifi, driver
<1>5. ASSUME NEW stream \in Streams, net_accept_cb(stream)
      PROVE  NetInv'
  <2>1. session' = [NoSession EXCEPT !.pcb = TRUE, !.stream = stream]
    BY <1>5 DEF net_accept_cb
  <2>2. SessionOK(session') /\ ~session'.overflow
    BY <2>1, AcceptKeeps
  <2>3. WifiOK'
    BY <1>4, <1>5 DEF net_accept_cb
  <2> QED BY <2>2, <2>3
<1>6. CASE net_recv_cb
  <2>1. PICK chain \in Chains, refused \in [1..MaxFrames -> BOOLEAN],
               response \in [1..MaxFrames -> Responses] :
          /\ session.heard + Totals(chain)[Len(chain)] <= Len(session.stream)
          /\ session' = Received(chain, response, refused)
    BY <1>6 DEF net_recv_cb
  <2>2. session.pcb /\ response \in Oracle(session.stream)
    BY <1>6 DEF net_recv_cb, MaxFrames, Oracle
  <2>3. SessionOK(session') /\ ~session'.overflow
    BY <2>1, <2>2, ReceivedKeeps
  <2>4. WifiOK'
    BY <1>4, <1>6 DEF net_recv_cb
  <2> QED BY <2>3, <2>4
<1>7. CASE RemoteClosed \/ net_err_cb
  <2>1. session' = NoSession
    BY <1>7 DEF RemoteClosed, net_err_cb, Errored
  <2>2. WifiOK'
    BY <1>4, <1>7 DEF RemoteClosed, net_err_cb
  <2> QED BY <2>1, <2>2, NoSessionOK, ClosedAgain
<1>8. CASE Acknowledge
  <2>1. PICK n \in 1..session.inflight, refused \in BOOLEAN :
          session' = net_sent_cb([session EXCEPT !.inflight = @ - n], refused)
    BY <1>8 DEF Acknowledge
  <2>2. session.pcb
    BY <1>8 DEF Acknowledge
  <2>3. SessionOK(session') /\ ~session'.overflow
    BY <2>1, <2>2, AcknowledgeKeeps
  <2>4. WifiOK'
    BY <1>4, <1>8 DEF Acknowledge
  <2> QED BY <2>3, <2>4
<1>9. CASE UNCHANGED vars
  <2>1. session' = session /\ WifiOK'
    BY <1>4, <1>9 DEF vars
  <2> QED BY <2>1
<1> QED
  BY <1>1, <1>2, <1>3, <1>5, <1>6, <1>7, <1>8, <1>9 DEF Next

(***************************************************************************)
(* The invariant holds: the state machine keeps its types and the session  *)
(* is in order, for every base, prefix, buffer and segment size.           *)
(***************************************************************************)
THEOREM NetSafe == Spec => []NetInv
<1>1. Init => NetInv
  <2> SUFFICES ASSUME Init
               PROVE  NetInv
    OBVIOUS
  <2>1. WifiOK
    BY FirstValues DEF Init, StartState, WifiOK
  <2>2. session = NoSession
    BY DEF Init
  <2> QED BY <2>1, <2>2, NoSessionOK, ClosedAgain DEF NetInv
<1>2. NetInv /\ [Next]_vars => NetInv'
  BY NetStep
<1> QED
  BY <1>1, <1>2, PTL DEF Spec

(***************************************************************************)
(* Types, the bound of the send buffer, and net_recv_cb never writes       *)
(* beyond the end of net_rx, whatever lengths a peer sends and however its *)
(* stream is cut.                                                          *)
(***************************************************************************)
THEOREM NetTypeCorrect == Spec => []NetTypeOK
<1>1. NetInv => NetTypeOK
  <2> SUFFICES ASSUME NetInv
               PROVE  NetTypeOK
    OBVIOUS
  <2>1. session \in Session /\ session.overrun = FALSE /\ session.pcb \in BOOLEAN
        /\ session.inflight \in Nat
    BY SessionFields DEF NetInv, SessionOK
  <2>2. session.inflight <= SndBuf
    <3>1. CASE session.pcb
      BY <3>1 DEF NetInv, SessionOK, Sending
    <3>2. CASE ~session.pcb
      <4>1. session.inflight = 0
        BY <3>2 DEF NetInv, SessionOK, NoSession
      <4> QED BY <4>1, NetConstants
    <3> QED BY <3>1, <3>2
  <2>3. session.inflight \in 0..SndBuf
    BY <2>1, <2>2, NetConstants
  <2> QED BY <2>1, <2>3 DEF NetInv, WifiOK, NetTypeOK
<1> QED
  BY <1>1, NetSafe, PTL

(***************************************************************************)
(* However the stream is cut, the frames that were handled are exactly     *)
(* those that the peer framed (net_recv_cb, net_process_frame).            *)
(***************************************************************************)
THEOREM FramesAlwaysExact == Spec => []FramesExact
<1>1. NetInv => FramesExact
  BY DEF NetInv, SessionOK, Framing, Filling, FramesExact
<1> QED
  BY <1>1, NetSafe, PTL

(***************************************************************************)
(* What the peer is sent is whole receipts, one after the other, however   *)
(* small the send buffer is (net_sent_cb, net_process_frame).              *)
(***************************************************************************)
THEOREM ReceiptsAlwaysExact == Spec => []ReceiptsExact
<1>1. NetInv => ReceiptsExact
  BY DEF NetInv, SessionOK, Sending, ReceiptsExact
<1> QED
  BY <1>1, NetSafe, PTL

-----------------------------------------------------------------------------
\* decode_utf8 against the well-formed sequences of the Unicode standard.

\* Gathered, the loop of decode_utf8.
LEMMA GatheredUnfolds ==
  ASSUME NEW t, NEW off, NEW n \in Nat
  PROVE  LET f == Gathered(t, off, n)
         IN  f = [i \in 0..n |-> IF i = 0 THEN LeadBits(t[off + 1]) ELSE
               f[i - 1] * 64 + (t[off + 1 + i] % 64)]
<1> DEFINE E(x, i) == x * 64 + (t[off + 1 + i] % 64)
           Rec(f, k) == f = [i \in 0..k |-> IF i = 0 THEN LeadBits(t[off + 1]) ELSE E(f[i - 1], i)]
           G == {k \in 0..n : \E f : Rec(f, k)}
<1> HIDE DEF E
<1>1. 0 \in G
  <2> DEFINE g == [i \in 0..0 |-> LeadBits(t[off + 1])]
  <2>1. Rec(g, 0)
    OBVIOUS
  <2> HIDE DEF g
  <2> QED BY <2>1
<1>2. ASSUME NEW k \in 1..n, k - 1 \in G
      PROVE  k \in G
  <2>1. PICK f : Rec(f, k - 1)
    BY <1>2
  <2> DEFINE g == [i \in 0..k |-> IF i = k THEN E(f[k - 1], k) ELSE f[i]]
  <2>2. ASSUME NEW i \in 0..k
        PROVE  g[i] = IF i = 0 THEN LeadBits(t[off + 1]) ELSE E(g[i - 1], i)
    BY <2>1
  <2>3. Rec(g, k)
    BY <2>2
  <2> HIDE DEF g
  <2> QED BY <2>3
<1>3. n \in G
  <2> HIDE DEF G
  <2> QED BY <1>1, <1>2, Induction
<1> QED
  BY <1>3, Zenon DEF Gathered, E


ByteValue == 0..255
TrailByte == 128..191
Lead1 == 0..127
Lead2 == 194..223
Lead3 == 224..239
Lead4 == 240..244
NoLead == (128..193) \cup (245..255)

\* What the lead byte says of the length.
LEMMA LeadCounts ==
  /\ \A a \in Lead1 : Continuations(a) = 0
  /\ \A a \in Lead2 : Continuations(a) = 1
  /\ \A a \in Lead3 : Continuations(a) = 2
  /\ \A a \in Lead4 : Continuations(a) = 3
  /\ \A a \in NoLead : Continuations(a) = -1
<1>1. \A a \in Lead1 : Continuations(a) = 0
  BY SMT DEF Continuations, Lead1
<1>2. \A a \in Lead2 : Continuations(a) = 1
  BY SMT DEF Continuations, Lead2
<1>3. \A a \in Lead3 : Continuations(a) = 2
  BY SMT DEF Continuations, Lead3
<1>4. \A a \in Lead4 : Continuations(a) = 3
  BY SMT DEF Continuations, Lead4
<1>5. \A a \in NoLead : Continuations(a) = -1
  BY SMT DEF Continuations, NoLead
<1> QED BY <1>1, <1>2, <1>3, <1>4, <1>5

\* The loop of decode_utf8, written out.
LEMMA GatheredValues ==
  ASSUME NEW t, NEW off \in Nat, NEW n \in 0..3
  PROVE  LET g == Gathered(t, off, n)
         IN  /\ g[0] = LeadBits(t[off + 1])
             /\ n >= 1 => g[1] = g[0] * 64 + (t[off + 2] % 64)
             /\ n >= 2 => g[2] = g[1] * 64 + (t[off + 3] % 64)
             /\ n >= 3 => g[3] = g[2] * 64 + (t[off + 4] % 64)
<1> DEFINE g == Gathered(t, off, n)
<1>1. g = [i \in 0..n |-> IF i = 0 THEN LeadBits(t[off + 1])
                          ELSE g[i - 1] * 64 + (t[off + 1 + i] % 64)]
  BY GatheredUnfolds
<1> HIDE DEF g
<1>2. off + 1 + 1 = off + 2 /\ off + 1 + 2 = off + 3 /\ off + 1 + 3 = off + 4
  OBVIOUS
<1>3. g[0] = LeadBits(t[off + 1])
  BY <1>1
<1>4. n >= 1 => g[1] = g[0] * 64 + (t[off + 2] % 64)
  BY <1>1, <1>2
<1>5. n >= 2 => g[2] = g[1] * 64 + (t[off + 3] % 64)
  BY <1>1, <1>2
<1>6. n >= 3 => g[3] = g[2] * 64 + (t[off + 4] % 64)
  BY <1>1, <1>2
<1> QED BY <1>3, <1>4, <1>5, <1>6 DEF g


\* What the sequence at offset off decodes to if it is well-formed.
Decoded(cp, next) == [status |-> "OK", cp |-> cp, next |-> next]

\* The four forms of a well-formed sequence, with their code points.
Form1(a) == a < 128
Form2(a, b) == a \in 194..223 /\ b \in 128..191
Form3(a, b, c) ==
  /\ a \in 224..239 /\ b \in 128..191 /\ c \in 128..191
  /\ a = 224 => b >= 160
  /\ a = 237 => b <= 159
Form4(a, b, c, d) ==
  /\ a \in 240..244 /\ b \in 128..191 /\ c \in 128..191 /\ d \in 128..191
  /\ a = 240 => b >= 144
  /\ a = 244 => b <= 143

Value2(a, b) == (a - 192) * 64 + (b - 128)
Value3(a, b, c) == (a - 224) * 4096 + (b - 128) * 64 + (c - 128)
Value4(a, b, c, d) == (a - 240) * 262144 + (b - 128) * 4096 + (c - 128) * 64 + (d - 128)

\* The code point as the loop gathers it.
Gather2(a, b) == LeadBits(a) * 64 + (b % 64)
Gather3(a, b, c) == Gather2(a, b) * 64 + (c % 64)
Gather4(a, b, c, d) == Gather3(a, b, c) * 64 + (d % 64)

\* The value gathered from each of the four forms.
LEMMA GatherForms ==
  /\ \A a \in Lead1 : LeadBits(a) = a
  /\ \A a \in Lead2, b \in TrailByte : Gather2(a, b) = Value2(a, b)
  /\ \A a \in Lead3, b, c \in TrailByte : Gather3(a, b, c) = Value3(a, b, c)
  /\ \A a \in Lead4, b, c, d \in TrailByte : Gather4(a, b, c, d) = Value4(a, b, c, d)
<1>0. \A b \in TrailByte : b \in Int /\ b % 64 = b - 128
  BY SMT DEF TrailByte
<1>1. \A a \in Lead1 : LeadBits(a) = a
  BY SMT DEF LeadBits, Lead1
<1>2. ASSUME NEW a \in Lead2, NEW b \in TrailByte
      PROVE  Gather2(a, b) = Value2(a, b)
  <2>1. LeadBits(a) = a - 192
    BY SMT DEF LeadBits, Lead2
  <2> QED BY <1>0, <2>1, SMT DEF Gather2, Value2, Lead2, TrailByte
<1>3. ASSUME NEW a \in Lead3, NEW b \in TrailByte, NEW c \in TrailByte
      PROVE  Gather3(a, b, c) = Value3(a, b, c)
  <2>1. LeadBits(a) = a - 224
    BY SMT DEF LeadBits, Lead3
  <2>2. b % 64 = b - 128 /\ c % 64 = c - 128 /\ a \in Int /\ b \in Int /\ c \in Int
    BY SMT DEF TrailByte, Lead3
  <2> QED BY <2>1, <2>2, SMT DEF Gather2, Gather3, Value3
<1>4. ASSUME NEW a \in Lead4, NEW b \in TrailByte, NEW c \in TrailByte, NEW d \in TrailByte
      PROVE  Gather4(a, b, c, d) = Value4(a, b, c, d)
  <2>1. LeadBits(a) = a - 240
    BY SMT DEF LeadBits, Lead4
  <2>2. /\ b % 64 = b - 128 /\ c % 64 = c - 128 /\ d % 64 = d - 128
        /\ a \in Int /\ b \in Int /\ c \in Int /\ d \in Int
    BY SMT DEF TrailByte, Lead4
  <2>3. Gather2(a, b) = (a - 240) * 64 + (b - 128)
    BY <2>1, <2>2, SMT DEF Gather2
  <2>4. Gather3(a, b, c) = ((a - 240) * 64 + (b - 128)) * 64 + (c - 128)
    BY <2>2, <2>3, SMT DEF Gather3
  <2>5. Gather4(a, b, c, d) = (((a - 240) * 64 + (b - 128)) * 64 + (c - 128)) * 64 + (d - 128)
    BY <2>2, <2>4, SMT DEF Gather4
  <2> QED BY <2>2, <2>5, SMT DEF Value4
<1> QED BY <1>1, <1>2, <1>3, <1>4, Zenon

\* The tests of decode_utf8 on the code point are those of the Unicode table.
LEMMA ScalarForms ==
  /\ \A a \in Lead1 : ~NotScalar(0, a)
  /\ \A a \in Lead2, b \in TrailByte : ~NotScalar(1, Value2(a, b))
  /\ \A a \in Lead3, b, c \in TrailByte : ~NotScalar(2, Value3(a, b, c)) <=> Form3(a, b, c)
  /\ \A a \in Lead4, b, c, d \in TrailByte :
       ~NotScalar(3, Value4(a, b, c, d)) <=> Form4(a, b, c, d)
<1>1. Minimum(0) = 0 /\ Minimum(1) = 128 /\ Minimum(2) = 2048 /\ Minimum(3) = 65536
  BY SMT DEF Minimum
<1>2. \A a \in Lead1 : ~NotScalar(0, a)
  BY <1>1, SMT DEF NotScalar, Lead1
<1>3. \A a \in Lead2, b \in TrailByte : ~NotScalar(1, Value2(a, b))
  BY <1>1, SMT DEF NotScalar, Value2, Lead2, TrailByte
<1>4. \A a \in Lead3, b, c \in TrailByte : ~NotScalar(2, Value3(a, b, c)) <=> Form3(a, b, c)
  BY <1>1, SMTT(60) DEF NotScalar, Value3, Form3, Lead3, TrailByte
<1>5. \A a \in Lead4, b, c, d \in TrailByte :
        ~NotScalar(3, Value4(a, b, c, d)) <=> Form4(a, b, c, d)
  BY <1>1, SMTT(60) DEF NotScalar, Value4, Form4, Lead4, TrailByte
<1> QED BY <1>2, <1>3, <1>4, <1>5, Zenon

\* The forms by their lead bytes.
LEMMA FormsByLead ==
  /\ \A a \in Lead1 : \A b, c, d : Form1(a) /\ ~Form2(a, b) /\ ~Form3(a, b, c) /\ ~Form4(a, b, c, d)
  /\ \A a \in Lead2 : \A b, c, d : /\ ~Form1(a) /\ ~Form3(a, b, c) /\ ~Form4(a, b, c, d)
                                   /\ Form2(a, b) <=> b \in TrailByte
  /\ \A a \in Lead3 : \A b, c, d : /\ ~Form1(a) /\ ~Form2(a, b) /\ ~Form4(a, b, c, d)
                                   /\ Form3(a, b, c) => b \in TrailByte /\ c \in TrailByte
  /\ \A a \in Lead4 : \A b, c, d :
       /\ ~Form1(a) /\ ~Form2(a, b) /\ ~Form3(a, b, c)
       /\ Form4(a, b, c, d) => b \in TrailByte /\ c \in TrailByte /\ d \in TrailByte
  /\ \A a \in NoLead : \A b, c, d :
       ~Form1(a) /\ ~Form2(a, b) /\ ~Form3(a, b, c) /\ ~Form4(a, b, c, d)
<1>1. \A a \in Lead1 : \A b, c, d :
        Form1(a) /\ ~Form2(a, b) /\ ~Form3(a, b, c) /\ ~Form4(a, b, c, d)
  BY SMT DEF Lead1, Form1, Form2, Form3, Form4
<1>2. \A a \in Lead2 : \A b, c, d : /\ ~Form1(a) /\ ~Form3(a, b, c) /\ ~Form4(a, b, c, d)
                                    /\ Form2(a, b) <=> b \in TrailByte
  BY SMT DEF Lead2, Form1, Form2, Form3, Form4, TrailByte
<1>3. \A a \in Lead3 : \A b, c, d : /\ ~Form1(a) /\ ~Form2(a, b) /\ ~Form4(a, b, c, d)
                                    /\ Form3(a, b, c) => b \in TrailByte /\ c \in TrailByte
  BY SMT DEF Lead3, Form1, Form2, Form3, Form4, TrailByte
<1>4. \A a \in Lead4 : \A b, c, d :
        /\ ~Form1(a) /\ ~Form2(a, b) /\ ~Form3(a, b, c)
        /\ Form4(a, b, c, d) => b \in TrailByte /\ c \in TrailByte /\ d \in TrailByte
  BY SMT DEF Lead4, Form1, Form2, Form3, Form4, TrailByte
<1>5. \A a \in NoLead : \A b, c, d :
        ~Form1(a) /\ ~Form2(a, b) /\ ~Form3(a, b, c) /\ ~Form4(a, b, c, d)
  BY SMT DEF NoLead, Form1, Form2, Form3, Form4
<1> QED BY <1>1, <1>2, <1>3, <1>4, <1>5, Zenon

\* EncodeUTF8 undoes it.
LEMMA EncodeForms ==
  /\ \A a \in ByteValue : Form1(a) => EncodeUTF8(a) = <<a>>
  /\ \A a, b \in ByteValue : Form2(a, b) => EncodeUTF8(Value2(a, b)) = <<a, b>>
  /\ \A a, b, c \in ByteValue : Form3(a, b, c) => EncodeUTF8(Value3(a, b, c)) = <<a, b, c>>
  /\ \A a, b, c, d \in ByteValue :
       Form4(a, b, c, d) => EncodeUTF8(Value4(a, b, c, d)) = <<a, b, c, d>>
<1>1. ASSUME NEW a \in ByteValue, Form1(a)
      PROVE  EncodeUTF8(a) = <<a>>
  <2>1. EncodeUTF8(a) = OneByte(a)
    BY <1>1, SMT DEF EncodeUTF8, Form1, ByteValue
  <2> QED BY <2>1 DEF OneByte
<1>2. ASSUME NEW a \in ByteValue, NEW b \in ByteValue, Form2(a, b)
      PROVE  EncodeUTF8(Value2(a, b)) = <<a, b>>
  <2> DEFINE v == Value2(a, b)
  <2>1. v \in 128..2047 /\ 192 + v \div 64 = a /\ Continuation(v, 1) = b
    BY <1>2, SMT DEF Form2, Value2, ByteValue, Continuation
  <2> HIDE DEF v
  <2>2. EncodeUTF8(v) = TwoBytes(v)
    BY <2>1, SMT DEF EncodeUTF8
  <2> QED BY <2>1, <2>2, SMT DEF TwoBytes, v
<1>3. ASSUME NEW a \in ByteValue, NEW b \in ByteValue, NEW c \in ByteValue, Form3(a, b, c)
      PROVE  EncodeUTF8(Value3(a, b, c)) = <<a, b, c>>
  <2> DEFINE v == Value3(a, b, c)
  <2>0. /\ a \in 224..239 /\ b \in 128..191 /\ c \in 128..191
        /\ v = (a - 224) * 4096 + (b - 128) * 64 + (c - 128)
    BY <1>3, SMT DEF Form3, Value3
  <2>1. v \in Int /\ v >= 2048 /\ v < 65536 /\ v \div 1 = v
    <3>1. v \in Int
      BY <2>0, SMT
    <3>2. v >= 2048
      <4>1. CASE a = 224
        BY <1>3, <2>0, <4>1, SMT DEF Form3
      <4>2. CASE a >= 225
        BY <2>0, <4>2, SMT
      <4> QED BY <2>0, <4>1, <4>2, SMT
    <3>3. v < 65536
      BY <2>0, SMT
    <3> QED BY <3>1, <3>2, <3>3, SMT
  <2> HIDE DEF v
  <2>2. v \div 4096 = a - 224
    BY <2>0, SMT
  <2>3. v \div 64 = (a - 224) * 64 + (b - 128)
    BY <2>0, SMT
  <2>4. v % 64 = c - 128
    BY <2>0, SMT
  <2>5. Continuation(v, 64) = b
    BY <2>0, <2>3, SMT DEF Continuation
  <2>6. Continuation(v, 1) = c
    BY <2>0, <2>1, <2>4, SMT DEF Continuation
  <2>7. EncodeUTF8(v) = ThreeBytes(v)
    BY <2>1, SMT DEF EncodeUTF8
  <2>8. 224 + v \div 4096 = a
    BY <2>0, <2>2, SMT
  <2> QED BY <2>5, <2>6, <2>7, <2>8, SMT DEF ThreeBytes, v
<1>4. ASSUME NEW a \in ByteValue, NEW b \in ByteValue, NEW c \in ByteValue,
             NEW d \in ByteValue, Form4(a, b, c, d)
      PROVE  EncodeUTF8(Value4(a, b, c, d)) = <<a, b, c, d>>
  <2> DEFINE v == Value4(a, b, c, d)
  <2>0. /\ a \in 240..244 /\ b \in 128..191 /\ c \in 128..191 /\ d \in 128..191
        /\ v = (a - 240) * 262144 + (b - 128) * 4096 + (c - 128) * 64 + (d - 128)
    BY <1>4, SMT DEF Form4, Value4
  <2>1. v \in Int /\ v >= 65536 /\ v \div 1 = v
    <3>1. v \in Int
      BY <2>0, SMT
    <3>2. v >= 65536
      <4>1. CASE a = 240
        BY <1>4, <2>0, <4>1, SMT DEF Form4
      <4>2. CASE a >= 241
        BY <2>0, <4>2, SMT
      <4> QED BY <2>0, <4>1, <4>2, SMT
    <3> QED BY <3>1, <3>2, SMT
  <2> HIDE DEF v
  <2>2. v \div 262144 = a - 240
    BY <2>0, SMT
  <2>3. v \div 4096 = (a - 240) * 64 + (b - 128)
    BY <2>0, SMT
  <2>4. v \div 64 = (a - 240) * 4096 + (b - 128) * 64 + (c - 128)
    BY <2>0, SMT
  <2>5. v % 64 = d - 128
    BY <2>0, SMT
  <2>6. Continuation(v, 4096) = b
    BY <2>0, <2>3, SMT DEF Continuation
  <2>7. Continuation(v, 64) = c
    BY <2>0, <2>4, SMT DEF Continuation
  <2>8. Continuation(v, 1) = d
    BY <2>0, <2>1, <2>5, SMT DEF Continuation
  <2>9. EncodeUTF8(v) = FourBytes(v)
    BY <2>1, SMT DEF EncodeUTF8
  <2>10. 240 + v \div 262144 = a
    BY <2>0, <2>2, SMT
  <2> QED BY <2>6, <2>7, <2>8, <2>9, <2>10, SMT DEF FourBytes, v
<1> QED BY <1>1, <1>2, <1>3, <1>4, SMT

\* A well-formed sequence of n bytes starts at offset off.
Starts(t, off, n) ==
  /\ off + n <= Len(t)
  /\ \/ n = 1 /\ Form1(t[off + 1])
     \/ n = 2 /\ Form2(t[off + 1], t[off + 2])
     \/ n = 3 /\ Form3(t[off + 1], t[off + 2], t[off + 3])
     \/ n = 4 /\ Form4(t[off + 1], t[off + 2], t[off + 3], t[off + 4])

\* The code point that it stands for.
ScalarAt(t, off, n) ==
  IF n = 1 THEN t[off + 1]
  ELSE IF n = 2 THEN Value2(t[off + 1], t[off + 2])
  ELSE IF n = 3 THEN Value3(t[off + 1], t[off + 2], t[off + 3])
  ELSE Value4(t[off + 1], t[off + 2], t[off + 3], t[off + 4])

\* The test of decode_utf8 with n continuation bytes, its code point given.
LEMMA DecodeSplits ==
  ASSUME NEW t \in Seq(ByteValue), NEW off \in Nat, off < Len(t),
         NEW n \in 0..3, Continuations(t[off + 1]) = n,
         NEW cp, cp = Gathered(t, off, n)[n]
  PROVE  decode_utf8(t, off) =
           IF \/ Len(t) < off + 1 + n
              \/ \E i \in (off + 2)..(off + 1 + n) : t[i] \notin TrailByte
              \/ NotScalar(n, cp)
           THEN Malformed ELSE Decoded(cp, off + 1 + n)
<1>1. n # -1
  BY SMT
<1> QED BY <1>1, SMT DEF decode_utf8, Decoded, TrailByte

\* decode_utf8 in terms of the form its lead byte asks for.
LEMMA DecodeBytes ==
  ASSUME NEW t \in Seq(ByteValue), NEW off \in Nat, off < Len(t)
  PROVE  LET a == t[off + 1]
             b == t[off + 2]
             c == t[off + 3]
             e == t[off + 4]
             v0 == LeadBits(a)
             v1 == v0 * 64 + (b % 64)
             v2 == v1 * 64 + (c % 64)
             v3 == v2 * 64 + (e % 64)
             d == decode_utf8(t, off)
         IN  /\ Continuations(a) = -1 => d = Malformed
             /\ Continuations(a) = 0 =>
                  d = IF NotScalar(0, v0) THEN Malformed ELSE Decoded(v0, off + 1)
             /\ Continuations(a) = 1 =>
                  d = IF off + 2 <= Len(t) /\ b \in TrailByte /\ ~NotScalar(1, v1)
                      THEN Decoded(v1, off + 2) ELSE Malformed
             /\ Continuations(a) = 2 =>
                  d = IF /\ off + 3 <= Len(t) /\ b \in TrailByte /\ c \in TrailByte
                         /\ ~NotScalar(2, v2)
                      THEN Decoded(v2, off + 3) ELSE Malformed
             /\ Continuations(a) = 3 =>
                  d = IF /\ off + 4 <= Len(t) /\ b \in TrailByte /\ c \in TrailByte
                         /\ e \in TrailByte /\ ~NotScalar(3, v3)
                      THEN Decoded(v3, off + 4) ELSE Malformed
<1> DEFINE a == t[off + 1]
           b == t[off + 2]
           c == t[off + 3]
           e == t[off + 4]
           v0 == LeadBits(a)
           v1 == v0 * 64 + (b % 64)
           v2 == v1 * 64 + (c % 64)
           v3 == v2 * 64 + (e % 64)
           d == decode_utf8(t, off)
<1>l. Len(t) \in Nat
  OBVIOUS
<1>g. /\ Gathered(t, off, 0)[0] = v0 /\ Gathered(t, off, 1)[1] = v1
      /\ Gathered(t, off, 2)[2] = v2 /\ Gathered(t, off, 3)[3] = v3
  <2>1. Gathered(t, off, 0)[0] = v0
    BY GatheredValues, SMT
  <2>2. Gathered(t, off, 1)[1] = v1
    BY GatheredValues, SMT
  <2>3. Gathered(t, off, 2)[2] = v2
    BY GatheredValues, SMT
  <2>4. Gathered(t, off, 3)[3] = v3
    <3> DEFINE g == Gathered(t, off, 3)
    <3>1. g[0] = v0 /\ g[1] = g[0] * 64 + (b % 64) /\ g[2] = g[1] * 64 + (c % 64)
          /\ g[3] = g[2] * 64 + (e % 64)
      BY GatheredValues, SMT
    <3> QED BY <3>1
  <2> QED BY <2>1, <2>2, <2>3, <2>4
<1>1. ASSUME Continuations(a) = -1
      PROVE  d = Malformed
  BY <1>1, SMT DEF decode_utf8
<1>2. ASSUME Continuations(a) = 0
      PROVE  d = IF NotScalar(0, v0) THEN Malformed ELSE Decoded(v0, off + 1)
  <2>1. d = IF \/ Len(t) < off + 1 + 0
               \/ \E i \in (off + 2)..(off + 1 + 0) : t[i] \notin TrailByte
               \/ NotScalar(0, v0)
            THEN Malformed ELSE Decoded(v0, off + 1 + 0)
    <3> HIDE DEF v0
    <3> QED BY <1>2, <1>g, DecodeSplits, SMT
  <2>2. ~(Len(t) < off + 1 + 0) /\ off + 1 + 0 = off + 1 /\ (off + 2)..(off + 1 + 0) = {}
    BY <1>l, SMT
  <2> HIDE DEF v0, d
  <2> QED BY <2>1, <2>2, Zenon
<1>3. ASSUME Continuations(a) = 1
      PROVE  d = IF off + 2 <= Len(t) /\ b \in TrailByte /\ ~NotScalar(1, v1)
                 THEN Decoded(v1, off + 2) ELSE Malformed
  <2>1. d = IF \/ Len(t) < off + 1 + 1
               \/ \E i \in (off + 2)..(off + 1 + 1) : t[i] \notin TrailByte
               \/ NotScalar(1, v1)
            THEN Malformed ELSE Decoded(v1, off + 1 + 1)
    <3> HIDE DEF v1
    <3> QED BY <1>3, <1>g, DecodeSplits, SMT
  <2>2. /\ Len(t) < off + 1 + 1 <=> ~(off + 2 <= Len(t))
        /\ off + 1 + 1 = off + 2
    BY <1>l, SMT
  <2>3. (\E i \in (off + 2)..(off + 2) : t[i] \notin TrailByte) <=> ~(b \in TrailByte)
    BY SMT
  <2> HIDE DEF v1, d, b
  <2> QED BY <2>1, <2>2, <2>3, SMT
<1>4. ASSUME Continuations(a) = 2
      PROVE  d = IF /\ off + 3 <= Len(t) /\ b \in TrailByte /\ c \in TrailByte
                    /\ ~NotScalar(2, v2)
                 THEN Decoded(v2, off + 3) ELSE Malformed
  <2>1. d = IF \/ Len(t) < off + 1 + 2
               \/ \E i \in (off + 2)..(off + 1 + 2) : t[i] \notin TrailByte
               \/ NotScalar(2, v2)
            THEN Malformed ELSE Decoded(v2, off + 1 + 2)
    <3>1. 2 \in 0..3 /\ Gathered(t, off, 2)[2] = v2
      BY <1>g
    <3> HIDE DEF v2
    <3> QED BY <1>4, <3>1, DecodeSplits, Zenon
  <2>2. /\ Len(t) < off + 1 + 2 <=> ~(off + 3 <= Len(t))
        /\ off + 1 + 2 = off + 3
    BY <1>l, SMT
  <2>3. (\E i \in (off + 2)..(off + 3) : t[i] \notin TrailByte)
          <=> ~(b \in TrailByte /\ c \in TrailByte)
    <3>1. (off + 2)..(off + 3) = {off + 2, off + 3}
      BY SMT
    <3> QED BY <3>1, Zenon
  <2> HIDE DEF v2, d, b, c
  <2> QED BY <2>1, <2>2, <2>3, SMT
<1>5. ASSUME Continuations(a) = 3
      PROVE  d = IF /\ off + 4 <= Len(t) /\ b \in TrailByte /\ c \in TrailByte
                    /\ e \in TrailByte /\ ~NotScalar(3, v3)
                 THEN Decoded(v3, off + 4) ELSE Malformed
  <2>1. d = IF \/ Len(t) < off + 1 + 3
               \/ \E i \in (off + 2)..(off + 1 + 3) : t[i] \notin TrailByte
               \/ NotScalar(3, v3)
            THEN Malformed ELSE Decoded(v3, off + 1 + 3)
    <3>1. 3 \in 0..3 /\ Gathered(t, off, 3)[3] = v3
      BY <1>g
    <3> HIDE DEF v3
    <3> QED BY <1>5, <3>1, DecodeSplits, Zenon
  <2>2. /\ Len(t) < off + 1 + 3 <=> ~(off + 4 <= Len(t))
        /\ off + 1 + 3 = off + 4
    BY <1>l, SMT
  <2>3. (\E i \in (off + 2)..(off + 4) : t[i] \notin TrailByte)
          <=> ~(b \in TrailByte /\ c \in TrailByte /\ e \in TrailByte)
    <3>1. (off + 2)..(off + 4) = {off + 2, off + 3, off + 4}
      BY SMT
    <3> QED BY <3>1, Zenon
  <2> HIDE DEF v3, d, b, c, e
  <2> QED BY <2>1, <2>2, <2>3, SMT
<1> HIDE DEF v0, v1, v2, v3, d, a, b, c, e
<1>6. /\ Continuations(a) = -1 => d = Malformed
      /\ Continuations(a) = 0 =>
           d = IF NotScalar(0, v0) THEN Malformed ELSE Decoded(v0, off + 1)
      /\ Continuations(a) = 1 =>
           d = IF off + 2 <= Len(t) /\ b \in TrailByte /\ ~NotScalar(1, v1)
               THEN Decoded(v1, off + 2) ELSE Malformed
      /\ Continuations(a) = 2 =>
           d = IF /\ off + 3 <= Len(t) /\ b \in TrailByte /\ c \in TrailByte
                  /\ ~NotScalar(2, v2)
               THEN Decoded(v2, off + 3) ELSE Malformed
      /\ Continuations(a) = 3 =>
           d = IF /\ off + 4 <= Len(t) /\ b \in TrailByte /\ c \in TrailByte
                  /\ e \in TrailByte /\ ~NotScalar(3, v3)
               THEN Decoded(v3, off + 4) ELSE Malformed
  BY <1>1, <1>2, <1>3, <1>4, <1>5, SMT
<1> QED BY <1>6, SMT DEF v0, v1, v2, v3, d, a, b, c, e

\* decode_utf8 accepts at off exactly if one of the four forms starts there.
LEMMA DecodeForms ==
  ASSUME NEW t \in Seq(ByteValue), NEW off \in Nat, off < Len(t)
  PROVE  /\ \A n \in 1..4 : Starts(t, off, n) =>
              decode_utf8(t, off) = Decoded(ScalarAt(t, off, n), off + n)
         /\ (\A n \in 1..4 : ~Starts(t, off, n)) => decode_utf8(t, off) = Malformed
<1> DEFINE a == t[off + 1]
           b == t[off + 2]
           c == t[off + 3]
           e == t[off + 4]
           d == decode_utf8(t, off)
           Within(n) == off + n <= Len(t)
<1>1. Within(1) /\ off + 1 \in 1..Len(t)
  OBVIOUS
<1>2. a \in Lead1 \/ a \in Lead2 \/ a \in Lead3 \/ a \in Lead4 \/ a \in NoLead
  <2>1. a \in ByteValue
    BY <1>1, ElementOfSeq, Zenon
  <2> HIDE DEF a
  <2> QED BY <2>1, SMT DEF ByteValue, Lead1, Lead2, Lead3, Lead4, NoLead
<1>3. /\ Continuations(a) = -1 => d = Malformed
      /\ Continuations(a) = 0 =>
           d = IF NotScalar(0, LeadBits(a)) THEN Malformed ELSE Decoded(LeadBits(a), off + 1)
      /\ Continuations(a) = 1 =>
           d = IF Within(2) /\ b \in TrailByte /\ ~NotScalar(1, Gather2(a, b))
               THEN Decoded(Gather2(a, b), off + 2) ELSE Malformed
      /\ Continuations(a) = 2 =>
           d = IF /\ Within(3) /\ b \in TrailByte /\ c \in TrailByte
                  /\ ~NotScalar(2, Gather3(a, b, c))
               THEN Decoded(Gather3(a, b, c), off + 3) ELSE Malformed
      /\ Continuations(a) = 3 =>
           d = IF /\ Within(4) /\ b \in TrailByte /\ c \in TrailByte /\ e \in TrailByte
                  /\ ~NotScalar(3, Gather4(a, b, c, e))
               THEN Decoded(Gather4(a, b, c, e), off + 4) ELSE Malformed
  BY DecodeBytes, ZenonT(60) DEF Gather2, Gather3, Gather4
<1>4. /\ Starts(t, off, 1) <=> Within(1) /\ Form1(a)
      /\ Starts(t, off, 2) <=> Within(2) /\ Form2(a, b)
      /\ Starts(t, off, 3) <=> Within(3) /\ Form3(a, b, c)
      /\ Starts(t, off, 4) <=> Within(4) /\ Form4(a, b, c, e)
  BY SMT DEF Starts
<1>5. /\ ScalarAt(t, off, 1) = a /\ ScalarAt(t, off, 2) = Value2(a, b)
      /\ ScalarAt(t, off, 3) = Value3(a, b, c) /\ ScalarAt(t, off, 4) = Value4(a, b, c, e)
  BY SMT DEF ScalarAt
<1> HIDE DEF a, b, c, e, d, Within
<1> DEFINE Good(n) == Starts(t, off, n) => d = Decoded(ScalarAt(t, off, n), off + n)
           None == ~Starts(t, off, 1) /\ ~Starts(t, off, 2) /\ ~Starts(t, off, 3)
                   /\ ~Starts(t, off, 4)
           Claim == Good(1) /\ Good(2) /\ Good(3) /\ Good(4) /\ (None => d = Malformed)
<1>6. ASSUME a \in Lead1
      PROVE  Claim
  <2>1. Continuations(a) = 0 /\ LeadBits(a) = a /\ ~NotScalar(0, a)
    BY <1>6, LeadCounts, GatherForms, ScalarForms, Zenon
  <2>2. Form1(a) /\ ~Form2(a, b) /\ ~Form3(a, b, c) /\ ~Form4(a, b, c, e)
    BY <1>6, FormsByLead, Zenon
  <2> QED BY <1>1, <1>3, <1>4, <1>5, <2>1, <2>2, Zenon
<1>7. ASSUME a \in Lead2
      PROVE  Claim
  <2>1. /\ Continuations(a) = 1
        /\ b \in TrailByte => Gather2(a, b) = Value2(a, b) /\ ~NotScalar(1, Value2(a, b))
    BY <1>7, LeadCounts, GatherForms, ScalarForms, Zenon
  <2>2. ~Form1(a) /\ ~Form3(a, b, c) /\ ~Form4(a, b, c, e) /\ (Form2(a, b) <=> b \in TrailByte)
    BY <1>7, FormsByLead, Zenon
  <2> QED BY <1>3, <1>4, <1>5, <2>1, <2>2, Zenon
<1>8. ASSUME a \in Lead3
      PROVE  Claim
  <2>1. /\ Continuations(a) = 2
        /\ b \in TrailByte /\ c \in TrailByte =>
             /\ Gather3(a, b, c) = Value3(a, b, c)
             /\ ~NotScalar(2, Value3(a, b, c)) <=> Form3(a, b, c)
    BY <1>8, LeadCounts, GatherForms, ScalarForms, Zenon
  <2>2. /\ ~Form1(a) /\ ~Form2(a, b) /\ ~Form4(a, b, c, e)
        /\ Form3(a, b, c) => b \in TrailByte /\ c \in TrailByte
    BY <1>8, FormsByLead, Zenon
  <2> QED BY <1>3, <1>4, <1>5, <2>1, <2>2, Zenon
<1>9. ASSUME a \in Lead4
      PROVE  Claim
  <2>1. /\ Continuations(a) = 3
        /\ b \in TrailByte /\ c \in TrailByte /\ e \in TrailByte =>
             /\ Gather4(a, b, c, e) = Value4(a, b, c, e)
             /\ ~NotScalar(3, Value4(a, b, c, e)) <=> Form4(a, b, c, e)
    BY <1>9, LeadCounts, GatherForms, ScalarForms, Zenon
  <2>2. /\ ~Form1(a) /\ ~Form2(a, b) /\ ~Form3(a, b, c)
        /\ Form4(a, b, c, e) => b \in TrailByte /\ c \in TrailByte /\ e \in TrailByte
    BY <1>9, FormsByLead, Zenon
  <2> QED BY <1>3, <1>4, <1>5, <2>1, <2>2, Zenon
<1>10. ASSUME a \in NoLead
       PROVE  Claim
  <2>1. Continuations(a) = -1
    BY <1>10, LeadCounts, Zenon
  <2>2. ~Form1(a) /\ ~Form2(a, b) /\ ~Form3(a, b, c) /\ ~Form4(a, b, c, e)
    BY <1>10, FormsByLead, Zenon
  <2> QED BY <1>3, <1>4, <2>1, <2>2, Zenon
<1>11. Claim
  BY <1>2, <1>6, <1>7, <1>8, <1>9, <1>10, Zenon
<1>12. \A n \in 1..4 : n = 1 \/ n = 2 \/ n = 3 \/ n = 4
  BY SMT
<1>13. 1 \in 1..4 /\ 2 \in 1..4 /\ 3 \in 1..4 /\ 4 \in 1..4
  BY SMT
<1> QED BY <1>11, <1>12, <1>13, Zenon DEF d

\* The table of the Unicode standard, by the length of the sequence.
LEMMA WellFormedForms ==
  ASSUME NEW s, Len(s) \in Nat
  PROVE  /\ Len(s) = 1 => (WellFormed(s) <=> Form1(s[1]))
         /\ Len(s) = 2 => (WellFormed(s) <=> Form2(s[1], s[2]))
         /\ Len(s) = 3 => (WellFormed(s) <=> Form3(s[1], s[2], s[3]))
         /\ Len(s) = 4 => (WellFormed(s) <=> Form4(s[1], s[2], s[3], s[4]))
         /\ WellFormed(s) => Len(s) \in 1..4
<1> DEFINE Row(n, first, second) ==
             /\ Len(s) = n /\ s[1] \in first /\ s[2] \in second
             /\ \A i \in 3..n : s[i] \in 128..191
           a == s[1]
           b == s[2]
           c == s[3]
           d == s[4]
<1>1. /\ (\A i \in 3..2 : s[i] \in 128..191)
      /\ (\A i \in 3..3 : s[i] \in 128..191) <=> c \in 128..191
      /\ (\A i \in 3..4 : s[i] \in 128..191) <=> c \in 128..191 /\ d \in 128..191
  <2> DEFINE K == 128..191
  <2> HIDE DEF K
  <2>1. 3..2 = {} /\ 3..3 = {3} /\ 3..4 = {3, 4}
    BY SMT
  <2>2. /\ (\A i \in 3..2 : s[i] \in K)
        /\ (\A i \in 3..3 : s[i] \in K) <=> c \in K
        /\ (\A i \in 3..4 : s[i] \in K) <=> c \in K /\ d \in K
    BY <2>1, Zenon
  <2> QED BY <2>2, SMT DEF K
<1>2. WellFormed(s) <=>
        \/ Len(s) = 1 /\ a < 128
        \/ Row(2, 194..223, 128..191)
        \/ Row(3, {224}, 160..191)
        \/ Row(3, (225..239) \ {237}, 128..191)
        \/ Row(3, {237}, 128..159)
        \/ Row(4, {240}, 144..191)
        \/ Row(4, 241..243, 128..191)
        \/ Row(4, {244}, 128..143)
  BY SMT DEF WellFormed
<1>3. WellFormed(s) <=>
        \/ Len(s) = 1 /\ a < 128
        \/ Len(s) = 2 /\ a \in 194..223 /\ b \in 128..191
        \/ /\ Len(s) = 3 /\ c \in 128..191
           /\ \/ a \in {224} /\ b \in 160..191
              \/ a \in (225..239) \ {237} /\ b \in 128..191
              \/ a \in {237} /\ b \in 128..159
        \/ /\ Len(s) = 4 /\ c \in 128..191 /\ d \in 128..191
           /\ \/ a \in {240} /\ b \in 144..191
              \/ a \in 241..243 /\ b \in 128..191
              \/ a \in {244} /\ b \in 128..143
  BY <1>1, <1>2, SMT
<1> HIDE DEF Row, a, b, c, d
<1>4. Len(s) = 1 => (WellFormed(s) <=> Form1(a))
  BY <1>3, SMT DEF Form1
<1>5. Len(s) = 2 => (WellFormed(s) <=> Form2(a, b))
  BY <1>3, SMT DEF Form2
<1>6. Len(s) = 3 => (WellFormed(s) <=> Form3(a, b, c))
  <2>1. Form3(a, b, c) <=>
          /\ c \in 128..191
          /\ \/ a \in {224} /\ b \in 160..191
             \/ a \in (225..239) \ {237} /\ b \in 128..191
             \/ a \in {237} /\ b \in 128..159
    <3>1. ASSUME Form3(a, b, c)
          PROVE  /\ c \in 128..191
                 /\ \/ a \in {224} /\ b \in 160..191
                    \/ a \in (225..239) \ {237} /\ b \in 128..191
                    \/ a \in {237} /\ b \in 128..159
      <4>1. a \in 224..239 /\ b \in 128..191 /\ c \in 128..191
        BY <3>1, SMT DEF Form3
      <4>2. CASE a = 224
        BY <3>1, <4>1, <4>2, SMT DEF Form3
      <4>3. CASE a = 237
        BY <3>1, <4>1, <4>3, SMT DEF Form3
      <4>4. CASE a # 224 /\ a # 237
        BY <4>1, <4>4, SMT
      <4> QED BY <4>2, <4>3, <4>4, SMT
    <3>2. a \in {224} /\ b \in 160..191 /\ c \in 128..191 => Form3(a, b, c)
      BY SMT DEF Form3
    <3>3. a \in (225..239) \ {237} /\ b \in 128..191 /\ c \in 128..191 => Form3(a, b, c)
      BY SMT DEF Form3
    <3>4. a \in {237} /\ b \in 128..159 /\ c \in 128..191 => Form3(a, b, c)
      BY SMT DEF Form3
    <3> QED BY <3>1, <3>2, <3>3, <3>4, SMT
  <2> QED BY <1>3, <2>1, SMT
<1>7. Len(s) = 4 => (WellFormed(s) <=> Form4(a, b, c, d))
  <2>1. Form4(a, b, c, d) <=>
          /\ c \in 128..191 /\ d \in 128..191
          /\ \/ a \in {240} /\ b \in 144..191
             \/ a \in 241..243 /\ b \in 128..191
             \/ a \in {244} /\ b \in 128..143
    <3>1. ASSUME Form4(a, b, c, d)
          PROVE  /\ c \in 128..191 /\ d \in 128..191
                 /\ \/ a \in {240} /\ b \in 144..191
                    \/ a \in 241..243 /\ b \in 128..191
                    \/ a \in {244} /\ b \in 128..143
      <4>1. a \in 240..244 /\ b \in 128..191 /\ c \in 128..191 /\ d \in 128..191
        BY <3>1, SMT DEF Form4
      <4>2. CASE a = 240
        BY <3>1, <4>1, <4>2, SMT DEF Form4
      <4>3. CASE a = 244
        BY <3>1, <4>1, <4>3, SMT DEF Form4
      <4>4. CASE a # 240 /\ a # 244
        BY <4>1, <4>4, SMT
      <4> QED BY <4>2, <4>3, <4>4, SMT
    <3> DEFINE Trailing == c \in 128..191 /\ d \in 128..191
    <3>2. a \in {240} /\ b \in 144..191 /\ Trailing => Form4(a, b, c, d)
      BY SMT DEF Form4
    <3>3. a \in 241..243 /\ b \in 128..191 /\ Trailing => Form4(a, b, c, d)
      BY SMT DEF Form4
    <3>4. a \in {244} /\ b \in 128..143 /\ Trailing => Form4(a, b, c, d)
      BY SMT DEF Form4
    <3> QED BY <3>1, <3>2, <3>3, <3>4, SMT
  <2> QED BY <1>3, <2>1, SMT
<1>8. WellFormed(s) => Len(s) \in 1..4
  BY <1>3, SMT
<1> QED BY <1>4, <1>5, <1>6, <1>7, <1>8, Zenon DEF a, b, c, d

\* Whether the first n bytes are well-formed.
LEMMA PrefixForms ==
  ASSUME NEW t \in Seq(ByteValue), NEW n \in 1..Len(t)
  PROVE  WellFormed(SubSeq(t, 1, n)) <=> n \in 1..4 /\ Starts(t, 0, n)
<1> DEFINE s == SubSeq(t, 1, n)
<1>1. Len(s) = n /\ \A i \in 1..n : s[i] = t[i]
  OBVIOUS
<1>2. n \in Nat /\ n >= 1 /\ 0 + n <= Len(t)
  OBVIOUS
<1>3. t[0 + 1] = t[1] /\ t[0 + 2] = t[2] /\ t[0 + 3] = t[3] /\ t[0 + 4] = t[4]
  BY SMT
<1> HIDE DEF s
<1>4. CASE n = 1
  <2>1. s[1] = t[1]
    BY <1>1, <1>4
  <2>2. Starts(t, 0, n) <=> Form1(t[1])
    BY <1>2, <1>3, <1>4, SMT DEF Starts
  <2>3. WellFormed(s) <=> Form1(s[1])
    BY <1>1, <1>2, <1>4, WellFormedForms
  <2> QED BY <1>4, <2>1, <2>2, <2>3, SMT DEF s
<1>5. CASE n = 2
  <2>1. s[1] = t[1] /\ s[2] = t[2]
    BY <1>1, <1>5
  <2>2. Starts(t, 0, n) <=> Form2(t[1], t[2])
    BY <1>2, <1>3, <1>5, SMT DEF Starts
  <2>3. WellFormed(s) <=> Form2(s[1], s[2])
    BY <1>1, <1>2, <1>5, WellFormedForms
  <2> QED BY <1>5, <2>1, <2>2, <2>3, SMT DEF s
<1>6. CASE n = 3
  <2>1. s[1] = t[1] /\ s[2] = t[2] /\ s[3] = t[3]
    BY <1>1, <1>6
  <2>2. Starts(t, 0, n) <=> Form3(t[1], t[2], t[3])
    BY <1>2, <1>3, <1>6, SMT DEF Starts
  <2>3. WellFormed(s) <=> Form3(s[1], s[2], s[3])
    BY <1>1, <1>2, <1>6, WellFormedForms
  <2> QED BY <1>6, <2>1, <2>2, <2>3, SMT DEF s
<1>7. CASE n = 4
  <2>1. s[1] = t[1] /\ s[2] = t[2] /\ s[3] = t[3] /\ s[4] = t[4]
    BY <1>1, <1>7
  <2>2. Starts(t, 0, n) <=> Form4(t[1], t[2], t[3], t[4])
    BY <1>2, <1>3, <1>7, SMT DEF Starts
  <2>3. WellFormed(s) <=> Form4(s[1], s[2], s[3], s[4])
    BY <1>1, <1>2, <1>7, WellFormedForms
  <2> QED BY <1>7, <2>1, <2>2, <2>3, SMT DEF s
<1>8. CASE n > 4
  <2>1. WellFormed(s) => n \in 1..4
    BY <1>1, <1>2, WellFormedForms
  <2> QED BY <1>2, <1>8, <2>1, SMT DEF s
<1> QED BY <1>2, <1>4, <1>5, <1>6, <1>7, <1>8, SMT

\* The first bytes of a text, written out.
LEMMA PrefixBytes ==
  ASSUME NEW t \in Seq(ByteValue), NEW n \in 1..4, n <= Len(t)
  PROVE  SubSeq(t, 1, n) = IF n = 1 THEN <<t[1]>>
                           ELSE IF n = 2 THEN <<t[1], t[2]>>
                           ELSE IF n = 3 THEN <<t[1], t[2], t[3]>>
                           ELSE <<t[1], t[2], t[3], t[4]>>
<1> DEFINE s == SubSeq(t, 1, n)
<1>1. s \in Seq(ByteValue) /\ Len(s) = n /\ \A i \in 1..n : s[i] = t[i]
  OBVIOUS
<1>2. \A i \in 1..n : t[i] \in ByteValue
  BY ElementOfSeq
<1> HIDE DEF s
<1>3. CASE n = 1
  <2> DEFINE u == <<t[1]>>
  <2>1. /\ u \in Seq(ByteValue) /\ Len(u) = 1
        /\ u[1] = t[1]
    BY <1>2, <1>3
  <2> HIDE DEF u
  <2>2. \A i \in 1..1 : i = 1
    BY SMT
  <2>3. Len(s) = 1 /\ s[1] = t[1]
    BY <1>1, <1>3
  <2>4. \A i \in 1..Len(s) : s[i] = u[i]
    BY <2>1, <2>2, <2>3, Zenon
  <2>5. s = u
    BY <1>1, <2>1, <2>3, <2>4, SeqEqual, Zenon
  <2> QED BY <1>3, <2>5, SMT DEF s, u
<1>4. CASE n = 2
  <2> DEFINE u == <<t[1], t[2]>>
  <2>1. /\ u \in Seq(ByteValue) /\ Len(u) = 2
        /\ u[1] = t[1] /\ u[2] = t[2]
    BY <1>2, <1>4
  <2> HIDE DEF u
  <2>2. \A i \in 1..2 : i = 1 \/ i = 2
    BY SMT
  <2>3. Len(s) = 2 /\ s[1] = t[1] /\ s[2] = t[2]
    BY <1>1, <1>4
  <2>4. \A i \in 1..Len(s) : s[i] = u[i]
    BY <2>1, <2>2, <2>3, Zenon
  <2>5. s = u
    BY <1>1, <2>1, <2>3, <2>4, SeqEqual, Zenon
  <2> QED BY <1>4, <2>5, SMT DEF s, u
<1>5. CASE n = 3
  <2> DEFINE u == <<t[1], t[2], t[3]>>
  <2>1. /\ u \in Seq(ByteValue) /\ Len(u) = 3
        /\ u[1] = t[1] /\ u[2] = t[2] /\ u[3] = t[3]
    BY <1>2, <1>5
  <2> HIDE DEF u
  <2>2. \A i \in 1..3 : i = 1 \/ i = 2 \/ i = 3
    BY SMT
  <2>3. Len(s) = 3 /\ s[1] = t[1] /\ s[2] = t[2] /\ s[3] = t[3]
    BY <1>1, <1>5
  <2>4. \A i \in 1..Len(s) : s[i] = u[i]
    BY <2>1, <2>2, <2>3, Zenon
  <2>5. s = u
    BY <1>1, <2>1, <2>3, <2>4, SeqEqual, Zenon
  <2> QED BY <1>5, <2>5, SMT DEF s, u
<1>6. CASE n = 4
  <2> DEFINE u == <<t[1], t[2], t[3], t[4]>>
  <2>1. /\ u \in Seq(ByteValue) /\ Len(u) = 4
        /\ u[1] = t[1] /\ u[2] = t[2] /\ u[3] = t[3] /\ u[4] = t[4]
    BY <1>2, <1>6
  <2> HIDE DEF u
  <2>2. \A i \in 1..4 : i = 1 \/ i = 2 \/ i = 3 \/ i = 4
    BY SMT
  <2>3. Len(s) = 4 /\ s[1] = t[1] /\ s[2] = t[2] /\ s[3] = t[3] /\ s[4] = t[4]
    BY <1>1, <1>6
  <2>4. \A i \in 1..Len(s) : s[i] = u[i]
    BY <2>1, <2>2, <2>3, Zenon
  <2>5. s = u
    BY <1>1, <2>1, <2>3, <2>4, SeqEqual, Zenon
  <2> QED BY <1>6, <2>5, SMT DEF s, u
<1> QED BY <1>3, <1>4, <1>5, <1>6, SMTT(60)

\* Encoding what was decoded gives the bytes back.
LEMMA EncodesPrefix ==
  ASSUME NEW t \in Seq(ByteValue), NEW n \in 1..4, Starts(t, 0, n)
  PROVE  n \in 1..Len(t) /\ EncodeUTF8(ScalarAt(t, 0, n)) = SubSeq(t, 1, n)
<1>1. Len(t) \in Nat /\ n <= Len(t)
  BY SMT DEF Starts
<1>2. \A i \in 1..n : t[i] \in ByteValue
  BY <1>1, ElementOfSeq
<1>3. t[0 + 1] = t[1] /\ t[0 + 2] = t[2] /\ t[0 + 3] = t[3] /\ t[0 + 4] = t[4]
  BY SMT
<1>4. CASE n = 1
  <2>1. Form1(t[1]) /\ ScalarAt(t, 0, n) = t[1]
    BY <1>3, <1>4, SMT DEF Starts, ScalarAt
  <2>2. SubSeq(t, 1, 1) = <<t[1]>>
    BY <1>1, <1>4, PrefixBytes
  <2>3. t[1] \in ByteValue
    BY <1>2, <1>4
  <2>4. EncodeUTF8(t[1]) = <<t[1]>>
    BY <2>1, <2>3, EncodeForms, Zenon
  <2> QED BY <1>1, <1>4, <2>1, <2>2, <2>4, SMT
<1>5. CASE n = 2
  <2>1. Form2(t[1], t[2]) /\ ScalarAt(t, 0, n) = Value2(t[1], t[2])
    BY <1>3, <1>5, SMT DEF Starts, ScalarAt
  <2>2. SubSeq(t, 1, 2) = <<t[1], t[2]>>
    BY <1>1, <1>5, PrefixBytes
  <2>3. t[1] \in ByteValue /\ t[2] \in ByteValue
    BY <1>2, <1>5
  <2>4. EncodeUTF8(Value2(t[1], t[2])) = <<t[1], t[2]>>
    BY <2>1, <2>3, EncodeForms, Zenon
  <2> QED BY <1>1, <1>5, <2>1, <2>2, <2>4, SMT
<1>6. CASE n = 3
  <2>1. Form3(t[1], t[2], t[3]) /\ ScalarAt(t, 0, n) = Value3(t[1], t[2], t[3])
    BY <1>3, <1>6, SMT DEF Starts, ScalarAt
  <2>2. SubSeq(t, 1, 3) = <<t[1], t[2], t[3]>>
    BY <1>1, <1>6, PrefixBytes
  <2>3. t[1] \in ByteValue /\ t[2] \in ByteValue /\ t[3] \in ByteValue
    BY <1>2, <1>6
  <2>4. EncodeUTF8(Value3(t[1], t[2], t[3])) = <<t[1], t[2], t[3]>>
    BY <2>1, <2>3, EncodeForms, Zenon
  <2> QED BY <1>1, <1>6, <2>1, <2>2, <2>4, SMT
<1>7. CASE n = 4
  <2>1. Form4(t[1], t[2], t[3], t[4]) /\ ScalarAt(t, 0, n) = Value4(t[1], t[2], t[3], t[4])
    BY <1>3, <1>7, SMT DEF Starts, ScalarAt
  <2>2. SubSeq(t, 1, 4) = <<t[1], t[2], t[3], t[4]>>
    BY <1>1, <1>7, PrefixBytes
  <2>3. t[1] \in ByteValue /\ t[2] \in ByteValue /\ t[3] \in ByteValue /\ t[4] \in ByteValue
    BY <1>2, <1>7
  <2>4. EncodeUTF8(Value4(t[1], t[2], t[3], t[4])) = <<t[1], t[2], t[3], t[4]>>
    BY <2>1, <2>3, EncodeForms, ZenonT(60)
  <2> QED BY <1>1, <1>7, <2>1, <2>2, <2>4, SMT
<1> QED BY <1>4, <1>5, <1>6, <1>7, SMT

\* Any text of bytes: decode_utf8 against the Unicode standard.
LEMMA DecodeCorrect ==
  ASSUME text \in Seq(ByteValue)
  PROVE  DecodeExact
<1> SUFFICES ASSUME text # <<>>
             PROVE  LET d == decode_utf8(text, 0)
                        lengths == {n \in 1..Len(text) : WellFormed(SubSeq(text, 1, n))}
                    IN /\ d.status = "OK" <=> lengths # {}
                       /\ d.status = "OK" =>
                            d.next \in lengths /\ EncodeUTF8(d.cp) = SubSeq(text, 1, d.next)
  BY Zenon DEF DecodeExact
<1> DEFINE d == decode_utf8(text, 0)
           lengths == {n \in 1..Len(text) : WellFormed(SubSeq(text, 1, n))}
<1>1. 0 < Len(text) /\ 0 \in Nat
  BY EmptySeq
<1>2. CASE \E n \in 1..4 : Starts(text, 0, n)
  <2>1. PICK n \in 1..4 : Starts(text, 0, n)
    BY <1>2
  <2>2. d = Decoded(ScalarAt(text, 0, n), 0 + n)
    BY <1>1, <2>1, DecodeForms, Zenon
  <2>3. 0 + n = n
    BY SMT
  <2>4. d.status = "OK" /\ d.next = n /\ d.cp = ScalarAt(text, 0, n)
    <3> HIDE DEF d
    <3> QED BY <2>2, <2>3, SMT DEF Decoded
  <2>5. n \in 1..Len(text) /\ EncodeUTF8(ScalarAt(text, 0, n)) = SubSeq(text, 1, n)
    BY <2>1, EncodesPrefix, Zenon
  <2>6. n \in lengths
    BY <2>1, <2>5, PrefixForms, Zenon
  <2> HIDE DEF d, lengths
  <2>7. /\ d.status = "OK" <=> lengths # {}
        /\ d.status = "OK" => d.next \in lengths /\ EncodeUTF8(d.cp) = SubSeq(text, 1, d.next)
    BY <2>4, <2>5, <2>6, Zenon
  <2> QED BY <2>7, Zenon DEF d, lengths
<1>3. CASE \A n \in 1..4 : ~Starts(text, 0, n)
  <2>1. d = Malformed
    BY <1>1, <1>3, DecodeForms, Zenon
  <2>2. d.status # "OK"
    <3> HIDE DEF d
    <3> QED BY <2>1, SMT DEF Malformed
  <2>3. lengths = {}
    BY <1>3, PrefixForms, Zenon
  <2> HIDE DEF d, lengths
  <2>4. /\ d.status = "OK" <=> lengths # {}
        /\ d.status = "OK" => d.next \in lengths /\ EncodeUTF8(d.cp) = SubSeq(text, 1, d.next)
    BY <2>2, <2>3, Zenon
  <2> QED BY <2>4, Zenon DEF d, lengths
<1> QED BY <1>2, <1>3, Zenon

-----------------------------------------------------------------------------
\* The strokes the loop of bridge_core_stage emits.

Strokes == (0..255) \X (1..255)

\* Looking a code up in a table gives one of the table's keys.
LEMMA LookupInTable ==
  ASSUME NEW codes, NEW keys, NEW cp, NEW S, Contains(codes, cp),
         \A i \in 1..Len(codes) : keys[i] \in S
  PROVE  Lookup(codes, keys, cp) \in S
<1>1. \E i \in 1..Len(codes) : codes[i] = cp
  BY Zenon DEF Contains
<1>2. (CHOOSE i \in 1..Len(codes) : codes[i] = cp) \in 1..Len(codes)
  BY <1>1, Zenon
<1> QED BY <1>2, Zenon DEF Lookup

\* The tables hold strokes.
LEMMA TableTypes ==
  /\ \A i \in 1..Len(AsciiPlain) : AsciiUsages[i] \in 1..255
  /\ \A i \in 1..Len(AsciiShifted) : AsciiUsages[i] \in 1..255
  /\ \A i \in 1..Len(DeSymbols) : DeKeys[i] \in Strokes
<1>1. Len(AsciiPlain) = 21 /\ Len(AsciiShifted) = 21
  BY SMT DEF AsciiPlain, AsciiShifted
<1>2. Len(DeSymbols) = 41
  BY SMT DEF DeSymbols
<1>3. \A i \in 1..21 : AsciiUsages[i] \in 1..255
  BY SMT DEF AsciiUsages
<1>4. \A i \in 1..41 : DeKeys[i] \in Strokes
  BY SMT DEF DeKeys, Strokes
<1> QED BY <1>1, <1>2, <1>3, <1>4, ZenonT(60)

\* map_ascii returns a stroke or no key.
LEMMA AsciiKeyType ==
  ASSUME NEW cp, map_ascii(cp) # NoKeyFor
  PROVE  map_ascii(cp) \in Strokes
<1>1. CASE cp \in 97..122
  BY <1>1, SMT DEF map_ascii, Strokes
<1>2. CASE cp \in 65..90
  BY <1>2, SMT DEF map_ascii, Strokes, Shift
<1>3. CASE cp = Space
  BY <1>3, SMT DEF map_ascii, Strokes, Space
<1> DEFINE Rest == ~(cp \in 97..122) /\ ~(cp \in 65..90) /\ cp # Space
<1>4. CASE Rest /\ Contains(AsciiPlain, cp)
  <2>1. Lookup(AsciiPlain, AsciiUsages, cp) \in 1..255
    BY <1>4, LookupInTable, TableTypes
  <2>2. map_ascii(cp) = <<0, Lookup(AsciiPlain, AsciiUsages, cp)>>
    BY <1>4, SMT DEF map_ascii
  <2> QED BY <2>1, <2>2, SMT DEF Strokes
<1>5. CASE Rest /\ ~Contains(AsciiPlain, cp) /\ Contains(AsciiShifted, cp)
  <2>1. Lookup(AsciiShifted, AsciiUsages, cp) \in 1..255
    BY <1>5, LookupInTable, TableTypes
  <2>2. map_ascii(cp) = <<Shift, Lookup(AsciiShifted, AsciiUsages, cp)>>
    BY <1>5, SMT DEF map_ascii
  <2> QED BY <2>1, <2>2, SMT DEF Strokes, Shift
<1>6. CASE Rest /\ ~Contains(AsciiPlain, cp) /\ ~Contains(AsciiShifted, cp)
  BY <1>6, SMT DEF map_ascii
<1> QED BY <1>1, <1>2, <1>3, <1>4, <1>5, <1>6

\* So do map_de and map_ascii, whichever the layout asks for.
LEMMA KeyType ==
  ASSUME NEW cp
  PROVE  /\ map_ascii(cp) # NoKeyFor => map_ascii(cp) \in Strokes
         /\ map_de(cp) # NoKeyFor => map_de(cp) \in Strokes
<1>1. map_ascii(cp) # NoKeyFor => map_ascii(cp) \in Strokes
  BY AsciiKeyType
<1>2. CASE Contains(DeSymbols, cp)
  <2>1. Lookup(DeSymbols, DeKeys, cp) \in Strokes
    BY <1>2, LookupInTable, TableTypes
  <2> QED BY <1>1, <1>2, <2>1, Zenon DEF map_de
<1>3. CASE ~Contains(DeSymbols, cp)
  BY <1>1, <1>3, AsciiKeyType, Zenon DEF map_de
<1> QED BY <1>2, <1>3

\* decode_utf8 consumes at least a byte and stays inside the text.
LEMMA DecodeAdvances ==
  ASSUME NEW t \in Seq(ByteValue), NEW off \in Nat, off < Len(t),
         decode_utf8(t, off).status = "OK"
  PROVE  decode_utf8(t, off).next \in (off + 1)..Len(t)
<1> DEFINE d == decode_utf8(t, off)
<1>1. CASE \E n \in 1..4 : Starts(t, off, n)
  <2>1. PICK n \in 1..4 : Starts(t, off, n)
    BY <1>1
  <2>2. d = Decoded(ScalarAt(t, off, n), off + n)
    BY <2>1, DecodeForms, Zenon
  <2>3. Len(t) \in Nat /\ off + n <= Len(t)
    BY <2>1, SMT DEF Starts
  <2> HIDE DEF d
  <2>4. d.next = off + n
    BY <2>2, SMT DEF Decoded
  <2>5. d.next \in (off + 1)..Len(t)
    BY <2>3, <2>4, SMT
  <2> QED BY <2>5 DEF d
<1>2. CASE \A n \in 1..4 : ~Starts(t, off, n)
  <2>1. d = Malformed
    BY <1>2, DecodeForms, Zenon
  <2>2. Malformed.status # "OK"
    BY SMT DEF Malformed
  <2> QED BY <2>1, <2>2, Zenon
<1> QED BY <1>1, <1>2, Zenon

\* What one iteration of the loop emits.
Emitted(c, off, t) ==
  /\ c.next \in (off + 1)..Len(t)
  /\ c.strokes \in Seq(Strokes) /\ Len(c.strokes) \in 1..2

\* An iteration of the loop advances and emits at most two strokes.
LEMMA StageCharEmits ==
  ASSUME NEW layout, NEW mode, NEW flags, NEW t \in Seq(ByteValue), NEW off \in Nat, off < Len(t),
         StageChar(layout, mode, flags, t, off).status = "OK"
  PROVE  Emitted(StageChar(layout, mode, flags, t, off), off, t)
<1> DEFINE d == decode_utf8(t, off)
           crlf == CrLf(mode, flags, t, d)
           cp == IF crlf THEN LF ELSE d.cp
           key == IF layout = DE THEN map_de(cp) ELSE map_ascii(cp)
           Refuse(st) == [status |-> st, strokes |-> <<>>, next |-> 0]
           next == IF crlf THEN d.next + 1 ELSE d.next
           Emit(strokes) == [status |-> "OK", strokes |-> strokes, next |-> next]
           c == StageChar(layout, mode, flags, t, off)
<1>1. c = IF d.status # "OK" THEN Refuse(d.status)
          ELSE IF cp = LF /\ AllowLF(mode, flags) THEN Emit(<< <<0, 40>> >>)
          ELSE IF cp = Tab /\ AllowTab(mode, flags) THEN Emit(<< <<0, 43>> >>)
          ELSE IF cp < Space \/ cp = 127 THEN Refuse("POLICY")
          ELSE IF key = NoKeyFor THEN Refuse("UNSUPPORTED")
          ELSE Emit(KeyStrokes(layout, cp, key))
  BY Zenon DEF StageChar
<1>2. d.status = "OK" => d.next \in (off + 1)..Len(t)
  BY DecodeAdvances, Zenon
<1>3. crlf => d.next < Len(t)
  BY Zenon DEF CrLf
<1>4. key # NoKeyFor => key \in Strokes
  BY KeyType, Zenon
<1> HIDE DEF d, crlf, cp, key, c
<1>5. d.status = "OK" => next \in (off + 1)..Len(t)
  BY <1>2, <1>3, SMT
<1> DEFINE Fine(s) == s \in Seq(Strokes) /\ Len(s) \in 1..2
<1>6. Fine(<< <<0, 40>> >>) /\ Fine(<< <<0, 43>> >>)
  BY SMT DEF Strokes
<1>7. key # NoKeyFor => Fine(KeyStrokes(layout, cp, key))
  <2>1. ASSUME key \in Strokes
        PROVE  Fine(<<key>>) /\ Fine(<<key, <<0, 44>> >>)
    <3>1. <<0, 44>> \in Strokes
      BY SMT DEF Strokes
    <3> QED BY <2>1, <3>1
  <2> QED BY <1>4, <2>1, Zenon DEF KeyStrokes
<1> HIDE DEF next, Fine
<1>8. \A s : Emit(s).strokes = s /\ Emit(s).next = next
  BY SMT
<1>9. \A st : Refuse(st).status = st
  BY SMT
<1> HIDE DEF Emit, Refuse
<1>10. c.status = "OK"
  BY DEF c
<1>11. "POLICY" # "OK" /\ "UNSUPPORTED" # "OK"
  BY SMT
<1>12. d.status = "OK" /\ Fine(c.strokes) /\ c.next = next
  BY <1>1, <1>6, <1>7, <1>8, <1>9, <1>10, <1>11, Zenon
<1>13. c.next \in (off + 1)..Len(t) /\ c.strokes \in Seq(Strokes) /\ Len(c.strokes) \in 1..2
  BY <1>5, <1>12, Zenon DEF Fine
<1> QED BY <1>13, Zenon DEF Emitted, c

\* The loop satisfies its equation: every iteration moves on.
LEMMA CompiledUnfolds ==
  ASSUME NEW layout, NEW mode, NEW flags, NEW t \in Seq(ByteValue)
  PROVE  LET f == Compiled(layout, mode, flags, t)
         IN  f = [off \in 0..Len(t) |->
                    IF off = Len(t) THEN [status |-> "OK", strokes |-> <<>>]
                    ELSE LET c == StageChar(layout, mode, flags, t, off)
                         IN IF c.status # "OK" THEN [status |-> c.status, strokes |-> <<>>]
                            ELSE Prepend(c.strokes, f[c.next])]
<1> DEFINE C(off) == StageChar(layout, mode, flags, t, off)
           n == Len(t)
           End == [status |-> "OK", strokes |-> <<>>]
           Stop(off) == [status |-> C(off).status, strokes |-> <<>>]
           Go(off, r) == Prepend(C(off).strokes, r)
           B(f, off) == IF off = n THEN End
                        ELSE IF C(off).status # "OK" THEN Stop(off)
                        ELSE Go(off, f[C(off).next])
           Rec(f, k) == f = [off \in (n - k)..n |-> B(f, off)]
           G == {k \in 0..n : \E f : Rec(f, k)}
<1>0. n \in Nat
  OBVIOUS
<1>m. \A off \in 0..(n - 1) : C(off).status = "OK" => C(off).next \in (off + 1)..n
  BY StageCharEmits DEF Emitted
<1> HIDE DEF C, n, End, Stop, Go
<1>1. 0 \in G
  <2> DEFINE g == [off \in (n - 0)..n |-> End]
  <2>1. \A off \in (n - 0)..n : off = n
    BY <1>0
  <2>2. Rec(g, 0)
    BY <2>1
  <2> HIDE DEF g
  <2> QED BY <1>0, <2>2
<1>2. ASSUME NEW k \in 1..n, k - 1 \in G
      PROVE  k \in G
  <2>1. PICK f : Rec(f, k - 1)
    BY <1>2
  <2> DEFINE o == n - k
             g == [off \in o..n |-> IF off = o THEN B(f, o) ELSE f[off]]
  <2>2. /\ o \in 0..(n - 1) /\ n - (k - 1) = o + 1 /\ o # n
        /\ \A off \in o..n : off # o => off \in (o + 1)..n
    BY <1>0
  <2> HIDE DEF o
  <2>3. \A off \in (o + 1)..n : f[off] = B(f, off)
    BY <2>1, <2>2
  <2>4. \A off \in (o + 1)..n : g[off] = f[off]
    BY <1>0, <2>2
  <2>5. ASSUME NEW off \in o..n
        PROVE  B(g, off) = B(f, off)
    <3>1. CASE off = n
      BY <3>1
    <3>2. CASE off # n /\ C(off).status # "OK"
      BY <3>2
    <3>3. CASE off # n /\ C(off).status = "OK"
      <4>1. C(off).next \in (off + 1)..n
        BY <1>0, <1>m, <2>2, <3>3
      <4>2. C(off).next \in (o + 1)..n
        BY <1>0, <2>2, <4>1
      <4>3. g[C(off).next] = f[C(off).next]
        BY <2>4, <4>2
      <4> HIDE DEF g
      <4> QED BY <3>3, <4>3
    <3> QED BY <3>1, <3>2, <3>3
  <2>6. \A off \in o..n : g[off] = B(f, off)
    <3> HIDE DEF B
    <3> QED BY <2>2, <2>3
  <2>7. \A off \in o..n : g[off] = B(g, off)
    <3> HIDE DEF g, B
    <3> QED BY <2>5, <2>6
  <2>8. g = [off \in o..n |-> g[off]]
    OBVIOUS
  <2>9. Rec(g, k)
    <3> HIDE DEF g, B
    <3> QED BY <2>7, <2>8 DEF o
  <2> HIDE DEF g, Rec
  <2> QED BY <2>9
<1>3. n \in G
  <2> HIDE DEF G
  <2>1. \A i \in 1..n : i - 1 \in G => i \in G
    BY <1>2
  <2>2. \A i \in 0..n : i \in G
    BY <1>0, <1>1, <2>1, Induction, Zenon
  <2> QED BY <1>0, <2>2
<1>4. n - n = 0
  BY <1>0
<1>5. \E f : f = [off \in 0..n |-> B(f, off)]
  BY <1>3, <1>4, Zenon
<1> QED
  BY <1>5, Zenon DEF Compiled, C, n, End, Stop, Go

\* Induction from n down, with all larger indices at hand.
LEMMA DownInduction ==
  ASSUME NEW n \in Nat, NEW G,
         \A off \in 0..n : (\A j \in (off + 1)..n : j \in G) => off \in G
  PROVE  \A off \in 0..n : off \in G
<1> DEFINE H == {k \in 0..n : \A off \in (n - k)..n : off \in G}
<1>1. 0 \in H
  <2>1. n \in 0..n /\ \A j \in (n + 1)..n : j \in G
    OBVIOUS
  <2>2. n \in G
    BY <2>1
  <2>3. \A off \in (n - 0)..n : off = n
    OBVIOUS
  <2> QED BY <2>2, <2>3
<1>2. ASSUME NEW k \in 1..n, k - 1 \in H
      PROVE  k \in H
  <2>1. \A off \in (n - (k - 1))..n : off \in G
    BY <1>2
  <2>2. /\ n - k \in 0..n /\ (n - k) + 1 = n - (k - 1)
        /\ \A off \in (n - k)..n : off = n - k \/ off \in (n - (k - 1))..n
    OBVIOUS
  <2>3. n - k \in G
    BY <2>1, <2>2
  <2> QED BY <2>1, <2>2, <2>3
<1>3. \A k \in 1..n : k - 1 \in H => k \in H
  BY <1>2
<1>4. \A k \in 0..n : k \in H
  <2> HIDE DEF H
  <2> QED BY <1>1, <1>3, Induction, Zenon
<1>5. n \in 0..n /\ n - n = 0
  OBVIOUS
<1> QED BY <1>4, <1>5

\* A result of the loop with at most b strokes.
Bounded(r, b) ==
  \E st, ss : /\ r = [status |-> st, strokes |-> ss]
              /\ ss \in Seq(Strokes) /\ Len(ss) <= b

\* From every offset on the loop emits at most two strokes a byte.
LEMMA CompiledFits ==
  ASSUME NEW layout, NEW mode, NEW flags, NEW t \in Seq(ByteValue)
  PROVE  Bounded(Compile(layout, mode, flags, t), 2 * Len(t))
<1> DEFINE C(off) == StageChar(layout, mode, flags, t, off)
           n == Len(t)
           f == Compiled(layout, mode, flags, t)
           G == {off \in 0..n : Bounded(f[off], 2 * (n - off))}
<1>1. n \in Nat
  OBVIOUS
<1>2. f = [off \in 0..n |->
             IF off = n THEN [status |-> "OK", strokes |-> <<>>]
             ELSE IF C(off).status # "OK" THEN [status |-> C(off).status, strokes |-> <<>>]
             ELSE Prepend(C(off).strokes, f[C(off).next])]
  BY CompiledUnfolds
<1>3. \A off \in 0..(n - 1) : C(off).status = "OK" =>
        /\ C(off).next \in (off + 1)..n
        /\ C(off).strokes \in Seq(Strokes) /\ Len(C(off).strokes) \in 1..2
  BY StageCharEmits DEF Emitted
<1> HIDE DEF C, n, f
<1>4. ASSUME NEW b \in Nat, NEW st
      PROVE  Bounded([status |-> st, strokes |-> <<>>], b)
  <2>1. <<>> \in Seq(Strokes) /\ Len(<<>>) <= b
    OBVIOUS
  <2> QED BY <2>1, Zenon DEF Bounded
<1>5. ASSUME NEW off \in 0..n, \A j \in (off + 1)..n : j \in G
      PROVE  off \in G
  <2>1. 2 * (n - off) \in Nat
    BY <1>1
  <2>2. CASE off = n
    <3>1. f[off] = [status |-> "OK", strokes |-> <<>>]
      BY <1>2, <2>2
    <3> QED BY <1>4, <2>1, <3>1
  <2>3. CASE off # n /\ C(off).status # "OK"
    <3>1. f[off] = [status |-> C(off).status, strokes |-> <<>>]
      BY <1>2, <2>3
    <3> QED BY <1>4, <2>1, <3>1
  <2>4. CASE off # n /\ C(off).status = "OK"
    <3> DEFINE next == C(off).next
               strokes == C(off).strokes
    <3>1. /\ next \in (off + 1)..n
          /\ strokes \in Seq(Strokes) /\ Len(strokes) \in 1..2
      BY <1>1, <1>3, <2>4
    <3>2. f[off] = Prepend(strokes, f[next])
      BY <1>2, <2>4
    <3>3. Bounded(f[next], 2 * (n - next))
      BY <1>5, <3>1
    <3> HIDE DEF next, strokes
    <3>4. PICK st, ss : /\ f[next] = [status |-> st, strokes |-> ss]
                        /\ ss \in Seq(Strokes) /\ Len(ss) <= 2 * (n - next)
      BY <3>3, Zenon DEF Bounded
    <3>5. f[off] = [status |-> st, strokes |-> strokes \o ss]
      BY <3>2, <3>4 DEF Prepend
    <3>6. strokes \o ss \in Seq(Strokes) /\ Len(strokes \o ss) = Len(strokes) + Len(ss)
      BY <3>1, <3>4
    <3>7. Len(strokes \o ss) <= 2 * (n - off)
      <4>1. Len(ss) \in Nat /\ Len(strokes) \in Nat /\ next \in Nat
        BY <1>1, <3>1, <3>4
      <4>2. off \in Nat /\ next >= off + 1 /\ Len(strokes) <= 2
        <5>1. off \in Nat
          BY <1>1
        <5>2. next >= off + 1
          BY <1>1, <3>1, <5>1
        <5>3. Len(strokes) <= 2
          <6>1. \A x \in 1..2 : x <= 2
            OBVIOUS
          <6> QED BY <3>1, <6>1, Zenon
        <5> QED BY <5>1, <5>2, <5>3
      <4>3. Len(strokes) + Len(ss) <= 2 * (n - off)
        <5> DEFINE x == Len(strokes)
                   y == Len(ss)
        <5>1. x \in Nat /\ y \in Nat /\ x <= 2 /\ y <= 2 * (n - next)
          BY <3>4, <4>1, <4>2
        <5> HIDE DEF x, y
        <5>2. x + y <= 2 * (n - off)
          BY <1>1, <4>1, <4>2, <5>1
        <5> QED BY <5>2 DEF x, y
      <4> QED BY <3>6, <4>3
    <3>8. Bounded(f[off], 2 * (n - off))
      BY <3>5, <3>6, <3>7, Zenon DEF Bounded
    <3> QED BY <3>8
  <2> QED BY <2>2, <2>3, <2>4
<1>6. \A off \in 0..n : off \in G
  <2>1. \A off \in 0..n : (\A j \in (off + 1)..n : j \in G) => off \in G
    BY <1>5
  <2> HIDE DEF G
  <2> QED BY <1>1, <2>1, DownInduction, Zenon
<1>7. Bounded(f[0], 2 * (n - 0))
  BY <1>1, <1>6
<1>8. n - 0 = n
  BY <1>1
<1> QED BY <1>7, <1>8, Zenon DEF Compile, f, n

\* What bridge_core_stage emits fits strokes[BRIDGE_MAX_STROKES].
LEMMA StrokesCorrect ==
  ASSUME text \in Seq(ByteValue)
  PROVE  StrokesFit
<1> DEFINE r == Result
<1>1. Bounded(r, 2 * Len(text))
  BY CompiledFits, Zenon DEF Result
<1> HIDE DEF r
<1>2. PICK st, ss : /\ r = [status |-> st, strokes |-> ss]
                    /\ ss \in Seq(Strokes) /\ Len(ss) <= 2 * Len(text)
  BY <1>1, Zenon DEF Bounded
<1>3. r.strokes = ss
  BY <1>2
<1>4. \A i \in 1..Len(ss) : ss[i] \in Strokes
  BY <1>2, ElementOfSeq
<1> QED BY <1>2, <1>3, <1>4, Zenon DEF StrokesFit, r, Strokes

-----------------------------------------------------------------------------
\* The encoding of a scalar value is decoded to that value.

\* The encoding of a scalar value has one of the four forms and stands for it.
EncodedAs(cp, n) ==
  LET e == EncodeUTF8(cp)
  IN  /\ n \in 1..4 /\ e \in Seq(ByteValue) /\ Len(e) = n
      /\ n = 1 => e[1] = cp /\ Form1(e[1])
      /\ n = 2 => Form2(e[1], e[2]) /\ Value2(e[1], e[2]) = cp
      /\ n = 3 => Form3(e[1], e[2], e[3]) /\ Value3(e[1], e[2], e[3]) = cp
      /\ n = 4 => Form4(e[1], e[2], e[3], e[4]) /\ Value4(e[1], e[2], e[3], e[4]) = cp

\* Code points of one byte.
LEMMA EncodeOne ==
  ASSUME NEW cp \in Int, cp >= 0, cp < 128
  PROVE  EncodedAs(cp, 1)
<1>1. EncodeUTF8(cp) = <<cp>>
  BY SMT DEF EncodeUTF8, OneByte
<1>2. cp \in ByteValue /\ Form1(cp)
  BY SMT DEF ByteValue, Form1
<1>3. <<cp>> \in Seq(ByteValue) /\ Len(<<cp>>) = 1 /\ <<cp>>[1] = cp
  BY <1>2
<1> QED BY <1>1, <1>2, <1>3, SMT DEF EncodedAs

\* Of two bytes.
LEMMA EncodeTwo ==
  ASSUME NEW cp \in Int, cp >= 128, cp < 2048
  PROVE  EncodedAs(cp, 2)
<1> DEFINE q == cp \div 64
           r == cp % 64
           a == 192 + q
           b == 128 + r
           u == <<a, b>>
<1>1. q \in Int /\ r \in 0..63 /\ cp = q * 64 + r /\ cp \div 1 = cp
  BY SMT
<1>2. EncodeUTF8(cp) = u
  <2>1. EncodeUTF8(cp) = TwoBytes(cp)
    BY SMT DEF EncodeUTF8
  <2>2. Continuation(cp, 1) = b
    BY <1>1, SMT DEF Continuation
  <2> QED BY <2>1, <2>2, SMT DEF TwoBytes
<1> HIDE DEF q, r
<1>3. q \in 2..31
  BY <1>1, SMT
<1>4. a \in ByteValue /\ b \in ByteValue /\ Form2(a, b) /\ Value2(a, b) = cp
  BY <1>1, <1>3, SMT DEF ByteValue, Form2, Value2
<1> HIDE DEF a, b
<1>5. u \in Seq(ByteValue) /\ Len(u) = 2 /\ u[1] = a /\ u[2] = b
  BY <1>4
<1> HIDE DEF u
<1> QED BY <1>2, <1>4, <1>5, SMT DEF EncodedAs

\* Of three bytes, the surrogates excluded.
LEMMA EncodeThree ==
  ASSUME NEW cp \in Int, cp >= 2048, cp < 65536, cp < 55296 \/ cp > 57343
  PROVE  EncodedAs(cp, 3)
<1> DEFINE q == cp \div 64
           r == cp % 64
           p == q \div 64
           s == q % 64
           a == 224 + p
           b == 128 + s
           c == 128 + r
           u == <<a, b, c>>
<1>1. q \in Int /\ r \in 0..63 /\ cp = q * 64 + r /\ cp \div 1 = cp
  BY SMT
<1>2. cp \div 4096 = p
  BY SMT
<1>3. EncodeUTF8(cp) = u
  <2>1. EncodeUTF8(cp) = ThreeBytes(cp)
    BY SMT DEF EncodeUTF8
  <2>2. Continuation(cp, 1) = c /\ Continuation(cp, 64) = b
    BY <1>1, SMT DEF Continuation
  <2> QED BY <1>2, <2>1, <2>2, SMT DEF ThreeBytes
<1>4. p \in Int /\ s \in 0..63 /\ q = p * 64 + s
  BY <1>1, SMT
<1> HIDE DEF q, r, p, s
<1>5. p \in 0..15 /\ cp = p * 4096 + s * 64 + r
  BY <1>1, <1>4, SMT
<1>6. a \in 224..239 /\ b \in TrailByte /\ c \in TrailByte
  BY <1>1, <1>4, <1>5, SMT DEF TrailByte
<1>7. Value3(a, b, c) = cp
  BY <1>1, <1>4, <1>5, SMT DEF Value3
<1>8. a = 224 => b >= 160
  BY <1>1, <1>4, <1>5, SMT
<1>9. a = 237 => b <= 159
  BY <1>1, <1>4, <1>5, SMT
<1> HIDE DEF a, b, c
<1>10. Form3(a, b, c) /\ a \in ByteValue /\ b \in ByteValue /\ c \in ByteValue
  BY <1>6, <1>8, <1>9, SMT DEF Form3, TrailByte, ByteValue
<1>11. u \in Seq(ByteValue) /\ Len(u) = 3 /\ u[1] = a /\ u[2] = b /\ u[3] = c
  BY <1>10
<1> HIDE DEF u
<1> QED BY <1>3, <1>7, <1>10, <1>11, SMT DEF EncodedAs

\* Of four bytes, up to U+10FFFF.
LEMMA EncodeFour ==
  ASSUME NEW cp \in Int, cp >= 65536, cp < 1114112
  PROVE  EncodedAs(cp, 4)
<1> DEFINE q == cp \div 64
           r == cp % 64
           p == q \div 64
           s == q % 64
           o == p \div 64
           w == p % 64
           a == 240 + o
           b == 128 + w
           c == 128 + s
           d == 128 + r
           u == <<a, b, c, d>>
<1>1. q \in Int /\ r \in 0..63 /\ cp = q * 64 + r /\ cp \div 1 = cp
  BY SMT
<1>2. cp \div 4096 = p
  BY SMT
<1>3. cp \div 262144 = o
  BY SMT
<1>4. EncodeUTF8(cp) = u
  <2>1. EncodeUTF8(cp) = FourBytes(cp)
    BY SMT DEF EncodeUTF8
  <2>2. Continuation(cp, 1) = d /\ Continuation(cp, 64) = c
    BY <1>1, SMT DEF Continuation
  <2>3. Continuation(cp, 4096) = b
    BY <1>2, SMT DEF Continuation
  <2> QED BY <1>3, <2>1, <2>2, <2>3, SMT DEF FourBytes
<1>5. p \in Int /\ s \in 0..63 /\ q = p * 64 + s
  BY <1>1, SMT
<1>6. o \in Int /\ w \in 0..63 /\ p = o * 64 + w
  BY <1>5, SMT
<1> HIDE DEF q, r, p, s, o, w
<1>7. o \in 0..4 /\ cp = o * 262144 + w * 4096 + s * 64 + r
  BY <1>1, <1>5, <1>6, SMT
<1>8. a \in 240..244 /\ b \in TrailByte /\ c \in TrailByte /\ d \in TrailByte
  BY <1>1, <1>5, <1>6, <1>7, SMT DEF TrailByte
<1>9. Value4(a, b, c, d) = cp
  BY <1>1, <1>5, <1>6, <1>7, SMT DEF Value4
<1>10. (a = 240 => b >= 144) /\ (a = 244 => b <= 143)
  BY <1>1, <1>5, <1>6, <1>7, SMT
<1> HIDE DEF a, b, c, d
<1>11. /\ Form4(a, b, c, d)
       /\ a \in ByteValue /\ b \in ByteValue /\ c \in ByteValue /\ d \in ByteValue
  BY <1>8, <1>10, SMT DEF Form4, TrailByte, ByteValue
<1>12. u \in Seq(ByteValue) /\ Len(u) = 4 /\ u[1] = a /\ u[2] = b /\ u[3] = c /\ u[4] = d
  BY <1>11
<1> HIDE DEF u
<1> QED BY <1>4, <1>9, <1>11, <1>12, SMT DEF EncodedAs

\* Every scalar value is one of these.
LEMMA EncodeScalar ==
  ASSUME NEW cp \in Scalars
  PROVE  EncodedAs(cp, Len(EncodeUTF8(cp)))
<1>1. cp \in Int /\ cp >= 0 /\ cp < 1114112 /\ (cp < 55296 \/ cp > 57343)
  BY SMT DEF Scalars
<1>2. \E n : EncodedAs(cp, n)
  <2>1. CASE cp < 128
    BY <1>1, <2>1, EncodeOne, SMT
  <2>2. CASE cp >= 128 /\ cp < 2048
    BY <1>1, <2>2, EncodeTwo, SMT
  <2>3. CASE cp >= 2048 /\ cp < 65536
    BY <1>1, <2>3, EncodeThree, SMT
  <2>4. CASE cp >= 65536
    BY <1>1, <2>4, EncodeFour, SMT
  <2> QED BY <1>1, <2>1, <2>2, <2>3, <2>4, SMT
<1> QED BY <1>2, Zenon DEF EncodedAs

\* The encoding of cp stands in t behind the first off bytes.
Spells(t, off, cp) ==
  /\ off + Len(EncodeUTF8(cp)) <= Len(t)
  /\ \A j \in 1..Len(EncodeUTF8(cp)) : t[off + j] = EncodeUTF8(cp)[j]

\* There decode_utf8 returns cp.
LEMMA DecodesChar ==
  ASSUME NEW t \in Seq(ByteValue), NEW off \in Nat, NEW cp \in Scalars, Spells(t, off, cp)
  PROVE  /\ Len(EncodeUTF8(cp)) \in 1..4 /\ off < Len(t)
         /\ decode_utf8(t, off) = Decoded(cp, off + Len(EncodeUTF8(cp)))
<1> DEFINE e == EncodeUTF8(cp)
           n == Len(e)
<1>1. EncodedAs(cp, n)
  BY EncodeScalar
<1>2. /\ n \in 1..4
      /\ n = 1 => e[1] = cp /\ Form1(e[1])
      /\ n = 2 => Form2(e[1], e[2]) /\ Value2(e[1], e[2]) = cp
      /\ n = 3 => Form3(e[1], e[2], e[3]) /\ Value3(e[1], e[2], e[3]) = cp
      /\ n = 4 => Form4(e[1], e[2], e[3], e[4]) /\ Value4(e[1], e[2], e[3], e[4]) = cp
  BY <1>1, Zenon DEF EncodedAs
<1>3. off + n <= Len(t) /\ \A j \in 1..n : t[off + j] = e[j]
  BY Zenon DEF Spells
<1> HIDE DEF n, e
<1>4. off < Len(t)
  BY <1>2, <1>3
<1>5. Starts(t, off, n) /\ ScalarAt(t, off, n) = cp
  <2>1. CASE n = 1
    <3>1. t[off + 1] = e[1]
      BY <1>3, <2>1
    <3>2. Form1(t[off + 1]) /\ t[off + 1] = cp
      BY <1>2, <2>1, <3>1, Zenon
    <3> QED BY <1>3, <2>1, <3>2, SMT DEF Starts, ScalarAt
  <2>2. CASE n = 2
    <3>1. t[off + 1] = e[1] /\ t[off + 2] = e[2]
      BY <1>3, <2>2
    <3>2. Form2(t[off + 1], t[off + 2]) /\ Value2(t[off + 1], t[off + 2]) = cp
      BY <1>2, <2>2, <3>1, Zenon
    <3> QED BY <1>3, <2>2, <3>2, SMT DEF Starts, ScalarAt
  <2>3. CASE n = 3
    <3>1. t[off + 1] = e[1] /\ t[off + 2] = e[2] /\ t[off + 3] = e[3]
      BY <1>3, <2>3
    <3>2. /\ Form3(t[off + 1], t[off + 2], t[off + 3])
          /\ Value3(t[off + 1], t[off + 2], t[off + 3]) = cp
      BY <1>2, <2>3, <3>1, Zenon
    <3> QED BY <1>3, <2>3, <3>2, SMT DEF Starts, ScalarAt
  <2>4. CASE n = 4
    <3>1. t[off + 1] = e[1] /\ t[off + 2] = e[2] /\ t[off + 3] = e[3] /\ t[off + 4] = e[4]
      BY <1>3, <2>4
    <3>2. /\ Form4(t[off + 1], t[off + 2], t[off + 3], t[off + 4])
          /\ Value4(t[off + 1], t[off + 2], t[off + 3], t[off + 4]) = cp
      BY <1>2, <2>4, <3>1, Zenon
    <3> QED BY <1>3, <2>4, <3>2, SMT DEF Starts, ScalarAt
  <2> QED BY <1>2, <2>1, <2>2, <2>3, <2>4
<1>6. decode_utf8(t, off) = Decoded(ScalarAt(t, off, n), off + n)
  BY <1>2, <1>4, <1>5, DecodeForms, Zenon
<1> QED BY <1>2, <1>4, <1>5, <1>6, Zenon DEF n, e

\* A first byte below 128 is the whole character.
LEMMA AsciiAlone ==
  ASSUME NEW cp \in Scalars, NEW x \in 0..127
  PROVE  EncodeUTF8(cp)[1] = x <=> cp = x
<1> DEFINE e == EncodeUTF8(cp)
           n == Len(e)
<1>1. EncodedAs(cp, n)
  BY EncodeScalar
<1>2. /\ n \in 1..4
      /\ n = 1 => e[1] = cp
      /\ n = 2 => Form2(e[1], e[2]) /\ Value2(e[1], e[2]) = cp
      /\ n = 3 => Form3(e[1], e[2], e[3]) /\ Value3(e[1], e[2], e[3]) = cp
      /\ n = 4 => Form4(e[1], e[2], e[3], e[4]) /\ Value4(e[1], e[2], e[3], e[4]) = cp
  BY <1>1, Zenon DEF EncodedAs
<1>3. ASSUME n = 2, e[1] = x \/ cp = x
      PROVE  FALSE
  <2> DEFINE a == e[1]
             b == e[2]
  <2>1. Form2(a, b) /\ Value2(a, b) = cp
    BY <1>2, <1>3, Zenon
  <2>2. a = x \/ cp = x
    BY <1>3
  <2> HIDE DEF a, b
  <2> QED BY <2>1, <2>2, SMT DEF Form2, Value2
<1>4. ASSUME n = 3, e[1] = x \/ cp = x
      PROVE  FALSE
  <2> DEFINE a == e[1]
             b == e[2]
             c == e[3]
  <2>1. Form3(a, b, c) /\ Value3(a, b, c) = cp
    BY <1>2, <1>4, Zenon
  <2>2. a = x \/ cp = x
    BY <1>4
  <2> HIDE DEF a, b, c
  <2>3. Form3(a, b, c) => Value3(a, b, c) >= 2048 /\ a >= 224
    <3> SUFFICES ASSUME Form3(a, b, c)
                 PROVE  Value3(a, b, c) >= 2048 /\ a >= 224
      OBVIOUS
    <3>1. a \in 224..239 /\ b \in 128..191 /\ c \in 128..191 /\ (a = 224 => b >= 160)
      BY SMT DEF Form3
    <3>2. CASE a = 224
      BY <3>1, <3>2, SMT DEF Value3
    <3>3. CASE a >= 225
      BY <3>1, <3>3, SMT DEF Value3
    <3> QED BY <3>1, <3>2, <3>3, SMT
  <2> QED BY <2>1, <2>2, <2>3, SMT
<1>5. ASSUME n = 4, e[1] = x \/ cp = x
      PROVE  FALSE
  <2> DEFINE a == e[1]
             b == e[2]
             c == e[3]
             d == e[4]
  <2>1. Form4(a, b, c, d) /\ Value4(a, b, c, d) = cp
    BY <1>2, <1>5, Zenon
  <2>2. a = x \/ cp = x
    BY <1>5
  <2> HIDE DEF a, b, c, d
  <2>3. Form4(a, b, c, d) => Value4(a, b, c, d) >= 65536 /\ a >= 240
    <3> SUFFICES ASSUME Form4(a, b, c, d)
                 PROVE  Value4(a, b, c, d) >= 65536 /\ a >= 240
      OBVIOUS
    <3>1. /\ a \in 240..244 /\ b \in 128..191 /\ c \in 128..191 /\ d \in 128..191
          /\ a = 240 => b >= 144
      BY SMT DEF Form4
    <3>2. CASE a = 240
      BY <3>1, <3>2, SMT DEF Value4
    <3>3. CASE a >= 241
      BY <3>1, <3>3, SMT DEF Value4
    <3> QED BY <3>1, <3>2, <3>3, SMT
  <2> QED BY <2>1, <2>2, <2>3, SMT
<1> HIDE DEF n, e
<1>6. n = 1 \/ n = 2 \/ n = 3 \/ n = 4
  BY <1>2
<1>7. e[1] = x <=> cp = x
  BY <1>2, <1>3, <1>4, <1>5, <1>6, Zenon
<1> QED BY <1>7, Zenon DEF e

-----------------------------------------------------------------------------
\* The key tables of the code against what hosts print.

Extras == {228, 246, 252, 196, 214, 220, 223, 8364, 180}

\* Entry by entry, map_ascii and a US host agree on the unshifted symbols.
LEMMA PlainEntries ==
  \A i \in 1..21 : /\ AsciiUsages[i] \in 30..56
                   /\ AsciiPlain[i] \in 33..126
                   /\ HostUSPlain[AsciiUsages[i]] = AsciiPlain[i]
BY SMT DEF AsciiUsages, AsciiPlain, HostUSPlain, LF, Tab, Space

\* And on the shifted ones.
LEMMA ShiftedEntries ==
  \A i \in 1..21 : /\ AsciiShifted[i] \in 33..126
                   /\ HostUSShift[AsciiUsages[i]] = AsciiShifted[i]
BY SMT DEF AsciiUsages, AsciiShifted, HostUSShift, LF, Tab, Space

\* map_de and a German host agree on the symbols of its table.
LEMMA DeEntries ==
  \A i \in 1..41 : /\ DeSymbols[i] \in 33..126 \/ DeSymbols[i] \in Extras
                   /\ HostChar(DE, DeKeys[i]) = DeSymbols[i]
<1> DEFINE m(i) == DeKeys[i][1]
           u(i) == DeKeys[i][2]
<1>1. \A i \in 1..41 : DeSymbols[i] \in 33..126 \/ DeSymbols[i] \in Extras
  BY SMT DEF DeSymbols, Extras
<1>2. \A i \in 1..41 : m(i) = 0 /\ u(i) \in 30..56 => HostDEPlain[u(i)] = DeSymbols[i]
  BY SMT DEF DeSymbols, DeKeys, HostDEPlain, LF, Tab, Space
<1>3. \A i \in 1..41 : m(i) = 2 /\ u(i) \in 30..56 => HostDEShift[u(i)] = DeSymbols[i]
  BY SMT DEF DeSymbols, DeKeys, HostDEShift, LF, Tab, Space
<1>4. \A i \in 1..41 : m(i) = 64 => HostDEAltGr(u(i)) = DeSymbols[i]
  BY SMT DEF DeSymbols, DeKeys, HostDEAltGr
<1>5. \A i \in 1..41 :
        /\ m(i) = 64 \/ (m(i) \in {0, 2} /\ (u(i) \in 30..56 \/ u(i) = 100))
        /\ u(i) = 100 /\ m(i) # 64 => DeSymbols[i] = IF m(i) = 0 THEN 60 ELSE 62
  BY SMT DEF DeSymbols, DeKeys
<1>6. ASSUME NEW i \in 1..41
      PROVE  HostChar(DE, DeKeys[i]) = DeSymbols[i]
  <2> DEFINE k == DeKeys[i]
  <2>1. /\ k[1] = 0 /\ k[2] \in 30..56 => HostDEPlain[k[2]] = DeSymbols[i]
        /\ k[1] = 2 /\ k[2] \in 30..56 => HostDEShift[k[2]] = DeSymbols[i]
        /\ k[1] = 64 => HostDEAltGr(k[2]) = DeSymbols[i]
    BY <1>2, <1>3, <1>4
  <2>2. /\ k[1] = 64 \/ (k[1] \in {0, 2} /\ (k[2] \in 30..56 \/ k[2] = 100))
        /\ k[2] = 100 /\ k[1] # 64 => DeSymbols[i] = IF k[1] = 0 THEN 60 ELSE 62
    BY <1>5
  <2> HIDE DEF k
  <2>3. HostChar(DE, k) = DeSymbols[i]
    BY <2>1, <2>2, SMT DEF HostChar, HostPlain, HostShift, DE, Shift, AltGr
  <2> QED BY <2>3 DEF k
<1> QED BY <1>1, <1>6

\* Letters, the space and the two tables are all of printable ASCII.
LEMMA AsciiCovered ==
  ASSUME NEW cp \in 33..126, cp \notin 97..122, cp \notin 65..90
  PROVE  Contains(AsciiPlain, cp) \/ Contains(AsciiShifted, cp)
BY SMT DEF Contains, AsciiPlain, AsciiShifted

\* The German table is made of ASCII symbols and the extra characters.
LEMMA DeExtras ==
  ASSUME NEW cp \in Extras PROVE Contains(DeSymbols, cp)
BY SMT DEF Contains, DeSymbols, Extras
\* Digits are where a German host has them.
LEMMA DeDigits ==
  \A i \in 1..21 : \/ AsciiPlain[i] \in 48..57 /\ HostDEPlain[AsciiUsages[i]] = AsciiPlain[i]
                   \/ Contains(DeSymbols, AsciiPlain[i])
BY SMT DEF AsciiPlain, AsciiUsages, HostDEPlain, Contains, DeSymbols, LF, Tab, Space

\* Looking a code up finds the position of that code.
LEMMA LookupFinds ==
  ASSUME NEW codes, NEW keys, NEW cp, Contains(codes, cp)
  PROVE  \E i \in 1..Len(codes) : codes[i] = cp /\ Lookup(codes, keys, cp) = keys[i]
<1>1. \E i \in 1..Len(codes) : codes[i] = cp
  BY Zenon DEF Contains
<1> DEFINE i == CHOOSE i \in 1..Len(codes) : codes[i] = cp
<1>2. i \in 1..Len(codes) /\ codes[i] = cp
  BY <1>1, Zenon
<1> QED BY <1>2, Zenon DEF Lookup

\* Codes and keys of the tables match in number.
LEMMA TableLengths ==
  Len(AsciiPlain) = 21 /\ Len(AsciiShifted) = 21 /\ Len(DeSymbols) = 41
BY SMT DEF AsciiPlain, AsciiShifted, DeSymbols

\* What the code looks up in its tables.
LEMMA TableFinds ==
  ASSUME NEW cp
  PROVE  /\ Contains(AsciiPlain, cp) =>
              \E i \in 1..21 : AsciiPlain[i] = cp /\ Lookup(AsciiPlain, AsciiUsages, cp) = AsciiUsages[i]
         /\ Contains(AsciiShifted, cp) =>
              \E i \in 1..21 : /\ AsciiShifted[i] = cp
                               /\ Lookup(AsciiShifted, AsciiUsages, cp) = AsciiUsages[i]
         /\ Contains(DeSymbols, cp) =>
              \E i \in 1..41 : DeSymbols[i] = cp /\ Lookup(DeSymbols, DeKeys, cp) = DeKeys[i]
<1>1. 1..Len(AsciiPlain) = 1..21 /\ 1..Len(AsciiShifted) = 1..21 /\ 1..Len(DeSymbols) = 1..41
  BY TableLengths
<1>2. ASSUME Contains(AsciiPlain, cp)
      PROVE  \E i \in 1..21 : AsciiPlain[i] = cp /\ Lookup(AsciiPlain, AsciiUsages, cp) = AsciiUsages[i]
  <2>1. PICK i \in 1..Len(AsciiPlain) :
          AsciiPlain[i] = cp /\ Lookup(AsciiPlain, AsciiUsages, cp) = AsciiUsages[i]
    BY <1>2, LookupFinds
  <2>2. i \in 1..21
    BY <1>1, <2>1, Zenon
  <2> QED BY <2>1, <2>2, Zenon
<1>3. ASSUME Contains(AsciiShifted, cp)
      PROVE  \E i \in 1..21 : /\ AsciiShifted[i] = cp
                              /\ Lookup(AsciiShifted, AsciiUsages, cp) = AsciiUsages[i]
  <2>1. PICK i \in 1..Len(AsciiShifted) :
          AsciiShifted[i] = cp /\ Lookup(AsciiShifted, AsciiUsages, cp) = AsciiUsages[i]
    BY <1>3, LookupFinds
  <2>2. i \in 1..21
    BY <1>1, <2>1, Zenon
  <2> QED BY <2>1, <2>2, Zenon
<1>4. ASSUME Contains(DeSymbols, cp)
      PROVE  \E i \in 1..41 : DeSymbols[i] = cp /\ Lookup(DeSymbols, DeKeys, cp) = DeKeys[i]
  <2>1. PICK i \in 1..Len(DeSymbols) :
          DeSymbols[i] = cp /\ Lookup(DeSymbols, DeKeys, cp) = DeKeys[i]
    BY <1>4, LookupFinds
  <2>2. i \in 1..41
    BY <1>1, <2>1, Zenon
  <2> QED BY <2>1, <2>2, Zenon
<1> QED BY <1>2, <1>3, <1>4, Zenon

\* map_ascii has a key for exactly printable ASCII, and a US host prints it.
LEMMA AsciiKeys ==
  ASSUME NEW cp \in Int
  PROVE  /\ map_ascii(cp) # NoKeyFor <=> cp \in 32..126
         /\ cp \in 32..126 => HostChar(US, map_ascii(cp)) = cp
<1>0. ASSUME NEW m, NEW u, u # 0
      PROVE  <<m, u>> # NoKeyFor
  BY <1>0, SMT DEF NoKeyFor
<1> DEFINE Claim == /\ map_ascii(cp) # NoKeyFor <=> cp \in 32..126
                    /\ cp \in 32..126 => HostChar(US, map_ascii(cp)) = cp
<1>1. CASE cp \in 97..122
  <2>1. map_ascii(cp) = <<0, cp - 97 + 4>>
    BY <1>1, SMT DEF map_ascii
  <2>2. HostChar(US, <<0, cp - 97 + 4>>) = cp
    BY <1>1, SMT DEF HostChar, Letter, US, DE
  <2>3. map_ascii(cp) # NoKeyFor
    BY <1>1, <2>1, SMT DEF NoKeyFor
  <2>4. cp \in 32..126
    BY <1>1, SMT
  <2> QED BY <2>1, <2>2, <2>3, <2>4, SMT
<1>2. CASE cp \in 65..90
  <2>1. map_ascii(cp) = <<Shift, cp - 65 + 4>>
    BY <1>2, SMT DEF map_ascii
  <2>2. HostChar(US, <<Shift, cp - 65 + 4>>) = cp
    BY <1>2, SMT DEF HostChar, Letter, US, DE, Shift
  <2>3. map_ascii(cp) # NoKeyFor
    BY <1>2, <2>1, SMT DEF NoKeyFor
  <2>4. cp \in 32..126
    BY <1>2, SMT
  <2> QED BY <2>1, <2>2, <2>3, <2>4, SMT
<1>3. CASE cp = Space
  <2>1. map_ascii(cp) = <<0, 44>>
    BY <1>3, SMT DEF map_ascii, Space
  <2>2. HostChar(US, <<0, 44>>) = Space
    BY SMT DEF HostChar, US, DE, HostPlain, HostUSPlain, LF, Tab, Space
  <2>3. map_ascii(cp) # NoKeyFor
    BY <2>1, SMT DEF NoKeyFor
  <2>4. cp \in 32..126
    BY <1>3, SMT DEF Space
  <2> QED BY <1>3, <2>1, <2>2, <2>3, <2>4, SMT
<1> DEFINE Rest == ~(cp \in 97..122) /\ ~(cp \in 65..90) /\ cp # Space
<1>4. CASE Rest /\ Contains(AsciiPlain, cp)
  <2>1. map_ascii(cp) = <<0, Lookup(AsciiPlain, AsciiUsages, cp)>>
    BY <1>4, SMT DEF map_ascii
  <2>2. PICK i \in 1..21 : AsciiPlain[i] = cp /\ Lookup(AsciiPlain, AsciiUsages, cp) = AsciiUsages[i]
    <3>1. Contains(AsciiPlain, cp)
      BY <1>4
    <3> QED BY <3>1, TableFinds, Zenon
  <2> DEFINE u == AsciiUsages[i]
  <2>3. u \in 30..56 /\ cp \in 33..126 /\ HostUSPlain[u] = cp
    BY <2>2, PlainEntries, SMTT(60)
  <2>4. map_ascii(cp) = <<0, u>>
    BY <2>1, <2>2
  <2> HIDE DEF u
  <2>5. HostChar(US, <<0, u>>) = HostUSPlain[u]
    BY <2>3, SMT DEF HostChar, US, DE, HostPlain
  <2>6. <<0, u>> # NoKeyFor
    BY <2>3, SMT DEF NoKeyFor
  <2>7. cp \in 32..126
    BY <2>3, SMT
  <2> QED BY <2>3, <2>4, <2>5, <2>6, <2>7, SMT
<1>5. CASE Rest /\ ~Contains(AsciiPlain, cp) /\ Contains(AsciiShifted, cp)
  <2>1. map_ascii(cp) = <<Shift, Lookup(AsciiShifted, AsciiUsages, cp)>>
    BY <1>5, SMT DEF map_ascii
  <2>2. PICK i \in 1..21 : /\ AsciiShifted[i] = cp
                           /\ Lookup(AsciiShifted, AsciiUsages, cp) = AsciiUsages[i]
    <3>1. Contains(AsciiShifted, cp)
      BY <1>5
    <3> QED BY <3>1, TableFinds, Zenon
  <2> DEFINE u == AsciiUsages[i]
  <2>3. u \in 30..56 /\ cp \in 33..126 /\ HostUSShift[u] = cp
    BY <2>2, PlainEntries, ShiftedEntries, SMTT(60)
  <2>4. map_ascii(cp) = <<Shift, u>>
    BY <2>1, <2>2
  <2> HIDE DEF u
  <2>5. HostChar(US, <<Shift, u>>) = HostUSShift[u]
    BY <2>3, SMT DEF HostChar, US, DE, HostShift, Shift
  <2>6. <<Shift, u>> # NoKeyFor
    BY <2>3, SMT DEF NoKeyFor
  <2>7. cp \in 32..126
    BY <2>3, SMT
  <2> QED BY <2>3, <2>4, <2>5, <2>6, <2>7, SMT
<1>6. CASE Rest /\ ~Contains(AsciiPlain, cp) /\ ~Contains(AsciiShifted, cp)
  <2>1. map_ascii(cp) = NoKeyFor
    BY <1>6, SMT DEF map_ascii
  <2>2. cp \notin 33..126
    BY <1>6, AsciiCovered
  <2>3. cp \notin 32..126
    BY <1>6, <2>2, SMT DEF Space
  <2> QED BY <2>1, <2>3
<1> QED BY <1>1, <1>2, <1>3, <1>4, <1>5, <1>6

\* SwapYZ exchanges letters and leaves other characters alone.
LEMMA SwapLetters ==
  ASSUME NEW cp \in Int
  PROVE  /\ SwapYZ(cp) \in Int
         /\ cp \in 97..122 <=> SwapYZ(cp) \in 97..122
         /\ cp \in 65..90 <=> SwapYZ(cp) \in 65..90
         /\ ~(cp \in 97..122) /\ ~(cp \in 65..90) => SwapYZ(cp) = cp
<1>1. SwapYZ(cp) \in Int
  BY SMT DEF SwapYZ
<1>2. cp \in 97..122 <=> SwapYZ(cp) \in 97..122
  BY SMT DEF SwapYZ
<1>3. cp \in 65..90 <=> SwapYZ(cp) \in 65..90
  BY SMT DEF SwapYZ
<1>4. ~(cp \in 97..122) /\ ~(cp \in 65..90) => SwapYZ(cp) = cp
  BY SMT DEF SwapYZ
<1> QED BY <1>1, <1>2, <1>3, <1>4

\* What German layouts take from map_ascii is not a symbol.
LEMMA ShiftedAreSymbols ==
  \A i \in 1..21 : Contains(DeSymbols, AsciiShifted[i])
BY SMT DEF AsciiShifted, Contains, DeSymbols

\* The letters of a German keyboard.
LEMMA GermanLetters ==
  ASSUME NEW cp \in Int
  PROVE  /\ cp \in 97..122 => HostChar(DE, <<0, SwapYZ(cp) - 97 + 4>>) = cp
         /\ cp \in 65..90 => HostChar(DE, <<Shift, SwapYZ(cp) - 65 + 4>>) = cp
<1>1. ASSUME cp \in 97..122
      PROVE  HostChar(DE, <<0, SwapYZ(cp) - 97 + 4>>) = cp
  <2> DEFINE z == SwapYZ(cp)
             u == z - 97 + 4
  <2>1. z = IF cp = 121 THEN 122 ELSE IF cp = 122 THEN 121 ELSE cp
    BY <1>1, SMT DEF SwapYZ
  <2> HIDE DEF z
  <2>2. u \in 4..29 /\ Letter(DE, u) = cp
    BY <1>1, <2>1, SMT DEF Letter
  <2> HIDE DEF u
  <2>3. HostChar(DE, <<0, u>>) = Letter(DE, u)
    BY <2>2, SMT DEF HostChar
  <2> QED BY <2>2, <2>3 DEF u, z
<1>2. ASSUME cp \in 65..90
      PROVE  HostChar(DE, <<Shift, SwapYZ(cp) - 65 + 4>>) = cp
  <2> DEFINE z == SwapYZ(cp)
             u == z - 65 + 4
  <2>1. z = IF cp = 89 THEN 90 ELSE IF cp = 90 THEN 89 ELSE cp
    BY <1>2, SMT DEF SwapYZ
  <2> HIDE DEF z
  <2>2. u \in 4..29 /\ Letter(DE, u) - 32 = cp
    BY <1>2, <2>1, SMT DEF Letter
  <2> HIDE DEF u
  <2>3. HostChar(DE, <<Shift, u>>) = Letter(DE, u) - 32
    BY <2>2, SMT DEF HostChar, Shift
  <2> QED BY <2>2, <2>3 DEF u, z
<1> QED BY <1>1, <1>2

\* map_de has a key for printable ASCII and the extra characters, and a
\* German host prints it.
LEMMA GermanKeys ==
  ASSUME NEW cp \in Int
  PROVE  /\ map_de(cp) # NoKeyFor <=> cp \in 32..126 \/ cp \in Extras
         /\ cp \in 32..126 \/ cp \in Extras => HostChar(DE, map_de(cp)) = cp
<1> DEFINE z == SwapYZ(cp)
<1>1. CASE Contains(DeSymbols, cp)
  <2>1. map_de(cp) = Lookup(DeSymbols, DeKeys, cp)
    BY <1>1, Zenon DEF map_de
  <2>2. PICK i \in 1..41 : DeSymbols[i] = cp /\ Lookup(DeSymbols, DeKeys, cp) = DeKeys[i]
    BY <1>1, TableFinds, Zenon
  <2>3. (cp \in 33..126 \/ cp \in Extras) /\ HostChar(DE, DeKeys[i]) = cp
    BY <2>2, DeEntries, Zenon
  <2>4. cp \in 32..126 \/ cp \in Extras
    BY <2>3, SMT
  <2>5. DeKeys[i] \in Strokes
    BY <2>2, TableTypes, TableLengths, Zenon
  <2>6. NoKeyFor \notin Strokes
    BY SMT DEF NoKeyFor, Strokes
  <2> QED BY <2>1, <2>2, <2>3, <2>4, <2>5, <2>6, Zenon
<1>2. ASSUME ~Contains(DeSymbols, cp)
      PROVE  map_de(cp) = map_ascii(z) /\ cp \notin Extras
  BY <1>2, DeExtras, Zenon DEF map_de
<1>3. CASE ~Contains(DeSymbols, cp) /\ cp \in 97..122
  <2>1. z \in 97..122 /\ cp \in 32..126
    BY <1>3, SwapLetters, SMT
  <2>2. map_ascii(z) = <<0, z - 97 + 4>>
    <3> HIDE DEF z
    <3> QED BY <2>1, SMT DEF map_ascii
  <2>3. HostChar(DE, map_de(cp)) = cp
    BY <1>2, <1>3, <2>2, GermanLetters, Zenon
  <2>4. map_ascii(z) # NoKeyFor
    <3> HIDE DEF z
    <3> QED BY <2>1, <2>2, SMT DEF NoKeyFor
  <2> QED BY <1>2, <1>3, <2>1, <2>3, <2>4, Zenon
<1>4. CASE ~Contains(DeSymbols, cp) /\ cp \in 65..90
  <2>1. z \in 65..90 /\ cp \in 32..126
    BY <1>4, SwapLetters, SMT
  <2>2. map_ascii(z) = <<Shift, z - 65 + 4>>
    <3> HIDE DEF z
    <3> QED BY <2>1, SMT DEF map_ascii
  <2>3. HostChar(DE, map_de(cp)) = cp
    BY <1>2, <1>4, <2>2, GermanLetters, Zenon
  <2>4. map_ascii(z) # NoKeyFor
    <3> HIDE DEF z
    <3> QED BY <2>1, <2>2, SMT DEF NoKeyFor
  <2> QED BY <1>2, <1>4, <2>1, <2>3, <2>4, Zenon
<1>5. CASE ~Contains(DeSymbols, cp) /\ cp \notin 97..122 /\ cp \notin 65..90
  <2>1. z = cp
    BY <1>5, SwapLetters, Zenon
  <2>2. map_de(cp) = map_ascii(cp) /\ cp \notin Extras
    BY <1>2, <1>5, <2>1, Zenon
  <2>3. map_ascii(cp) # NoKeyFor <=> cp \in 32..126
    BY AsciiKeys
  <2>4. ASSUME cp \in 32..126
        PROVE  HostChar(DE, map_ascii(cp)) = cp
    <3>1. CASE cp = Space
      <4>1. map_ascii(cp) = <<0, 44>>
        BY <3>1, SMT DEF map_ascii, Space
      <4>2. HostChar(DE, <<0, 44>>) = Space
        BY SMT DEF HostChar, DE, AltGr, HostPlain, HostDEPlain, LF, Tab, Space
      <4> QED BY <3>1, <4>1, <4>2
    <3>2. CASE cp # Space /\ Contains(AsciiPlain, cp)
      <4>1. map_ascii(cp) = <<0, Lookup(AsciiPlain, AsciiUsages, cp)>>
        BY <1>5, <3>2, SMT DEF map_ascii
      <4>2. PICK i \in 1..21 : /\ AsciiPlain[i] = cp
                               /\ Lookup(AsciiPlain, AsciiUsages, cp) = AsciiUsages[i]
        BY <3>2, TableFinds, Zenon
      <4>3. HostDEPlain[AsciiUsages[i]] = cp
        BY <1>5, <4>2, DeDigits, Zenon
      <4> DEFINE u == AsciiUsages[i]
      <4>4. u \in 30..56 /\ map_ascii(cp) = <<0, u>>
        BY <4>1, <4>2, PlainEntries, Zenon
      <4> HIDE DEF u
      <4>5. HostChar(DE, <<0, u>>) = HostDEPlain[u]
        BY <4>4, SMT DEF HostChar, DE, AltGr, HostPlain
      <4> QED BY <4>3, <4>4, <4>5, Zenon DEF u
    <3>3. CASE cp # Space /\ Contains(AsciiShifted, cp)
      <4>1. PICK i \in 1..21 : AsciiShifted[i] = cp
        BY <3>3, TableLengths, Zenon DEF Contains
      <4> QED BY <1>5, <4>1, ShiftedAreSymbols, Zenon
    <3>4. cp = Space \/ Contains(AsciiPlain, cp) \/ Contains(AsciiShifted, cp)
      <4>1. cp = Space \/ cp \in 33..126
        BY <2>4, SMT DEF Space
      <4> QED BY <1>5, <4>1, AsciiCovered, SMT
    <3> QED BY <3>1, <3>2, <3>3, <3>4, Zenon
  <2> QED BY <2>2, <2>3, <2>4, SMT
<1> QED BY <1>1, <1>3, <1>4, <1>5, Zenon

-----------------------------------------------------------------------------
\* Which texts the loop accepts.

\* pos[i] is where the encoding of the i-th character of c ends in t.
PlacedIn(c, t, pos) ==
  /\ pos \in [0..Len(c) -> Nat] /\ pos[0] = 0 /\ pos[Len(c)] = Len(t)
  /\ \A i \in 1..Len(c) : /\ pos[i] = pos[i - 1] + Len(EncodeUTF8(c[i]))
                          /\ Spells(t, pos[i - 1], c[i])
Placed(pos) == PlacedIn(chars, text, pos)

Layouts == {US, DE}
KeyFor(layout, cp) == IF layout = DE THEN map_de(cp) ELSE map_ascii(cp)

\* The strokes of a permitted character.
StrokesFor(layout, cp) ==
  IF cp = LF THEN << <<0, 40>> >>
  ELSE IF cp = Tab THEN << <<0, 43>> >>
  ELSE KeyStrokes(layout, cp, KeyFor(layout, cp))

\* A layout has a key for exactly the characters it is said to offer.
LEMMA KeyExists ==
  ASSUME NEW layout \in Layouts, NEW cp \in Nat
  PROVE  /\ KeyFor(layout, cp) # NoKeyFor <=> cp \in Typeable(layout)
         /\ cp \in Typeable(layout) => HostChar(layout, KeyFor(layout, cp)) = cp
         /\ cp \in Typeable(layout) => cp >= 32 /\ cp # 127
<1>0. cp \in Int
  OBVIOUS
<1>1. US # DE
  BY SMT DEF US, DE
<1>2. CASE layout = US
  <2>1. KeyFor(layout, cp) = map_ascii(cp)
    BY <1>1, <1>2, Zenon DEF KeyFor
  <2>2. cp \in Typeable(layout) <=> cp \in 32..126
    BY <1>1, <1>2, SMT DEF Typeable
  <2>3. cp \in 32..126 => cp >= 32 /\ cp # 127
    BY SMT
  <2> QED BY <1>0, <1>2, <2>1, <2>2, <2>3, AsciiKeys, Zenon
<1>3. CASE layout = DE
  <2>1. KeyFor(layout, cp) = map_de(cp)
    BY <1>3, Zenon DEF KeyFor
  <2>2. cp \in Typeable(layout) <=> cp \in 32..126 \/ cp \in Extras
    BY <1>3, SMT DEF Typeable, Extras
  <2>3. cp \in 32..126 \/ cp \in Extras => cp >= 32 /\ cp # 127
    BY SMT DEF Extras
  <2>4. /\ map_de(cp) # NoKeyFor <=> cp \in 32..126 \/ cp \in Extras
        /\ cp \in 32..126 \/ cp \in Extras => HostChar(DE, map_de(cp)) = cp
    BY <1>0, GermanKeys
  <2> QED BY <1>3, <2>1, <2>2, <2>3, <2>4, Zenon
<1> QED BY <1>2, <1>3, Zenon DEF Layouts

\* An LF behind the CR that ends at next, and the characters that have strokes.
Breaks(mode, flags, t, cp, next) ==
  cp = CR /\ AllowLF(mode, flags) /\ next < Len(t) /\ t[next + 1] = LF
Allowed(layout, mode, flags, cp) ==
  \/ cp \in Typeable(layout)
  \/ cp = LF /\ AllowLF(mode, flags)
  \/ cp = Tab /\ AllowTab(mode, flags)

LineBreak(next) == [status |-> "OK", strokes |-> << <<0, 40>> >>, next |-> next + 1]

DecodesTo(t, off, cp, next) == decode_utf8(t, off) = Decoded(cp, next)

\* One iteration of the loop on a decoded character.
Staged(layout, mode, flags, t, off, cp, next) ==
  LET c == StageChar(layout, mode, flags, t, off)
      crlf == Breaks(mode, flags, t, cp, next)
      ok == Allowed(layout, mode, flags, cp)
  IN  /\ crlf => c = LineBreak(next)
      /\ ~crlf /\ ok =>
           c = [status |-> "OK", strokes |-> StrokesFor(layout, cp), next |-> next]
      /\ ~crlf /\ ~ok => c.status # "OK"

\* One iteration of the loop, by what it decoded.
LEMMA StageDecoded ==
  ASSUME NEW layout \in Layouts, NEW mode, NEW flags, NEW t, NEW off, NEW cp \in Nat, NEW next,
         DecodesTo(t, off, cp, next)
  PROVE  Staged(layout, mode, flags, t, off, cp, next)
<1> DEFINE d == decode_utf8(t, off)
           crlf == CrLf(mode, flags, t, d)
           x == IF crlf THEN LF ELSE d.cp
           key == IF layout = DE THEN map_de(x) ELSE map_ascii(x)
           Refuse(st) == [status |-> st, strokes |-> <<>>, next |-> 0]
           Emit(strokes) == [status |-> "OK", strokes |-> strokes,
                             next |-> IF crlf THEN d.next + 1 ELSE d.next]
           c == StageChar(layout, mode, flags, t, off)
           ok == \/ cp \in Typeable(layout)
                 \/ cp = LF /\ AllowLF(mode, flags)
                 \/ cp = Tab /\ AllowTab(mode, flags)
           Control == cp < Space \/ cp = 127
<1>1. c = IF d.status # "OK" THEN Refuse(d.status)
          ELSE IF x = LF /\ AllowLF(mode, flags) THEN Emit(<< <<0, 40>> >>)
          ELSE IF x = Tab /\ AllowTab(mode, flags) THEN Emit(<< <<0, 43>> >>)
          ELSE IF x < Space \/ x = 127 THEN Refuse("POLICY")
          ELSE IF key = NoKeyFor THEN Refuse("UNSUPPORTED")
          ELSE Emit(KeyStrokes(layout, x, key))
  BY Zenon DEF StageChar
<1>2. d.status = "OK" /\ d.cp = cp /\ d.next = next
  <2> HIDE DEF d
  <2>1. d = Decoded(cp, next)
    BY DEF d, DecodesTo
  <2> QED BY <2>1, SMT DEF Decoded
<1>3. crlf <=> cp = CR /\ AllowLF(mode, flags) /\ next < Len(t) /\ t[next + 1] = LF
  BY <1>2, Zenon DEF CrLf
<1>4. Refuse("POLICY").status # "OK" /\ Refuse("UNSUPPORTED").status # "OK"
  BY SMT
<1>5. /\ cp = LF => Control /\ cp # Tab
      /\ cp = Tab => Control /\ cp # LF
  BY SMT DEF LF, Tab, Space
<1>6. /\ KeyFor(layout, cp) # NoKeyFor <=> cp \in Typeable(layout)
      /\ cp \in Typeable(layout) => cp >= 32 /\ cp # 127
  BY KeyExists
<1>7. cp \in Typeable(layout) => ~Control
  BY <1>6, SMT DEF Space
<1> HIDE DEF d, crlf, c, Refuse, Control
<1>8. ASSUME crlf
      PROVE  c = LineBreak(next)
  <2>1. c = Emit(<< <<0, 40>> >>)
    BY <1>1, <1>2, <1>3, <1>8, Zenon
  <2> QED BY <1>2, <1>8, <2>1, Zenon DEF LineBreak
<1>9. ASSUME ~crlf
      PROVE  /\ x = cp /\ key = KeyFor(layout, cp)
             /\ \A ss : Emit(ss) = [status |-> "OK", strokes |-> ss, next |-> next]
  <2>1. x = cp
    BY <1>2, <1>9, Zenon
  <2>2. key = KeyFor(layout, cp)
    BY <2>1, Zenon DEF KeyFor
  <2>3. \A ss : Emit(ss) = [status |-> "OK", strokes |-> ss, next |-> next]
    BY <1>2, <1>9, Zenon
  <2> QED BY <2>1, <2>2, <2>3, Zenon
<1> HIDE DEF x, key, Emit
<1>10. ASSUME ~crlf
       PROVE  c = IF cp = LF /\ AllowLF(mode, flags) THEN Emit(<< <<0, 40>> >>)
                  ELSE IF cp = Tab /\ AllowTab(mode, flags) THEN Emit(<< <<0, 43>> >>)
                  ELSE IF Control THEN Refuse("POLICY")
                  ELSE IF KeyFor(layout, cp) = NoKeyFor THEN Refuse("UNSUPPORTED")
                  ELSE Emit(KeyStrokes(layout, cp, KeyFor(layout, cp)))
  BY <1>1, <1>2, <1>9, <1>10, Zenon DEF Control
<1>11. ASSUME ~crlf, ok
       PROVE  c = [status |-> "OK", strokes |-> StrokesFor(layout, cp), next |-> next]
  <2>1. c = Emit(StrokesFor(layout, cp))
    BY <1>5, <1>6, <1>7, <1>10, <1>11, Zenon DEF StrokesFor
  <2> QED BY <1>9, <1>11, <2>1, Zenon
<1>12. ASSUME ~crlf, ~ok
       PROVE  c.status # "OK"
  BY <1>4, <1>6, <1>10, <1>12, Zenon
<1> HIDE DEF ok
<1>13. crlf <=> Breaks(mode, flags, t, cp, next)
  BY <1>3, Zenon DEF Breaks
<1>14. ok <=> Allowed(layout, mode, flags, cp)
  BY Zenon DEF ok, Allowed
<1> QED BY <1>8, <1>11, <1>12, <1>13, <1>14, Zenon DEF c, Staged

\* What the loop does with the character behind position pos[i].
LEMMA CharStep ==
  ASSUME setting[1] \in Layouts, text \in Seq(ByteValue), chars \in Seq(Scalars),
         NEW pos, Placed(pos), NEW i \in 1..Len(chars)
  PROVE  LET c == StageChar(setting[1], Mode, Flags, text, pos[i - 1])
             cp == chars[i]
         IN  /\ pos[i - 1] < Len(text)
             /\ Joined(i) =>
                  /\ i + 1 \in 1..Len(chars) /\ chars[i + 1] = LF /\ AllowLF(Mode, Flags)
                  /\ c = [status |-> "OK", strokes |-> << <<0, 40>> >>, next |-> pos[i + 1]]
             /\ ~Joined(i) /\ Permitted(cp) =>
                  c = [status |-> "OK", strokes |-> StrokesFor(setting[1], cp), next |-> pos[i]]
             /\ ~Joined(i) /\ ~Permitted(cp) => c.status # "OK"
<1> DEFINE c == StageChar(setting[1], Mode, Flags, text, pos[i - 1])
           cp == chars[i]
           m == Len(chars)
           next == pos[i]
           crlf == cp = CR /\ AllowLF(Mode, Flags) /\ next < Len(text) /\ text[next + 1] = LF
<1>1. m \in Nat /\ i - 1 \in 0..m /\ i \in 0..m
  OBVIOUS
<1>2. cp \in Scalars
  BY ElementOfSeq, Zenon
<1>3. cp \in Nat
  BY <1>2, SMT DEF Scalars
<1>4. /\ pos[i - 1] \in Nat /\ pos[i] \in Nat /\ pos[m] = Len(text)
      /\ pos[i] = pos[i - 1] + Len(EncodeUTF8(cp)) /\ Spells(text, pos[i - 1], cp)
  BY <1>1 DEF Placed, PlacedIn
<1>5. /\ pos[i - 1] < Len(text)
      /\ decode_utf8(text, pos[i - 1]) = Decoded(cp, next)
  <2>1. /\ pos[i - 1] < Len(text)
        /\ decode_utf8(text, pos[i - 1]) = Decoded(cp, pos[i - 1] + Len(EncodeUTF8(cp)))
    <3> HIDE DEF cp
    <3> QED BY <1>2, <1>4, DecodesChar
  <2> QED BY <1>4, <2>1, Zenon
<1>6. crlf <=> Joined(i)
  <2>1. CASE i = m
    <3>1. ~(next < Len(text)) /\ ~(i < Len(chars))
      BY <1>1, <1>4, <2>1
    <3> QED BY <3>1, Zenon DEF Joined
  <2>2. CASE i # m
    <3>1. i + 1 \in 1..m /\ (i + 1) - 1 = i /\ i < Len(chars)
      BY <1>1, <2>2
    <3>2. chars[i + 1] \in Scalars
      BY <3>1, ElementOfSeq, Zenon
    <3>3. Spells(text, next, chars[i + 1])
      BY <3>1 DEF Placed, PlacedIn
    <3>4. Len(EncodeUTF8(chars[i + 1])) \in 1..4 /\ next < Len(text)
      BY <1>4, <3>2, <3>3, DecodesChar, Zenon
    <3>5. 1 \in 1..Len(EncodeUTF8(chars[i + 1]))
      <4>1. \A x \in 1..4 : 1 \in 1..x
        OBVIOUS
      <4> QED BY <3>4, <4>1, Zenon
    <3>6. text[next + 1] = EncodeUTF8(chars[i + 1])[1]
      BY <3>3, <3>5, Zenon DEF Spells
    <3>7. LF \in 0..127
      BY SMT DEF LF
    <3>8. text[next + 1] = LF <=> chars[i + 1] = LF
      BY <3>2, <3>6, <3>7, AsciiAlone, Zenon
    <3> QED BY <3>1, <3>4, <3>8, Zenon DEF Joined
  <2> QED BY <2>1, <2>2
<1>7. ASSUME Joined(i)
      PROVE  /\ i + 1 \in 1..Len(chars) /\ chars[i + 1] = LF /\ AllowLF(Mode, Flags)
             /\ pos[i + 1] = next + 1
  <2>1. i < Len(chars) /\ chars[i + 1] = LF /\ AllowLF(Mode, Flags)
    BY <1>7, Zenon DEF Joined
  <2>2. i + 1 \in 1..Len(chars) /\ (i + 1) - 1 = i
    BY <1>1, <2>1
  <2>3. pos[i + 1] = pos[(i + 1) - 1] + Len(EncodeUTF8(chars[i + 1]))
    BY <2>2, Zenon DEF Placed, PlacedIn
  <2>4. Len(EncodeUTF8(LF)) = 1
    BY SMT DEF EncodeUTF8, OneByte, LF
  <2> QED BY <2>1, <2>2, <2>3, <2>4
<1>8. Permitted(cp) <=> \/ cp \in Typeable(setting[1])
                        \/ cp = LF /\ AllowLF(Mode, Flags)
                        \/ cp = Tab /\ AllowTab(Mode, Flags)
  BY Zenon DEF Permitted
<1>9. /\ crlf => c = [status |-> "OK", strokes |-> << <<0, 40>> >>, next |-> next + 1]
      /\ ~crlf /\ Permitted(cp) =>
           c = [status |-> "OK", strokes |-> StrokesFor(setting[1], cp), next |-> next]
      /\ ~crlf /\ ~Permitted(cp) => c.status # "OK"
  <2> DEFINE ok == Allowed(setting[1], Mode, Flags, cp)
             br == Breaks(Mode, Flags, text, cp, next)
  <2>1. Permitted(cp) <=> ok
    BY <1>8, Zenon DEF Allowed
  <2>2. crlf <=> br
    BY Zenon DEF Breaks
  <2> HIDE DEF cp, next
  <2>3. /\ br => c = [status |-> "OK", strokes |-> << <<0, 40>> >>, next |-> next + 1]
        /\ ~br /\ ok =>
             c = [status |-> "OK", strokes |-> StrokesFor(setting[1], cp), next |-> next]
        /\ ~br /\ ~ok => c.status # "OK"
    <3>1. DecodesTo(text, pos[i - 1], cp, next)
      BY <1>5, Zenon DEF DecodesTo
    <3>2. Staged(setting[1], Mode, Flags, text, pos[i - 1], cp, next)
      BY <1>3, <3>1, StageDecoded, Zenon
    <3> QED BY <3>2, Zenon DEF Staged, LineBreak
  <2> HIDE DEF ok, crlf, c, br
  <2> QED BY <2>1, <2>2, <2>3, Zenon
<1> HIDE DEF crlf, c
<1> QED BY <1>5, <1>6, <1>7, <1>9, Zenon DEF c

\* The text is accepted from pos[i] on exactly if every character behind is
\* permitted or the CR of a line break.
Passes(j) == Joined(j) \/ Permitted(chars[j])

\* By induction from the last character back, skipping the LF of a line break.
LEMMA AcceptedSuffix ==
  ASSUME setting[1] \in Layouts, text \in Seq(ByteValue), chars \in Seq(Scalars),
         NEW pos, Placed(pos)
  PROVE  Result.status = "OK" <=> \A j \in 1..Len(chars) : Passes(j)
<1> DEFINE m == Len(chars)
           f == Compiled(setting[1], Mode, Flags, text)
           C(off) == StageChar(setting[1], Mode, Flags, text, off)
           G == {i \in 0..m : f[pos[i]].status = "OK" <=> \A j \in (i + 1)..m : Passes(j)}
<1>1. m \in Nat
  OBVIOUS
<1>2. f = [off \in 0..Len(text) |->
             IF off = Len(text) THEN [status |-> "OK", strokes |-> <<>>]
             ELSE IF C(off).status # "OK" THEN [status |-> C(off).status, strokes |-> <<>>]
             ELSE Prepend(C(off).strokes, f[C(off).next])]
  BY CompiledUnfolds
<1>3. /\ pos \in [0..m -> Nat] /\ pos[0] = 0 /\ pos[m] = Len(text) /\ Len(text) \in Nat
  BY Zenon, LenProperties DEF Placed, PlacedIn
<1>4. ASSUME NEW i \in 0..m, \A j \in (i + 1)..m : j \in G
      PROVE  i \in G
  <2>1. CASE i = m
    <3>1. f[pos[i]] = [status |-> "OK", strokes |-> <<>>]
      <4> HIDE DEF f, C
      <4> QED BY <1>2, <1>3, <2>1
    <3>2. f[pos[i]].status = "OK"
      BY <3>1
    <3>3. (i + 1)..m = {}
      BY <1>1, <2>1
    <3> QED BY <3>2, <3>3, Zenon
  <2>2. CASE i # m
    <3> DEFINE k == i + 1
               c == C(pos[i])
    <3>1. k \in 1..m /\ k - 1 = i /\ k \in 0..m /\ k \in (i + 1)..m
      BY <1>1, <2>2
    <3>2. /\ pos[i] < Len(text)
          /\ Joined(k) =>
               /\ k + 1 \in 1..m /\ chars[k + 1] = LF /\ AllowLF(Mode, Flags)
               /\ c = [status |-> "OK", strokes |-> << <<0, 40>> >>, next |-> pos[k + 1]]
          /\ ~Joined(k) /\ Permitted(chars[k]) =>
               c = [status |-> "OK", strokes |-> StrokesFor(setting[1], chars[k]), next |-> pos[k]]
          /\ ~Joined(k) /\ ~Permitted(chars[k]) => c.status # "OK"
      <4> HIDE DEF k
      <4>1. pos[k - 1] = pos[i]
        BY <3>1
      <4> QED BY <3>1, <4>1, CharStep, Zenon
    <3>3. pos[i] \in 0..Len(text) /\ pos[i] # Len(text)
      <4>1. pos[i] \in Nat /\ Len(text) \in Nat /\ pos[i] < Len(text)
        BY <1>3, <3>2, Zenon
      <4> QED BY <4>1
    <3> HIDE DEF k
    <3>4. f[pos[i]] = IF c.status # "OK" THEN [status |-> c.status, strokes |-> <<>>]
                      ELSE Prepend(c.strokes, f[c.next])
      <4> HIDE DEF f, C
      <4> QED BY <1>2, <3>3
    <3> HIDE DEF c, f, C
    <3>5. \A r, ss : Prepend(ss, r).status = r.status
      BY SMT DEF Prepend
    <3>6. CASE Joined(k)
      <4>1. c.status = "OK" /\ c.next = pos[k + 1]
        BY <3>2, <3>6, SMT
      <4>2. f[pos[i]].status = f[pos[k + 1]].status
        <5>1. f[pos[i]] = Prepend(c.strokes, f[pos[k + 1]])
          BY <3>4, <4>1
        <5> QED BY <3>5, <5>1, Zenon
      <4>3. k + 1 \in (i + 1)..m /\ k + 1 \in 1..m
        BY <1>1, <3>1, <3>2, <3>6
      <4>4. f[pos[k + 1]].status = "OK" <=> \A j \in ((k + 1) + 1)..m : Passes(j)
        BY <1>4, <4>3, Zenon
      <4>5. Passes(k) /\ Passes(k + 1)
        <5>1. Permitted(chars[k + 1])
          BY <3>2, <3>6, Zenon DEF Permitted
        <5> QED BY <3>6, <5>1, Zenon DEF Passes
      <4>6. \A j \in (i + 1)..m : j = k \/ j = k + 1 \/ j \in ((k + 1) + 1)..m
        BY <1>1, <3>1
      <4>7. \A j \in ((k + 1) + 1)..m : j \in (i + 1)..m
        BY <1>1, <3>1
      <4> QED BY <4>2, <4>4, <4>5, <4>6, <4>7, Zenon
    <3>7. CASE ~Joined(k) /\ Permitted(chars[k])
      <4>1. c.status = "OK" /\ c.next = pos[k]
        BY <3>2, <3>7, SMT
      <4>2. f[pos[i]].status = f[pos[k]].status
        BY <3>4, <3>5, <4>1, ZenonT(60)
      <4>3. f[pos[k]].status = "OK" <=> \A j \in (k + 1)..m : Passes(j)
        BY <1>4, <3>1, Zenon
      <4>4. Passes(k)
        BY <3>7, Zenon DEF Passes
      <4>5. \A j \in (i + 1)..m : j = k \/ j \in (k + 1)..m
        BY <1>1, <3>1
      <4>6. \A j \in (k + 1)..m : j \in (i + 1)..m
        BY <1>1, <3>1
      <4> QED BY <4>2, <4>3, <4>4, <4>5, <4>6, Zenon
    <3>8. CASE ~Joined(k) /\ ~Permitted(chars[k])
      <4>1. c.status # "OK"
        BY <3>2, <3>8, Zenon
      <4>2. f[pos[i]].status # "OK"
        BY <3>4, <4>1
      <4>3. ~Passes(k)
        BY <3>8, Zenon DEF Passes
      <4> QED BY <3>1, <4>2, <4>3, Zenon
    <3> QED BY <3>6, <3>7, <3>8, Zenon
  <2> QED BY <2>1, <2>2
<1>5. \A i \in 0..m : i \in G
  <2>1. \A i \in 0..m : (\A j \in (i + 1)..m : j \in G) => i \in G
    BY <1>4
  <2> HIDE DEF G
  <2> QED BY <1>1, <2>1, DownInduction, Zenon
<1>6. 0 \in G
  BY <1>1, <1>5
<1>7. 0 + 1 = 1 /\ pos[0] = 0
  BY <1>3
<1>8. Result = f[0]
  BY Zenon DEF Result, Compile
<1> HIDE DEF f
<1> QED BY <1>6, <1>7, <1>8, Zenon

-----------------------------------------------------------------------------
\* What a host reads from strokes.

\* Induction with all smaller indices at hand.
LEMMA StrongInduction ==
  ASSUME NEW n \in Nat, NEW G,
         \A k \in 0..n : (\A j \in 0..(k - 1) : j \in G) => k \in G
  PROVE  \A k \in 0..n : k \in G
<1> DEFINE H == {k \in 0..n : \A j \in 0..k : j \in G}
<1>1. 0 \in H
  <2>1. 0 \in 0..n /\ \A j \in 0..(0 - 1) : j \in G
    OBVIOUS
  <2>2. 0 \in G
    BY <2>1
  <2>3. \A j \in 0..0 : j = 0
    OBVIOUS
  <2> QED BY <2>1, <2>2, <2>3
<1>2. ASSUME NEW k \in 1..n, k - 1 \in H
      PROVE  k \in H
  <2>1. \A j \in 0..(k - 1) : j \in G
    BY <1>2
  <2>2. k \in 0..n /\ \A j \in 0..k : j = k \/ j \in 0..(k - 1)
    OBVIOUS
  <2>3. k \in G
    BY <2>1, <2>2
  <2> QED BY <2>1, <2>2, <2>3
<1>3. \A k \in 1..n : k - 1 \in H => k \in H
  BY <1>2
<1>4. \A k \in 0..n : k \in H
  <2> HIDE DEF H
  <2> QED BY <1>1, <1>3, Induction, Zenon
<1>5. \A k \in 0..n : k \in 0..k
  OBVIOUS
<1> QED BY <1>4, <1>5

\* The character of the k-th stroke from the end.
CharAt(layout, s, k) == HostChar(layout, s[Len(s) - k + 1])

\* What the last k strokes read, from what fewer strokes read.
ReadStep(layout, s, f, k) ==
  IF k = 0 THEN <<>>
  ELSE IF CharAt(layout, s, k) \notin HostDead(layout)
  THEN <<CharAt(layout, s, k)>> \o f[k - 1]
  ELSE IF k = 1 THEN <<>>
  ELSE <<IF CharAt(layout, s, k - 1) = Space THEN CharAt(layout, s, k) ELSE 0>> \o f[k - 2]

\* It depends on fewer strokes only.
LEMMA ReadStepLocal ==
  ASSUME NEW layout, NEW s, NEW f, NEW g, NEW k \in Nat,
         \A j \in 0..(k - 1) : f[j] = g[j]
  PROVE  ReadStep(layout, s, f, k) = ReadStep(layout, s, g, k)
<1>1. k >= 1 => f[k - 1] = g[k - 1]
  OBVIOUS
<1>2. k >= 2 => f[k - 2] = g[k - 2]
  OBVIOUS
<1>3. k = 0 \/ k = 1 \/ k >= 2
  OBVIOUS
<1>4. /\ k = 1 => k >= 1
      /\ k >= 2 => k >= 1 /\ k # 1 /\ k # 0
      /\ k = 0 => k # 1
  OBVIOUS
<1> QED BY <1>1, <1>2, <1>3, <1>4, Zenon DEF ReadStep

\* What the host reads satisfies its equation.
LEMMA HostReadUnfolds ==
  ASSUME NEW layout, NEW s, Len(s) \in Nat
  PROVE  LET f == HostRead(layout, s)
         IN  f = [k \in 0..Len(s) |-> ReadStep(layout, s, f, k)]
<1> DEFINE n == Len(s)
           B(f, k) == ReadStep(layout, s, f, k)
           Rec(f, m) == f = [k \in 0..m |-> B(f, k)]
           G == {m \in 0..n : \E f : Rec(f, m)}
<1>0. n \in Nat
  OBVIOUS
<1>loc. ASSUME NEW f, NEW g, NEW k \in Nat, \A j \in 0..(k - 1) : f[j] = g[j]
        PROVE  B(f, k) = B(g, k)
  BY <1>loc, ReadStepLocal
<1> HIDE DEF B, n
<1>1. 0 \in G
  <2> DEFINE g == [k \in 0..0 |-> B(<<>>, 0)]
  <2>1. B(g, 0) = B(<<>>, 0)
    <3>1. \A j \in 0..(0 - 1) : g[j] = <<>>[j]
      OBVIOUS
    <3> HIDE DEF g
    <3> QED BY <3>1, <1>loc
  <2>2. \A k \in 0..0 : k = 0
    OBVIOUS
  <2>3. \A k \in 0..0 : g[k] = B(g, k)
    BY <2>1, <2>2
  <2>4. g = [k \in 0..0 |-> g[k]]
    OBVIOUS
  <2>5. Rec(g, 0)
    <3> HIDE DEF g
    <3> QED BY <2>3, <2>4
  <2> HIDE DEF g, Rec
  <2> QED BY <1>0, <2>5
<1>2. ASSUME NEW m \in 1..n, m - 1 \in G
      PROVE  m \in G
  <2>1. PICK f : Rec(f, m - 1)
    BY <1>2
  <2> DEFINE g == [k \in 0..m |-> IF k = m THEN B(f, m) ELSE f[k]]
  <2>2. \A j \in 0..(m - 1) : g[j] = f[j]
    OBVIOUS
  <2>3. ASSUME NEW k \in 0..m
        PROVE  g[k] = B(g, k)
    <3>1. B(g, k) = B(f, k)
      <4>1. \A j \in 0..(k - 1) : g[j] = f[j]
        BY <1>0, <2>2
      <4>2. k \in Nat
        BY <1>0
      <4> HIDE DEF g
      <4> QED BY <1>loc, <4>1, <4>2
    <3>2. CASE k = m
      BY <3>1, <3>2
    <3>3. CASE k # m
      <4>1. k \in 0..(m - 1)
        BY <1>0, <3>3
      <4>2. f[k] = B(f, k)
        BY <2>1, <4>1
      <4> QED BY <3>1, <3>3, <4>2
    <3> QED BY <3>2, <3>3
  <2>4. g = [k \in 0..m |-> g[k]]
    OBVIOUS
  <2>5. Rec(g, m)
    <3> HIDE DEF g
    <3> QED BY <2>3, <2>4
  <2> HIDE DEF g, Rec
  <2> QED BY <2>5
<1>3. n \in G
  <2>1. \A m \in 1..n : m - 1 \in G => m \in G
    BY <1>2
  <2> HIDE DEF G
  <2>2. \A m \in 0..n : m \in G
    BY <1>0, <1>1, <2>1, Induction, Zenon
  <2> QED BY <1>0, <2>2
<1>4. \E f : f = [k \in 0..n |-> B(f, k)]
  BY <1>3, Zenon
<1> QED
  BY <1>4, Zenon DEF HostRead, B, n, ReadStep, CharAt

\* What the last strokes read does not depend on what is in front of them.
LEMMA HostReadTail ==
  ASSUME NEW layout, NEW x \in Seq(Strokes), NEW r \in Seq(Strokes)
  PROVE  \A k \in 0..Len(r) : HostRead(layout, x \o r)[k] = HostRead(layout, r)[k]
<1> DEFINE s == x \o r
           n == Len(r)
           f == HostRead(layout, s)
           g == HostRead(layout, r)
           G == {k \in 0..n : f[k] = g[k]}
<1>1. n \in Nat /\ Len(s) \in Nat /\ Len(s) = Len(x) + n /\ Len(x) \in Nat
  OBVIOUS
<1>2. f = [k \in 0..Len(s) |-> ReadStep(layout, s, f, k)]
  BY <1>1, HostReadUnfolds
<1>3. g = [k \in 0..n |-> ReadStep(layout, r, g, k)]
  BY <1>1, HostReadUnfolds
<1>4. \A k \in 1..n : CharAt(layout, s, k) = CharAt(layout, r, k)
  <2> SUFFICES ASSUME NEW k \in 1..n
               PROVE  s[Len(s) - k + 1] = r[Len(r) - k + 1]
    BY Zenon DEF CharAt
  <2>1. Len(r) - k + 1 \in 1..Len(r)
    BY <1>1
  <2>2. Len(s) - k + 1 = Len(x) + (Len(r) - k + 1)
    BY <1>1
  <2>3. \A j \in 1..Len(r) : s[Len(x) + j] = r[j]
    OBVIOUS
  <2> HIDE DEF s
  <2>4. s[Len(x) + (Len(r) - k + 1)] = r[Len(r) - k + 1]
    BY <2>1, <2>3, Zenon
  <2> QED BY <2>2, <2>4, Zenon
<1> HIDE DEF f, g, s, n
<1>5. ASSUME NEW k \in 0..n, \A j \in 0..(k - 1) : j \in G
      PROVE  k \in G
  <2>1. \A j \in 0..(k - 1) : f[j] = g[j]
    BY <1>5
  <2>2. k \in Nat /\ k \in 0..Len(s)
    BY <1>1
  <2>3. ReadStep(layout, s, f, k) = ReadStep(layout, s, g, k)
    BY <2>1, <2>2, ReadStepLocal
  <2>4. ReadStep(layout, s, g, k) = ReadStep(layout, r, g, k)
    <3>1. k # 0 => CharAt(layout, s, k) = CharAt(layout, r, k)
      BY <1>1, <1>4
    <3>2. k # 0 /\ k # 1 => CharAt(layout, s, k - 1) = CharAt(layout, r, k - 1)
      BY <1>1, <1>4
    <3> QED BY <3>1, <3>2, Zenon DEF ReadStep
  <2>5. f[k] = ReadStep(layout, s, f, k)
    BY <1>2, <2>2
  <2>6. g[k] = ReadStep(layout, r, g, k)
    BY <1>3
  <2> QED BY <2>3, <2>4, <2>5, <2>6
<1>6. \A k \in 0..n : k \in G
  <2>1. \A k \in 0..n : (\A j \in 0..(k - 1) : j \in G) => k \in G
    BY <1>5
  <2> HIDE DEF G
  <2> QED BY <1>1, <2>1, StrongInduction, Zenon
<1> QED BY <1>6 DEF f, g, s, n

\* A key that prints at once, in front of other strokes.
LEMMA ReadsKey ==
  ASSUME NEW layout, NEW k \in Strokes, NEW r \in Seq(Strokes),
         HostChar(layout, k) \notin HostDead(layout)
  PROVE  HostReads(layout, <<k>> \o r) = <<HostChar(layout, k)>> \o HostReads(layout, r)
<1> DEFINE s == <<k>> \o r
           f == HostRead(layout, s)
           n == Len(r)
<1>1. <<k>> \in Seq(Strokes) /\ n \in Nat /\ Len(s) = n + 1 /\ s[1] = k
  OBVIOUS
<1>2. f[n] = HostReads(layout, r)
  <2>1. \A j \in 0..Len(r) : HostRead(layout, <<k>> \o r)[j] = HostRead(layout, r)[j]
    BY <1>1, HostReadTail
  <2>2. Len(r) \in 0..Len(r)
    BY <1>1
  <2> QED BY <2>1, <2>2, Zenon DEF HostReads
<1>3. f = [j \in 0..Len(s) |-> ReadStep(layout, s, f, j)]
  <2>1. Len(s) \in Nat
    BY <1>1
  <2> HIDE DEF s
  <2> QED BY <2>1, HostReadUnfolds
<1> HIDE DEF f, s, n
<1>4. f[n + 1] = ReadStep(layout, s, f, n + 1)
  <2>1. n + 1 \in 0..Len(s)
    BY <1>1
  <2>2. \A j \in 0..Len(s) : f[j] = ReadStep(layout, s, f, j)
    BY <1>3
  <2> QED BY <2>1, <2>2, Zenon
<1>5. n + 1 # 0 /\ (n + 1) - 1 = n /\ Len(s) - (n + 1) + 1 = 1
  BY <1>1
<1>6. CharAt(layout, s, n + 1) = HostChar(layout, k)
  BY <1>1, <1>5, Zenon DEF CharAt
<1>7. f[n + 1] = <<HostChar(layout, k)>> \o f[n]
  BY <1>4, <1>5, <1>6, Zenon DEF ReadStep
<1> QED BY <1>1, <1>2, <1>7, Zenon DEF HostReads, f, s

\* A dead key with the space stroke behind it.
LEMMA ReadsDead ==
  ASSUME NEW layout, NEW k \in Strokes, NEW b \in Strokes, NEW r \in Seq(Strokes),
         HostChar(layout, k) \in HostDead(layout), HostChar(layout, b) = Space
  PROVE  HostReads(layout, <<k, b>> \o r) = <<HostChar(layout, k)>> \o HostReads(layout, r)
<1> DEFINE s == <<k, b>> \o r
           f == HostRead(layout, s)
           n == Len(r)
<1>1. <<k, b>> \in Seq(Strokes) /\ n \in Nat /\ Len(s) = n + 2 /\ s[1] = k /\ s[2] = b
  OBVIOUS
<1>2. f[n] = HostReads(layout, r)
  <2> DEFINE x == <<k, b>>
  <2>0. x \in Seq(Strokes)
    BY <1>1
  <2>1. \A j \in 0..Len(r) : HostRead(layout, x \o r)[j] = HostRead(layout, r)[j]
    <3> HIDE DEF x
    <3> QED BY <2>0, HostReadTail
  <2>2. Len(r) \in 0..Len(r)
    BY <1>1
  <2> QED BY <2>1, <2>2, Zenon DEF HostReads
<1>3. f = [j \in 0..Len(s) |-> ReadStep(layout, s, f, j)]
  <2>1. Len(s) \in Nat
    BY <1>1
  <2> HIDE DEF s
  <2> QED BY <2>1, HostReadUnfolds
<1> HIDE DEF f, s, n
<1>4. f[n + 2] = ReadStep(layout, s, f, n + 2)
  <2>1. n + 2 \in 0..Len(s)
    BY <1>1
  <2>2. \A j \in 0..Len(s) : f[j] = ReadStep(layout, s, f, j)
    BY <1>3
  <2> QED BY <2>1, <2>2, Zenon
<1>5. /\ n + 2 # 0 /\ n + 2 # 1 /\ (n + 2) - 2 = n
      /\ Len(s) - (n + 2) + 1 = 1 /\ Len(s) - ((n + 2) - 1) + 1 = 2
  BY <1>1
<1>6. /\ CharAt(layout, s, n + 2) = HostChar(layout, k)
      /\ CharAt(layout, s, (n + 2) - 1) = Space
  BY <1>1, <1>5, Zenon DEF CharAt
<1>7. f[n + 2] = <<HostChar(layout, k)>> \o f[n]
  BY <1>4, <1>5, <1>6, Zenon DEF ReadStep
<1> QED BY <1>1, <1>2, <1>7, Zenon DEF HostReads, f, s

\* No strokes, no text.
LEMMA HostReadsNothing ==
  ASSUME NEW layout
  PROVE  HostReads(layout, <<>>) = <<>>
<1> DEFINE s == <<>>
           f == HostRead(layout, s)
<1>1. Len(s) = 0 /\ Len(s) \in Nat
  OBVIOUS
<1>2. f = [j \in 0..Len(s) |-> ReadStep(layout, s, f, j)]
  BY <1>1, HostReadUnfolds
<1> HIDE DEF f, s
<1>3. f[0] = ReadStep(layout, s, f, 0)
  BY <1>1, <1>2
<1>4. f[0] = <<>>
  BY <1>3, Zenon DEF ReadStep
<1> QED BY <1>1, <1>4, Zenon DEF HostReads, f, s

\* The strokes of a permitted character print that character.
LEMMA ReadsChar ==
  ASSUME NEW layout \in Layouts, NEW cp \in Nat, cp = LF \/ cp = Tab \/ cp \in Typeable(layout),
         NEW r \in Seq(Strokes)
  PROVE  /\ StrokesFor(layout, cp) \in Seq(Strokes)
         /\ HostReads(layout, StrokesFor(layout, cp) \o r) = <<cp>> \o HostReads(layout, r)
<1>1. <<0, 40>> \in Strokes /\ <<0, 43>> \in Strokes /\ <<0, 44>> \in Strokes
  BY SMT DEF Strokes
<1>2. layout = US \/ layout = DE
  BY DEF Layouts
<1>3. /\ HostChar(layout, <<0, 40>>) = LF /\ HostChar(layout, <<0, 43>>) = Tab
      /\ HostChar(layout, <<0, 44>>) = Space
  <2>1. CASE layout = US
    BY <2>1, SMT DEF HostChar, US, DE, AltGr, HostPlain, HostUSPlain, LF, Tab, Space
  <2>2. CASE layout = DE
    BY <2>2, SMT DEF HostChar, US, DE, AltGr, HostPlain, HostDEPlain, LF, Tab, Space
  <2> QED BY <1>2, <2>1, <2>2
<1>4. LF \notin HostDead(layout) /\ Tab \notin HostDead(layout)
  BY SMT DEF HostDead, LF, Tab
<1>5. LF # Tab
  BY SMT DEF LF, Tab
<1>6. CASE cp = LF
  <2>1. StrokesFor(layout, cp) = << <<0, 40>> >>
    BY <1>6, Zenon DEF StrokesFor
  <2> DEFINE k == <<0, 40>>
  <2>2. k \in Strokes /\ HostChar(layout, k) = cp /\ StrokesFor(layout, cp) = <<k>>
    BY <1>1, <1>3, <1>6, <2>1, Zenon
  <2> HIDE DEF k
  <2>3. <<k>> \in Seq(Strokes)
    BY <2>2
  <2> QED BY <1>4, <1>6, <2>2, <2>3, ReadsKey, ZenonT(60)
<1>7. CASE cp = Tab
  <2>1. StrokesFor(layout, cp) = << <<0, 43>> >>
    BY <1>5, <1>7, Zenon DEF StrokesFor
  <2> DEFINE k == <<0, 43>>
  <2>2. k \in Strokes /\ HostChar(layout, k) = cp /\ StrokesFor(layout, cp) = <<k>>
    BY <1>1, <1>3, <1>7, <2>1, Zenon
  <2> HIDE DEF k
  <2>3. <<k>> \in Seq(Strokes)
    BY <2>2
  <2> QED BY <1>4, <1>7, <2>2, <2>3, ReadsKey, ZenonT(60)
<1>8. CASE cp # LF /\ cp # Tab /\ cp \in Typeable(layout)
  <2> DEFINE k == KeyFor(layout, cp)
             b == <<0, 44>>
  <2>1. StrokesFor(layout, cp) = KeyStrokes(layout, cp, k)
    BY <1>8, Zenon DEF StrokesFor
  <2>2. k # NoKeyFor /\ HostChar(layout, k) = cp
    BY <1>8, KeyExists, Zenon
  <2>3. k \in Strokes
    BY <2>2, KeyType, Zenon DEF KeyFor
  <2>4. b \in Strokes /\ HostChar(layout, b) = Space
    BY <1>1, <1>3, Zenon
  <2>5. cp \in HostDead(layout) <=> layout = DE /\ cp \in DeadDE
    BY SMT DEF HostDead, DeadDE
  <2>6. KeyStrokes(layout, cp, k) = IF layout = DE /\ cp \in DeadDE THEN <<k, b>> ELSE <<k>>
    BY Zenon DEF KeyStrokes
  <2> HIDE DEF k, b
  <2>7. <<k>> \in Seq(Strokes) /\ <<k, b>> \in Seq(Strokes)
    BY <2>3, <2>4
  <2>8. CASE layout = DE /\ cp \in DeadDE
    <3>1. StrokesFor(layout, cp) = <<k, b>>
      BY <2>1, <2>6, <2>8, Zenon
    <3>2. HostChar(layout, k) \in HostDead(layout)
      BY <2>2, <2>5, <2>8, Zenon
    <3>3. HostReads(layout, <<k, b>> \o r) = <<HostChar(layout, k)>> \o HostReads(layout, r)
      BY <2>3, <2>4, <3>2, ReadsDead
    <3> QED BY <2>2, <2>7, <3>1, <3>3, Zenon
  <2>9. CASE ~(layout = DE /\ cp \in DeadDE)
    <3>1. StrokesFor(layout, cp) = <<k>>
      BY <2>1, <2>6, <2>9, Zenon
    <3>2. HostChar(layout, k) \notin HostDead(layout)
      BY <2>2, <2>5, <2>9, Zenon
    <3>3. HostReads(layout, <<k>> \o r) = <<HostChar(layout, k)>> \o HostReads(layout, r)
      BY <2>3, <3>2, ReadsKey
    <3> QED BY <2>2, <2>7, <3>1, <3>3, Zenon
  <2> QED BY <2>8, <2>9, Zenon
<1> QED BY <1>6, <1>7, <1>8, Zenon

-----------------------------------------------------------------------------
\* What a host reads from an accepted text.

\* What the last k characters should read satisfies its equation.
LEMMA SeenUnfolds ==
  ASSUME Len(chars) \in Nat
  PROVE  LET f == Seen
         IN  f = [i \in 0..Len(chars) |-> IF i = 0 THEN <<>>
                                         ELSE IF Joined(Len(chars) - i + 1) THEN f[i - 1]
                                         ELSE <<chars[Len(chars) - i + 1]>> \o f[i - 1]]
<1> DEFINE E(x, i) == IF Joined(Len(chars) - i + 1) THEN x ELSE <<chars[Len(chars) - i + 1]>> \o x
           Rec(f, k) == f = [i \in 0..k |-> IF i = 0 THEN <<>> ELSE E(f[i - 1], i)]
           G == {k \in 0..Len(chars) : \E f : Rec(f, k)}
<1> HIDE DEF E
<1>1. 0 \in G
  <2> DEFINE g == [i \in 0..0 |-> <<>>]
  <2>1. Rec(g, 0)
    OBVIOUS
  <2> HIDE DEF g
  <2> QED BY <2>1
<1>2. ASSUME NEW k \in 1..Len(chars), k - 1 \in G
      PROVE  k \in G
  <2>1. PICK f : Rec(f, k - 1)
    BY <1>2
  <2> DEFINE g == [i \in 0..k |-> IF i = k THEN E(f[k - 1], k) ELSE f[i]]
  <2>2. ASSUME NEW i \in 0..k
        PROVE  g[i] = IF i = 0 THEN <<>> ELSE E(g[i - 1], i)
    BY <2>1
  <2>3. Rec(g, k)
    BY <2>2
  <2> HIDE DEF g
  <2> QED BY <2>3
<1>3. Len(chars) \in G
  <2>1. \A k \in 1..Len(chars) : k - 1 \in G => k \in G
    BY <1>2
  <2> HIDE DEF G
  <2>2. \A k \in 0..Len(chars) : k \in G
    BY <1>1, <2>1, Induction, Zenon
  <2> QED BY <2>2
<1> QED
  BY <1>3, Zenon DEF Seen, E


\* What the host should see of the characters behind the first i.
Behind(i) == Seen[Len(chars) - i]

\* The same, character by character from the front.
LEMMA BehindUnfolds ==
  ASSUME Len(chars) \in Nat
  PROVE  /\ Behind(Len(chars)) = <<>> /\ Behind(0) = Visible
         /\ \A i \in 1..Len(chars) :
              Behind(i - 1) = IF Joined(i) THEN Behind(i) ELSE <<chars[i]>> \o Behind(i)
<1> DEFINE m == Len(chars)
           f == Seen
<1>1. f = [i \in 0..m |-> IF i = 0 THEN <<>>
                         ELSE IF Joined(m - i + 1) THEN f[i - 1]
                         ELSE <<chars[m - i + 1]>> \o f[i - 1]]
  BY SeenUnfolds
<1>2. m - m = 0 /\ m - 0 = m /\ 0 \in 0..m
  OBVIOUS
<1> HIDE DEF f
<1>3. f[0] = <<>>
  BY <1>1, <1>2
<1>4. ASSUME NEW i \in 1..m
      PROVE  Behind(i - 1) = IF Joined(i) THEN Behind(i) ELSE <<chars[i]>> \o Behind(i)
  <2> DEFINE k == m - (i - 1)
  <2>1. k \in 0..m /\ k # 0 /\ k - 1 = m - i /\ m - k + 1 = i
    OBVIOUS
  <2> HIDE DEF k, m
  <2>2. f[k] = IF Joined(m - k + 1) THEN f[k - 1] ELSE <<chars[m - k + 1]>> \o f[k - 1]
    BY <1>1, <2>1
  <2>3. f[k] = IF Joined(i) THEN f[m - i] ELSE <<chars[i]>> \o f[m - i]
    BY <2>1, <2>2, Zenon
  <2> QED BY <2>3, Zenon DEF Behind, k, m, f
<1> QED BY <1>2, <1>3, <1>4, Zenon DEF Behind, Visible, f

\* A sequence with one more element in front.
LEMMA InFront ==
  ASSUME NEW S, NEW A, NEW x \in S, NEW r \in Seq(S)
  PROVE  /\ <<x>> \o r \in Seq(S)
         /\ (\A j \in 1..Len(<<x>> \o r) : (<<x>> \o r)[j] \in A)
              <=> x \in A /\ \A j \in 1..Len(r) : r[j] \in A
<1> DEFINE s == <<x>> \o r
<1>1. s \in Seq(S) /\ Len(r) \in Nat /\ Len(s) = Len(r) + 1 /\ s[1] = x
  OBVIOUS
<1>2. \A j \in 1..Len(r) : s[1 + j] = r[j]
  OBVIOUS
<1> HIDE DEF s
<1>3. ASSUME \A j \in 1..Len(s) : s[j] \in A
      PROVE  x \in A /\ \A j \in 1..Len(r) : r[j] \in A
  <2>1. 1 \in 1..Len(s) /\ \A j \in 1..Len(r) : 1 + j \in 1..Len(s)
    BY <1>1
  <2>2. \A j \in 1..Len(r) : s[1 + j] \in A
    BY <1>3, <2>1, Zenon
  <2> QED BY <1>1, <1>2, <1>3, <2>1, <2>2, Zenon
<1>4. ASSUME x \in A, \A j \in 1..Len(r) : r[j] \in A, NEW j \in 1..Len(s)
      PROVE  s[j] \in A
  <2>1. CASE j = 1
    BY <1>1, <1>4, <2>1
  <2>2. CASE j # 1
    <3>1. j - 1 \in 1..Len(r) /\ 1 + (j - 1) = j
      BY <1>1, <2>2
    <3> QED BY <1>2, <1>4, <3>1
  <2> QED BY <2>1, <2>2
<1> QED BY <1>1, <1>3, <1>4 DEF s

\* What should be seen is permitted if every character passes, and only then.
LEMMA VisiblePermitted ==
  ASSUME chars \in Seq(Scalars)
  PROVE  (\A x \in 1..Len(Visible) : Permitted(Visible[x])) <=> \A j \in 1..Len(chars) : Passes(j)
<1> DEFINE m == Len(chars)
           A == {cp \in Scalars : Permitted(cp)}
           B(i) == Behind(i)
           G == {i \in 0..m : /\ B(i) \in Seq(Scalars)
                              /\ (\A x \in 1..Len(B(i)) : B(i)[x] \in A)
                                   <=> \A j \in (i + 1)..m : Passes(j)}
<1>1. m \in Nat
  OBVIOUS
<1>2. /\ B(m) = <<>> /\ B(0) = Visible
      /\ \A i \in 1..m : B(i - 1) = IF Joined(i) THEN B(i) ELSE <<chars[i]>> \o B(i)
  BY <1>1, BehindUnfolds
<1>3. \A i \in 1..m : chars[i] \in Scalars
  BY ElementOfSeq, Zenon
<1>4. \A cp \in Scalars : Permitted(cp) <=> cp \in A
  OBVIOUS
<1> HIDE DEF A, B, m
<1>5. ASSUME NEW i \in 0..m, \A j \in (i + 1)..m : j \in G
      PROVE  i \in G
  <2>1. CASE i = m
    <3>1. (i + 1)..m = {} /\ <<>> \in Seq(Scalars) /\ 1..Len(<<>>) = {}
      BY <1>1, <2>1
    <3>2. B(i) = <<>>
      BY <1>2, <2>1, Zenon
    <3> QED BY <3>1, <3>2, Zenon
  <2>2. CASE i # m
    <3> DEFINE k == i + 1
    <3>1. k \in 1..m /\ k - 1 = i /\ k \in (i + 1)..m
      BY <1>1, <2>2
    <3>2. /\ \A j \in (i + 1)..m : j = k \/ j \in (k + 1)..m
          /\ \A j \in (k + 1)..m : j \in (i + 1)..m
      BY <1>1
    <3> HIDE DEF k
    <3>3. /\ B(k) \in Seq(Scalars)
          /\ (\A x \in 1..Len(B(k)) : B(k)[x] \in A) <=> \A j \in (k + 1)..m : Passes(j)
      BY <1>5, <3>1, Zenon
    <3>4. B(i) = IF Joined(k) THEN B(k) ELSE <<chars[k]>> \o B(k)
      <4>1. B(k - 1) = IF Joined(k) THEN B(k) ELSE <<chars[k]>> \o B(k)
        BY <1>2, <3>1, Zenon
      <4>2. B(k - 1) = B(i)
        BY <3>1
      <4> QED BY <4>1, <4>2, Zenon
    <3>5. (\A j \in (i + 1)..m : Passes(j)) <=> Passes(k) /\ \A j \in (k + 1)..m : Passes(j)
      BY <3>1, <3>2, Zenon
    <3>6. CASE Joined(k)
      <4>1. Passes(k) /\ B(i) = B(k)
        BY <3>4, <3>6, Zenon DEF Passes
      <4> QED BY <3>3, <3>5, <4>1, Zenon
    <3>7. CASE ~Joined(k)
      <4>1. chars[k] \in Scalars /\ B(i) = <<chars[k]>> \o B(k)
        BY <1>3, <3>1, <3>4, <3>7, Zenon
      <4>2. Passes(k) <=> chars[k] \in A
        BY <1>4, <3>7, <4>1, Zenon DEF Passes
      <4>3. /\ <<chars[k]>> \o B(k) \in Seq(Scalars)
            /\ (\A x \in 1..Len(<<chars[k]>> \o B(k)) : (<<chars[k]>> \o B(k))[x] \in A)
                 <=> chars[k] \in A /\ \A x \in 1..Len(B(k)) : B(k)[x] \in A
        BY <3>3, <4>1, InFront, Zenon
      <4>4. /\ B(i) \in Seq(Scalars)
            /\ (\A x \in 1..Len(B(i)) : B(i)[x] \in A)
                 <=> chars[k] \in A /\ \A x \in 1..Len(B(k)) : B(k)[x] \in A
        BY <4>1, <4>3, Zenon
      <4> QED BY <3>3, <3>5, <4>2, <4>4, Zenon
    <3> QED BY <3>6, <3>7, Zenon
  <2> QED BY <2>1, <2>2
<1>6. \A i \in 0..m : i \in G
  <2>1. \A i \in 0..m : (\A j \in (i + 1)..m : j \in G) => i \in G
    BY <1>5
  <2> HIDE DEF G
  <2> QED BY <1>1, <2>1, DownInduction, Zenon
<1>7. /\ Visible \in Seq(Scalars)
      /\ (\A x \in 1..Len(Visible) : Visible[x] \in A) <=> \A j \in 1..m : Passes(j)
  <2>1. 0 \in 0..m /\ 0 + 1 = 1
    BY <1>1
  <2>2. /\ B(0) \in Seq(Scalars)
        /\ (\A x \in 1..Len(B(0)) : B(0)[x] \in A) <=> \A j \in (0 + 1)..m : Passes(j)
    BY <1>6, <2>1, Zenon
  <2> QED BY <1>2, <2>1, <2>2, Zenon
<1>8. \A x \in 1..Len(Visible) : Visible[x] \in Scalars
  BY <1>7, ElementOfSeq, Zenon
<1>9. \A x \in 1..Len(Visible) : Permitted(Visible[x]) <=> Visible[x] \in A
  BY <1>4, <1>8, Zenon
<1> QED BY <1>7, <1>9, Zenon DEF m

\* What the host reads from the strokes of the characters behind the first i.
LEMMA ReadsBehind ==
  ASSUME setting[1] \in Layouts, text \in Seq(ByteValue), chars \in Seq(Scalars),
         NEW pos, Placed(pos)
  PROVE  Result.status = "OK" => HostReads(setting[1], Result.strokes) = Visible
<1> DEFINE m == Len(chars)
           L == setting[1]
           f == Compiled(L, Mode, Flags, text)
           C(off) == StageChar(L, Mode, Flags, text, off)
           B(i) == Behind(i)
           G == {i \in 0..m : f[pos[i]].status = "OK" =>
                                /\ f[pos[i]].strokes \in Seq(Strokes)
                                /\ HostReads(L, f[pos[i]].strokes) = B(i)}
<1>1. m \in Nat
  OBVIOUS
<1>2. f = [off \in 0..Len(text) |->
             IF off = Len(text) THEN [status |-> "OK", strokes |-> <<>>]
             ELSE IF C(off).status # "OK" THEN [status |-> C(off).status, strokes |-> <<>>]
             ELSE Prepend(C(off).strokes, f[C(off).next])]
  BY CompiledUnfolds
<1>3. /\ pos \in [0..m -> Nat] /\ pos[0] = 0 /\ pos[m] = Len(text) /\ Len(text) \in Nat
  BY Zenon, LenProperties DEF Placed, PlacedIn
<1>4. /\ B(m) = <<>> /\ B(0) = Visible
      /\ \A i \in 1..m : B(i - 1) = IF Joined(i) THEN B(i) ELSE <<chars[i]>> \o B(i)
  BY <1>1, BehindUnfolds
<1>5. \A i \in 1..m : chars[i] \in Nat
  <2>1. \A i \in 1..m : chars[i] \in Scalars
    BY ElementOfSeq, Zenon
  <2> QED BY <2>1, SMT DEF Scalars
<1>6. \A r, ss : Prepend(ss, r).status = r.status /\ Prepend(ss, r).strokes = ss \o r.strokes
  BY SMT DEF Prepend
<1>7. LF \in Nat /\ LF # CR
  BY SMT DEF LF, CR
<1>8. ASSUME NEW i \in 0..m, \A j \in (i + 1)..m : j \in G
      PROVE  i \in G
  <2>1. CASE i = m
    <3>1. f[pos[i]] = [status |-> "OK", strokes |-> <<>>]
      <4> HIDE DEF f, C
      <4> QED BY <1>2, <1>3, <2>1
    <3>2. f[pos[i]].strokes = <<>> /\ <<>> \in Seq(Strokes) /\ B(i) = <<>>
      BY <1>4, <2>1, <3>1
    <3>3. HostReads(L, <<>>) = <<>>
      BY HostReadsNothing
    <3> HIDE DEF f, B, L
    <3> QED BY <3>2, <3>3, Zenon
  <2>2. CASE i # m
    <3> DEFINE k == i + 1
               c == C(pos[i])
    <3>1. k \in 1..m /\ k - 1 = i /\ k \in (i + 1)..m
      BY <1>1, <2>2
    <3>2. /\ pos[i] < Len(text)
          /\ Joined(k) =>
               /\ k + 1 \in 1..m /\ chars[k + 1] = LF /\ AllowLF(Mode, Flags)
               /\ c = [status |-> "OK", strokes |-> << <<0, 40>> >>, next |-> pos[k + 1]]
          /\ ~Joined(k) /\ Permitted(chars[k]) =>
               c = [status |-> "OK", strokes |-> StrokesFor(L, chars[k]), next |-> pos[k]]
          /\ ~Joined(k) /\ ~Permitted(chars[k]) => c.status # "OK"
      <4> HIDE DEF k
      <4>1. pos[k - 1] = pos[i]
        BY <3>1
      <4> QED BY <3>1, <4>1, CharStep, Zenon
    <3>3. pos[i] \in 0..Len(text) /\ pos[i] # Len(text)
      <4>1. pos[i] \in Nat /\ Len(text) \in Nat /\ pos[i] < Len(text)
        BY <1>3, <3>2, Zenon
      <4> QED BY <4>1
    <3>4. f[pos[i]] = IF c.status # "OK" THEN [status |-> c.status, strokes |-> <<>>]
                      ELSE Prepend(c.strokes, f[c.next])
      <4> HIDE DEF f, C
      <4> QED BY <1>2, <3>3
    <3>5. B(i) = IF Joined(k) THEN B(k) ELSE <<chars[k]>> \o B(k)
      <4> HIDE DEF B, k
      <4>1. B(k - 1) = IF Joined(k) THEN B(k) ELSE <<chars[k]>> \o B(k)
        BY <1>4, <3>1, Zenon
      <4>2. B(k - 1) = B(i)
        BY <3>1
      <4> QED BY <4>1, <4>2, Zenon
    <3>6. L \in Layouts
      OBVIOUS
    <3>7. k + 1 \in 1..m => k + 1 \in (i + 1)..m /\ (k + 1) - 1 = k
      BY <1>1
    <3> HIDE DEF c, f, C, k, B, L, m
    <3>8. CASE Joined(k)
      <4>1. c.status = "OK" /\ c.next = pos[k + 1] /\ c.strokes = << <<0, 40>> >>
        BY <3>2, <3>8, SMT
      <4>2. StrokesFor(L, LF) = << <<0, 40>> >>
        BY Zenon DEF StrokesFor
      <4>3. f[pos[i]] = Prepend(StrokesFor(L, LF), f[pos[k + 1]])
        BY <3>4, <4>1, <4>2
      <4>4. k + 1 \in 1..m /\ chars[k + 1] = LF
        BY <3>2, <3>8, Zenon
      <4>5. ~Joined(k + 1)
        BY <1>7, <4>4, Zenon DEF Joined
      <4>6. B(i) = <<LF>> \o B(k + 1)
        <5>1. B((k + 1) - 1) = IF Joined(k + 1) THEN B(k + 1) ELSE <<chars[k + 1]>> \o B(k + 1)
          BY <1>4, <4>4, Zenon
        <5>2. B((k + 1) - 1) = B(k)
          BY <3>7, <4>4
        <5> QED BY <3>5, <3>8, <4>4, <4>5, <5>1, <5>2, Zenon
      <4>7. k + 1 \in G
        BY <1>8, <3>7, <4>4, Zenon
      <4>8. ASSUME f[pos[i]].status = "OK"
            PROVE  /\ f[pos[i]].strokes \in Seq(Strokes)
                   /\ HostReads(L, f[pos[i]].strokes) = B(i)
        <5> DEFINE r == f[pos[k + 1]]
        <5>1. r.status = "OK"
          BY <1>6, <4>3, <4>8, Zenon
        <5>2. r.strokes \in Seq(Strokes) /\ HostReads(L, r.strokes) = B(k + 1)
          BY <4>7, <5>1, Zenon
        <5>3. f[pos[i]].strokes = StrokesFor(L, LF) \o r.strokes
          BY <1>6, <4>3, Zenon
        <5> HIDE DEF r
        <5>4. /\ StrokesFor(L, LF) \in Seq(Strokes)
              /\ HostReads(L, StrokesFor(L, LF) \o r.strokes) = <<LF>> \o HostReads(L, r.strokes)
          BY <1>7, <3>6, <5>2, ReadsChar, Zenon
        <5>5. StrokesFor(L, LF) \o r.strokes \in Seq(Strokes)
          BY <5>2, <5>4, ConcatProperties, Zenon
        <5> QED BY <4>6, <5>2, <5>3, <5>4, <5>5, Zenon
      <4> QED BY <4>8, Zenon
    <3>9. CASE ~Joined(k) /\ Permitted(chars[k])
      <4> DEFINE cp == chars[k]
                 r == f[pos[k]]
      <4>1. c.status = "OK" /\ c.next = pos[k] /\ c.strokes = StrokesFor(L, cp)
        BY <3>2, <3>9, SMT
      <4>2. f[pos[i]] = Prepend(StrokesFor(L, cp), r)
        BY <3>4, <4>1
      <4>3. B(i) = <<cp>> \o B(k)
        BY <3>5, <3>9, Zenon
      <4>4. k \in G
        BY <1>8, <3>1, Zenon
      <4>5. cp \in Nat /\ (cp = LF \/ cp = Tab \/ cp \in Typeable(L))
        BY <1>5, <3>1, <3>9, Zenon DEF Permitted, L
      <4>6. ASSUME f[pos[i]].status = "OK"
            PROVE  /\ f[pos[i]].strokes \in Seq(Strokes)
                   /\ HostReads(L, f[pos[i]].strokes) = B(i)
        <5>1. r.status = "OK"
          BY <1>6, <4>2, <4>6, Zenon
        <5>2. r.strokes \in Seq(Strokes) /\ HostReads(L, r.strokes) = B(k)
          BY <4>4, <5>1, Zenon
        <5>3. f[pos[i]].strokes = StrokesFor(L, cp) \o r.strokes
          BY <1>6, <4>2, Zenon
        <5> HIDE DEF r, cp
        <5>4. /\ StrokesFor(L, cp) \in Seq(Strokes)
              /\ HostReads(L, StrokesFor(L, cp) \o r.strokes) = <<cp>> \o HostReads(L, r.strokes)
          BY <3>6, <4>5, <5>2, ReadsChar, Zenon
        <5>5. StrokesFor(L, cp) \o r.strokes \in Seq(Strokes)
          BY <5>2, <5>4, ConcatProperties, Zenon
        <5> QED BY <4>3, <5>2, <5>3, <5>4, <5>5, Zenon
      <4> QED BY <4>6, Zenon
    <3>10. CASE ~Joined(k) /\ ~Permitted(chars[k])
      <4>1. c.status # "OK"
        BY <3>2, <3>10, Zenon
      <4>2. f[pos[i]].status # "OK"
        BY <3>4, <4>1
      <4> QED BY <4>2, Zenon
    <3> QED BY <3>8, <3>9, <3>10, Zenon
  <2> QED BY <2>1, <2>2
<1>9. \A i \in 0..m : i \in G
  <2>1. \A i \in 0..m : (\A j \in (i + 1)..m : j \in G) => i \in G
    BY <1>8
  <2> HIDE DEF G
  <2> QED BY <1>1, <2>1, DownInduction, Zenon
<1>10. 0 \in G
  BY <1>1, <1>9
<1>11. Result = f[0]
  BY Zenon DEF Result, Compile
<1> HIDE DEF f, B
<1> QED BY <1>3, <1>4, <1>10, <1>11, Zenon

-----------------------------------------------------------------------------
\* The invariant of growing texts, and the theorems.

\* A character that is spelled in a text is spelled in a longer text.
LEMMA StillSpelled ==
  ASSUME NEW t \in Seq(ByteValue), NEW e \in Seq(ByteValue), NEW off \in Nat, NEW cp,
         Len(EncodeUTF8(cp)) \in Nat, Spells(t, off, cp)
  PROVE  Spells(t \o e, off, cp)
<1> DEFINE n == Len(EncodeUTF8(cp))
           u == EncodeUTF8(cp)
<1>1. n \in Nat /\ off + n <= Len(t) /\ \A j \in 1..n : t[off + j] = u[j]
  BY DEF Spells
<1>2. Len(t \o e) = Len(t) + Len(e) /\ Len(t) \in Nat /\ Len(e) \in Nat
  OBVIOUS
<1>3. \A j \in 1..Len(t) : (t \o e)[j] = t[j]
  OBVIOUS
<1>4. \A j \in 1..n : off + j \in 1..Len(t)
  BY <1>1, <1>2
<1>5. off + n <= Len(t \o e)
  BY <1>1, <1>2
<1> QED BY <1>1, <1>3, <1>4, <1>5, Zenon DEF Spells

\* One more character keeps every character in its place.
LEMMA PlacedGrows ==
  ASSUME NEW c \in Seq(Scalars), NEW t \in Seq(ByteValue), NEW cp \in Scalars,
         NEW pos, PlacedIn(c, t, pos)
  PROVE  \E q : PlacedIn(Append(c, cp), t \o EncodeUTF8(cp), q)
<1> DEFINE m == Len(c)
           e == EncodeUTF8(cp)
           d == Append(c, cp)
           v == t \o e
           q == [i \in 0..(m + 1) |-> IF i = m + 1 THEN Len(v) ELSE pos[i]]
<1>1. /\ m \in Nat /\ Len(d) = m + 1 /\ d[m + 1] = cp /\ \A i \in 1..m : d[i] = c[i]
  OBVIOUS
<1>2. e \in Seq(ByteValue) /\ Len(e) \in Nat
  <2>1. EncodedAs(cp, Len(e))
    BY EncodeScalar
  <2>2. e \in Seq(ByteValue)
    BY <2>1, Zenon DEF EncodedAs
  <2> QED BY <2>2, LenProperties, Zenon
<1>3. /\ pos \in [0..m -> Nat] /\ pos[0] = 0 /\ pos[m] = Len(t)
      /\ \A i \in 1..m : /\ pos[i] = pos[i - 1] + Len(EncodeUTF8(c[i]))
                         /\ Spells(t, pos[i - 1], c[i])
  BY Zenon DEF PlacedIn
<1> HIDE DEF e
<1>4. /\ Len(t) \in Nat /\ Len(v) = Len(t) + Len(e)
      /\ \A j \in 1..Len(e) : v[Len(t) + j] = e[j]
  BY <1>2
<1> HIDE DEF d, v
<1>5. /\ q \in [0..(m + 1) -> Nat] /\ q[0] = 0 /\ q[m + 1] = Len(v)
      /\ \A i \in 0..m : q[i] = pos[i]
  BY <1>1, <1>2, <1>3, <1>4
<1> HIDE DEF q
<1>6. ASSUME NEW i \in 1..(m + 1)
      PROVE  q[i] = q[i - 1] + Len(EncodeUTF8(d[i])) /\ Spells(v, q[i - 1], d[i])
  <2>1. CASE i = m + 1
    <3>1. i - 1 = m /\ m \in 0..m
      BY <1>1, <2>1
    <3>2. q[i - 1] = Len(t) /\ d[i] = cp /\ q[i] = Len(v)
      BY <1>1, <1>3, <1>5, <2>1, <3>1, Zenon
    <3>3. Len(t) + Len(e) <= Len(v)
      BY <1>2, <1>4
    <3>4. Spells(v, Len(t), cp)
      BY <1>4, <3>3, Zenon DEF Spells, e
    <3> QED BY <1>4, <3>2, <3>4, Zenon DEF e
  <2>2. CASE i # m + 1
    <3>1. i \in 1..m /\ i \in 0..m /\ i - 1 \in 0..m
      BY <1>1, <2>2
    <3>2. q[i] = pos[i] /\ q[i - 1] = pos[i - 1] /\ d[i] = c[i]
      BY <1>1, <1>5, <3>1, Zenon
    <3>3. pos[i] = pos[i - 1] + Len(EncodeUTF8(c[i])) /\ Spells(t, pos[i - 1], c[i])
      BY <1>3, <3>1, Zenon
    <3>4. pos[i - 1] \in Nat
      BY <1>3, <3>1
    <3>5. c[i] \in Scalars
      BY <3>1, ElementOfSeq, Zenon
    <3>6. Len(EncodeUTF8(c[i])) \in 1..4
      BY <3>3, <3>4, <3>5, DecodesChar, Zenon
    <3>7. Len(EncodeUTF8(c[i])) \in Nat
      BY <3>6
    <3>8. Spells(v, pos[i - 1], c[i])
      BY <1>2, <3>3, <3>4, <3>7, StillSpelled, Zenon DEF v
    <3> QED BY <3>2, <3>3, <3>8, Zenon
  <2> QED BY <2>1, <2>2
<1>7. PlacedIn(d, v, q)
  <2>1. /\ q \in [0..Len(d) -> Nat] /\ q[0] = 0 /\ q[Len(d)] = Len(v)
    BY <1>1, <1>5, Zenon
  <2>2. \A i \in 1..Len(d) : /\ q[i] = q[i - 1] + Len(EncodeUTF8(d[i]))
                             /\ Spells(v, q[i - 1], d[i])
    BY <1>1, <1>6, Zenon
  <2> QED BY <2>1, <2>2, Zenon DEF PlacedIn
<1> QED BY <1>7, Zenon DEF d, v, e

\* The inductive invariant: the text is what its characters spell, if it
\* grew by characters.
TextInv ==
  /\ setting[1] \in Layouts
  /\ text \in Seq(ByteValue)
  /\ chars \in Seq(Scalars)
  /\ grows = "chars" => \E pos : Placed(pos)

\* The empty text.
LEMMA TextInitial == TextInit => TextInv
<1> SUFFICES ASSUME TextInit
             PROVE  TextInv
  OBVIOUS
<1>1. chars = <<>> /\ text = <<>>
  BY DEF TextInit
<1>2. setting[1] \in Layouts
  <2>1. setting \in Settings \/ setting = <<US, <<1, 0>> >>
    BY DEF TextInit
  <2>2. setting \in Settings => setting[1] \in {US, DE}
    BY DEF Settings
  <2>3. setting = <<US, <<1, 0>> >> => setting[1] = US
    OBVIOUS
  <2> QED BY <2>1, <2>2, <2>3, Zenon DEF Layouts
<1>3. text \in Seq(ByteValue) /\ chars \in Seq(Scalars)
  BY <1>1
<1>4. \E pos : Placed(pos)
  <2> DEFINE pos == [i \in 0..0 |-> 0]
  <2>1. Len(<<>>) = 0 /\ 1..0 = {} /\ pos \in [0..0 -> Nat] /\ pos[0] = 0
    OBVIOUS
  <2> HIDE DEF pos
  <2>2. Placed(pos)
    BY <1>1, <2>1, Zenon DEF Placed, PlacedIn
  <2> QED BY <2>2, Zenon
<1> QED BY <1>2, <1>3, <1>4, Zenon DEF TextInv

\* A character appended.
LEMMA CharAppended ==
  ASSUME TextInv, NEW cp \in Chars, AppendChar(cp)
  PROVE  TextInv'
<1>1. /\ grows = "chars" /\ chars' = Append(chars, cp) /\ text' = text \o EncodeUTF8(cp)
      /\ setting' = setting
  BY DEF AppendChar
<1>2. cp \in Scalars
  BY TextAssumption
<1>3. setting[1] \in Layouts /\ text \in Seq(ByteValue) /\ chars \in Seq(Scalars)
  BY DEF TextInv
<1>4. EncodeUTF8(cp) \in Seq(ByteValue)
  <2>1. EncodedAs(cp, Len(EncodeUTF8(cp)))
    BY <1>2, EncodeScalar
  <2> QED BY <2>1, Zenon DEF EncodedAs
<1>5. text' \in Seq(ByteValue)
  BY <1>1, <1>3, <1>4, ConcatProperties, Zenon
<1>6. chars' \in Seq(Scalars)
  BY <1>1, <1>2, <1>3, AppendProperties, Zenon
<1>7. PICK pos : PlacedIn(chars, text, pos)
  BY <1>1, Zenon DEF TextInv, Placed, PlacedIn
<1>8. \E q : PlacedIn(Append(chars, cp), text \o EncodeUTF8(cp), q)
  BY <1>2, <1>3, <1>7, PlacedGrows, Zenon
<1>9. PICK q : PlacedIn(chars', text', q)
  BY <1>1, <1>8, Zenon
<1>10. Placed(q)'
  BY <1>9, Zenon DEF Placed, PlacedIn
<1> QED BY <1>1, <1>3, <1>5, <1>6, <1>10, Zenon DEF TextInv

\* A byte appended.
LEMMA ByteAppended ==
  ASSUME TextInv, NEW b \in TextBytes, AppendByte(b)
  PROVE  TextInv'
<1>1. /\ grows = "bytes" /\ text' = Append(text, b)
      /\ setting' = setting /\ grows' = grows /\ chars' = chars
  BY DEF AppendByte
<1>2. b \in ByteValue
  BY TextAssumption DEF ByteValue
<1>3. text' \in Seq(ByteValue)
  BY <1>1, <1>2, AppendProperties, Zenon DEF TextInv
<1>4. grows' # "chars"
  BY <1>1
<1> QED BY <1>1, <1>3, <1>4, Zenon DEF TextInv

\* A stuttering step.
LEMMA TextUnmoved ==
  ASSUME TextInv, UNCHANGED textVars
  PROVE  TextInv'
<1>1. grows' = grows /\ setting' = setting /\ chars' = chars /\ text' = text
  BY DEF textVars
<1>2. ASSUME NEW pos, Placed(pos)
      PROVE  Placed(pos)'
  BY <1>1, <1>2, Zenon DEF Placed, PlacedIn
<1> QED BY <1>1, <1>2, Zenon DEF TextInv

\* Whatever the bounds and the code points, texts keep the invariant.
THEOREM TextSafe == TextSpec => []TextInv
<1>1. TextInv /\ [TextNext]_textVars => TextInv'
  <2> SUFFICES ASSUME TextInv, [TextNext]_textVars
               PROVE  TextInv'
    OBVIOUS
  <2>1. ASSUME NEW cp \in Chars, AppendChar(cp)
        PROVE  TextInv'
    BY <2>1, CharAppended
  <2>2. ASSUME NEW b \in TextBytes, AppendByte(b)
        PROVE  TextInv'
    BY <2>2, ByteAppended
  <2>3. CASE UNCHANGED textVars
    BY <2>3, TextUnmoved
  <2> QED BY <2>1, <2>2, <2>3 DEF TextNext
<1> QED
  BY <1>1, TextInitial, PTL DEF TextSpec

\* decode_utf8 accepts exactly the well-formed UTF-8 sequences, whatever
\* bytes a text is made of, and returns the scalar value they encode.
THEOREM DecodeAlwaysExact == TextSpec => []DecodeExact
<1>1. TextInv => DecodeExact
  BY DecodeCorrect DEF TextInv
<1> QED
  BY <1>1, TextSafe, PTL

\* bridge_core_stage never compiles n bytes to more than 2n strokes, nor to a
\* stroke without a key, however long the text is.
THEOREM StrokesAlwaysFit == TextSpec => []StrokesFit
<1>1. TextInv => StrokesFit
  BY StrokesCorrect DEF TextInv
<1> QED
  BY <1>1, TextSafe, PTL

\* bridge_core_stage accepts a UTF-8 text of any length exactly when every
\* character of it is permitted under the layout, the mode and the flags.
THEOREM TextAcceptedExactly == TextSpec => []AcceptsExactly
<1>1. TextInv => AcceptsExactly
  <2> SUFFICES ASSUME TextInv, grows = "chars"
               PROVE  Result.status = "OK" <=>
                        \A x \in 1..Len(Visible) : Permitted(Visible[x])
    BY Zenon DEF AcceptsExactly
  <2>1. PICK pos : Placed(pos)
    BY Zenon DEF TextInv
  <2>2. setting[1] \in Layouts /\ text \in Seq(ByteValue) /\ chars \in Seq(Scalars)
    BY Zenon DEF TextInv
  <2>3. Result.status = "OK" <=> \A j \in 1..Len(chars) : Passes(j)
    BY <2>1, <2>2, AcceptedSuffix, Zenon
  <2>4. (\A x \in 1..Len(Visible) : Permitted(Visible[x]))
          <=> \A j \in 1..Len(chars) : Passes(j)
    BY <2>2, VisiblePermitted, Zenon
  <2> QED BY <2>3, <2>4, Zenon
<1> QED
  BY <1>1, TextSafe, PTL

\* A host with the chosen layout reads back, character for character, every
\* text that bridge_core_stage accepts.
THEOREM HostAlwaysReadsText == TextSpec => []HostReadsText
<1>1. TextInv => HostReadsText
  <2> SUFFICES ASSUME TextInv, grows = "chars"
               PROVE  Result.status = "OK" => HostReads(setting[1], Result.strokes) = Visible
    BY Zenon DEF HostReadsText
  <2>1. PICK pos : Placed(pos)
    BY Zenon DEF TextInv
  <2>2. setting[1] \in Layouts /\ text \in Seq(ByteValue) /\ chars \in Seq(Scalars)
    BY Zenon DEF TextInv
  <2> QED BY <2>1, <2>2, ReadsBehind, Zenon
<1> QED
  BY <1>1, TextSafe, PTL
=============================================================================
