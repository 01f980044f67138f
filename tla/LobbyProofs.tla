---------------------------- MODULE LobbyProofs -----------------------------
(***************************************************************************)
(* The streams of bdLobbyConnection, for any width of the size field, any  *)
(* base, any messages and any splitting of the bytes by the socket.        *)
(*                                                                         *)
(* Inbound, the stream is cut into keep-alives and frames (Splits); what   *)
(* the reader holds and has not yet read begins at a cut (InStream), so    *)
(* that what it makes of the bytes is the next message: the connection is  *)
(* the channel of LobbyChannel.  Outbound, each buffer begun lies where it *)
(* began, up to what is left of it, with zeros before the next (Laid), so  *)
(* that the server gets what was queued.  Weight and SizeOf are functions  *)
(* defined by recursion: what they are is proved first, by a least         *)
(* counterexample.                                                         *)
(***************************************************************************)
EXTENDS LobbyConnection, WellFoundedInduction, TLAPS
-----------------------------------------------------------------------------
\* Induction, as a fact about sets of numbers: one that has no least number
\* outside it holds them all.

Less == {p \in Nat \X Nat : p[1] < p[2]}

\* The natural numbers are well founded.
LEMMA LessIsWellFounded == IsWellFoundedOn(Less, Nat)
  BY NatLessThanWellFounded DEF OpToRel, Less

\* A set of numbers that has 0 and every successor has them all: otherwise
\* there would be a least one it lacks.
LEMMA SetInduction ==
  ASSUME NEW T \in SUBSET Nat, 0 \in T, \A n \in T : n + 1 \in T
  PROVE  \A n \in Nat : n \in T
<1> SUFFICES ASSUME Nat \ T # {} PROVE FALSE
  OBVIOUS
<1>1. PICK x \in Nat \ T : \A y \in Nat \ T : ~(<<y, x>> \in Less)
  BY LessIsWellFounded, WFMin, Nat \ T \subseteq Nat
<1>2. \A y \in Nat \ T : ~(y < x)
  BY <1>1 DEF Less
<1>3. x # 0 /\ x - 1 \in Nat /\ (x - 1) + 1 = x
  OBVIOUS
<1> QED
  BY <1>2, <1>3

\* What is defined along the numbers is defined: a first value and a step.
Along(n, V, first, F, h) ==
  /\ h \in [0..n -> V] /\ h[0] = first
  /\ \A i \in Nat : i < n => h[i + 1] = F[i][h[i]]

Begins(V, first, F) == first \in V /\ F \in [Nat -> [V -> V]]
Follows(V, first, F, g) == g \in [Nat -> V] /\ g[0] = first /\ \A n \in Nat : g[n + 1] = F[n][g[n]]

\* A function defined by its first value and by how it goes on exists.
LEMMA Recursion == ASSUME NEW V, NEW first, NEW F, Begins(V, first, F) PROVE \E g : Follows(V, first, F, g)
<1> USE DEF Begins
<1> DEFINE T == {n \in Nat : \E h : Along(n, V, first, F, h)}
<1>1. \A n \in Nat : n \in T
  <2>1. 0 \in T
    <3>1. Along(0, V, first, F, [i \in 0..0 |-> first])
      BY DEF Along
    <3> QED
      BY <3>1
  <2>2. ASSUME NEW n \in T PROVE n + 1 \in T
    <3>1. PICK h : Along(n, V, first, F, h)
      OBVIOUS
    <3> DEFINE next == F[n][h[n]]
               k == [i \in 0..n + 1 |-> IF i <= n THEN h[i] ELSE next]
    <3>2. h \in [0..n -> V] /\ n \in Nat /\ n \in 0..n
      BY <3>1 DEF Along
    <3>3. next \in V
      BY <3>2
    <3> HIDE DEF next
    <3>4. k \in [0..n + 1 -> V] /\ k[0] = h[0] /\ \A i \in 0..n : k[i] = h[i]
      BY <3>2, <3>3
    <3>5. k[n + 1] = next
      BY <3>2
    <3> HIDE DEF k
    <3>6. ASSUME NEW i \in Nat, i < n + 1 PROVE k[i + 1] = F[i][k[i]]
      <4>1. CASE i = n
        BY <3>2, <3>4, <3>5, <4>1 DEF next
      <4>2. CASE i < n
        BY <3>1, <3>2, <3>4, <4>2 DEF Along
      <4> QED
        BY <3>2, <3>6, <4>1, <4>2
    <3>7. Along(n + 1, V, first, F, k)
      BY <3>1, <3>4, <3>6 DEF Along
    <3> QED
      BY <3>2, <3>7
  <2> HIDE DEF T
  <2> QED
    BY <2>1, <2>2, SetInduction, T \in SUBSET Nat DEF T
<1>2. ASSUME NEW m \in Nat, NEW n \in Nat, m <= n, NEW h, NEW k, Along(m, V, first, F, h), Along(n, V, first, F, k)
      PROVE  \A i \in 0..m : h[i] = k[i]
  <2> DEFINE U == {i \in Nat : i <= m => h[i] = k[i]}
  <2>1. 0 \in U
    BY <1>2 DEF Along
  <2>2. ASSUME NEW i \in U PROVE i + 1 \in U
    <3>1. CASE i + 1 <= m
      <4>1. i \in Nat /\ i < m /\ i < n /\ h[i] = k[i]
        BY <1>2, <3>1
      <4>2. h[i + 1] = F[i][h[i]] /\ k[i + 1] = F[i][k[i]]
        BY <1>2, <4>1 DEF Along
      <4> QED
        BY <4>1, <4>2
    <3>2. CASE ~(i + 1 <= m)
      BY <3>2
    <3> QED
      BY <3>1, <3>2
  <2>3. U \in SUBSET Nat
    OBVIOUS
  <2> HIDE DEF U
  <2>4. \A j \in Nat : j \in U
    BY <2>1, <2>2, <2>3, SetInduction
  <2> QED
    BY <2>4 DEF U
<1> DEFINE upTo(n) == CHOOSE h : Along(n, V, first, F, h)
           g == [n \in Nat |-> upTo(n)[n]]
<1>3. \A n \in Nat : Along(n, V, first, F, upTo(n))
  BY <1>1
<1> HIDE DEF upTo
<1>4. g \in [Nat -> V] /\ g[0] = first
  BY <1>3 DEF Along
<1>5. ASSUME NEW n \in Nat PROVE g[n + 1] = F[n][g[n]]
  <2>1. upTo(n + 1)[n] = upTo(n)[n]
    BY <1>2, <1>3
  <2>2. upTo(n + 1)[n + 1] = F[n][upTo(n + 1)[n]]
    BY <1>3 DEF Along
  <2> QED
    BY <2>1, <2>2
<1> QED
  BY <1>4, <1>5 DEF Follows
-----------------------------------------------------------------------------
\* What a byte of a number counts.
LEMMA WeightFacts ==
  /\ Weight[0] = 1
  /\ \A i \in Nat : Weight[i] \in Nat \ {0} /\ Weight[i + 1] = Base * Weight[i]
<1> DEFINE F == [n \in Nat |-> [v \in Nat |-> Base * v]]
<1>1. Begins(Nat, 1, F)
  BY LobbyAssumption DEF Begins
<1> HIDE DEF F
<1>2. PICK g : Follows(Nat, 1, F, g)
  BY <1>1, Recursion
<1>0. g \in [Nat -> Nat] /\ g[0] = 1 /\ \A n \in Nat : g[n + 1] = Base * g[n]
  BY <1>2 DEF Follows, F
<1>3. g = [i \in Nat |-> IF i = 0 THEN 1 ELSE Base * g[i - 1]]
  <2>1. ASSUME NEW i \in Nat PROVE g[i] = IF i = 0 THEN 1 ELSE Base * g[i - 1]
    <3>1. i # 0 => i - 1 \in Nat /\ (i - 1) + 1 = i
      OBVIOUS
    <3> QED
      BY <1>0, <3>1
  <2> QED
    BY <1>0, <2>1
<1>4. Weight = [i \in Nat |-> IF i = 0 THEN 1 ELSE Base * Weight[i - 1]]
  BY <1>3 DEF Weight
<1>5. \A i \in Nat : Weight[i] = IF i = 0 THEN 1 ELSE Base * Weight[i - 1]
  BY <1>4
<1>6. Weight[0] = 1 /\ \A i \in Nat : Weight[i + 1] = Base * Weight[i]
  BY <1>5
<1> DEFINE T == {i \in Nat : Weight[i] \in Nat \ {0}}
<1>7. \A n \in Nat : n \in T
  <2>1. 0 \in T /\ \A i \in T : i + 1 \in T
    BY <1>6, LobbyAssumption
  <2>2. T \in SUBSET Nat
    OBVIOUS
  <2> HIDE DEF T
  <2> QED
    BY <2>1, <2>2, SetInduction
<1> QED
  BY <1>6, <1>7

\* Quotient and remainder.
LEMMA DivMod ==
  ASSUME NEW a \in Nat, NEW b \in Nat \ {0}
  PROVE  a \div b \in Nat /\ a % b \in 0..b - 1 /\ a = b * (a \div b) + (a % b)
<1>1. a \div b \in Nat /\ a % b \in 0..b - 1 /\ a % b = a - b * (a \div b)
  OBVIOUS
<1> QED
  BY <1>1

\* Division is determined
LEMMA DivUnique ==
  ASSUME NEW b \in Nat \ {0}, NEW q \in Nat, NEW p \in Nat, NEW r \in 0..b - 1, NEW s \in 0..b - 1, b * q + r = b * p + s
  PROVE  q = p
<1>1. ASSUME NEW x \in Nat, NEW y \in Nat, x < y PROVE b * x + b <= b * y
  <2>1. PICK d \in Nat : y = x + 1 + d
    BY <1>1, y - x - 1 \in Nat
  <2>2. b * y = b * x + b + b * d /\ b * d \in Nat
    BY <2>1
  <2> QED
    BY <2>2
<1>2. b * q \in Nat /\ b * p \in Nat
  OBVIOUS
<1>3. ~(q < p)
  BY <1>1, <1>2
<1>4. ~(p < q)
  BY <1>1, <1>2
<1> QED
  BY <1>3, <1>4

\* Dividing by a product is dividing twice.
LEMMA DivTwice ==
  ASSUME NEW n \in Nat, NEW w \in Nat \ {0}, NEW b \in Nat \ {0}
  PROVE  n \div (b * w) = (n \div w) \div b
<1> DEFINE q == n \div w
           r == n % w
           q2 == q \div b
           d == q % b
<1>1. q \in Nat /\ r \in 0..w - 1 /\ n = w * q + r
  BY DivMod
<1>2. q2 \in Nat /\ d \in 0..b - 1 /\ q = b * q2 + d
  BY <1>1, DivMod
<1> HIDE DEF q, r, q2, d
<1> DEFINE m == b * w
           t == n \div m
           u == n % m
<1>3. m \in Nat \ {0}
  OBVIOUS
<1>5. n = m * q2 + (w * d + r)
  BY <1>1, <1>2
<1>6. w * d + r \in 0..m - 1
  <2>1. w * d \in Nat /\ w * d + w <= b * w
    <3>1. PICK e \in Nat : b = d + 1 + e
      BY <1>2, b - d - 1 \in Nat
    <3>2. b * w = w * d + w + e * w /\ e * w \in Nat /\ w * d \in Nat
      BY <1>2, <3>1
    <3> QED
      BY <3>2
  <2> QED
    BY <1>1, <2>1
<1> HIDE DEF m
<1>4. t \in Nat /\ u \in 0..m - 1 /\ n = m * t + u
  BY <1>3, DivMod
<1> HIDE DEF t, u
<1>7. t = q2
  BY <1>2, <1>3, <1>4, <1>5, <1>6, DivUnique
<1> QED
  BY <1>7 DEF q, q2, t, m

\* SizeOf is the last of the partial sums over the bytes of the field.
LEMMA SizeOfUnfolds ==
  ASSUME NEW b \in Seq(Bytes), Len(b) = SizeBytes
  PROVE  \E sum : /\ sum \in [0..SizeBytes -> Nat] /\ sum[0] = 0 /\ SizeOf(b) = sum[SizeBytes]
                  /\ \A i \in Nat : i < SizeBytes => sum[i + 1] = sum[i] + b[i + 1] * Weight[i]
<1> DEFINE term(i) == b[i + 1] * Weight[i]
           F == [i \in Nat |-> [v \in Nat |-> IF i < SizeBytes THEN v + term(i) ELSE v]]
<1>1. SizeBytes \in Nat \ {0} /\ Base \in Nat /\ Base > 2
  BY LobbyAssumption
<1>2. \A i \in Nat : i < SizeBytes => b[i + 1] \in Nat
  BY <1>1 DEF Bytes
<1>3. \A i \in Nat : i < SizeBytes => b[i + 1] * Weight[i] \in Nat
  <2>1. \A x, y \in Nat : x * y \in Nat
    OBVIOUS
  <2>2. \A i \in Nat : Weight[i] \in Nat
    BY WeightFacts
  <2> QED
    BY <1>2, <2>1, <2>2
<1>4. Begins(Nat, 0, F)
  <2>1. \A i \in Nat : i < SizeBytes => term(i) \in Nat
    BY <1>3
  <2> HIDE DEF term
  <2> QED
    BY <1>1, <2>1 DEF Begins
<1> HIDE DEF F
<1>5. PICK g : Follows(Nat, 0, F, g)
  BY <1>4, Recursion
<1>6. /\ g \in [Nat -> Nat] /\ g[0] = 0
      /\ \A i \in Nat : i < SizeBytes => g[i + 1] = g[i] + b[i + 1] * Weight[i]
  BY <1>3, <1>5 DEF Follows, F
<1> DEFINE h == [i \in 0..SizeBytes |-> g[i]]
           Sums(s) == s = [i \in 0..SizeBytes |-> IF i = 0 THEN 0 ELSE s[i - 1] + b[i] * Weight[i - 1]]
<1>7. Sums(h)
  <2>1. ASSUME NEW i \in 0..SizeBytes
        PROVE  h[i] = IF i = 0 THEN 0 ELSE h[i - 1] + b[i] * Weight[i - 1]
    <3>1. CASE i = 0
      BY <1>1, <1>6, <3>1
    <3>2. CASE i # 0
      <4>1. i - 1 \in Nat /\ i - 1 < SizeBytes /\ i - 1 \in 0..SizeBytes /\ (i - 1) + 1 = i
        BY <1>1, <3>2
      <4>2. g[(i - 1) + 1] = g[i - 1] + b[(i - 1) + 1] * Weight[i - 1]
        BY <1>6, <4>1
      <4> QED
        BY <3>2, <4>1, <4>2
    <3> QED
      BY <3>1, <3>2
  <2> HIDE DEF h
  <2>2. DOMAIN h = 0..SizeBytes /\ h = [i \in DOMAIN h |-> h[i]]
    BY DEF h
  <2> QED
    BY <2>1, <2>2
<1>8. PICK s : Sums(s) /\ SizeOf(b) = s[SizeBytes]
  <2> DEFINE s == CHOOSE s : Sums(s)
  <2>1. Sums(s)
    BY <1>7
  <2>2. SizeOf(b) = s[SizeBytes]
    BY DEF SizeOf
  <2> HIDE DEF s
  <2> QED
    BY <2>1, <2>2
<1>9. \A i \in 0..SizeBytes : s[i] = IF i = 0 THEN 0 ELSE s[i - 1] + b[i] * Weight[i - 1]
  BY <1>8
<1>10. s[0] = 0 /\ DOMAIN s = 0..SizeBytes /\ \A i \in Nat : i < SizeBytes => s[i + 1] = s[i] + b[i + 1] * Weight[i]
  <2>1. s[0] = 0 /\ DOMAIN s = 0..SizeBytes
    BY <1>1, <1>8
  <2>2. ASSUME NEW i \in Nat, i < SizeBytes PROVE s[i + 1] = s[i] + b[i + 1] * Weight[i]
    <3>1. i + 1 \in 0..SizeBytes /\ i + 1 # 0 /\ (i + 1) - 1 = i
      BY <1>1, <2>2
    <3> QED
      BY <1>9, <3>1
  <2> QED
    BY <2>1, <2>2
<1>11. \A i \in 0..SizeBytes : s[i] \in Nat
  <2> DEFINE T == {i \in Nat : i <= SizeBytes => s[i] \in Nat}
  <2>1. 0 \in T
    BY <1>10
  <2>2. ASSUME NEW i \in T PROVE i + 1 \in T
    BY <1>1, <1>3, <1>10
  <2>3. T \in SUBSET Nat
    OBVIOUS
  <2> HIDE DEF T
  <2>4. \A i \in Nat : i \in T
    BY <2>1, <2>2, <2>3, SetInduction
  <2> QED
    BY <2>4, <1>1 DEF T
<1>12. s \in [0..SizeBytes -> Nat]
  <2>1. s = [i \in DOMAIN s |-> s[i]]
    BY <1>8
  <2> QED
    BY <1>10, <1>11, <2>1
<1> QED
  BY <1>8, <1>10, <1>12

\* The digits of a number, as SizeField takes them, are those SizeOf adds up.
LEMMA SizeRoundTrip ==
  ASSUME NEW n \in Nat, n < Weight[SizeBytes]
  PROVE  SizeField(n) \in Seq(Bytes) /\ Len(SizeField(n)) = SizeBytes /\ SizeOf(SizeField(n)) = n
<1> DEFINE f == SizeField(n)
           q(i) == n \div Weight[i]
<1>1. SizeBytes \in Nat \ {0} /\ Base \in Nat \ {0} /\ \A i \in Nat : Weight[i] \in Nat \ {0}
  BY LobbyAssumption, WeightFacts
<1>2. \A i \in Nat : q(i) \in Nat /\ n = Weight[i] * q(i) + (n % Weight[i])
  BY <1>1, DivMod
<1>3. \A i \in Nat : q(i + 1) = q(i) \div Base
  <2>1. ASSUME NEW i \in Nat PROVE q(i + 1) = q(i) \div Base
    <3>1. Weight[i + 1] = Base * Weight[i] /\ Weight[i] \in Nat \ {0}
      BY WeightFacts
    <3> QED
      BY <1>1, <3>1, DivTwice
  <2> QED
    BY <2>1
<1>4. f = [i \in 1..SizeBytes |-> q(i - 1) % Base]
  BY DEF SizeField
<1> HIDE DEF f, q
<1>5. \A i \in Nat : q(i) % Base \in Bytes /\ q(i) = Base * q(i + 1) + (q(i) % Base)
  BY <1>1, <1>2, <1>3, DivMod DEF Bytes
<1>6. f \in [1..SizeBytes -> Bytes] /\ \A i \in Nat : i < SizeBytes => f[i + 1] = q(i) % Base
  <2>1. ASSUME NEW i \in 1..SizeBytes PROVE f[i] \in Bytes
    BY <1>1, <1>4, <1>5, i - 1 \in Nat
  <2>2. ASSUME NEW i \in Nat, i < SizeBytes PROVE f[i + 1] = q(i) % Base
    BY <1>1, <1>4, <2>2, i + 1 \in 1..SizeBytes, (i + 1) - 1 = i
  <2> QED
    BY <1>4, <2>1, <2>2
<1>7. f \in Seq(Bytes) /\ Len(f) = SizeBytes
  BY <1>1, <1>6
<1>8. PICK sum : /\ sum \in [0..SizeBytes -> Nat] /\ sum[0] = 0 /\ SizeOf(f) = sum[SizeBytes]
                 /\ \A i \in Nat : i < SizeBytes => sum[i + 1] = sum[i] + f[i + 1] * Weight[i]
  BY <1>7, SizeOfUnfolds
<1>9. \A i \in Nat : i <= SizeBytes => sum[i] + Weight[i] * q(i) = n
  <2> DEFINE T == {i \in Nat : i <= SizeBytes => sum[i] + Weight[i] * q(i) = n}
  <2>1. 0 \in T
    <3>1. Weight[0] = 1 /\ q(0) = n
      BY WeightFacts DEF q
    <3> QED
      BY <1>8, <3>1
  <2>2. ASSUME NEW i \in T PROVE i + 1 \in T
    <3>1. CASE i < SizeBytes
      <4> DEFINE w == Weight[i]
                 d == q(i) % Base
                 p == q(i + 1)
                 t == sum[i]
      <4>1. w \in Nat /\ Weight[i + 1] = Base * w /\ Base \in Nat
        BY <1>1, WeightFacts
      <4>2. d \in Nat /\ p \in Nat /\ q(i) = Base * p + d
        BY <1>1, <1>2, <1>5 DEF Bytes
      <4>3. sum[i + 1] = t + d * w /\ t \in Nat
        BY <1>1, <1>6, <1>8, <3>1
      <4>4. t + w * (Base * p + d) = n
        BY <1>1, <3>1, <4>2
      <4> HIDE DEF w, d, p, t
      <4>5. (t + d * w) + (Base * w) * p = t + w * (Base * p + d)
        BY <4>1, <4>2, <4>3
      <4>6. sum[i + 1] + Weight[i + 1] * p = n
        BY <4>1, <4>3, <4>4, <4>5
      <4> QED
        BY <4>6 DEF p
    <3>2. CASE ~(i < SizeBytes)
      BY <1>1, <3>2
    <3> QED
      BY <3>1, <3>2
  <2>3. T \in SUBSET Nat
    OBVIOUS
  <2> HIDE DEF T
  <2>4. \A i \in Nat : i \in T
    BY <2>1, <2>2, <2>3, SetInduction
  <2> QED
    BY <2>4 DEF T
<1>10. q(SizeBytes) = 0
  <2>1. n = Weight[SizeBytes] * 0 + n /\ n \in 0..Weight[SizeBytes] - 1
    BY <1>1
  <2>2. n % Weight[SizeBytes] \in 0..Weight[SizeBytes] - 1
    BY <1>1, DivMod
  <2> QED
    BY <1>1, <1>2, <2>1, <2>2, DivUnique
<1>11. SizeOf(f) = n
  BY <1>1, <1>8, <1>9, <1>10
<1> QED
  BY <1>7, <1>11 DEF f
-----------------------------------------------------------------------------
\* Streams of bytes.

\* A stream in two parts.
LEMMA CutInTwo ==
  ASSUME NEW V, NEW s \in Seq(V), NEW n \in 0..Len(s)
  PROVE  /\ SubSeq(s, 1, n) \in Seq(V) /\ Len(SubSeq(s, 1, n)) = n
         /\ SubSeq(s, n + 1, Len(s)) \in Seq(V) /\ Len(SubSeq(s, n + 1, Len(s))) = Len(s) - n
         /\ \A i \in 1..n : SubSeq(s, 1, n)[i] = s[i]
         /\ \A i \in 1..Len(s) - n : SubSeq(s, n + 1, Len(s))[i] = s[n + i]
  OBVIOUS

\* Where the elements of a concatenation come from.
LEMMA Joined ==
  ASSUME NEW V, NEW s \in Seq(V), NEW t \in Seq(V)
  PROVE  /\ s \o t \in Seq(V) /\ Len(s \o t) = Len(s) + Len(t)
         /\ \A i \in 1..Len(s) : (s \o t)[i] = s[i]
         /\ \A i \in 1..Len(t) : (s \o t)[Len(s) + i] = t[i]
  OBVIOUS

\* The same of bytes.
LEMMA BytesJoined ==
  ASSUME NEW s \in Seq(Bytes), NEW t \in Seq(Bytes)
  PROVE  /\ s \o t \in Seq(Bytes) /\ Len(s \o t) = Len(s) + Len(t)
         /\ \A i \in 1..Len(s) : (s \o t)[i] = s[i]
         /\ \A i \in 1..Len(t) : (s \o t)[Len(s) + i] = t[i]
  BY Joined

\* The same of buffers.
LEMMA BuffersJoined ==
  ASSUME NEW s \in Seq(Seq(Bytes)), NEW t \in Seq(Seq(Bytes))
  PROVE  /\ Len(s \o t) = Len(s) + Len(t)
         /\ \A i \in 1..Len(s) : (s \o t)[i] = s[i]
         /\ \A i \in 1..Len(t) : (s \o t)[Len(s) + i] = t[i]
  BY Joined

\* Two sequences of one length with the same elements are the same.
LEMMA SameSeq ==
  ASSUME NEW V, NEW s \in Seq(V), NEW t \in Seq(V), Len(s) = Len(t), \A i \in 1..Len(s) : s[i] = t[i]
  PROVE  s = t
  OBVIOUS

\* What appending one element leaves where it was.
LEMMA Appended ==
  ASSUME NEW V, NEW s \in Seq(V), NEW x \in V
  PROVE  /\ Append(s, x) \in Seq(V) /\ Len(Append(s, x)) = Len(s) + 1
         /\ \A i \in 1..Len(s) : Append(s, x)[i] = s[i]
         /\ Append(s, x)[Len(s) + 1] = x
  OBVIOUS

\* The frame of a message: the size, the kind and the body.
LEMMA ThreeParts ==
  ASSUME NEW V, NEW s \in Seq(V), NEW x \in V, NEW t \in Seq(V), NEW k \in Nat, Len(s) = k
  PROVE  /\ s \o <<x>> \o t \in Seq(V) /\ Len(s \o <<x>> \o t) = k + 1 + Len(t)
         /\ \A i \in 1..k : (s \o <<x>> \o t)[i] = s[i]
         /\ (s \o <<x>> \o t)[k + 1] = x
         /\ \A i \in 1..Len(t) : (s \o <<x>> \o t)[k + 1 + i] = t[i]
  OBVIOUS

\* The parts of the frame of a message, and where they lie.
LEMMA FrameFacts ==
  ASSUME NEW m, IsMessage(m)
  PROVE  /\ Frame(m) \in Seq(Bytes) \ {<<>>} /\ Len(Frame(m)) = SizeBytes + 1 + Len(m.body)
         /\ SizeField(Len(m.body) + 1) \in Seq(Bytes) /\ Len(SizeField(Len(m.body) + 1)) = SizeBytes
         /\ SizeOf(SizeField(Len(m.body) + 1)) = Len(m.body) + 1
         /\ \A i \in 1..SizeBytes : Frame(m)[i] = SizeField(Len(m.body) + 1)[i]
         /\ Frame(m)[SizeBytes + 1] = m.enc
         /\ \A i \in 1..Len(m.body) : Frame(m)[SizeBytes + 1 + i] = m.body[i]
<1> DEFINE size == SizeField(Len(m.body) + 1)
           e == m.enc
           body == m.body
<1>1. e \in Bytes /\ body \in Seq(Bytes) /\ Len(body) \in Nat /\ Len(body) + 1 < Weight[SizeBytes] /\ SizeBytes \in Nat \ {0}
  BY LobbyAssumption DEF IsMessage, Bytes
<1>2. size \in Seq(Bytes) /\ Len(size) = SizeBytes /\ SizeOf(size) = Len(body) + 1
  BY <1>1, SizeRoundTrip
<1>3. Frame(m) = size \o <<e>> \o body
  BY DEF Frame
<1> HIDE DEF size, e, body
<1>4. /\ size \o <<e>> \o body \in Seq(Bytes) /\ Len(size \o <<e>> \o body) = SizeBytes + 1 + Len(body)
      /\ \A i \in 1..SizeBytes : (size \o <<e>> \o body)[i] = size[i]
      /\ (size \o <<e>> \o body)[SizeBytes + 1] = e
      /\ \A i \in 1..Len(body) : (size \o <<e>> \o body)[SizeBytes + 1 + i] = body[i]
  BY ONLY <1>1, <1>2, ThreeParts
<1>5. Frame(m) # <<>>
  BY <1>1, <1>3, <1>4
<1> QED
  BY <1>1, <1>2, <1>3, <1>4, <1>5 DEF size, e, body

\* A keep-alive is a size of zero.
LEMMA KeepAliveFacts ==
  KeepAlive \in Seq(Bytes) /\ Len(KeepAlive) = SizeBytes /\ SizeOf(KeepAlive) = 0 /\ SizeBytes \in Nat \ {0}
<1>1. 0 \in Nat /\ 0 < Weight[SizeBytes] /\ SizeBytes \in Nat \ {0}
  BY LobbyAssumption, WeightFacts
<1> QED
  BY <1>1, SizeRoundTrip DEF KeepAlive

\* Every byte of it is zero.
LEMMA KeepAliveZeros == \A i \in 1 .. SizeBytes : KeepAlive[i] = 0
<1>1. 0 % Base = 0
  BY LobbyAssumption
<1>2. ASSUME NEW i \in 1 .. SizeBytes PROVE KeepAlive[i] = 0
  <2>1. i - 1 \in Nat /\ SizeBytes \in Nat
    BY <1>2, LobbyAssumption
  <2>2. Weight[i - 1] \in Nat \ {0}
    BY <2>1, WeightFacts
  <2>3. 0 \div Weight[i - 1] = 0
    BY <2>2
  <2>4. KeepAlive[i] = (0 \div Weight[i - 1]) % Base
    BY <1>2 DEF KeepAlive, SizeField
  <2> QED
    BY <1>1, <2>3, <2>4
<1> QED
  BY <1>2
-----------------------------------------------------------------------------
\* The reader and the listener.

\* What the state of the reader says of the bytes it has read; the thread waits
\* for the connection only while it is being made, and reads only after.
ReaderKept ==
  /\ at = "connect" => m_status = "CONNECTING"
  /\ m_status \in {"NOT_CONNECTED", "CONNECTING"} => m_recvState = "INIT"
  /\ m_status = "CONNECTED" /\ m_recvState = "SIZE" => Len(m_msgSizeBuffer) < SizeBytes
  /\ m_recvState \in {"ENCRYPT", "MESSAGE", "COMPLETE"} =>
        /\ Len(m_msgSizeBuffer) = SizeBytes
        /\ m_messageSize = SizeOf(m_msgSizeBuffer) /\ m_messageSize \in 1..MaxRecvSize
  /\ m_recvState = "MESSAGE" => Len(m_recvMessage) <= m_messageSize - 1
  /\ m_recvState = "COMPLETE" => Len(m_recvMessage) = m_messageSize - 1
  /\ dispatched \in Seq([enc : Bytes, body : Seq(Bytes)])

ReaderInv == LobbyTypeOK /\ ListenerToldOnce /\ ReaderKept

\* What pump and the reader leave alone keeps its type.
ReaderTypes ==
  /\ m_recvState \in {"INIT", "SIZE", "ENCRYPT", "MESSAGE", "COMPLETE"}
  /\ m_msgSizeBuffer \in Seq(Bytes) /\ Len(m_msgSizeBuffer) <= SizeBytes
  /\ m_messageSize \in Nat /\ m_recvEncryptType \in Bytes
  /\ m_recvMessage \in Seq(Bytes) /\ Len(m_recvMessage) <= MaxRecvSize

CallTypes ==
  /\ m_status \in {"NOT_CONNECTED", "CONNECTING", "CONNECTED", "DISCONNECTED"}
  /\ late \subseteq {"keepAlive", "receive"}
  /\ at \in {"idle", "connect", "listener", "nested", "send", "recv"}
  /\ {m_handle, inGet, cut} \subseteq BOOLEAN
  /\ peer \in {"open", "closed", "reset"}
  /\ told \in Seq({"onConnect", "onConnectFailed", "onDisconnect"})

StreamTypes ==
  /\ m_outgoing \in Seq(Seq(Bytes) \ {<<>>})
  /\ inbound \in Seq(Bytes) /\ outbound \in Seq(Bytes) /\ began \in Seq(Nat)
  /\ sent \in Seq(ServerMessages) /\ queued \in Seq(Seq(Bytes) \ {<<>>})

\* The type invariant in three parts, of which a step disturbs some.
LEMMA TypesSplit == LobbyTypeOK <=> ReaderTypes /\ CallTypes /\ StreamTypes
  BY DEF LobbyTypeOK, ReaderTypes, CallTypes, StreamTypes

\* What the listener may have been told, as sequences of what it can be told.
Calls3 == {"onConnect", "onConnectFailed", "onDisconnect"}

\* The sequences of calls a listener can get, as sequences.
LEMMA ToldSeqs ==
  /\ <<>> \in Seq(Calls3) /\ <<"onConnect">> \in Seq(Calls3)
  /\ \A c \in Calls3 : Append(<<>>, c) = <<c>> /\ <<c>> \in Seq(Calls3)
  /\ Append(<<"onConnect">>, "onDisconnect") = <<"onConnect", "onDisconnect">>
  /\ <<"onConnect", "onDisconnect">> \in Seq(Calls3)
<1>1. \A c \in Calls3 : <<c>> \in Seq(Calls3)
  OBVIOUS
<1>2. \A c, d \in Calls3 : <<c, d>> \in Seq(Calls3)
  OBVIOUS
<1>3. \A c : Append(<<>>, c) = <<c>>
  OBVIOUS
<1>5. <<>> \in Seq(Calls3)
  OBVIOUS
<1>6. "onConnect" \in Calls3 /\ "onDisconnect" \in Calls3
  BY DEF Calls3
<1>7. <<"onConnect">> \in Seq(Calls3) /\ <<"onConnect", "onDisconnect">> \in Seq(Calls3)
  BY Zenon, <1>1, <1>2, <1>6
<1>8. \A c \in Calls3 : Append(<<>>, c) = <<c>> /\ <<c>> \in Seq(Calls3)
  BY Zenon, <1>1, <1>3
<1>4. Append(<<"onConnect">>, "onDisconnect") = <<"onConnect", "onDisconnect">>
  <2> DEFINE one == <<"onConnect">>
             two == <<"onConnect", "onDisconnect">>
  <2>1. one \in Seq(Calls3) /\ Len(one) = 1 /\ one[1] = "onConnect"
    BY <1>7
  <2>2. two \in Seq(Calls3) /\ Len(two) = 2 /\ two[1] = "onConnect" /\ two[2] = "onDisconnect"
    BY <1>7
  <2> HIDE DEF one, two
  <2>3. /\ Append(one, "onDisconnect") \in Seq(Calls3) /\ Len(Append(one, "onDisconnect")) = 2
        /\ Append(one, "onDisconnect")[1] = "onConnect" /\ Append(one, "onDisconnect")[2] = "onDisconnect"
    <3>1. "onDisconnect" \in Calls3
      BY <1>6
    <3>2. /\ Append(one, "onDisconnect") \in Seq(Calls3) /\ Len(Append(one, "onDisconnect")) = Len(one) + 1
          /\ \A i \in 1..Len(one) : Append(one, "onDisconnect")[i] = one[i]
          /\ Append(one, "onDisconnect")[Len(one) + 1] = "onDisconnect"
      BY Zenon, <2>1, <3>1, Appended
    <3> QED
      BY <2>1, <3>2
  <2>4. \A i \in 1..2 : Append(one, "onDisconnect")[i] = two[i]
    BY <2>2, <2>3
  <2>5. Append(one, "onDisconnect") = two
    BY <2>2, <2>3, <2>4, SameSeq
  <2> QED
    BY <2>5 DEF one, two
<1> QED
  BY Zenon, <1>4, <1>5, <1>7, <1>8

\* ListenerToldOnce, a state at a time.
LEMMA ToldByStatus ==
  ASSUME CallTypes
  PROVE  ListenerToldOnce <=>
           /\ m_status \in {"NOT_CONNECTED", "CONNECTING"} => told = <<>>
           /\ m_status = "CONNECTED" => told = <<"onConnect">>
           /\ m_status = "DISCONNECTED" => told \in {<<"onConnect", "onDisconnect">>, <<"onDisconnect">>, <<"onConnectFailed">>}
<1>1. CASE m_status \in {"NOT_CONNECTED", "CONNECTING"}
  BY <1>1 DEF ListenerToldOnce
<1>2. CASE m_status = "CONNECTED"
  <2>1. m_status \notin {"NOT_CONNECTED", "CONNECTING"} /\ m_status # "DISCONNECTED"
    BY <1>2
  <2> QED
    BY <1>2, <2>1 DEF ListenerToldOnce
<1>3. CASE m_status = "DISCONNECTED"
  <2>1. m_status \notin {"NOT_CONNECTED", "CONNECTING"} /\ m_status # "CONNECTED"
    BY <1>3
  <2> QED
    BY <1>3, <2>1 DEF ListenerToldOnce
<1> QED
  BY <1>1, <1>2, <1>3 DEF CallTypes

\* close tells the listener what is left to tell.
LEMMA CloseTells ==
  ASSUME CallTypes, ListenerToldOnce, Close
  PROVE  /\ m_status' = "DISCONNECTED" /\ m_handle' = FALSE /\ told' \in Seq(Calls3)
         /\ told' \in {<<"onConnect", "onDisconnect">>, <<"onDisconnect">>, <<"onConnectFailed">>}
<1>1. m_status' = "DISCONNECTED" /\ m_handle' = FALSE
  BY DEF Close
<1>2. CASE m_status = "NOT_CONNECTED"
  <2>1. told = <<>> /\ told' = Append(told, "onDisconnect")
    BY <1>2, ToldByStatus DEF Close
  <2> QED
    BY <1>1, <2>1, ToldSeqs DEF Calls3
<1>3. CASE m_status = "CONNECTING"
  <2>1. told = <<>> /\ told' = Append(told, "onConnectFailed")
    BY <1>3, ToldByStatus DEF Close
  <2> QED
    BY <1>1, <2>1, ToldSeqs DEF Calls3
<1>4. CASE m_status = "CONNECTED"
  <2>1. told = <<"onConnect">> /\ told' = Append(told, "onDisconnect")
    BY <1>4, ToldByStatus DEF Close
  <2> QED
    BY <1>1, <2>1, ToldSeqs DEF Calls3
<1>5. CASE m_status = "DISCONNECTED"
  <2>1. told' = told
    BY <1>5 DEF Close
  <2> QED
    BY <1>1, <1>5, <2>1, ToldByStatus DEF CallTypes, Calls3
<1> QED
  BY <1>1, <1>2, <1>3, <1>4, <1>5 DEF CallTypes

\* Bytes of a size make a number.
LEMMA SizeIsNat ==
  ASSUME NEW bytes \in Seq(Bytes), Len(bytes) = SizeBytes
  PROVE  SizeOf(bytes) \in Nat
  BY SizeOfUnfolds

\* The invariant holds of a connection that is not connected.
LEMMA ReaderInit == LobbyInit => ReaderInv
<1> SUFFICES ASSUME LobbyInit PROVE ReaderInv
  OBVIOUS
<1>1. ReaderTypes /\ CallTypes /\ StreamTypes
  <2>1. ReaderTypes
    BY LobbyAssumption DEF LobbyInit, ReaderTypes, Bytes
  <2>2. CallTypes
    <3>1. told \in Seq(Calls3)
      BY Zenon, ToldSeqs DEF LobbyInit
    <3>2. {m_handle, inGet, cut} \subseteq BOOLEAN
      BY DEF LobbyInit
    <3> QED
      BY <3>1, <3>2 DEF LobbyInit, CallTypes, Calls3
  <2>3. StreamTypes
    <3>1. \A V : <<>> \in Seq(V)
      OBVIOUS
    <3> QED
      BY <3>1 DEF LobbyInit, StreamTypes
  <2> QED
    BY <2>1, <2>2, <2>3
<1>2. ListenerToldOnce
  BY DEF LobbyInit, ListenerToldOnce
<1>3. ReaderKept
  BY DEF LobbyInit, ReaderKept
<1> QED
  BY <1>1, <1>2, <1>3, TypesSplit DEF ReaderInv

\* A step that leaves the reader and what it gave alone, and begins no
\* connection the reader is not ready for.
LEMMA ReaderAlone ==
  ASSUME ReaderInv, UNCHANGED <<reader, dispatched>>,
         m_status' = m_status \/ m_status' = "DISCONNECTED" \/ m_status \in {"NOT_CONNECTED", "CONNECTING"},
         at' = "connect" => m_status' = "CONNECTING"
  PROVE  ReaderTypes' /\ ReaderKept'
<1>1. ReaderTypes'
  BY TypesSplit DEF ReaderInv, ReaderTypes, reader
<1>2. ReaderKept'
  BY DEF ReaderInv, ReaderKept, reader
<1> QED
  BY <1>1, <1>2

\* A step after which the listener is where the status says.
LEMMA CallsAlone ==
  ASSUME ReaderInv, UNCHANGED <<m_status, told>>, CallTypes'
  PROVE  ListenerToldOnce'
  BY DEF ReaderInv, ListenerToldOnce

\* Being connected tells the listener once, who had been told nothing.
LEMMA ConnectedTells ==
  ASSUME ReaderInv, m_status \in {"NOT_CONNECTED", "CONNECTING"}, Connected
  PROVE  m_status' = "CONNECTED" /\ told' = <<"onConnect">> /\ told' \in Seq(Calls3) /\ late' = {} /\ m_handle' = m_handle
<1>1. told = <<>>
  BY TypesSplit, ToldByStatus DEF ReaderInv
<1>2. "onConnect" \in Calls3
  BY DEF Calls3
<1> QED
  BY <1>1, <1>2, ToldSeqs DEF Connected

\* What a listener of a connection that is over may have been told.
LEMMA ToldDisconnected ==
  ASSUME CallTypes', m_status' = "DISCONNECTED",
         told' \in {<<"onConnect", "onDisconnect">>, <<"onDisconnect">>, <<"onConnectFailed">>}
  PROVE  ListenerToldOnce'
<1>1. m_status' \notin {"NOT_CONNECTED", "CONNECTING"} /\ m_status' # "CONNECTED"
  OBVIOUS
<1> QED
  BY <1>1 DEF ListenerToldOnce

\* What a listener of a connection that is up has been told.
LEMMA ToldConnected ==
  ASSUME m_status' = "CONNECTED", told' = <<"onConnect">>
  PROVE  ListenerToldOnce'
<1>1. m_status' \notin {"NOT_CONNECTED", "CONNECTING"}
  OBVIOUS
<1> QED
  BY <1>1 DEF ListenerToldOnce

\* close, in any step that calls it.
LEMMA CloseKeeps ==
  ASSUME ReaderInv, Close, late' \subseteq {"keepAlive", "receive"}, at' \in {"idle", "listener", "recv"},
         inGet' \in BOOLEAN, cut' = cut, peer' = peer
  PROVE  CallTypes' /\ ListenerToldOnce' /\ m_status' = "DISCONNECTED"
<1>1. CallTypes /\ ListenerToldOnce
  BY TypesSplit DEF ReaderInv
<1>2. /\ m_status' = "DISCONNECTED" /\ m_handle' = FALSE /\ told' \in Seq(Calls3)
      /\ told' \in {<<"onConnect", "onDisconnect">>, <<"onDisconnect">>, <<"onConnectFailed">>}
  BY <1>1, CloseTells
<1>3. CallTypes'
  BY <1>1, <1>2 DEF CallTypes, Calls3
<1> QED
  BY <1>2, <1>3, ToldDisconnected

\* What is enough for the invariant after a step.
LEMMA Enough ==
  ASSUME ReaderTypes', CallTypes', StreamTypes', ListenerToldOnce', ReaderKept'
  PROVE  ReaderInv'
  BY DEF ReaderInv, LobbyTypeOK, ReaderTypes, CallTypes, StreamTypes

\* A step that leaves the streams alone.
LEMMA StreamsAlone ==
  ASSUME ReaderInv, UNCHANGED <<m_outgoing, inbound, outbound, began, sent, queued>>
  PROVE  StreamTypes'
  BY TypesSplit DEF ReaderInv, StreamTypes

\* The calls of the program.
LEMMA CallsKeepReader ==
  ASSUME ReaderInv, Calls \/ Poll
  PROVE  ReaderInv'
<1> USE DEF reader, streams
<1>0. CallTypes /\ ListenerToldOnce /\ StreamTypes /\ ReaderKept
  BY TypesSplit DEF ReaderInv
<1>1. CASE Connect
  <2>1. ReaderTypes' /\ ReaderKept'
    <3>1. at' = "idle" /\ m_status = "NOT_CONNECTED" /\ UNCHANGED <<reader, dispatched>>
      BY <1>1 DEF Connect
    <3> QED
      BY <3>1, ReaderAlone
  <2>2. StreamTypes'
    BY <1>1, StreamsAlone DEF Connect
  <2>3. CASE m_status' = "CONNECTING" /\ UNCHANGED <<m_handle, told, late>>
    <3>1. told' = <<>>
      BY <1>0, <1>1, <2>3, ToldByStatus DEF Connect
    <3> QED
      BY <1>0, <1>1, <2>1, <2>2, <2>3, <3>1, Enough DEF Connect, CallTypes, ListenerToldOnce
  <2>4. CASE Connected
    <3>1. m_status' = "CONNECTED" /\ told' = <<"onConnect">> /\ told' \in Seq(Calls3) /\ late' = {} /\ m_handle' = m_handle
      BY <1>1, <2>4, ConnectedTells DEF Connect
    <3>2. CallTypes'
      BY <1>0, <1>1, <3>1 DEF CallTypes, Connect, Calls3
    <3> QED
      BY <2>1, <2>2, <3>1, <3>2, ToldConnected, Enough
  <2>5. CASE m_status' = "DISCONNECTED" /\ m_handle' = FALSE /\ told' = Append(told, "onConnectFailed") /\ UNCHANGED late
    <3>1. told = <<>>
      BY <1>0, <1>1, ToldByStatus DEF Connect
    <3>2. told' = <<"onConnectFailed">> /\ told' \in Seq(Calls3)
      BY <2>5, <3>1, ToldSeqs DEF Calls3
    <3>3. CallTypes'
      BY <1>0, <1>1, <2>5, <3>2 DEF CallTypes, Connect, Calls3
    <3> QED
      BY <2>1, <2>2, <2>5, <3>2, <3>3, ToldDisconnected, Enough
  <2> QED
    BY <1>1, <2>3, <2>4, <2>5 DEF Connect
<1>2. CASE Disconnect
  <2>1. CallTypes' /\ ListenerToldOnce' /\ m_status' = "DISCONNECTED"
    BY <1>0, <1>2, CloseKeeps DEF Disconnect, Free, CallTypes
  <2>2. ReaderTypes' /\ ReaderKept'
    BY <1>2, <2>1, ReaderAlone DEF Disconnect, Free
  <2>3. StreamTypes'
    BY <1>2, StreamsAlone DEF Disconnect
  <2> QED
    BY <2>1, <2>2, <2>3, Enough
<1>3. ASSUME NEW bytes \in Seq(Bytes) \ {<<>>},
             Enqueue(bytes) \/ UNCHANGED <<m_outgoing, queued>>, Free, StartPump(FALSE),
             UNCHANGED <<m_status, m_handle, reader, late, streams, told, dispatched>>
      PROVE  ReaderInv'
  <2>1. at' \in {"nested", "connect", "send"} /\ inGet' \in BOOLEAN /\ (at' = "connect" => m_status = "CONNECTING")
    BY <1>0, <1>3 DEF StartPump, CallTypes
  <2>2. CallTypes'
    BY <1>0, <1>3, <2>1 DEF CallTypes
  <2>3. ReaderTypes' /\ ReaderKept'
    BY <1>3, <2>1, ReaderAlone
  <2>4. StreamTypes'
    <3>1. CASE Enqueue(bytes)
      <4>1. m_outgoing' = Append(m_outgoing, bytes) /\ queued' = Append(queued, bytes)
        BY <3>1 DEF Enqueue
      <4>2. m_outgoing' \in Seq(Seq(Bytes) \ {<<>>}) /\ queued' \in Seq(Seq(Bytes) \ {<<>>})
        BY Zenon, <1>0, <4>1, Appended DEF StreamTypes
      <4> QED
        BY <1>0, <1>3, <4>2 DEF StreamTypes
    <3>2. CASE UNCHANGED <<m_outgoing, queued>>
      BY <1>3, <3>2, StreamsAlone
    <3> QED
      BY <1>3, <3>1, <3>2
  <2> QED
    BY <1>3, <2>2, <2>3, <2>4, CallsAlone, Enough
<1>5. CASE \E m \in ClientMessages : SendTask(m)
  <2> PICK m \in ClientMessages : SendTask(m)
    BY <1>5
  <2>1. Frame(m) \in Seq(Bytes) \ {<<>>}
    BY LobbyAssumption, FrameFacts
  <2> QED
    BY Zenon, <1>3, <2>1 DEF SendTask
<1>6. CASE \E bytes \in RawMessages : SendRaw(bytes)
  <2> PICK bytes \in RawMessages : SendRaw(bytes)
    BY <1>6
  <2>1. bytes \in Seq(Bytes) \ {<<>>}
    BY RawAssumption
  <2> QED
    BY Zenon, <1>3, <2>1 DEF SendRaw
<1>4. CASE Poll
  <2>1. /\ UNCHANGED <<m_status, m_handle, reader, m_outgoing, late, streams, told, queued, dispatched>>
        /\ at' \in {"connect", "send"} /\ (at' = "connect" => m_status = "CONNECTING") /\ inGet' = TRUE
    BY <1>4 DEF Poll, StartPump
  <2>2. CallTypes'
    BY <1>0, <2>1 DEF CallTypes
  <2>3. ReaderTypes' /\ ReaderKept'
    BY <2>1, ReaderAlone
  <2>4. StreamTypes'
    BY <2>1, StreamsAlone
  <2> QED
    BY <2>1, <2>2, <2>3, <2>4, CallsAlone, Enough
<1> QED
  BY <1>1, <1>2, <1>4, <1>5, <1>6 DEF Calls

\* pump.
LEMMA PumpingKeepsReader ==
  ASSUME ReaderInv, Pumping
  PROVE  ReaderInv'
<1> USE DEF reader, streams
<1>0. CallTypes /\ ListenerToldOnce /\ StreamTypes /\ ReaderKept
  BY TypesSplit DEF ReaderInv
<1>1. ASSUME Return PROVE at' \in {"idle", "listener", "recv"} /\ inGet' \in BOOLEAN
  BY <1>0, <1>1 DEF Return, CallTypes
<1>2. CASE PumpConnecting
  <2>1. m_status = "CONNECTING"
    BY <1>0, <1>2 DEF PumpConnecting, ReaderKept
  <2>2. StreamTypes'
    BY <1>2, StreamsAlone DEF PumpConnecting
  <2>3. CASE Connected /\ at' = "listener" /\ UNCHANGED inGet
    <3>1. m_status' = "CONNECTED" /\ told' = <<"onConnect">> /\ told' \in Seq(Calls3) /\ late' = {} /\ m_handle' = m_handle
      BY <2>1, <2>3, ConnectedTells
    <3>2. CallTypes'
      BY <1>0, <1>2, <2>3, <3>1 DEF CallTypes, PumpConnecting, Calls3
    <3>3. ReaderTypes' /\ ReaderKept'
      BY <1>2, <2>1, <2>3, ReaderAlone DEF PumpConnecting
    <3> QED
      BY <2>2, <3>1, <3>2, <3>3, ToldConnected, Enough
  <2>4. CASE Close /\ UNCHANGED late /\ Return
    <3>1. CallTypes' /\ ListenerToldOnce' /\ m_status' = "DISCONNECTED"
      BY <1>0, <1>1, <1>2, <2>4, CloseKeeps DEF PumpConnecting, CallTypes
    <3>2. ReaderTypes' /\ ReaderKept'
      BY <1>1, <1>2, <2>4, <3>1, ReaderAlone DEF PumpConnecting
    <3> QED
      BY <2>2, <3>1, <3>2, Enough
  <2> QED
    BY <1>2, <2>3, <2>4 DEF PumpConnecting
<1>3. CASE SendSome
  <2> DEFINE head == Head(m_outgoing)
  <2>1. /\ UNCHANGED <<m_status, m_handle, reader, at, inGet, inbound, peer, cut, sent, told, queued, dispatched>>
        /\ late' = late \ {"keepAlive"} /\ at \in {"send", "nested"} /\ m_outgoing # <<>>
    BY <1>3 DEF SendSome, InPump
  <2>2. CallTypes'
    BY <1>0, <2>1 DEF CallTypes
  <2>3. ReaderTypes' /\ ReaderKept'
    BY <2>1, ReaderAlone
  <2>4. StreamTypes'
    <3>1. PICK n \in 1..Len(head) :
             /\ outbound' = outbound \o SubSeq(head, 1, n)
             /\ m_outgoing' = IF n = Len(head) THEN Tail(m_outgoing)
                              ELSE <<SubSeq(head, n + 1, Len(head))>> \o Tail(m_outgoing)
      BY <1>3 DEF SendSome, Takes
    <3>2. head \in Seq(Bytes) \ {<<>>} /\ Tail(m_outgoing) \in Seq(Seq(Bytes) \ {<<>>})
      BY <1>0, <2>1 DEF StreamTypes
    <3> HIDE DEF head
    <3>3. n \in 0..Len(head)
      BY <3>1, <3>2
    <3>4. SubSeq(head, 1, n) \in Seq(Bytes) /\ SubSeq(head, n + 1, Len(head)) \in Seq(Bytes)
             /\ Len(SubSeq(head, n + 1, Len(head))) = Len(head) - n
      BY <3>2, <3>3, CutInTwo
    <3>5. outbound' \in Seq(Bytes)
      BY <1>0, <3>1, <3>4, Joined DEF StreamTypes
    <3>6. m_outgoing' \in Seq(Seq(Bytes) \ {<<>>})
      <4>1. CASE n = Len(head)
        BY <3>1, <3>2, <4>1
      <4>2. CASE n # Len(head)
        <5>1. SubSeq(head, n + 1, Len(head)) \in Seq(Bytes) \ {<<>>}
          <6>1. Len(SubSeq(head, n + 1, Len(head))) # 0
            BY <3>2, <3>3, <3>4, <4>2
          <6>2. Len(<<>>) = 0
            OBVIOUS
          <6> QED
            BY Zenon, <3>4, <6>1, <6>2
        <5>2. <<SubSeq(head, n + 1, Len(head))>> \in Seq(Seq(Bytes) \ {<<>>})
          BY <5>1
        <5>3. <<SubSeq(head, n + 1, Len(head))>> \o Tail(m_outgoing) \in Seq(Seq(Bytes) \ {<<>>})
          BY Zenon, <3>2, <5>2, Joined
        <5> QED
          BY <3>1, <4>2, <5>3
      <4> QED
        BY <4>1, <4>2
    <3>7. began' \in Seq(Nat)
      <4>1. Len(outbound) \in Nat
        BY <1>0 DEF StreamTypes
      <4> QED
        BY Zenon, <1>0, <1>3, <4>1, Appended DEF StreamTypes, SendSome
    <3> QED
      BY <1>0, <2>1, <3>5, <3>6, <3>7 DEF StreamTypes
  <2> QED
    BY <2>1, <2>2, <2>3, <2>4, CallsAlone, Enough
<1>4. CASE SendNothing
  <2>1. StreamTypes'
    BY <1>4, StreamsAlone DEF SendNothing
  <2>2. at' \in {"idle", "listener", "recv"} /\ inGet' \in BOOLEAN /\ UNCHANGED <<reader, m_outgoing, late, streams, queued, dispatched>>
    BY <1>1, <1>4 DEF SendNothing
  <2>3. CASE Close
    <3>1. CallTypes' /\ ListenerToldOnce' /\ m_status' = "DISCONNECTED"
      BY <1>0, <2>2, <2>3, CloseKeeps DEF CallTypes
    <3> QED
      BY <2>1, <2>2, <3>1, ReaderAlone, Enough
  <2>4. CASE UNCHANGED <<m_status, m_handle, told>>
    <3>1. CallTypes'
      BY <1>0, <2>2, <2>4 DEF CallTypes
    <3> QED
      BY <2>1, <2>2, <2>4, <3>1, ReaderAlone, CallsAlone, Enough
  <2> QED
    BY <1>4, <2>3, <2>4 DEF SendNothing
<1>5. CASE SendKeepAlive
  <2>1. at \in {"send", "nested"} /\ UNCHANGED <<reader, m_outgoing, inbound, began, peer, sent, queued, dispatched>>
    BY <1>5 DEF SendKeepAlive, InPump
  <2>2. CASE /\ \E n \in 0..SizeBytes :
                   /\ Takes(KeepAlive, n)
                   /\ cut' = (cut \/ (n > 0 /\ ~(n = SizeBytes /\ Established)))
             /\ late' = late \ {"keepAlive"}
             /\ UNCHANGED <<m_status, m_handle, told, at, inGet>>
    <3>1. PICK n \in 0..SizeBytes : Takes(KeepAlive, n) /\ cut' = (cut \/ (n > 0 /\ ~(n = SizeBytes /\ Established)))
      BY <2>2
    <3>2. cut' \in BOOLEAN
      BY <3>1
    <3>3. CallTypes'
      BY <1>0, <2>1, <2>2, <3>2 DEF CallTypes
    <3>4. outbound' \in Seq(Bytes)
      <4>1. SubSeq(KeepAlive, 1, n) \in Seq(Bytes)
        BY KeepAliveFacts, CutInTwo
      <4> QED
        BY <1>0, <3>1, <4>1, Joined DEF StreamTypes, Takes
    <3>5. StreamTypes'
      BY <1>0, <2>1, <3>4 DEF StreamTypes
    <3> QED
      BY <2>1, <2>2, <3>3, <3>5, ReaderAlone, CallsAlone, Enough
  <2>3. CASE Close /\ Return /\ UNCHANGED <<outbound, cut, late>>
    <3>1. CallTypes' /\ ListenerToldOnce' /\ m_status' = "DISCONNECTED"
      BY <1>0, <1>1, <2>1, <2>3, CloseKeeps DEF CallTypes
    <3>2. ReaderTypes' /\ ReaderKept'
      BY <1>1, <2>1, <2>3, <3>1, ReaderAlone
    <3>3. StreamTypes'
      BY <2>1, <2>3, StreamsAlone
    <3> QED
      BY <3>1, <3>2, <3>3, Enough
  <2> QED
    BY <1>5, <2>2, <2>3 DEF SendKeepAlive
<1>6. CASE CheckSilence
  <2>1. StreamTypes'
    BY <1>6, StreamsAlone DEF CheckSilence
  <2>2. at' \in {"idle", "listener", "recv"} /\ inGet' \in BOOLEAN /\ UNCHANGED <<reader, m_outgoing, late, streams, queued, dispatched>>
    BY <1>1, <1>6 DEF CheckSilence
  <2>3. CASE Close
    <3>1. CallTypes' /\ ListenerToldOnce' /\ m_status' = "DISCONNECTED"
      BY <1>0, <2>2, <2>3, CloseKeeps DEF CallTypes
    <3> QED
      BY <2>1, <2>2, <3>1, ReaderAlone, Enough
  <2>4. CASE UNCHANGED <<m_status, m_handle, told>>
    <3>1. CallTypes'
      BY <1>0, <2>2, <2>4 DEF CallTypes
    <3> QED
      BY <2>1, <2>2, <2>4, <3>1, ReaderAlone, CallsAlone, Enough
  <2> QED
    BY <1>6, <2>3, <2>4 DEF CheckSilence
<1>7. CASE ListenerReturns
  <2>1. /\ UNCHANGED <<m_status, m_handle, reader, m_outgoing, late, inGet, streams, told, queued, dispatched>>
        /\ at' = "send"
    BY <1>7 DEF ListenerReturns
  <2>2. CallTypes'
    BY <1>0, <2>1 DEF CallTypes
  <2>3. ReaderTypes' /\ ReaderKept' /\ StreamTypes'
    BY <2>1, ReaderAlone, StreamsAlone
  <2> QED
    BY <2>1, <2>2, <2>3, CallsAlone, Enough
<1> QED
  BY <1>2, <1>3, <1>4, <1>5, <1>6, <1>7 DEF Pumping

\* The server, the network and the clock.
LEMMA OutsideKeepsReader ==
  ASSUME ReaderInv, Outside
  PROVE  ReaderInv'
<1> USE DEF reader, streams
<1>0. CallTypes /\ ListenerToldOnce /\ StreamTypes /\ ReaderKept
  BY TypesSplit DEF ReaderInv
<1>1. UNCHANGED <<m_status, m_handle, reader, m_outgoing, at, inGet, outbound, began, cut, told, queued, dispatched>>
  BY DEF Outside, ServerSend, ServerKeepAlive, ServerCloses, Reset, QuietFor40, SilentFor120, OnlyStreams
<1>2. ReaderTypes' /\ ReaderKept'
  BY <1>0, <1>1, ReaderAlone DEF ReaderKept
<1>3. late' \subseteq {"keepAlive", "receive"} /\ peer' \in {"open", "closed", "reset"}
  BY <1>0 DEF CallTypes, Outside, ServerSend, ServerKeepAlive, ServerCloses, Reset, QuietFor40, SilentFor120, OnlyStreams
<1>4. CallTypes'
  BY <1>0, <1>1, <1>3 DEF CallTypes
<1>5. inbound' \in Seq(Bytes) /\ sent' \in Seq(ServerMessages)
  <2>1. CASE \E m \in ServerMessages : ServerSend(m)
    <3> PICK m \in ServerMessages : ServerSend(m)
      BY <2>1
    <3>1. Frame(m) \in Seq(Bytes)
      BY LobbyAssumption, FrameFacts
    <3> QED
      BY Zenon, <1>0, <3>1, Joined, Appended DEF ServerSend, StreamTypes
  <2>2. CASE ServerKeepAlive
    BY Zenon, <1>0, <2>2, KeepAliveFacts, Joined DEF ServerKeepAlive, StreamTypes
  <2>3. CASE ServerCloses \/ QuietFor40 \/ SilentFor120
    BY <1>0, <2>3 DEF ServerCloses, QuietFor40, SilentFor120, OnlyStreams, StreamTypes
  <2>4. CASE Reset
    <3>1. inbound' = <<>> /\ sent' = sent
      BY <2>4 DEF Reset
    <3> QED
      BY <1>0, <3>1 DEF StreamTypes
  <2> QED
    BY <2>1, <2>2, <2>3, <2>4 DEF Outside
<1>6. StreamTypes'
  BY <1>0, <1>1, <1>5 DEF StreamTypes
<1> QED
  BY <1>1, <1>2, <1>4, <1>6, CallsAlone, Enough

\* The reader.
LEMMA ReceivingKeepsReader ==
  ASSUME ReaderInv, Receiving
  PROVE  ReaderInv'
<1> USE DEF reader, streams
<1>0. CallTypes /\ ListenerToldOnce /\ StreamTypes /\ ReaderKept /\ ReaderTypes
  BY TypesSplit DEF ReaderInv
<1>a. at = "recv" /\ m_status = "CONNECTED"
  BY DEF Receiving, RecvSize, RecvEncrypt, RecvMessage, RecvNothing, Dispatch, Reading
<1>b. SizeBytes \in Nat \ {0} /\ MaxRecvSize \in Nat \ {0} /\ 0 \in Bytes
  BY LobbyAssumption DEF Bytes
<1>c. inbound \in Seq(Bytes) /\ m_msgSizeBuffer \in Seq(Bytes) /\ m_recvMessage \in Seq(Bytes) /\ <<>> \in Seq(Bytes)
  BY <1>0 DEF StreamTypes, ReaderTypes
<1>1. CASE RecvSize
  <2>1. SoFar \in Seq(Bytes) /\ Len(SoFar) < SizeBytes
    <3>1. CASE m_recvState = "INIT"
      <4>1. SoFar = <<>>
        BY <3>1 DEF SoFar
      <4> QED
        BY <1>b, <4>1
    <3>2. CASE m_recvState = "SIZE"
      <4>1. SoFar = m_msgSizeBuffer
        BY <3>2 DEF SoFar
      <4> QED
        BY <1>0, <1>a, <1>c, <3>2, <4>1 DEF ReaderKept
    <3> QED
      BY <1>1, <3>1, <3>2 DEF RecvSize
  <2>2. PICK n \in 1..SizeBytes - Len(SoFar) :
        /\ n <= Len(inbound)
        /\ inbound' = SubSeq(inbound, n + 1, Len(inbound))
        /\ m_msgSizeBuffer' = SizeRead(n)
        /\ IF Len(SoFar) + n < SizeBytes
           THEN /\ m_recvState' = "SIZE" /\ m_messageSize' = 0
                /\ late' = late \ {"receive"}
                /\ UNCHANGED <<m_status, m_handle, told>>
           ELSE LET size == SizeOf(SizeRead(n))
                IN  /\ m_messageSize' = size
                    /\ IF size > MaxRecvSize
                       THEN Close /\ m_recvState' = "SIZE" /\ UNCHANGED late
                       ELSE /\ m_recvState' = IF size = 0 THEN "INIT"
                                                          ELSE "ENCRYPT"
                            /\ late' = late \ {"receive"}
                            /\ UNCHANGED <<m_status, m_handle, told>>
        /\ m_recvEncryptType' = IF m_recvState = "INIT" THEN 0
                                                        ELSE m_recvEncryptType
        /\ m_recvMessage' = IF m_recvState = "INIT" THEN <<>> ELSE m_recvMessage
        /\ RepeatUnless(m_recvState' = m_recvState \/ m_status' # "CONNECTED")
    BY <1>1 DEF RecvSize
  <2> DEFINE read == SizeRead(n)
  <2>3. n \in 0..Len(inbound) /\ n \in Nat \ {0} /\ Len(SoFar) + n <= SizeBytes
    <3>1. n \in 1..SizeBytes - Len(SoFar) /\ n <= Len(inbound)
      BY <2>2
    <3>2. Len(SoFar) \in Nat /\ Len(inbound) \in Nat
      BY <1>c, <2>1
    <3> QED
      BY <1>b, <3>1, <3>2
  <2>4. read \in Seq(Bytes) /\ Len(read) = Len(SoFar) + n /\ inbound' \in Seq(Bytes)
    <3>1. SubSeq(inbound, 1, n) \in Seq(Bytes) /\ Len(SubSeq(inbound, 1, n)) = n /\ SubSeq(inbound, n + 1, Len(inbound)) \in Seq(Bytes)
      BY <1>c, <2>3, CutInTwo
    <3>2. read = SoFar \o SubSeq(inbound, 1, n)
      BY DEF SizeRead
    <3>3. SoFar \o SubSeq(inbound, 1, n) \in Seq(Bytes) /\ Len(SoFar \o SubSeq(inbound, 1, n)) = Len(SoFar) + Len(SubSeq(inbound, 1, n))
      BY Zenon, <2>1, <3>1, Joined
    <3> QED
      BY <2>2, <3>1, <3>2, <3>3
  <2>5. at' \in {"idle", "recv"}
    BY <2>2 DEF RepeatUnless
  <2>6. UNCHANGED <<m_outgoing, inGet, outbound, began, peer, cut, sent, queued, dispatched>>
    BY <1>1 DEF RecvSize
  <2>7. StreamTypes'
    BY <1>0, <2>4, <2>6 DEF StreamTypes
  <2>8. m_recvEncryptType' \in Bytes /\ m_recvMessage' \in Seq(Bytes) /\ Len(m_recvMessage') <= MaxRecvSize
    <3>1. CASE m_recvState = "INIT"
      <4>1. m_recvEncryptType' = 0 /\ m_recvMessage' = <<>>
        BY <2>2, <3>1
      <4> QED
        BY <1>b, <1>c, <4>1
    <3>2. CASE m_recvState # "INIT"
      BY <1>0, <2>2, <3>2 DEF ReaderTypes
    <3> QED
      BY <3>1, <3>2
  <2> HIDE DEF read
  <2>9. m_msgSizeBuffer' = read
    BY <2>2 DEF read
  <2>10. CASE Len(SoFar) + n < SizeBytes
    <3>1. m_recvState' = "SIZE" /\ m_messageSize' = 0 /\ late' = late \ {"receive"} /\ UNCHANGED <<m_status, m_handle, told>>
      BY <2>2, <2>10
    <3>2. CallTypes'
      BY <1>0, <2>5, <2>6, <3>1 DEF CallTypes
    <3>3. ReaderTypes'
      BY <2>3, <2>4, <2>8, <2>9, <3>1 DEF ReaderTypes
    <3>4. ReaderKept'
      BY <1>0, <1>a, <2>4, <2>5, <2>6, <2>9, <2>10, <3>1 DEF ReaderKept
    <3> QED
      BY <2>7, <3>1, <3>2, <3>3, <3>4, CallsAlone, Enough
  <2>11. CASE ~(Len(SoFar) + n < SizeBytes)
    <3>1. Len(read) = SizeBytes
      BY <1>b, <2>1, <2>3, <2>4, <2>11
    <3>2. SizeOf(read) \in Nat
      BY <2>4, <3>1, SizeIsNat
    <3>3. m_messageSize' = SizeOf(read)
      BY <2>2, <2>11 DEF read
    <3>4. CASE SizeOf(read) > MaxRecvSize
      <4>1. Close /\ m_recvState' = "SIZE" /\ UNCHANGED late
        BY <2>2, <2>11, <3>4 DEF read
      <4>2. CallTypes' /\ ListenerToldOnce' /\ m_status' = "DISCONNECTED"
        BY <1>0, <2>5, <2>6, <4>1, CloseKeeps DEF CallTypes
      <4>3. ReaderTypes'
        BY <2>3, <2>4, <2>8, <2>9, <3>1, <3>2, <3>3, <4>1 DEF ReaderTypes
      <4>4. ReaderKept'
        BY <1>0, <2>5, <2>6, <4>1, <4>2 DEF ReaderKept
      <4> QED
        BY <2>7, <4>2, <4>3, <4>4, Enough
    <3>5. CASE ~(SizeOf(read) > MaxRecvSize)
      <4>1. /\ m_recvState' = (IF SizeOf(read) = 0 THEN "INIT" ELSE "ENCRYPT")
            /\ late' = late \ {"receive"} /\ UNCHANGED <<m_status, m_handle, told>>
        BY <2>2, <2>11, <3>5 DEF read
      <4>2. CallTypes'
        BY <1>0, <2>5, <2>6, <4>1 DEF CallTypes
      <4>3. ReaderTypes'
        BY <2>3, <2>4, <2>8, <2>9, <3>1, <3>2, <3>3, <4>1 DEF ReaderTypes
      <4>4. ReaderKept'
        BY <1>0, <1>a, <1>b, <2>5, <2>6, <2>9, <3>1, <3>2, <3>3, <3>5, <4>1 DEF ReaderKept
      <4> QED
        BY <2>7, <4>1, <4>2, <4>3, <4>4, CallsAlone, Enough
    <3> QED
      BY <3>4, <3>5
  <2> QED
    BY <2>10, <2>11
<1>2. CASE RecvEncrypt
  <2>1. /\ m_recvState = "ENCRYPT" /\ inbound # <<>>
        /\ m_recvEncryptType' = Head(inbound) /\ inbound' = Tail(inbound)
        /\ m_recvMessage' = <<>> /\ m_recvState' = "MESSAGE"
        /\ late' = late \ {"receive"}
        /\ UNCHANGED <<m_status, m_handle, m_msgSizeBuffer, m_messageSize, m_outgoing, at, inGet, outbound, began, peer,
                       cut, sent, told, queued, dispatched>>
    BY <1>2 DEF RecvEncrypt
  <2>2. Head(inbound) \in Bytes /\ Tail(inbound) \in Seq(Bytes)
    BY <1>c, <2>1
  <2>3. CallTypes'
    BY <1>0, <2>1 DEF CallTypes
  <2>4. StreamTypes'
    BY <1>0, <2>1, <2>2 DEF StreamTypes
  <2>5. m_recvMessage' \in Seq(Bytes) /\ Len(m_recvMessage') = 0
    BY <1>c, <2>1
  <2>6. ReaderTypes'
    BY <1>0, <1>b, <2>1, <2>2, <2>5 DEF ReaderTypes
  <2>7. ReaderKept'
    BY <1>0, <1>b, <2>1, <2>5 DEF ReaderKept
  <2> QED
    BY <2>1, <2>3, <2>4, <2>6, <2>7, CallsAlone, Enough
<1>3. CASE RecvMessage
  <2>1. PICK n \in 1..Wanted :
        /\ n <= Len(inbound)
        /\ m_recvMessage' = m_recvMessage \o SubSeq(inbound, 1, n)
        /\ inbound' = SubSeq(inbound, n + 1, Len(inbound))
        /\ m_recvState' = IF n = Wanted THEN "COMPLETE" ELSE "MESSAGE"
        /\ RepeatUnless(n < Wanted)
    BY <1>3 DEF RecvMessage
  <2>2. /\ m_recvState = "MESSAGE" /\ late' = late \ {"receive"}
        /\ UNCHANGED <<m_status, m_handle, m_msgSizeBuffer, m_messageSize, m_recvEncryptType, m_outgoing, inGet,
                       outbound, began, peer, cut, sent, told, queued, dispatched>>
    BY <1>3 DEF RecvMessage
  <2>3. m_messageSize \in 1..MaxRecvSize /\ Len(m_recvMessage) \in Nat /\ Wanted = m_messageSize - 1 - Len(m_recvMessage)
    BY <1>0, <1>c, <2>2 DEF ReaderKept, Wanted
  <2>4. n \in 0..Len(inbound) /\ n \in Nat \ {0} /\ n <= m_messageSize - 1 - Len(m_recvMessage)
    BY <1>b, <1>c, <2>1, <2>3
  <2>5. SubSeq(inbound, 1, n) \in Seq(Bytes) /\ Len(SubSeq(inbound, 1, n)) = n /\ SubSeq(inbound, n + 1, Len(inbound)) \in Seq(Bytes)
    BY <1>c, <2>4, CutInTwo
  <2>6. m_recvMessage' \in Seq(Bytes) /\ Len(m_recvMessage') = Len(m_recvMessage) + n
    <3>1. m_recvMessage \o SubSeq(inbound, 1, n) \in Seq(Bytes)
          /\ Len(m_recvMessage \o SubSeq(inbound, 1, n)) = Len(m_recvMessage) + Len(SubSeq(inbound, 1, n))
      BY Zenon, <1>c, <2>5, Joined
    <3> QED
      BY <2>1, <2>5, <3>1
  <2>7. at' \in {"idle", "recv"} /\ m_recvState' \in {"MESSAGE", "COMPLETE"}
    BY <2>1 DEF RepeatUnless
  <2>8. CallTypes'
    BY <1>0, <2>2, <2>7 DEF CallTypes
  <2>9. StreamTypes'
    BY <1>0, <2>1, <2>2, <2>5 DEF StreamTypes
  <2>10. Len(m_recvMessage') <= m_messageSize - 1
    BY <2>3, <2>4, <2>6
  <2>11. ReaderTypes'
    BY <1>0, <1>b, <2>2, <2>3, <2>6, <2>7, <2>10 DEF ReaderTypes
  <2>12. m_recvState' = "COMPLETE" => Len(m_recvMessage') = m_messageSize - 1
    BY <2>1, <2>3, <2>6
  <2>13. ReaderKept'
    BY <1>0, <1>a, <2>2, <2>7, <2>10, <2>12 DEF ReaderKept
  <2> QED
    BY <2>2, <2>8, <2>9, <2>11, <2>13, CallsAlone, Enough
<1>4. CASE RecvNothing
  <2>1. StreamTypes'
    BY <1>4, StreamsAlone DEF RecvNothing
  <2>2. UNCHANGED <<m_outgoing, late, inGet, streams, queued, dispatched>> /\ at' \in {"idle", "recv"}
    BY <1>4 DEF RecvNothing
  <2>3. CASE m_recvState = "INIT"
    <3>1. /\ m_recvState' = "SIZE" /\ m_msgSizeBuffer' = <<>> /\ m_messageSize' = 0 /\ m_recvEncryptType' = 0
          /\ m_recvMessage' = <<>> /\ UNCHANGED <<m_status, m_handle, told>>
      BY <1>4, <2>3 DEF RecvNothing
    <3>2. CallTypes'
      BY <1>0, <2>2, <3>1 DEF CallTypes
    <3>3. m_msgSizeBuffer' \in Seq(Bytes) /\ Len(m_msgSizeBuffer') = 0 /\ m_recvMessage' \in Seq(Bytes) /\ Len(m_recvMessage') = 0
      BY <1>c, <3>1
    <3>4. ReaderTypes'
      BY <1>b, <3>1, <3>3 DEF ReaderTypes
    <3>5. ReaderKept'
      BY <1>0, <1>a, <1>b, <2>2, <3>1, <3>3 DEF ReaderKept
    <3> QED
      BY <2>1, <3>1, <3>2, <3>4, <3>5, CallsAlone, Enough
  <2>4. CASE m_recvState # "INIT"
    <3>1. UNCHANGED reader
      BY <1>4, <2>4 DEF RecvNothing
    <3>2. CASE UNCHANGED <<m_status, m_handle, told>>
      <4>1. CallTypes'
        BY <1>0, <2>2, <3>2 DEF CallTypes
      <4> QED
        BY <2>1, <2>2, <3>1, <3>2, <4>1, ReaderAlone, CallsAlone, Enough
    <3>3. CASE Close
      <4>1. CallTypes' /\ ListenerToldOnce' /\ m_status' = "DISCONNECTED"
        BY <1>0, <2>2, <3>3, CloseKeeps DEF CallTypes
      <4> QED
        BY <2>1, <2>2, <3>1, <4>1, ReaderAlone, Enough
    <3>4. CASE told' = Append(told, "onDisconnect") /\ m_status' = "DISCONNECTED" /\ UNCHANGED m_handle
      <4>1. told = <<"onConnect">>
        BY <1>0, <1>a, ToldByStatus
      <4>2. told' = <<"onConnect", "onDisconnect">> /\ told' \in Seq(Calls3)
        BY <3>4, <4>1, ToldSeqs
      <4>3. CallTypes'
        BY <1>0, <2>2, <3>4, <4>2 DEF CallTypes, Calls3
      <4>4. ListenerToldOnce'
        BY <3>4, <4>2, <4>3, ToldDisconnected
      <4> QED
        BY <2>1, <2>2, <3>1, <3>4, <4>3, <4>4, ReaderAlone, Enough
    <3> QED
      BY <1>4, <2>4, <3>2, <3>3, <3>4 DEF RecvNothing
  <2> QED
    BY <2>3, <2>4
<1>5. CASE Dispatch
  <2>1. /\ at' = "idle" /\ m_recvState = "COMPLETE"
        /\ UNCHANGED <<m_status, m_handle, m_msgSizeBuffer, m_messageSize, m_recvEncryptType, m_recvMessage, m_outgoing,
                       late, inGet, streams, told, queued>>
    BY <1>5 DEF Dispatch
  <2>2. CallTypes' /\ StreamTypes'
    BY <1>0, <2>1 DEF CallTypes, StreamTypes
  <2>3. Message \in [enc : Bytes, body : Seq(Bytes)]
    BY <1>0 DEF Message, ReaderTypes
  <2>4. CASE Decrypts(Message)
    <3>1. dispatched' = Append(dispatched, Message) /\ m_recvState' = "INIT"
      BY <1>5, <2>4 DEF Dispatch
    <3>2. dispatched' \in Seq([enc : Bytes, body : Seq(Bytes)])
      BY Zenon, <1>0, <2>3, <3>1, Appended DEF ReaderKept
    <3>3. ReaderTypes' /\ ReaderKept'
      BY <1>0, <1>a, <2>1, <3>1, <3>2 DEF ReaderTypes, ReaderKept
    <3> QED
      BY <2>1, <2>2, <3>3, CallsAlone, Enough
  <2>5. CASE ~Decrypts(Message)
    <3>1. UNCHANGED <<dispatched, m_recvState>>
      BY <1>5, <2>5 DEF Dispatch
    <3> QED
      BY <2>1, <2>2, <3>1, ReaderAlone, CallsAlone, Enough
  <2> QED
    BY <2>4, <2>5
<1> QED
  BY <1>1, <1>2, <1>3, <1>4, <1>5 DEF Receiving

\* Every step keeps the invariant.
LEMMA ReaderStep == ReaderInv /\ [LobbyNext]_lobbyVars => ReaderInv'
<1> SUFFICES ASSUME ReaderInv, [LobbyNext]_lobbyVars PROVE ReaderInv'
  OBVIOUS
<1>1. CASE UNCHANGED lobbyVars
  <2>1. UNCHANGED <<m_status, m_handle, m_recvState, m_msgSizeBuffer, m_messageSize, m_recvEncryptType, m_recvMessage,
                    m_outgoing, late, at, inGet, inbound, outbound, began, peer, cut, sent, told, queued, dispatched>>
    BY <1>1 DEF lobbyVars, reader, streams
  <2>2. LobbyTypeOK'
    BY <2>1 DEF ReaderInv, LobbyTypeOK
  <2>3. ListenerToldOnce'
    BY <2>1 DEF ReaderInv, ListenerToldOnce
  <2>4. ReaderKept'
    BY <2>1 DEF ReaderInv, ReaderKept
  <2> QED
    BY <2>2, <2>3, <2>4 DEF ReaderInv
<1> QED
  BY <1>1, CallsKeepReader, PumpingKeepsReader, ReceivingKeepsReader, OutsideKeepsReader DEF LobbyNext

\* The invariant of the reader and the listener, which the types, what the
\* listener is told and the channel rest on.
THEOREM ReaderInvHolds == LobbySpec => []ReaderInv
  BY ReaderInit, ReaderStep, PTL DEF LobbySpec

\* Every variable keeps its type.
THEOREM LobbyTypesHold == LobbySpec => []LobbyTypeOK
<1>1. ReaderInv => LobbyTypeOK
  BY DEF ReaderInv
<1> QED
  BY <1>1, ReaderInvHolds, PTL

\* ListenerToldOnce: whichever of pump, recvMessageData, close and disconnect
\* ends the connection, the listener is told once that it is up or failed, once
\* that it is over, and nothing after that.
THEOREM ListenerToldOnceHolds == LobbySpec => []ListenerToldOnce
<1>1. ReaderInv => ListenerToldOnce
  BY DEF ReaderInv
<1> QED
  BY <1>1, ReaderInvHolds, PTL
-----------------------------------------------------------------------------
\* A stream of frames and keep-alives, and where each of them begins.

IsAt(b, p, f) == /\ p + Len(f) <= Len(b)
                 /\ \A i \in 1..Len(f) : b[p + i] = f[i]

\* The k-th thing of the stream: a keep-alive, or the frame of the next message.
IsKeepAlive(b, cuts, nth, k) ==
  nth[k + 1] = nth[k] /\ IsAt(b, cuts[k], KeepAlive) /\ cuts[k + 1] = cuts[k] + SizeBytes

IsFrame(b, msgs, cuts, nth, k) ==
  /\ nth[k] < Len(msgs) /\ nth[k + 1] = nth[k] + 1
  /\ IsAt(b, cuts[k], Frame(msgs[nth[k] + 1]))
  /\ cuts[k + 1] = cuts[k] + Len(Frame(msgs[nth[k] + 1]))

\* b begins with K of them, cuts[k] bytes and nth[k] messages before the k-th.
Splits(b, msgs, K, cuts, nth) ==
  /\ K \in Nat /\ cuts \in [0..K -> 0..Len(b)] /\ nth \in [0..K -> 0..Len(msgs)]
  /\ cuts[0] = 0 /\ nth[0] = 0
  /\ \A k \in 0..K - 1 : IsKeepAlive(b, cuts, nth, k) \/ IsFrame(b, msgs, cuts, nth, k)

\* c begins with b.
Extends(b, c) == Len(b) \in Nat /\ Len(c) \in Nat /\ Len(b) <= Len(c) /\ \A i \in 1..Len(b) : c[i] = b[i]

MessagesOf(s) == Len(s) \in Nat /\ \A i \in 1..Len(s) : IsMessage(s[i])

\* What is at a place of a stream stays there when the stream grows.
LEMMA IsAtGrows ==
  ASSUME NEW b, NEW c, Extends(b, c), NEW f \in Seq(Bytes), NEW p \in Nat, IsAt(b, p, f)
  PROVE  IsAt(c, p, f)
<1>1. Len(b) \in Nat /\ Len(c) \in Nat /\ Len(f) \in Nat /\ Len(b) <= Len(c) /\ \A i \in 1..Len(b) : c[i] = b[i]
  BY DEF Extends
<1>2. p + Len(f) <= Len(b) /\ \A i \in 1..Len(f) : b[p + i] = f[i]
  BY DEF IsAt
<1>3. \A i \in 1..Len(f) : p + i \in 1..Len(b)
  BY <1>1, <1>2
<1>4. \A i \in 1..Len(f) : c[p + i] = f[i]
  BY <1>1, <1>2, <1>3
<1> QED
  BY <1>1, <1>2, <1>4 DEF IsAt

\* So does a split, when the messages grow as well.
LEMMA SplitGrows ==
  ASSUME NEW b, NEW c, Extends(b, c), NEW s, NEW t, Extends(s, t), MessagesOf(s),
         NEW K, NEW cuts, NEW nth, Splits(b, s, K, cuts, nth)
  PROVE  Splits(c, t, K, cuts, nth)
<1>1. K \in Nat /\ cuts \in [0..K -> 0..Len(b)] /\ nth \in [0..K -> 0..Len(s)] /\ cuts[0] = 0 /\ nth[0] = 0
  BY DEF Splits
<1>2. Len(b) \in Nat /\ Len(c) \in Nat /\ Len(s) \in Nat /\ Len(t) \in Nat /\ Len(b) <= Len(c) /\ Len(s) <= Len(t)
      /\ \A i \in 1..Len(s) : t[i] = s[i] /\ IsMessage(s[i])
  BY DEF Extends, MessagesOf
<1>3. cuts \in [0..K -> 0..Len(c)]
  BY <1>1, <1>2
<1>4. nth \in [0..K -> 0..Len(t)]
  BY <1>1, <1>2
<1>5. ASSUME NEW k \in 0..K - 1 PROVE IsKeepAlive(c, cuts, nth, k) \/ IsFrame(c, t, cuts, nth, k)
  <2>1. cuts[k] \in Nat /\ nth[k] \in Nat
    BY <1>1, <1>2
  <2>2. CASE IsKeepAlive(b, cuts, nth, k)
    BY <2>1, <2>2, IsAtGrows, KeepAliveFacts DEF IsKeepAlive
  <2>3. CASE IsFrame(b, s, cuts, nth, k)
    <3>1. nth[k] + 1 \in 1..Len(s)
      BY <1>2, <2>1, <2>3 DEF IsFrame
    <3>2. t[nth[k] + 1] = s[nth[k] + 1] /\ IsMessage(s[nth[k] + 1])
      BY <1>2, <3>1
    <3>3. Frame(s[nth[k] + 1]) \in Seq(Bytes)
      BY <3>2, FrameFacts
    <3>4. IsAt(c, cuts[k], Frame(s[nth[k] + 1]))
      BY <2>1, <2>3, <3>3, IsAtGrows DEF IsFrame
    <3> QED
      BY <1>2, <2>1, <2>3, <3>2, <3>4 DEF IsFrame
  <2> QED
    BY <2>2, <2>3 DEF Splits
<1> QED
  BY <1>1, <1>3, <1>4, <1>5 DEF Splits

\* One more thing at the end of a split.
More(K, f, x) == [k \in 0..K + 1 |-> IF k = K + 1 THEN x ELSE f[k]]

\* A list of places made longer by one.
LEMMA MoreFacts ==
  ASSUME NEW K \in Nat, NEW S, NEW f \in [0..K -> S], NEW x \in S
  PROVE  /\ \A k \in 0..K : More(K, f, x)[k] = f[k]
         /\ More(K, f, x)[K + 1] = x
         /\ More(K, f, x) \in [0..K + 1 -> S]
  BY DEF More

\* A keep-alive behind the last cut makes one more cut.
LEMMA KeepAliveAdded ==
  ASSUME NEW b \in Seq(Bytes), NEW s, Len(s) \in Nat, NEW K, NEW cuts, NEW nth,
         Splits(b, s, K, cuts, nth), IsAt(b, cuts[K], KeepAlive)
  PROVE  Splits(b, s, K + 1, More(K, cuts, cuts[K] + SizeBytes), More(K, nth, nth[K]))
<1> DEFINE cuts2 == More(K, cuts, cuts[K] + SizeBytes)
           nth2 == More(K, nth, nth[K])
<1>1. K \in Nat /\ cuts \in [0..K -> 0..Len(b)] /\ nth \in [0..K -> 0..Len(s)] /\ cuts[0] = 0 /\ nth[0] = 0
      /\ \A k \in 0..K - 1 : IsKeepAlive(b, cuts, nth, k) \/ IsFrame(b, s, cuts, nth, k)
  BY DEF Splits
<1>2. SizeBytes \in Nat /\ Len(KeepAlive) = SizeBytes /\ Len(b) \in Nat
  BY KeepAliveFacts
<1>3. cuts[K] \in 0..Len(b) /\ nth[K] \in 0..Len(s) /\ cuts[K] + SizeBytes \in 0..Len(b)
  BY <1>1, <1>2 DEF IsAt
<1>4. (\A k \in 0..K : cuts2[k] = cuts[k] /\ nth2[k] = nth[k]) /\ cuts2[K + 1] = cuts[K] + SizeBytes /\ nth2[K + 1] = nth[K]
      /\ cuts2 \in [0..K + 1 -> 0..Len(b)] /\ nth2 \in [0..K + 1 -> 0..Len(s)]
  <2> DEFINE x == cuts[K] + SizeBytes
             y == nth[K]
  <2>1. K \in Nat /\ cuts \in [0..K -> 0..Len(b)] /\ nth \in [0..K -> 0..Len(s)] /\ x \in 0..Len(b) /\ y \in 0..Len(s)
    BY <1>1, <1>3
  <2> HIDE DEF x, y
  <2>2. /\ \A k \in 0..K : More(K, cuts, x)[k] = cuts[k]
        /\ More(K, cuts, x)[K + 1] = x /\ More(K, cuts, x) \in [0..K + 1 -> 0..Len(b)]
    BY Zenon, <2>1, MoreFacts
  <2>3. /\ \A k \in 0..K : More(K, nth, y)[k] = nth[k]
        /\ More(K, nth, y)[K + 1] = y /\ More(K, nth, y) \in [0..K + 1 -> 0..Len(s)]
    BY Zenon, <2>1, MoreFacts
  <2> QED
    BY Zenon, <2>2, <2>3 DEF x, y
<1> HIDE DEF cuts2, nth2
<1>5. ASSUME NEW k \in 0..K PROVE IsKeepAlive(b, cuts2, nth2, k) \/ IsFrame(b, s, cuts2, nth2, k)
  <2>1. CASE k = K
    BY <1>1, <1>4, <2>1 DEF IsKeepAlive
  <2>2. CASE k \in 0..K - 1
    <3>1. k \in 0..K /\ k + 1 \in 0..K
      BY <1>1, <2>2
    <3>2. cuts2[k] = cuts[k] /\ nth2[k] = nth[k] /\ cuts2[k + 1] = cuts[k + 1] /\ nth2[k + 1] = nth[k + 1]
      BY <1>4, <3>1
    <3> QED
      BY <1>1, <2>2, <3>2 DEF IsKeepAlive, IsFrame
  <2> QED
    BY <1>1, <2>1, <2>2
<1>6. 0 \in 0..K /\ K + 1 \in Nat /\ 0..(K + 1) - 1 = 0..K
  BY <1>1
<1>7. Splits(b, s, K + 1, cuts2, nth2)
  BY <1>1, <1>4, <1>5, <1>6 DEF Splits
<1> QED
  BY <1>7 DEF cuts2, nth2

\* The frame of the next message behind the last cut makes one more cut.
LEMMA FrameAdded ==
  ASSUME NEW b \in Seq(Bytes), NEW s, Len(s) \in Nat, NEW K, NEW cuts, NEW nth,
         Splits(b, s, K, cuts, nth), nth[K] < Len(s), NEW f \in Seq(Bytes), f = Frame(s[nth[K] + 1]), IsAt(b, cuts[K], f)
  PROVE  Splits(b, s, K + 1, More(K, cuts, cuts[K] + Len(f)), More(K, nth, nth[K] + 1))
<1> DEFINE cuts2 == More(K, cuts, cuts[K] + Len(f))
           nth2 == More(K, nth, nth[K] + 1)
<1>1. K \in Nat /\ cuts \in [0..K -> 0..Len(b)] /\ nth \in [0..K -> 0..Len(s)] /\ cuts[0] = 0 /\ nth[0] = 0
      /\ \A k \in 0..K - 1 : IsKeepAlive(b, cuts, nth, k) \/ IsFrame(b, s, cuts, nth, k)
  BY DEF Splits
<1>2. Len(f) \in Nat /\ Len(b) \in Nat
  OBVIOUS
<1>3. cuts[K] \in 0..Len(b) /\ nth[K] + 1 \in 0..Len(s) /\ cuts[K] + Len(f) \in 0..Len(b)
  BY <1>1, <1>2 DEF IsAt
<1>4. (\A k \in 0..K : cuts2[k] = cuts[k] /\ nth2[k] = nth[k]) /\ cuts2[K + 1] = cuts[K] + Len(f) /\ nth2[K + 1] = nth[K] + 1
      /\ cuts2 \in [0..K + 1 -> 0..Len(b)] /\ nth2 \in [0..K + 1 -> 0..Len(s)]
  <2> DEFINE x == cuts[K] + Len(f)
             y == nth[K] + 1
  <2>1. K \in Nat /\ cuts \in [0..K -> 0..Len(b)] /\ nth \in [0..K -> 0..Len(s)] /\ x \in 0..Len(b) /\ y \in 0..Len(s)
    BY <1>1, <1>3
  <2> HIDE DEF x, y
  <2>2. /\ \A k \in 0..K : More(K, cuts, x)[k] = cuts[k]
        /\ More(K, cuts, x)[K + 1] = x /\ More(K, cuts, x) \in [0..K + 1 -> 0..Len(b)]
    BY Zenon, <2>1, MoreFacts
  <2>3. /\ \A k \in 0..K : More(K, nth, y)[k] = nth[k]
        /\ More(K, nth, y)[K + 1] = y /\ More(K, nth, y) \in [0..K + 1 -> 0..Len(s)]
    BY Zenon, <2>1, MoreFacts
  <2> QED
    BY Zenon, <2>2, <2>3 DEF x, y
<1> HIDE DEF cuts2, nth2
<1>5. ASSUME NEW k \in 0..K PROVE IsKeepAlive(b, cuts2, nth2, k) \/ IsFrame(b, s, cuts2, nth2, k)
  <2>1. CASE k = K
    BY <1>1, <1>4, <2>1 DEF IsFrame
  <2>2. CASE k \in 0..K - 1
    <3>1. k \in 0..K /\ k + 1 \in 0..K
      BY <1>1, <2>2
    <3>2. cuts2[k] = cuts[k] /\ nth2[k] = nth[k] /\ cuts2[k + 1] = cuts[k + 1] /\ nth2[k + 1] = nth[k + 1]
      BY <1>4, <3>1
    <3> QED
      BY <1>1, <2>2, <3>2 DEF IsKeepAlive, IsFrame
  <2> QED
    BY <1>1, <2>1, <2>2
<1>6. 0 \in 0..K /\ K + 1 \in Nat /\ 0..(K + 1) - 1 = 0..K
  BY <1>1
<1>7. Splits(b, s, K + 1, cuts2, nth2)
  BY <1>1, <1>4, <1>5, <1>6 DEF Splits
<1> QED
  BY <1>7 DEF cuts2, nth2
-----------------------------------------------------------------------------
\* What the server sent, and the reader has read and not yet read of it.

\* The bytes the reader holds of the thing it is in the middle of.
Held == IF m_recvState = "INIT" THEN <<>>
        ELSE IF m_recvState \in {"SIZE", "ENCRYPT"} THEN m_msgSizeBuffer
        ELSE m_msgSizeBuffer \o <<m_recvEncryptType>> \o m_recvMessage

\* The server sent `all', and the reader is at the k-th thing of it.
InStream(all, K, cuts, nth, k) ==
  /\ all \in Seq(Bytes) /\ Splits(all, sent, K, cuts, nth) /\ cuts[K] = Len(all) /\ nth[K] = Len(sent)
  /\ k \in 0..K /\ nth[k] = Len(dispatched)
  /\ IsAt(all, cuts[k], Held \o inbound)
  /\ peer # "reset" => cuts[k] + Len(Held \o inbound) = Len(all)

StreamKept == \E all, K, cuts, nth, k : InStream(all, K, cuts, nth, k)

\* u is s with t behind it; as facts about its elements.
IsJoin(V, s, t, u) == /\ u \in Seq(V) /\ Len(u) = Len(s) + Len(t)
                      /\ \A i \in 1..Len(s) : u[i] = s[i]
                      /\ \A i \in 1..Len(t) : u[Len(s) + i] = t[i]

\* A concatenation is a join.
LEMMA Joins == ASSUME NEW V, NEW s \in Seq(V), NEW t \in Seq(V) PROVE IsJoin(V, s, t, s \o t)
  BY DEF IsJoin

\* Two sequences are joined in one way.
LEMMA JoinedOnce ==
  ASSUME NEW V, NEW s \in Seq(V), NEW t \in Seq(V), NEW u, NEW v, IsJoin(V, s, t, u), IsJoin(V, s, t, v)
  PROVE  u = v
<1>1. Len(s) \in Nat /\ Len(t) \in Nat
  OBVIOUS
<1>2. /\ u \in Seq(V) /\ Len(u) = Len(s) + Len(t) /\ v \in Seq(V) /\ Len(v) = Len(s) + Len(t)
      /\ \A i \in 1..Len(s) : u[i] = s[i] /\ v[i] = s[i]
      /\ \A i \in 1..Len(t) : u[Len(s) + i] = t[i] /\ v[Len(s) + i] = t[i]
  BY DEF IsJoin
<1>3. ASSUME NEW i \in 1..Len(s) + Len(t) PROVE u[i] = v[i]
  <2>1. CASE i \in 1..Len(s)
    BY <1>2, <2>1
  <2>2. CASE i \notin 1..Len(s)
    <3>1. i - Len(s) \in 1..Len(t) /\ Len(s) + (i - Len(s)) = i
      BY <1>1, <2>2
    <3>2. u[Len(s) + (i - Len(s))] = v[Len(s) + (i - Len(s))]
      BY <1>2, <3>1
    <3> QED
      BY <3>1, <3>2
  <2> QED
    BY <2>1, <2>2
<1> QED
  BY <1>2, <1>3, SameSeq

\* What is moved from the front of a second sequence to the end of a first one
\* leaves the two together what they were.
LEMMA MovedOver ==
  ASSUME NEW V, NEW s \in Seq(V), NEW t \in Seq(V), NEW n \in 0..Len(t)
  PROVE  (s \o SubSeq(t, 1, n)) \o SubSeq(t, n + 1, Len(t)) = s \o t
<1> DEFINE u == SubSeq(t, 1, n)
           v == SubSeq(t, n + 1, Len(t))
           su == s \o u
           suv == su \o v
<1>1. /\ u \in Seq(V) /\ Len(u) = n /\ v \in Seq(V) /\ Len(v) = Len(t) - n
      /\ \A i \in 1..n : u[i] = t[i]
      /\ \A i \in 1..Len(t) - n : v[i] = t[n + i]
  BY CutInTwo
<1> HIDE DEF u, v
<1>2. IsJoin(V, s, u, su)
  BY Zenon, <1>1, Joins
<1>3. su \in Seq(V)
  BY <1>2 DEF IsJoin
<1> HIDE DEF su
<1>4. IsJoin(V, su, v, suv)
  BY Zenon, <1>1, <1>3, Joins
<1> HIDE DEF suv
<1>5. Len(s) \in Nat /\ Len(t) \in Nat
  OBVIOUS
<1>6. IsJoin(V, s, t, suv)
  <2>1. suv \in Seq(V) /\ Len(suv) = Len(s) + Len(t)
    BY <1>1, <1>2, <1>4, <1>5 DEF IsJoin
  <2>2. ASSUME NEW i \in 1..Len(s) PROVE suv[i] = s[i]
    BY <1>1, <1>2, <1>4, <1>5 DEF IsJoin
  <2>3. ASSUME NEW i \in 1..Len(t) PROVE suv[Len(s) + i] = t[i]
    <3>1. CASE i <= n
      <4>1. Len(s) + i \in 1..Len(su) /\ i \in 1..Len(u)
        BY <1>1, <1>2, <1>5, <3>1 DEF IsJoin
      <4>2. suv[Len(s) + i] = su[Len(s) + i] /\ su[Len(s) + i] = u[i]
        BY <1>2, <1>4, <4>1 DEF IsJoin
      <4> QED
        BY <1>1, <4>1, <4>2
    <3>2. CASE i > n
      <4>1. i - n \in 1..Len(v) /\ Len(su) + (i - n) = Len(s) + i /\ n + (i - n) = i
        BY <1>1, <1>2, <1>5, <3>2 DEF IsJoin
      <4>2. suv[Len(su) + (i - n)] = v[i - n]
        BY <1>4, <4>1 DEF IsJoin
      <4>3. v[i - n] = t[n + (i - n)]
        BY <1>1, <4>1
      <4> QED
        BY <4>1, <4>2, <4>3
    <3> QED
      BY <1>5, <3>1, <3>2
  <2> QED
    BY <2>1, <2>2, <2>3 DEF IsJoin
<1>7. suv = s \o t
  BY <1>6, Joins, JoinedOnce
<1> QED
  BY <1>7 DEF suv, su, u, v

\* A sequence in its first element and the rest.
LEMMA HeadAndTail ==
  ASSUME NEW V, NEW s \in Seq(V), s # <<>>
  PROVE  /\ 1 \in 0..Len(s) /\ <<Head(s)>> \in Seq(V) /\ Tail(s) = SubSeq(s, 1 + 1, Len(s))
         /\ SubSeq(s, 1, 1) = <<Head(s)>>
<1>1. Len(s) \in Nat /\ 1 \in 0..Len(s) /\ 1 \in 1..Len(s) /\ Head(s) = s[1] /\ Head(s) \in V
  OBVIOUS
<1>2. Tail(s) \in Seq(V) /\ Len(Tail(s)) = Len(s) - 1 /\ \A i \in 1..Len(s) - 1 : Tail(s)[i] = s[1 + i]
  BY <1>1
<1>3. /\ SubSeq(s, 1, 1) \in Seq(V) /\ Len(SubSeq(s, 1, 1)) = 1 /\ \A i \in 1..1 : SubSeq(s, 1, 1)[i] = s[i]
      /\ SubSeq(s, 1 + 1, Len(s)) \in Seq(V) /\ Len(SubSeq(s, 1 + 1, Len(s))) = Len(s) - 1
      /\ \A i \in 1..Len(s) - 1 : SubSeq(s, 1 + 1, Len(s))[i] = s[1 + i]
  BY <1>1, CutInTwo
<1>4. Tail(s) = SubSeq(s, 1 + 1, Len(s))
  BY <1>2, <1>3, SameSeq
<1>5. <<Head(s)>> \in Seq(V) /\ Len(<<Head(s)>>) = 1 /\ <<Head(s)>>[1] = s[1]
  BY <1>1
<1>6. \A i \in 1..1 : SubSeq(s, 1, 1)[i] = <<Head(s)>>[i]
  BY <1>3, <1>5
<1>7. SubSeq(s, 1, 1) = <<Head(s)>>
  BY <1>3, <1>5, <1>6, SameSeq
<1> QED
  BY <1>1, <1>4, <1>5, <1>7

\* Concatenation is associative.
LEMMA Associates ==
  ASSUME NEW V, NEW s \in Seq(V), NEW t \in Seq(V), NEW u \in Seq(V)
  PROVE  (s \o t) \o u = s \o (t \o u)
  OBVIOUS

\* The same, for bytes.
LEMMA BytesAssociate == \A s, t, u \in Seq(Bytes) : (s \o t) \o u = s \o (t \o u)
  BY Associates

\* Nothing joined to a sequence is the sequence.
LEMMA EmptyJoined ==
  ASSUME NEW V, NEW s \in Seq(V)
  PROVE  <<>> \o s = s /\ s \o <<>> = s
  OBVIOUS

\* What is at a place is there in parts, and goes on with what is put behind it.
LEMMA IsAtParts ==
  ASSUME NEW b \in Seq(Bytes), NEW p \in Nat, NEW s \in Seq(Bytes), NEW t \in Seq(Bytes), NEW u, IsJoin(Bytes, s, t, u), IsAt(b, p, u)
  PROVE  IsAt(b, p, s) /\ IsAt(b, p + Len(s), t)
<1>1. /\ Len(u) = Len(s) + Len(t)
      /\ \A i \in 1..Len(s) : u[i] = s[i]
      /\ \A i \in 1..Len(t) : u[Len(s) + i] = t[i]
  BY DEF IsJoin
<1>2. Len(s) \in Nat /\ Len(t) \in Nat /\ Len(b) \in Nat
  OBVIOUS
<1>3. p + Len(s) + Len(t) <= Len(b) /\ \A i \in 1..Len(s) + Len(t) : b[p + i] = u[i]
  BY <1>1, <1>2 DEF IsAt
<1>4. \A i \in 1..Len(s) : b[p + i] = s[i]
  BY <1>1, <1>2, <1>3
<1>5. ASSUME NEW i \in 1..Len(t) PROVE b[p + Len(s) + i] = t[i]
  <2>1. Len(s) + i \in 1..Len(s) + Len(t) /\ p + (Len(s) + i) = p + Len(s) + i
    BY <1>2
  <2> QED
    BY <1>1, <1>3, <2>1
<1> QED
  BY <1>2, <1>3, <1>4, <1>5 DEF IsAt

Ends(b, p, f) == IsAt(b, p, f) /\ p + Len(f) = Len(b)

\* What ends a stream is followed by what is put behind the stream.
LEMMA IsAtJoined ==
  ASSUME NEW b \in Seq(Bytes), NEW p \in Nat, NEW s \in Seq(Bytes), NEW t \in Seq(Bytes),
         Ends(b, p, s), NEW u, IsJoin(Bytes, s, t, u), NEW c, IsJoin(Bytes, b, t, c)
  PROVE  Ends(c, p, u) /\ Ends(c, Len(b), t)
<1>0. IsAt(b, p, s) /\ p + Len(s) = Len(b)
  BY DEF Ends
<1>1. /\ Len(u) = Len(s) + Len(t)
      /\ \A i \in 1..Len(s) : u[i] = s[i]
      /\ \A i \in 1..Len(t) : u[Len(s) + i] = t[i]
  BY DEF IsJoin
<1>2. /\ Len(c) = Len(b) + Len(t)
      /\ \A i \in 1..Len(b) : c[i] = b[i]
      /\ \A i \in 1..Len(t) : c[Len(b) + i] = t[i]
  BY DEF IsJoin
<1>3. Len(s) \in Nat /\ Len(t) \in Nat /\ Len(b) \in Nat /\ p + Len(s) = Len(b)
  BY <1>0
<1>4. \A i \in 1..Len(s) : b[p + i] = s[i]
  BY <1>0 DEF IsAt
<1>5. ASSUME NEW i \in 1..Len(s) + Len(t) PROVE c[p + i] = u[i]
  <2>1. CASE i \in 1..Len(s)
    <3>1. p + i \in 1..Len(b)
      BY <1>3, <2>1
    <3> QED
      BY <1>1, <1>2, <1>4, <2>1, <3>1
  <2>2. CASE i \notin 1..Len(s)
    <3>1. i - Len(s) \in 1..Len(t) /\ Len(s) + (i - Len(s)) = i /\ Len(b) + (i - Len(s)) = p + i
      BY <1>3, <2>2
    <3>2. u[Len(s) + (i - Len(s))] = t[i - Len(s)] /\ c[Len(b) + (i - Len(s))] = t[i - Len(s)]
      BY <1>1, <1>2, <3>1
    <3> QED
      BY <3>1, <3>2
  <2> QED
    BY <2>1, <2>2
<1>6. p + Len(u) = Len(c) /\ Len(b) + Len(t) = Len(c) /\ Len(c) \in Nat
  <2> DEFINE lu == Len(u)
             ls == Len(s)
             lt == Len(t)
             lc == Len(c)
             lb == Len(b)
  <2>1. lu = ls + lt /\ lc = lb + lt /\ p + ls = lb /\ ls \in Nat /\ lt \in Nat /\ lb \in Nat
    BY <1>1, <1>2, <1>3
  <2> HIDE DEF lu, ls, lt, lc, lb
  <2>2. p + lu = lc /\ lb + lt = lc /\ lc \in Nat
    BY <2>1
  <2> QED
    BY <2>2 DEF lu, lc, lb, lt
<1> QED
  BY <1>1, <1>2, <1>5, <1>6 DEF IsAt, Ends

\* The whole size of the k-th thing of a stream, and what it says of the thing.
SizeThere(b, s, K, cuts, nth, k, size) ==
  /\ b \in Seq(Bytes) /\ MessagesOf(s)
  /\ Splits(b, s, K, cuts, nth) /\ cuts[K] = Len(b) /\ k \in 0..K
  /\ size \in Seq(Bytes) /\ Len(size) = SizeBytes /\ IsAt(b, cuts[k], size)

ThingIs(b, s, K, cuts, nth, k, size) ==
  /\ k < K /\ k + 1 \in 0..K
  /\ SizeOf(size) = 0 => IsKeepAlive(b, cuts, nth, k)
  /\ SizeOf(size) # 0 => /\ IsFrame(b, s, cuts, nth, k) /\ IsMessage(s[nth[k] + 1])
                         /\ SizeOf(size) = Len(s[nth[k] + 1].body) + 1

\* What begins with a size of zero is a keep-alive, and with another the frame of
\* a message that long.
LEMMA ThingAt ==
  ASSUME NEW b, NEW s, NEW K, NEW cuts, NEW nth, NEW k, NEW size, SizeThere(b, s, K, cuts, nth, k, size)
  PROVE  ThingIs(b, s, K, cuts, nth, k, size)
<1>0. /\ b \in Seq(Bytes) /\ Len(s) \in Nat /\ \A i \in 1..Len(s) : IsMessage(s[i])
      /\ Splits(b, s, K, cuts, nth) /\ cuts[K] = Len(b) /\ k \in 0..K
      /\ size \in Seq(Bytes) /\ Len(size) = SizeBytes /\ IsAt(b, cuts[k], size)
  BY DEF SizeThere, MessagesOf
<1>1. K \in Nat /\ cuts \in [0..K -> 0..Len(b)] /\ nth \in [0..K -> 0..Len(s)] /\ SizeBytes \in Nat \ {0}
      /\ Len(b) \in Nat /\ Len(s) \in Nat
      /\ \A j \in 0..K - 1 : IsKeepAlive(b, cuts, nth, j) \/ IsFrame(b, s, cuts, nth, j)
  BY <1>0, KeepAliveFacts DEF Splits
<1>2. cuts[k] \in Nat /\ nth[k] \in Nat
  BY <1>0, <1>1
<1>3. cuts[k] + SizeBytes <= Len(b) /\ \A i \in 1..SizeBytes : b[cuts[k] + i] = size[i]
  BY <1>0 DEF IsAt
<1>4. k # K
  BY <1>0, <1>1, <1>2, <1>3
<1>5. k \in 0..K - 1 /\ k < K /\ k + 1 \in 0..K
  BY <1>0, <1>1, <1>4
<1>6. CASE IsKeepAlive(b, cuts, nth, k)
  <2>1. KeepAlive \in Seq(Bytes) /\ Len(KeepAlive) = SizeBytes /\ SizeOf(KeepAlive) = 0
    BY KeepAliveFacts
  <2>2. \A i \in 1..SizeBytes : size[i] = KeepAlive[i]
    BY <1>3, <1>6, <2>1 DEF IsKeepAlive, IsAt
  <2>3. size = KeepAlive
    BY <1>0, <2>1, <2>2, SameSeq
  <2> QED
    BY <1>5, <1>6, <2>1, <2>3 DEF ThingIs
<1>7. CASE IsFrame(b, s, cuts, nth, k)
  <2> DEFINE m == s[nth[k] + 1]
             field == SizeField(Len(m.body) + 1)
  <2>1. nth[k] + 1 \in 1..Len(s)
    BY <1>1, <1>2, <1>7 DEF IsFrame
  <2>2. IsMessage(m)
    BY <1>0, <2>1
  <2>3. IsAt(b, cuts[k], Frame(m))
    BY <1>7 DEF IsFrame
  <2> HIDE DEF m
  <2>4. /\ Len(Frame(m)) = SizeBytes + 1 + Len(m.body) /\ field \in Seq(Bytes) /\ Len(field) = SizeBytes
        /\ SizeOf(field) = Len(m.body) + 1 /\ \A i \in 1..SizeBytes : Frame(m)[i] = field[i]
    BY <2>2, FrameFacts
  <2>5. Len(m.body) \in Nat
    BY <2>2 DEF IsMessage
  <2> HIDE DEF field
  <2>6. SizeBytes <= Len(Frame(m)) /\ Len(Frame(m)) \in Nat
    <3> DEFINE w == Len(Frame(m))
               l == Len(m.body)
    <3>1. w = SizeBytes + 1 + l /\ l \in Nat
      BY <2>4, <2>5
    <3> HIDE DEF w, l
    <3>2. SizeBytes <= w /\ w \in Nat
      BY <1>1, <3>1
    <3> QED
      BY <3>2 DEF w
  <2>7. ASSUME NEW i \in 1..SizeBytes PROVE size[i] = field[i]
    <3>1. i \in 1..Len(Frame(m))
      BY <1>1, <2>6
    <3>2. b[cuts[k] + i] = Frame(m)[i]
      BY <2>3, <3>1 DEF IsAt
    <3> QED
      BY <1>3, <2>4, <3>2
  <2>8. size = field
    BY <1>0, <2>4, <2>7, SameSeq
  <2>9. SizeOf(size) = Len(m.body) + 1 /\ SizeOf(size) # 0
    BY <2>4, <2>5, <2>8
  <2> QED
    BY <1>5, <1>7, <2>2, <2>9 DEF m, ThingIs
<1> QED
  BY <1>1, <1>5, <1>6, <1>7

\* No byte has been sent: the empty stream is cut at its beginning.
LEMMA StreamInit == LobbyInit => StreamKept
<1> SUFFICES ASSUME LobbyInit PROVE StreamKept
  OBVIOUS
<1> DEFINE zero == [k \in 0..0 |-> 0]
<1>1. sent = <<>> /\ dispatched = <<>> /\ inbound = <<>> /\ Held = <<>>
  BY DEF LobbyInit, Held
<1>2. Len(<<>>) = 0 /\ <<>> \in Seq(Bytes) /\ <<>> \o <<>> = <<>>
  OBVIOUS
<1>3. zero \in [0..0 -> 0..0] /\ zero[0] = 0
  OBVIOUS
<1>4. Splits(<<>>, <<>>, 0, zero, zero)
  BY <1>2, <1>3 DEF Splits
<1>5. IsAt(<<>>, 0, <<>>)
  BY <1>2 DEF IsAt
<1>6. InStream(<<>>, 0, zero, zero, 0)
  BY <1>1, <1>2, <1>3, <1>4, <1>5 DEF InStream
<1> QED
  BY <1>6 DEF StreamKept

\* The messages of a history are messages.
LEMMA HistoryOfMessages ==
  ASSUME ReaderInv
  PROVE  sent \in Seq(ServerMessages) /\ MessagesOf(sent)
<1>1. sent \in Seq(ServerMessages)
  BY TypesSplit DEF ReaderInv, StreamTypes
<1>2. \A m \in ServerMessages : IsMessage(m)
  BY LobbyAssumption
<1> QED
  BY <1>1, <1>2 DEF MessagesOf

\* What the reader holds are bytes, and what it may go on with.
LEMMA HeldFacts ==
  ASSUME ReaderInv
  PROVE  Held \in Seq(Bytes) /\ inbound \in Seq(Bytes) /\ Len(dispatched) \in Nat
         /\ dispatched \in Seq([enc : Bytes, body : Seq(Bytes)])
         /\ IsJoin(Bytes, Held, inbound, Held \o inbound)
<1>1. /\ m_msgSizeBuffer \in Seq(Bytes) /\ m_recvEncryptType \in Bytes /\ m_recvMessage \in Seq(Bytes) /\ inbound \in Seq(Bytes)
      /\ <<>> \in Seq(Bytes)
  BY TypesSplit DEF ReaderInv, ReaderTypes, StreamTypes
<1>2. Held \in Seq(Bytes)
  BY <1>1 DEF Held
<1>3. dispatched \in Seq([enc : Bytes, body : Seq(Bytes)]) /\ Len(dispatched) \in Nat
  BY DEF ReaderInv, ReaderKept
<1> QED
  BY <1>1, <1>2, <1>3, Joins

\* A step that moves bytes from the socket to the reader and does no more.
LEMMA SameStream ==
  ASSUME StreamKept, (Held \o inbound)' = Held \o inbound, UNCHANGED <<sent, dispatched>>, peer' # "reset" => peer # "reset"
  PROVE  StreamKept'
<1> PICK all, K, cuts, nth, k : InStream(all, K, cuts, nth, k)
  BY DEF StreamKept
<1>1. InStream(all, K, cuts, nth, k)'
  BY DEF InStream
<1> QED
  BY <1>1 DEF StreamKept

\* The reader is behind the thing it was in the middle of.
LEMMA NextThing ==
  ASSUME ReaderInv, NEW all, NEW K, NEW cuts, NEW nth, NEW k, InStream(all, K, cuts, nth, k),
         NEW head \in Seq(Bytes), NEW rest \in Seq(Bytes), IsJoin(Bytes, head, rest, Held \o inbound),
         k + 1 \in 0..K, cuts[k + 1] = cuts[k] + Len(head), nth[k + 1] = Len(dispatched'),
         (Held \o inbound)' = rest, UNCHANGED <<sent, peer>>
  PROVE  StreamKept'
<1>1. /\ all \in Seq(Bytes) /\ Splits(all, sent, K, cuts, nth) /\ cuts[K] = Len(all) /\ nth[K] = Len(sent)
      /\ k \in 0..K /\ nth[k] = Len(dispatched)
      /\ IsAt(all, cuts[k], Held \o inbound)
      /\ peer # "reset" => cuts[k] + Len(Held \o inbound) = Len(all)
  BY DEF InStream
<1>2. cuts[k] \in Nat
  BY <1>1 DEF Splits
<1>3. IsAt(all, cuts[k] + Len(head), rest)
  BY <1>1, <1>2, IsAtParts
<1>4. Len(Held \o inbound) = Len(head) + Len(rest)
  BY DEF IsJoin
<1>5. peer # "reset" => cuts[k + 1] + Len(rest) = Len(all)
  BY <1>1, <1>2, <1>4
<1>6. InStream(all, K, cuts, nth, k + 1)'
  BY <1>1, <1>3, <1>5 DEF InStream
<1> QED
  BY <1>6 DEF StreamKept

\* A whole message in the reader is the next one the server sent.
LEMMA WholeMessage ==
  ASSUME ReaderInv, NEW all, NEW K, NEW cuts, NEW nth, NEW k, InStream(all, K, cuts, nth, k), m_recvState = "COMPLETE"
  PROVE  /\ Len(dispatched) < Len(sent) /\ Message = sent[Len(dispatched) + 1]
         /\ k + 1 \in 0..K /\ cuts[k + 1] = cuts[k] + Len(Held) /\ nth[k + 1] = Len(dispatched) + 1
<1> DEFINE size == m_msgSizeBuffer
           body == m_recvMessage
           e == m_recvEncryptType
           m == sent[Len(dispatched) + 1]
<1>1. /\ all \in Seq(Bytes) /\ Splits(all, sent, K, cuts, nth) /\ cuts[K] = Len(all) /\ nth[K] = Len(sent)
      /\ k \in 0..K /\ nth[k] = Len(dispatched)
      /\ IsAt(all, cuts[k], Held \o inbound)
  BY DEF InStream
<1>2. cuts[k] \in Nat
  BY <1>1 DEF Splits
<1>3. /\ size \in Seq(Bytes) /\ Len(size) = SizeBytes /\ body \in Seq(Bytes) /\ e \in Bytes
      /\ m_messageSize = SizeOf(size) /\ m_messageSize \in 1..MaxRecvSize /\ Len(body) = m_messageSize - 1
  BY TypesSplit DEF ReaderInv, ReaderTypes, ReaderKept
<1>4. SizeBytes \in Nat \ {0} /\ MaxRecvSize \in Nat
  BY LobbyAssumption
<1>5. Held = size \o <<e>> \o body
  BY DEF Held
<1>6. Held \in Seq(Bytes) /\ inbound \in Seq(Bytes) /\ IsJoin(Bytes, Held, inbound, Held \o inbound) /\ Len(dispatched) \in Nat
  BY HeldFacts
<1> HIDE DEF size, body, e
<1>7. IsAt(all, cuts[k], Held)
  BY <1>1, <1>2, <1>6, IsAtParts
<1>8. /\ Held \in Seq(Bytes) /\ Len(Held) = SizeBytes + 1 + Len(body)
      /\ \A i \in 1..SizeBytes : Held[i] = size[i]
      /\ Held[SizeBytes + 1] = e
      /\ \A i \in 1..Len(body) : Held[SizeBytes + 1 + i] = body[i]
  <2>1. /\ size \o <<e>> \o body \in Seq(Bytes) /\ Len(size \o <<e>> \o body) = SizeBytes + 1 + Len(body)
        /\ \A i \in 1..SizeBytes : (size \o <<e>> \o body)[i] = size[i]
        /\ (size \o <<e>> \o body)[SizeBytes + 1] = e
        /\ \A i \in 1..Len(body) : (size \o <<e>> \o body)[SizeBytes + 1 + i] = body[i]
    <3>1. size \in Seq(Bytes) /\ e \in Bytes /\ body \in Seq(Bytes) /\ SizeBytes \in Nat /\ Len(size) = SizeBytes
      BY <1>3, <1>4
    <3> QED
      BY ONLY <3>1, ThreeParts
  <2> QED
    BY <1>5, <2>1
<1>9. Len(body) \in Nat /\ Len(Held) \in Nat /\ SizeBytes + 1 + Len(body) = Len(Held)
  BY <1>3, <1>8
<1>10. cuts[k] + Len(Held) <= Len(all) /\ \A i \in 1..Len(Held) : all[cuts[k] + i] = Held[i]
  BY <1>7 DEF IsAt
<1>11. IsAt(all, cuts[k], size)
  <2>1. Len(all) \in Nat /\ cuts[k] + SizeBytes <= Len(all)
    BY <1>1, <1>2, <1>4, <1>9, <1>10
  <2>2. ASSUME NEW i \in 1..SizeBytes PROVE all[cuts[k] + i] = size[i]
    <3>1. i \in 1..Len(Held)
      BY <1>4, <1>9
    <3> QED
      BY <1>8, <1>10, <3>1
  <2> QED
    BY <1>3, <2>1, <2>2 DEF IsAt
<1>12. MessagesOf(sent)
  BY HistoryOfMessages
<1>13. SizeOf(size) # 0
  BY <1>3, <1>4
<1>14. k + 1 \in 0..K /\ IsFrame(all, sent, cuts, nth, k) /\ IsMessage(sent[nth[k] + 1]) /\ SizeOf(size) = Len(sent[nth[k] + 1].body) + 1
  <2>1. SizeThere(all, sent, K, cuts, nth, k, size)
    BY <1>1, <1>3, <1>11, <1>12 DEF SizeThere
  <2>2. ThingIs(all, sent, K, cuts, nth, k, size)
    BY <2>1, ThingAt
  <2> QED
    BY <1>13, <2>2 DEF ThingIs
<1>15. /\ Len(dispatched) < Len(sent) /\ nth[k + 1] = Len(dispatched) + 1 /\ IsMessage(m) /\ SizeOf(size) = Len(m.body) + 1
       /\ IsAt(all, cuts[k], Frame(m)) /\ cuts[k + 1] = cuts[k] + Len(Frame(m))
  BY <1>1, <1>14 DEF IsFrame
<1> HIDE DEF m
<1>16. /\ Frame(m) \in Seq(Bytes) /\ Len(Frame(m)) = SizeBytes + 1 + Len(m.body)
       /\ Frame(m)[SizeBytes + 1] = m.enc
       /\ \A i \in 1..Len(m.body) : Frame(m)[SizeBytes + 1 + i] = m.body[i]
  BY <1>15, FrameFacts
<1>17. Len(m.body) = Len(body) /\ m.body \in Seq(Bytes) /\ m = [enc |-> m.enc, body |-> m.body]
  <2>1. m \in [enc : {0, 1}, body : Seq(Bytes)]
    BY <1>15 DEF IsMessage
  <2>2. m.body \in Seq(Bytes) /\ m = [enc |-> m.enc, body |-> m.body]
    BY <2>1
  <2>3. Len(m.body) \in Nat
    BY <2>2
  <2>4. Len(m.body) + 1 = m_messageSize
    BY <1>3, <1>15
  <2> QED
    BY <1>3, <1>9, <2>2, <2>3, <2>4
<1>18. Len(Frame(m)) = Len(Held)
  BY <1>8, <1>16, <1>17
<1>19. \A i \in 1..Len(Held) : Frame(m)[i] = Held[i]
  BY <1>10, <1>15, <1>18 DEF IsAt
<1>20. m.enc = e
  <2>1. SizeBytes + 1 \in 1..Len(Held)
    BY <1>4, <1>9
  <2> QED
    BY <1>8, <1>16, <1>19, <2>1
<1>21. m.body = body
  <2>1. ASSUME NEW i \in 1..Len(body) PROVE m.body[i] = body[i]
    <3>1. SizeBytes + 1 + i \in 1..Len(Held)
      BY <1>4, <1>9
    <3> QED
      BY <1>8, <1>16, <1>17, <1>19, <3>1
  <2> QED
    BY <1>3, <1>17, <2>1, SameSeq
<1>22. Message = m
  BY <1>17, <1>20, <1>21 DEF Message, e, body
<1> QED
  BY <1>14, <1>15, <1>18, <1>22 DEF m

\* The server puts a frame or a keep-alive behind what it has sent.
LEMMA ServerAdds ==
  ASSUME ReaderInv, StreamKept, peer = "open", peer' = "open", UNCHANGED <<reader, dispatched>>,
         NEW f \in Seq(Bytes), inbound' = inbound \o f,
         \/ f = KeepAlive /\ sent' = sent
         \/ \E m \in ServerMessages : f = Frame(m) /\ sent' = Append(sent, m)
  PROVE  StreamKept'
<1> PICK all, K, cuts, nth, k : InStream(all, K, cuts, nth, k)
  BY DEF StreamKept
<1> DEFINE all2 == all \o f
           hi == Held \o inbound
           hif == hi \o f
           cuts2 == More(K, cuts, cuts[K] + Len(f))
<1>1. /\ all \in Seq(Bytes) /\ Splits(all, sent, K, cuts, nth) /\ cuts[K] = Len(all) /\ nth[K] = Len(sent)
      /\ k \in 0..K /\ nth[k] = Len(dispatched)
      /\ Ends(all, cuts[k], hi)
  BY DEF InStream, Ends
<1>2. K \in Nat /\ cuts \in [0..K -> 0..Len(all)] /\ nth \in [0..K -> 0..Len(sent)]
  BY <1>1 DEF Splits
<1>3. Held \in Seq(Bytes) /\ inbound \in Seq(Bytes) /\ hi \in Seq(Bytes) /\ Len(dispatched) \in Nat
  BY HeldFacts
<1>4. sent \in Seq(ServerMessages) /\ MessagesOf(sent) /\ Len(sent) \in Nat
  BY HistoryOfMessages
<1>5. Held' = Held
  BY DEF Held, reader
<1>6. (Held \o inbound)' = hif
  <2>1. (Held \o inbound)' = Held \o (inbound \o f)
    BY <1>5
  <2>2. (Held \o inbound) \o f = Held \o (inbound \o f)
    BY Zenon, <1>3, BytesAssociate
  <2> QED
    BY Zenon, <2>1, <2>2
<1>7. IsJoin(Bytes, hi, f, hif) /\ IsJoin(Bytes, all, f, all2)
  BY <1>1, <1>3, Joins
<1> HIDE DEF all2, hif, hi
<1>8. all2 \in Seq(Bytes) /\ Len(all2) = Len(all) + Len(f) /\ Extends(all, all2)
  <2>1. Len(all) \in Nat /\ Len(f) \in Nat
    BY <1>1
  <2>2. all2 \in Seq(Bytes) /\ Len(all2) = Len(all) + Len(f) /\ \A i \in 1..Len(all) : all2[i] = all[i]
    BY <1>7 DEF IsJoin
  <2> QED
    BY <2>1, <2>2 DEF Extends
<1>9. cuts[k] \in Nat /\ nth[k] \in Nat /\ k # K + 1 /\ k \in 0..K + 1
  BY <1>1, <1>2, <1>4
<1>10. Ends(all2, cuts[k], hif) /\ Ends(all2, Len(all), f)
  BY <1>1, <1>3, <1>7, <1>9, IsAtJoined
<1>11. IsAt(all2, cuts[K], f)
  BY <1>1, <1>10 DEF Ends
<1>12. \E count : Splits(all2, sent', K + 1, cuts2, More(K, nth, count)) /\ count = Len(sent')
  <2>1. CASE f = KeepAlive /\ sent' = sent
    <3>1. Extends(sent, sent)
      BY <1>4 DEF Extends
    <3>2. Splits(all2, sent, K, cuts, nth)
      BY <1>1, <1>4, <1>8, <3>1, SplitGrows
    <3>3. Splits(all2, sent, K + 1, More(K, cuts, cuts[K] + SizeBytes), More(K, nth, nth[K]))
      BY <1>4, <1>8, <1>11, <2>1, <3>2, KeepAliveAdded
    <3>4. Len(f) = SizeBytes
      BY <2>1, KeepAliveFacts
    <3> QED
      BY <1>1, <2>1, <3>3, <3>4
  <2>2. CASE \E m \in ServerMessages : f = Frame(m) /\ sent' = Append(sent, m)
    <3> PICK m \in ServerMessages : f = Frame(m) /\ sent' = Append(sent, m)
      BY <2>2
    <3> DEFINE s2 == Append(sent, m)
    <3>1. Len(s2) = Len(sent) + 1 /\ s2[Len(sent) + 1] = m /\ \A i \in 1..Len(sent) : s2[i] = sent[i]
      BY <1>4
    <3>2. sent' = s2
      OBVIOUS
    <3> HIDE DEF s2
    <3>3. Extends(sent, s2)
      BY <1>4, <3>1 DEF Extends
    <3>4. Splits(all2, s2, K, cuts, nth)
      BY <1>1, <1>4, <1>8, <3>3, SplitGrows
    <3>5. nth[K] < Len(s2) /\ Len(s2) \in Nat /\ f = Frame(s2[nth[K] + 1]) /\ nth[K] + 1 = Len(s2)
      BY <1>1, <1>4, <3>1
    <3>6. Splits(all2, s2, K + 1, More(K, cuts, cuts[K] + Len(f)), More(K, nth, nth[K] + 1))
      BY <1>8, <1>11, <3>4, <3>5, FrameAdded
    <3> QED
      BY <3>2, <3>5, <3>6
  <2> QED
    BY <2>1, <2>2
<1> PICK count : Splits(all2, sent', K + 1, cuts2, More(K, nth, count)) /\ count = Len(sent')
  BY <1>12
<1> DEFINE nth2 == More(K, nth, count)
<1>13. cuts2[k] = cuts[k] /\ nth2[k] = nth[k] /\ cuts2[K + 1] = Len(all2) /\ nth2[K + 1] = Len(sent')
  BY <1>1, <1>2, <1>8, <1>9 DEF More
<1> HIDE DEF cuts2
<1>14. Splits(all2, sent', K + 1, cuts2, nth2)
  OBVIOUS
<1> HIDE DEF nth2
<1>15. InStream(all2, K + 1, cuts2, nth2, k)'
  <2>1. dispatched' = dispatched
    OBVIOUS
  <2>2. IsAt(all2, cuts2[k], (Held \o inbound)') /\ cuts2[k] + Len((Held \o inbound)') = Len(all2)
    BY <1>6, <1>10, <1>13 DEF Ends
  <2>3. all2 \in Seq(Bytes) /\ cuts2[K + 1] = Len(all2) /\ nth2[K + 1] = Len(sent') /\ k \in 0..K + 1 /\ nth2[k] = Len(dispatched')
    BY <1>1, <1>8, <1>9, <1>13, <2>1
  <2> QED
    BY <1>14, <2>2, <2>3 DEF InStream
<1> QED
  BY <1>15 DEF StreamKept

\* A step of recvMessageData that reads bytes and stays in the thing.
LEMMA ReadsOn ==
  ASSUME ReaderInv, StreamKept, NEW n \in 0..Len(inbound),
         Held' = Held \o SubSeq(inbound, 1, n), inbound' = SubSeq(inbound, n + 1, Len(inbound)),
         UNCHANGED <<sent, dispatched, peer>>
  PROVE  StreamKept'
<1>1. Held \in Seq(Bytes) /\ inbound \in Seq(Bytes)
  BY HeldFacts
<1>2. (Held \o inbound)' = Held \o inbound
  BY <1>1, MovedOver
<1> QED
  BY <1>2, SameStream

\* Every step keeps the inbound stream in step with the reader.
LEMMA StreamStep == ReaderInv /\ StreamKept /\ [LobbyNext]_lobbyVars => StreamKept'
<1> SUFFICES ASSUME ReaderInv, StreamKept, [LobbyNext]_lobbyVars PROVE StreamKept'
  OBVIOUS
<1> USE DEF reader, streams
<1>0. /\ m_msgSizeBuffer \in Seq(Bytes) /\ m_recvEncryptType \in Bytes /\ m_recvMessage \in Seq(Bytes) /\ inbound \in Seq(Bytes)
      /\ Held \in Seq(Bytes) /\ Len(dispatched) \in Nat /\ SizeBytes \in Nat \ {0} /\ IsJoin(Bytes, Held, inbound, Held \o inbound)
      /\ dispatched \in Seq([enc : Bytes, body : Seq(Bytes)])
  BY TypesSplit, HeldFacts, KeepAliveFacts DEF ReaderInv, ReaderTypes
<1>1. CASE UNCHANGED lobbyVars
  BY <1>1, SameStream DEF lobbyVars, Held
<1>2. CASE Calls \/ Poll \/ Pumping
  <2>1. UNCHANGED <<reader, inbound, peer, sent, dispatched>>
    BY <1>2 DEF Calls, Connect, Disconnect, SendTask, SendRaw, Poll, Pumping, PumpConnecting, ListenerReturns, SendSome,
           SendNothing, SendKeepAlive, CheckSilence
  <2> QED
    BY <2>1, SameStream DEF Held
<1>3. CASE RecvSize
  <2>1. PICK n \in 1..SizeBytes - Len(SoFar) :
        /\ n <= Len(inbound)
        /\ inbound' = SubSeq(inbound, n + 1, Len(inbound))
        /\ m_msgSizeBuffer' = SizeRead(n)
        /\ IF Len(SoFar) + n < SizeBytes
           THEN /\ m_recvState' = "SIZE" /\ m_messageSize' = 0
                /\ late' = late \ {"receive"}
                /\ UNCHANGED <<m_status, m_handle, told>>
           ELSE LET size == SizeOf(SizeRead(n))
                IN  /\ m_messageSize' = size
                    /\ IF size > MaxRecvSize
                       THEN Close /\ m_recvState' = "SIZE" /\ UNCHANGED late
                       ELSE /\ m_recvState' = IF size = 0 THEN "INIT"
                                                          ELSE "ENCRYPT"
                            /\ late' = late \ {"receive"}
                            /\ UNCHANGED <<m_status, m_handle, told>>
    BY <1>3 DEF RecvSize
  <2>2. UNCHANGED <<peer, sent, dispatched>> /\ m_recvState \in {"INIT", "SIZE"}
    BY <1>3 DEF RecvSize
  <2>3. SoFar = Held /\ Len(Held) \in Nat
    BY <1>0, <2>2 DEF SoFar, Held
  <2>4. n \in 0..Len(inbound)
    BY <1>0, <2>1, <2>3
  <2>5. m_msgSizeBuffer' = Held \o SubSeq(inbound, 1, n)
    BY <2>1, <2>3 DEF SizeRead
  <2>6. CASE m_recvState' \in {"SIZE", "ENCRYPT"}
    <3>1. Held' = m_msgSizeBuffer'
      BY <2>6 DEF Held
    <3> QED
      BY <2>1, <2>2, <2>4, <2>5, <3>1, ReadsOn
  <2>7. CASE m_recvState' = "INIT"
    <3> DEFINE read == Held \o SubSeq(inbound, 1, n)
               rest == SubSeq(inbound, n + 1, Len(inbound))
    <3>1. /\ SubSeq(inbound, 1, n) \in Seq(Bytes) /\ Len(SubSeq(inbound, 1, n)) = n /\ rest \in Seq(Bytes)
      BY <1>0, <2>4, CutInTwo
    <3>2. IsJoin(Bytes, Held, SubSeq(inbound, 1, n), read)
      BY <1>0, <3>1, Joins
    <3>3. read \in Seq(Bytes) /\ Len(read) = Len(Held) + n
      BY <3>1, <3>2 DEF IsJoin
    <3>4. ~(Len(SoFar) + n < SizeBytes) /\ SizeOf(read) = 0
      <4>1. ~(Len(SoFar) + n < SizeBytes)
        BY <2>1, <2>7
      <4>2. SizeRead(n) = read
        BY <2>3 DEF SizeRead
      <4> QED
        BY <2>1, <2>7, <4>1, <4>2
    <3>5. Len(read) = SizeBytes
      <4>1. n \in Nat /\ n <= SizeBytes - Len(Held)
        BY <1>0, <2>1, <2>3, <2>4
      <4> DEFINE l == Len(Held)
                 r == Len(read)
      <4>2. l \in Nat /\ r = l + n /\ n \in Nat /\ n <= SizeBytes - l /\ ~(l + n < SizeBytes) /\ SizeBytes \in Nat
        BY <1>0, <2>3, <3>3, <3>4, <4>1
      <4> HIDE DEF l, r
      <4>3. r = SizeBytes
        BY <4>2
      <4> QED
        BY <4>3 DEF r
    <3>6. read \o rest = Held \o inbound
      BY <1>0, <2>4, MovedOver
    <3>7. inbound' = rest /\ Held' = <<>>
      BY <2>1, <2>7 DEF Held
    <3> HIDE DEF read, rest
    <3>8. IsJoin(Bytes, read, rest, Held \o inbound)
      BY <3>1, <3>3, <3>6, Joins
    <3> PICK all, K, cuts, nth, k : InStream(all, K, cuts, nth, k)
      BY DEF StreamKept
    <3>9. /\ all \in Seq(Bytes) /\ Splits(all, sent, K, cuts, nth) /\ cuts[K] = Len(all) /\ nth[K] = Len(sent)
          /\ k \in 0..K /\ nth[k] = Len(dispatched) /\ IsAt(all, cuts[k], Held \o inbound)
      BY DEF InStream
    <3>10. cuts[k] \in Nat
      BY <3>9 DEF Splits
    <3>11. IsAt(all, cuts[k], read)
      BY <3>1, <3>3, <3>8, <3>9, <3>10, IsAtParts
    <3>12. SizeThere(all, sent, K, cuts, nth, k, read)
      BY <3>3, <3>5, <3>9, <3>11, HistoryOfMessages DEF SizeThere
    <3>13. ThingIs(all, sent, K, cuts, nth, k, read)
      BY <3>12, ThingAt
    <3>14. k + 1 \in 0..K /\ IsKeepAlive(all, cuts, nth, k)
      BY <3>4, <3>13 DEF ThingIs
    <3>15. cuts[k + 1] = cuts[k] + Len(read) /\ nth[k + 1] = Len(dispatched')
      BY <2>2, <3>5, <3>9, <3>14 DEF IsKeepAlive
    <3>16. (Held \o inbound)' = rest
      BY <3>1, <3>7, EmptyJoined
    <3> QED
      BY <2>2, <3>1, <3>3, <3>8, <3>14, <3>15, <3>16, NextThing
  <2> QED
    BY <2>1, <2>6, <2>7
<1>4. CASE RecvEncrypt
  <2>1. /\ m_recvState = "ENCRYPT" /\ inbound # <<>> /\ m_recvEncryptType' = Head(inbound) /\ inbound' = Tail(inbound)
        /\ m_recvMessage' = <<>> /\ m_recvState' = "MESSAGE" /\ UNCHANGED <<m_msgSizeBuffer, peer, sent, dispatched>>
    BY <1>4 DEF RecvEncrypt
  <2>2. Held = m_msgSizeBuffer /\ Held' = m_msgSizeBuffer \o <<Head(inbound)>> \o <<>>
    BY <2>1 DEF Held
  <2>3. /\ 1 \in 0..Len(inbound) /\ <<Head(inbound)>> \in Seq(Bytes) /\ Tail(inbound) = SubSeq(inbound, 1 + 1, Len(inbound))
        /\ SubSeq(inbound, 1, 1) = <<Head(inbound)>>
    BY <1>0, <2>1, HeadAndTail
  <2>4. Held' = Held \o SubSeq(inbound, 1, 1)
    <3>1. m_msgSizeBuffer \o <<Head(inbound)>> \in Seq(Bytes)
      BY <1>0, <2>3
    <3>2. m_msgSizeBuffer \o <<Head(inbound)>> \o <<>> = m_msgSizeBuffer \o <<Head(inbound)>>
      BY <3>1, EmptyJoined
    <3> QED
      BY <2>2, <2>3, <3>2
  <2> QED
    BY <2>1, <2>3, <2>4, ReadsOn
<1>5. CASE RecvMessage
  <2>1. PICK n \in 1..Wanted :
        /\ n <= Len(inbound)
        /\ m_recvMessage' = m_recvMessage \o SubSeq(inbound, 1, n)
        /\ inbound' = SubSeq(inbound, n + 1, Len(inbound))
        /\ m_recvState' = IF n = Wanted THEN "COMPLETE" ELSE "MESSAGE"
    BY <1>5 DEF RecvMessage
  <2>2. m_recvState = "MESSAGE" /\ UNCHANGED <<m_msgSizeBuffer, m_recvEncryptType, peer, sent, dispatched>>
    BY <1>5 DEF RecvMessage
  <2>3. Wanted \in Int
    <3>1. m_messageSize \in Int /\ Len(m_recvMessage) \in Int
      BY <1>0, <2>2 DEF ReaderInv, LobbyTypeOK
    <3> QED
      BY <3>1 DEF Wanted
  <2>4. n \in 0..Len(inbound)
    BY <1>0, <2>1, <2>3
  <2>5. SubSeq(inbound, 1, n) \in Seq(Bytes)
    BY <1>0, <2>4, CutInTwo
  <2> DEFINE h == m_msgSizeBuffer \o <<m_recvEncryptType>>
  <2>6. h \in Seq(Bytes)
    BY <1>0
  <2>7. Held = h \o m_recvMessage
    BY <2>2 DEF Held
  <2>8. Held' = h \o m_recvMessage'
    <3>1. m_recvState' \in {"MESSAGE", "COMPLETE"}
      BY <2>1
    <3> QED
      BY <2>2, <3>1 DEF Held
  <2> HIDE DEF h
  <2>9. Held' = Held \o SubSeq(inbound, 1, n)
    <3>1. (h \o m_recvMessage) \o SubSeq(inbound, 1, n) = h \o (m_recvMessage \o SubSeq(inbound, 1, n))
      BY Zenon, <1>0, <2>5, <2>6, BytesAssociate
    <3> QED
      BY Zenon, <2>1, <2>7, <2>8, <3>1
  <2> QED
    BY <2>1, <2>2, <2>4, <2>9, ReadsOn
<1>6. CASE RecvNothing
  <2>1. UNCHANGED <<inbound, peer, sent, dispatched>>
    BY <1>6 DEF RecvNothing
  <2>2. Held' = Held
    BY <1>6 DEF RecvNothing, Held
  <2> QED
    BY <2>1, <2>2, SameStream
<1>7. CASE Dispatch
  <2>1. m_recvState = "COMPLETE" /\ UNCHANGED <<m_msgSizeBuffer, m_recvEncryptType, m_recvMessage, inbound, peer, sent>>
    BY <1>7 DEF Dispatch
  <2>2. CASE Decrypts(Message)
    <3>1. dispatched' = Append(dispatched, Message) /\ m_recvState' = "INIT"
      BY <1>7, <2>2 DEF Dispatch
    <3> PICK all, K, cuts, nth, k : InStream(all, K, cuts, nth, k)
      BY DEF StreamKept
    <3>2. k + 1 \in 0..K /\ cuts[k + 1] = cuts[k] + Len(Held) /\ nth[k + 1] = Len(dispatched) + 1
      BY <2>1, WholeMessage
    <3>3. Held' = <<>> /\ (Held \o inbound)' = inbound
      <4>1. Held' = <<>>
        BY <3>1 DEF Held
      <4>2. <<>> \o inbound = inbound
        BY <1>0
      <4> QED
        BY <2>1, <4>1, <4>2
    <3>4. Len(dispatched') = Len(dispatched) + 1
      BY <1>0, <3>1
    <3> QED
      BY <1>0, <2>1, <3>2, <3>3, <3>4, NextThing
  <2>3. CASE ~Decrypts(Message)
    <3>1. UNCHANGED <<dispatched, m_recvState>>
      BY <1>7, <2>3 DEF Dispatch
    <3> QED
      BY <2>1, <3>1, SameStream DEF Held
  <2> QED
    BY <2>2, <2>3
<1>8. CASE Outside
  <2>1. UNCHANGED <<reader, dispatched>> /\ Held' = Held
    BY <1>8 DEF Outside, ServerSend, ServerKeepAlive, ServerCloses, Reset, QuietFor40, SilentFor120, OnlyStreams, Held
  <2>2. CASE \E m \in ServerMessages : ServerSend(m)
    <3> PICK m \in ServerMessages : ServerSend(m)
      BY <2>2
    <3>1. Frame(m) \in Seq(Bytes)
      BY LobbyAssumption, FrameFacts
    <3>2. peer = "open" /\ peer' = "open" /\ inbound' = inbound \o Frame(m) /\ sent' = Append(sent, m)
      BY DEF ServerSend
    <3> QED
      BY <2>1, <3>1, <3>2, ServerAdds
  <2>3. CASE ServerKeepAlive
    <3>1. peer = "open" /\ peer' = "open" /\ inbound' = inbound \o KeepAlive /\ sent' = sent
      BY <2>3 DEF ServerKeepAlive
    <3> QED
      BY <2>1, <3>1, KeepAliveFacts, ServerAdds
  <2>4. CASE ServerCloses
    <3>1. UNCHANGED <<inbound, sent>> /\ peer = "open"
      BY <2>4 DEF ServerCloses
    <3> QED
      BY <2>1, <3>1, SameStream
  <2>5. CASE QuietFor40 \/ SilentFor120
    <3>1. UNCHANGED <<inbound, sent, peer>>
      BY <2>5 DEF QuietFor40, SilentFor120
    <3> QED
      BY <2>1, <3>1, SameStream
  <2>6. CASE Reset
    <3>1. inbound' = <<>> /\ peer' = "reset" /\ sent' = sent
      BY <2>6 DEF Reset
    <3> PICK all, K, cuts, nth, k : InStream(all, K, cuts, nth, k)
      BY DEF StreamKept
    <3>2. /\ all \in Seq(Bytes) /\ Splits(all, sent, K, cuts, nth) /\ cuts[K] = Len(all) /\ nth[K] = Len(sent)
          /\ k \in 0..K /\ nth[k] = Len(dispatched) /\ IsAt(all, cuts[k], Held \o inbound)
      BY DEF InStream
    <3>3. cuts[k] \in Nat
      BY <3>2 DEF Splits
    <3>4. IsAt(all, cuts[k], Held)
      BY <1>0, <3>2, <3>3, IsAtParts
    <3>5. (Held \o inbound)' = Held
      BY <1>0, <2>1, <3>1, EmptyJoined
    <3>6. InStream(all, K, cuts, nth, k)'
      BY <2>1, <3>1, <3>2, <3>4, <3>5 DEF InStream
    <3> QED
      BY <3>6 DEF StreamKept
  <2> QED
    BY <1>8, <2>2, <2>3, <2>4, <2>5, <2>6 DEF Outside
<1> QED
  BY <1>1, <1>2, <1>3, <1>4, <1>5, <1>6, <1>7, <1>8 DEF LobbyNext, Receiving
-----------------------------------------------------------------------------
\* The connection is a channel.

\* The phase of the channel in a state of the connection.
PhaseOf(s) == CASE s = "NOT_CONNECTED" -> "new"
                [] s = "CONNECTING" -> "opening"
                [] s = "CONNECTED" -> "up"
                [] OTHER -> "down"

\* The phase of the channel each status is.
LEMMA Phases ==
  /\ PhaseOf("NOT_CONNECTED") = "new" /\ PhaseOf("CONNECTING") = "opening"
  /\ PhaseOf("CONNECTED") = "up" /\ PhaseOf("DISCONNECTED") = "down"
<1>1. PhaseOf("NOT_CONNECTED") = "new"
  BY DEF PhaseOf
<1>2. PhaseOf("CONNECTING") = "opening"
  BY DEF PhaseOf
<1>3. PhaseOf("CONNECTED") = "up"
  BY DEF PhaseOf
<1>4. PhaseOf("DISCONNECTED") = "down"
  BY DEF PhaseOf
<1> QED
  BY <1>1, <1>2, <1>3, <1>4

\* The connection begins as a channel does.
LEMMA ChannelBegins == LobbyInit => Channel!ChannelInit
<1> SUFFICES ASSUME LobbyInit PROVE Channel!ChannelInit
  OBVIOUS
<1>1. sent = <<>> /\ dispatched = <<>> /\ PhaseOf(m_status) = "new"
  BY Phases DEF LobbyInit
<1> QED
  BY <1>1 DEF Channel!ChannelInit, PhaseOf

\* Only these steps of the status happen.
LEMMA StatusSteps ==
  ASSUME ReaderInv, [LobbyNext]_lobbyVars
  PROVE  \/ m_status' = m_status
         \/ m_status = "NOT_CONNECTED" /\ m_status' \in {"CONNECTING", "CONNECTED"}
         \/ m_status = "CONNECTING" /\ m_status' = "CONNECTED"
         \/ m_status' = "DISCONNECTED"
<1> USE DEF Close, Connected
<1>1. CASE UNCHANGED lobbyVars
  BY <1>1 DEF lobbyVars
<1>2. CASE Calls \/ Poll
  BY <1>2 DEF Calls, Connect, Disconnect, SendTask, SendRaw, Poll
<1>3. CASE Pumping
  <2>1. CASE PumpConnecting
    <3>1. m_status = "CONNECTING"
      BY <2>1 DEF PumpConnecting, ReaderInv, ReaderKept
    <3> QED
      BY <2>1, <3>1 DEF PumpConnecting
  <2> QED
    BY <1>3, <2>1 DEF Pumping, ListenerReturns, SendSome, SendNothing, SendKeepAlive, CheckSilence
<1>4. CASE Receiving
  BY <1>4 DEF Receiving, RecvSize, RecvEncrypt, RecvMessage, RecvNothing, Dispatch
<1>5. CASE Outside
  BY <1>5 DEF Outside, ServerSend, ServerKeepAlive, ServerCloses, Reset, QuietFor40, SilentFor120, OnlyStreams
<1> QED
  BY <1>1, <1>2, <1>3, <1>4, <1>5 DEF LobbyNext

\* Every step of the connection is a step of the channel, or a stutter.
LEMMA ChannelStep ==
  ReaderInv /\ StreamKept /\ [LobbyNext]_lobbyVars => [Channel!ChannelNext]_(Channel!channelVars)
<1> SUFFICES ASSUME ReaderInv, StreamKept, [LobbyNext]_lobbyVars
             PROVE  Channel!ChannelNext \/ UNCHANGED <<sent, dispatched, PhaseOf(m_status)>>
  BY DEF Channel!channelVars, PhaseOf
<1>1. CASE \E m \in ServerMessages : ServerSend(m)
  <2> PICK m \in ServerMessages : ServerSend(m)
    BY <1>1
  <2>1. PhaseOf(m_status) = "up" /\ sent' = Append(sent, m) /\ UNCHANGED <<dispatched, m_status>>
    BY Phases DEF ServerSend, Established, OnlyStreams
  <2>2. Channel!ServerSends(m)
    BY <2>1 DEF Channel!ServerSends, PhaseOf
  <2> QED
    BY <2>2 DEF Channel!ChannelNext
<1>2. CASE Dispatch /\ Decrypts(Message)
  <2>1. m_status = "CONNECTED" /\ m_recvState = "COMPLETE" /\ dispatched' = Append(dispatched, Message) /\ UNCHANGED <<sent, m_status>>
    BY <1>2 DEF Dispatch, Reading, streams
  <2> PICK all, K, cuts, nth, k : InStream(all, K, cuts, nth, k)
    BY DEF StreamKept
  <2>2. Len(dispatched) < Len(sent) /\ Message = sent[Len(dispatched) + 1]
    BY <2>1, WholeMessage
  <2>3. Message \in ServerMessages
    BY <2>2, HeldFacts, HistoryOfMessages
  <2>4. sent[Len(dispatched) + 1] \in {m \in ServerMessages : Decrypts(m)}
    BY <1>2, <2>2, <2>3
  <2>5. PhaseOf(m_status) = "up"
    BY <2>1, Phases
  <2>6. Channel!Deliver
    BY <2>1, <2>2, <2>4, <2>5 DEF Channel!Deliver, PhaseOf
  <2> QED
    BY <2>6 DEF Channel!ChannelNext
<1>3. CASE ~(\E m \in ServerMessages : ServerSend(m)) /\ ~(Dispatch /\ Decrypts(Message))
  <2>1. UNCHANGED <<sent, dispatched>>
    <3>1. CASE UNCHANGED lobbyVars
      BY <3>1 DEF lobbyVars, streams
    <3>2. CASE Calls \/ Poll \/ Pumping
      BY <3>2 DEF Calls, Connect, Disconnect, SendTask, SendRaw, Poll, Pumping, PumpConnecting, ListenerReturns, SendSome,
                  SendNothing, SendKeepAlive, CheckSilence, streams
    <3>3. CASE Receiving
      BY <1>3, <3>3 DEF Receiving, RecvSize, RecvEncrypt, RecvMessage, RecvNothing, Dispatch, streams
    <3>4. CASE Outside
      BY <1>3, <3>4 DEF Outside, ServerKeepAlive, ServerCloses, Reset, QuietFor40, SilentFor120, OnlyStreams, streams
    <3> QED
      BY <3>1, <3>2, <3>3, <3>4 DEF LobbyNext
  <2>2. CASE m_status' = m_status
    BY <2>1, <2>2
  <2>3. CASE m_status = "NOT_CONNECTED" /\ m_status' \in {"CONNECTING", "CONNECTED"}
    <3>1. PhaseOf(m_status) = "new" /\ PhaseOf(m_status') \in {"opening", "up"}
      BY <2>3, Phases
    <3>2. Channel!Open
      BY <2>1, <3>1 DEF Channel!Open, PhaseOf
    <3> QED
      BY <3>2 DEF Channel!ChannelNext
  <2>4. CASE m_status = "CONNECTING" /\ m_status' = "CONNECTED"
    <3>1. PhaseOf(m_status) = "opening" /\ PhaseOf(m_status') = "up"
      BY <2>4, Phases
    <3>2. Channel!ComeUp
      BY <2>1, <3>1 DEF Channel!ComeUp, PhaseOf
    <3> QED
      BY <3>2 DEF Channel!ChannelNext
  <2>5. CASE m_status' = "DISCONNECTED" /\ m_status # "DISCONNECTED"
    <3>1. PhaseOf(m_status) # "down" /\ PhaseOf(m_status') = "down"
      BY <2>5, Phases DEF ReaderInv, LobbyTypeOK
    <3>2. Channel!GoDown
      BY <2>1, <3>1 DEF Channel!GoDown, PhaseOf
    <3> QED
      BY <3>2 DEF Channel!ChannelNext
  <2> QED
    BY <2>2, <2>3, <2>4, <2>5, StatusSteps
<1> QED
  BY <1>1, <1>2, <1>3

\* ImplementsChannel: every step of the connection is a step of LobbyChannel or
\* changes nothing of it. What getMessageToDispatch returns is a beginning of what
\* the server sent, unaltered, and nothing comes out before the connection is up
\* or after it is given up.
THEOREM ChannelPromised == LobbySpec => ImplementsChannel
<1>1. LobbySpec => []StreamKept
  BY ReaderInvHolds, StreamInit, StreamStep, PTL DEF LobbySpec
<1>2. LobbySpec => Channel!ChannelInit /\ [][Channel!ChannelNext]_(Channel!channelVars)
  BY <1>1, ReaderInvHolds, ChannelBegins, ChannelStep, PTL DEF LobbySpec
<1> QED
  BY <1>2 DEF ImplementsChannel, Channel!ChannelSpec
-----------------------------------------------------------------------------
(***************************************************************************)
(* The stream to the server.  b is what the socket took, s what was queued, *)
(* q what is left of it, g the places of the buffers begun and c whether a  *)
(* keep-alive was cut.                                                      *)
(***************************************************************************)
Pieces == Seq(Bytes) \ {<<>>}

Streams(b, s, q, g) == b \in Seq(Bytes) /\ s \in Seq(Pieces) /\ q \in Seq(Pieces) /\ g \in Seq(Nat)

Done(s, q) == Len(s) - Len(q)
PartIn(s, q, k) == Len(s[k]) - IF k <= Done(s, q) THEN 0 ELSE Len(q[1])
EndIn(s, q, g, k) == IF k = 0 THEN 0 ELSE g[k] + PartIn(s, q, k)
StartIn(b, g, k) == IF k <= Len(g) THEN g[k] ELSE Len(b)

\* Between two places are only the zeros of keep-alives, whole unless c.
Quiet(b, c, from, to) ==
  /\ from \in Nat /\ to \in Nat /\ from <= to /\ to <= Len(b)
  /\ \A i \in from + 1..to : b[i] = 0
  /\ ~c => \E n \in 0..Len(b) : to = from + n * SizeBytes

\* The buffers begun lie where they began, with keep-alives between.
Laid(b, s, q, g, c) ==
  /\ \A k \in 1..Len(g) : \A i \in 1..PartIn(s, q, k) : b[g[k] + i] = s[k][i]
  /\ \A k \in 0..Len(g) : Quiet(b, c, EndIn(s, q, g, k), StartIn(b, g, k + 1))

\* What is left is the rest of the next buffer, all of it if that is not begun,
\* and those behind it.
Left(s, q, g) ==
  /\ Done(s, q) \in Nat /\ Len(g) \in {Done(s, q), Done(s, q) + 1}
  /\ q = <<>> => Len(g) = Done(s, q)
  /\ \A j \in 2..Len(q) : q[j] = s[Done(s, q) + j]
  /\ q # <<>> => /\ Len(q[1]) <= Len(s[Done(s, q) + 1])
                 /\ \A i \in 1..Len(q[1]) :
                      q[1][i] = s[Done(s, q) + 1][Len(s[Done(s, q) + 1]) - Len(q[1]) + i]
                 /\ Len(g) = Done(s, q) => Len(q[1]) = Len(s[Done(s, q) + 1])

\* A buffer that is begun ends where the stream does.
AtTheEnd(b, s, q, g) == Len(g) = Done(s, q) + 1 => EndIn(s, q, g, Len(g)) = Len(b)

QueueKept ==
  /\ Streams(outbound, queued, m_outgoing, began)
  /\ Laid(outbound, queued, m_outgoing, began, cut) /\ Left(queued, m_outgoing, began)
  /\ m_status = "CONNECTED" \/ ~cut => AtTheEnd(outbound, queued, m_outgoing, began)
  /\ m_status \in {"NOT_CONNECTED", "CONNECTING"} => began = <<>>

\* The lengths, and the pieces the sequences are of.
LEMMA StreamFacts ==
  ASSUME NEW b, NEW s, NEW q, NEW g, Streams(b, s, q, g)
  PROVE  /\ Len(b) \in Nat /\ Len(s) \in Nat /\ Len(q) \in Nat /\ Len(g) \in Nat
         /\ (q = <<>> <=> Len(q) = 0) /\ (g = <<>> <=> Len(g) = 0)
         /\ \A k \in 1..Len(s) : s[k] \in Seq(Bytes) /\ Len(s[k]) \in Nat \ {0}
         /\ \A k \in 1..Len(q) : q[k] \in Seq(Bytes) /\ Len(q[k]) \in Nat \ {0}
         /\ \A k \in 1..Len(g) : g[k] \in Nat
<1>1. /\ Len(b) \in Nat /\ Len(s) \in Nat /\ Len(q) \in Nat /\ Len(g) \in Nat
      /\ (q = <<>> <=> Len(q) = 0) /\ (g = <<>> <=> Len(g) = 0)
      /\ \A k \in 1..Len(g) : g[k] \in Nat
  BY DEF Streams
<1>2. \A x \in Pieces : x \in Seq(Bytes) /\ Len(x) \in Nat \ {0}
  BY DEF Pieces
<1>3. \A k \in 1..Len(s) : s[k] \in Pieces
  BY DEF Streams
<1>4. \A k \in 1..Len(q) : q[k] \in Pieces
  BY DEF Streams
<1> QED
  BY <1>1, <1>2, <1>3, <1>4

\* A quiet place stays so when the stream grows behind it.
LEMMA StillQuiet ==
  ASSUME NEW b, NEW b2, NEW c, NEW from, NEW to, Quiet(b, c, from, to),
         Len(b) \in Nat, Len(b2) \in Nat, Len(b) <= Len(b2), \A i \in 1..Len(b) : b2[i] = b[i]
  PROVE  Quiet(b2, c, from, to)
<1>1. from \in Nat /\ to \in Nat /\ from <= to /\ to <= Len(b2)
  BY DEF Quiet
<1>2. \A i \in from + 1..to : b2[i] = 0
  BY DEF Quiet
<1>3. ~c => \E n \in 0..Len(b2) : to = from + n * SizeBytes
  <2> SUFFICES ASSUME ~c PROVE \E n \in 0..Len(b2) : to = from + n * SizeBytes
    OBVIOUS
  <2> PICK n \in 0..Len(b) : to = from + n * SizeBytes
    BY DEF Quiet
  <2>1. n \in 0..Len(b2)
    OBVIOUS
  <2> QED
    BY <2>1
<1> QED
  BY <1>1, <1>2, <1>3 DEF Quiet

\* Nothing is between a place and itself.
LEMMA NothingBetween ==
  ASSUME NEW b, NEW c, NEW x \in Nat, Len(b) \in Nat, x <= Len(b)
  PROVE  Quiet(b, c, x, x)
<1>1. 0 \in 0..Len(b) /\ x = x + 0 * SizeBytes
  BY KeepAliveFacts
<1>2. \E n \in 0..Len(b) : x = x + n * SizeBytes
  BY <1>1
<1>3. \A i \in x + 1..x : b[i] = 0
  OBVIOUS
<1> QED
  BY <1>2, <1>3 DEF Quiet

\* One more buffer in the queue.
LEMMA BufferQueued ==
  ASSUME NEW b, NEW s, NEW q, NEW g, NEW c, Streams(b, s, q, g), Laid(b, s, q, g, c), Left(s, q, g),
         NEW x \in Pieces
  PROVE  /\ Streams(b, Append(s, x), Append(q, x), g) /\ Laid(b, Append(s, x), Append(q, x), g, c)
         /\ Left(Append(s, x), Append(q, x), g)
         /\ AtTheEnd(b, s, q, g) => AtTheEnd(b, Append(s, x), Append(q, x), g)
<1> DEFINE s2 == Append(s, x)
           q2 == Append(q, x)
           N == Done(s, q)
<1>1. /\ Len(b) \in Nat /\ Len(s) \in Nat /\ Len(q) \in Nat /\ Len(g) \in Nat
      /\ (q = <<>> <=> Len(q) = 0) /\ s \in Seq(Pieces) /\ q \in Seq(Pieces)
  BY StreamFacts DEF Streams
<1>2. s2 \in Seq(Pieces) /\ Len(s2) = Len(s) + 1 /\ (\A i \in 1..Len(s) : s2[i] = s[i]) /\ s2[Len(s) + 1] = x
  BY <1>1, Appended
<1>3. q2 \in Seq(Pieces) /\ Len(q2) = Len(q) + 1 /\ (\A i \in 1..Len(q) : q2[i] = q[i]) /\ q2[Len(q) + 1] = x
  BY <1>1, Appended
<1>4. N \in Nat /\ N + Len(q) = Len(s) /\ Len(g) \in {N, N + 1} /\ (q = <<>> => Len(g) = N) /\ Len(g) <= Len(s)
  BY <1>1 DEF Left, Done
<1>5. x \in Seq(Bytes) /\ Len(x) \in Nat \ {0}
  BY DEF Pieces
<1> HIDE DEF s2, q2
<1>6. Done(s2, q2) = N
  BY <1>1, <1>2, <1>3 DEF Done
<1>7. \A k \in 1..Len(g) : s2[k] = s[k] /\ PartIn(s2, q2, k) = PartIn(s, q, k)
  <2> SUFFICES ASSUME NEW k \in 1..Len(g) PROVE s2[k] = s[k] /\ PartIn(s2, q2, k) = PartIn(s, q, k)
    OBVIOUS
  <2>1. s2[k] = s[k]
    BY <1>1, <1>2, <1>4
  <2>2. CASE k <= N
    BY <1>6, <2>1, <2>2 DEF PartIn
  <2>3. CASE ~(k <= N)
    <3>1. q # <<>>
      BY <1>1, <1>4, <2>3
    <3>2. q2[1] = q[1]
      BY <1>1, <1>3, <3>1
    <3> QED
      BY <1>6, <2>1, <3>2 DEF PartIn
  <2> QED
    BY <2>2, <2>3
<1>8. \A k \in 0..Len(g) : EndIn(s2, q2, g, k) = EndIn(s, q, g, k)
  BY <1>1, <1>7 DEF EndIn
<1>9. Laid(b, s2, q2, g, c)
  BY <1>7, <1>8 DEF Laid
<1>10. Streams(b, s2, q2, g)
  BY <1>2, <1>3 DEF Streams
<1>11. AtTheEnd(b, s, q, g) => AtTheEnd(b, s2, q2, g)
  <2>1. Len(g) \in 0..Len(g)
    BY <1>1
  <2> QED
    BY <1>6, <1>8, <2>1 DEF AtTheEnd
<1>12. Left(s2, q2, g)
  <2>1. q2 # <<>> /\ 1 \in 1..Len(q2)
    BY <1>1, <1>3
  <2>2. \A j \in 2..Len(q2) : q2[j] = s2[N + j]
    <3> SUFFICES ASSUME NEW j \in 2..Len(q2) PROVE q2[j] = s2[N + j]
      OBVIOUS
    <3>1. CASE j = Len(q) + 1
      <4>1. N + j = Len(s) + 1
        BY <1>1, <1>4, <3>1
      <4> QED
        BY <1>2, <1>3, <3>1, <4>1
    <3>2. CASE j # Len(q) + 1
      <4>1. j \in 2..Len(q) /\ j \in 1..Len(q) /\ N + j \in 1..Len(s)
        BY <1>1, <1>3, <1>4, <3>2
      <4>2. q[j] = s[N + j]
        BY <4>1 DEF Left
      <4> QED
        BY <1>2, <1>3, <4>1, <4>2
    <3> QED
      BY <3>1, <3>2
  <2>3. CASE q = <<>>
    <3>1. q2[1] = x /\ s2[N + 1] = x /\ Len(g) = N
      BY <1>1, <1>2, <1>3, <1>4, <2>3
    <3>2. \A i \in 1..Len(x) : x[i] = x[Len(x) - Len(x) + i]
      BY <1>5
    <3>3. Len(x) <= Len(x)
      BY <1>5
    <3> QED
      BY Zenon, <1>4, <1>6, <2>1, <2>2, <3>1, <3>2, <3>3 DEF Left
  <2>4. CASE q # <<>>
    <3>1. q2[1] = q[1] /\ s2[N + 1] = s[N + 1]
      BY <1>1, <1>2, <1>3, <1>4, <2>4
    <3>2. /\ Len(q[1]) <= Len(s[N + 1])
          /\ \A i \in 1..Len(q[1]) : q[1][i] = s[N + 1][Len(s[N + 1]) - Len(q[1]) + i]
          /\ Len(g) = N => Len(q[1]) = Len(s[N + 1])
      BY <2>4 DEF Left
    <3> QED
      BY Zenon, <1>4, <1>6, <2>1, <2>2, <3>1, <3>2 DEF Left
  <2> QED
    BY <2>3, <2>4
<1> QED
  BY <1>9, <1>10, <1>11, <1>12 DEF s2, q2

\* The socket takes n bytes of the first buffer left: all of them, or some.
Shorter(q, n, q2) ==
  \/ n = Len(q[1]) /\ Len(q2) = Len(q) - 1 /\ \A j \in 1..Len(q2) : q2[j] = q[j + 1]
  \/ /\ n < Len(q[1]) /\ Len(q2) = Len(q) /\ Len(q2[1]) = Len(q[1]) - n
     /\ \A i \in 1..Len(q2[1]) : q2[1][i] = q[1][n + i]
     /\ \A j \in 2..Len(q) : q2[j] = q[j]

Taken(b, s, q, g, c, n, b2, q2, g2) ==
  /\ Streams(b, s, q, g) /\ Laid(b, s, q, g, c) /\ Left(s, q, g) /\ AtTheEnd(b, s, q, g)
  /\ q # <<>> /\ n \in 1..Len(q[1]) /\ Streams(b2, s, q2, g2) /\ Shorter(q, n, q2)
  /\ Len(b2) = Len(b) + n /\ \A i \in 1..Len(b) : b2[i] = b[i]
  /\ \A i \in 1..n : b2[Len(b) + i] = q[1][i]
  /\ g2 = IF Len(g) > Done(s, q) THEN g ELSE Append(g, Len(b))

\* What is laid out stays so, with these bytes behind it.
LEMMA BufferTaken ==
  ASSUME NEW b, NEW s, NEW q, NEW g, NEW c, NEW n, NEW b2, NEW q2, NEW g2, Taken(b, s, q, g, c, n, b2, q2, g2)
  PROVE  Laid(b2, s, q2, g2, c) /\ Left(s, q2, g2) /\ AtTheEnd(b2, s, q2, g2)
<1> SUFFICES ASSUME Streams(b, s, q, g), Laid(b, s, q, g, c), Left(s, q, g), AtTheEnd(b, s, q, g), q # <<>>,
                    n \in 1..Len(q[1]), Streams(b2, s, q2, g2), Shorter(q, n, q2),
                    Len(b2) = Len(b) + n, \A i \in 1..Len(b) : b2[i] = b[i],
                    \A i \in 1..n : b2[Len(b) + i] = q[1][i],
                    g2 = IF Len(g) > Done(s, q) THEN g ELSE Append(g, Len(b))
             PROVE  Laid(b2, s, q2, g2, c) /\ Left(s, q2, g2) /\ AtTheEnd(b2, s, q2, g2)
  BY DEF Taken
<1> DEFINE N == Done(s, q)
           h == Len(q[1])
           m == Len(s[N + 1])
           had == m - h
           a == g2[N + 1]
<1>a. /\ \A k \in 1..Len(s) : Len(s[k]) \in Nat \ {0}
      /\ \A k \in 1..Len(q) : Len(q[k]) \in Nat \ {0}
      /\ \A k \in 1..Len(g) : g[k] \in Nat
  BY StreamFacts
<1>1. Len(b) \in Nat /\ Len(s) \in Nat /\ Len(q) \in Nat \ {0} /\ Len(g) \in Nat
  <2>1. q # <<>> /\ (q = <<>> <=> Len(q) = 0) /\ Len(q) \in Nat
    BY StreamFacts
  <2> QED
    BY <2>1, StreamFacts
<1>2. /\ N \in Nat /\ N + Len(q) = Len(s) /\ Len(g) \in {N, N + 1} /\ N + 1 \in 1..Len(s)
      /\ h \in Nat \ {0} /\ m \in Nat \ {0} /\ h <= m /\ had \in Nat /\ (Len(g) = N => h = m)
  <2>1. N \in Nat /\ Len(g) \in {N, N + 1} /\ N + Len(q) = Len(s)
    BY <1>1 DEF Left, Done
  <2>2. N + 1 \in 1..Len(s) /\ 1 \in 1..Len(q)
    BY <1>1, <2>1
  <2>3. h \in Nat \ {0} /\ m \in Nat \ {0}
    BY <1>a, <2>2
  <2>4. h <= m /\ (Len(g) = N => h = m)
    BY DEF Left
  <2> HIDE DEF h, m
  <2>5. had \in Nat
    BY <2>3, <2>4
  <2> QED
    BY <2>1, <2>2, <2>3, <2>4, <2>5
<1>b. \A i \in 1..h : q[1][i] = s[N + 1][had + i]
  BY DEF Left
<1>c. \A k \in 1..Len(g) : g2[k] = g[k]
  <2>1. g \in Seq(Nat)
    BY DEF Streams
  <2> QED
    BY <1>1, <2>1
<1>3. Len(g2) = N + 1 /\ a \in Nat /\ (Len(g) = N => a = Len(b))
  <2>0. g \in Seq(Nat)
    BY DEF Streams
  <2>1. CASE Len(g) = N + 1
    <3>1. Len(g) > N
      BY <1>2, <2>1
    <3>2. g2 = g
      BY <3>1
    <3>3. N + 1 \in 1..Len(g) /\ ~(Len(g) = N)
      BY <1>2, <2>1
    <3> QED
      BY <1>a, <2>1, <3>2, <3>3
  <2>2. CASE Len(g) = N
    <3>1. ~(Len(g) > N)
      BY <1>2, <2>2
    <3>2. g2 = Append(g, Len(b))
      BY <3>1
    <3>3. Len(g2) = Len(g) + 1 /\ g2[Len(g) + 1] = Len(b)
      BY <1>1, <2>0, <3>2
    <3> QED
      BY <1>1, <2>2, <3>3
  <2> QED
    BY <1>2, <2>1, <2>2
<1>4. Len(g) = N + 1 => g[N + 1] = a /\ PartIn(s, q, N + 1) = had
  <2>1. ~(N + 1 <= Done(s, q))
    BY <1>2
  <2>2. PartIn(s, q, N + 1) = had
    BY <2>1 DEF PartIn
  <2>3. Len(g) = N + 1 => N + 1 \in 1..Len(g)
    BY <1>2
  <2> QED
    BY <1>c, <2>2, <2>3
<1>5. a + had = Len(b)
  <2>1. CASE Len(g) = N + 1
    <3>1. EndIn(s, q, g, N + 1) = Len(b) /\ N + 1 # 0
      BY <1>2, <2>1 DEF AtTheEnd
    <3> QED
      BY <1>4, <2>1, <3>1 DEF EndIn
  <2>2. CASE Len(g) = N
    <3>1. a = Len(b) /\ h = m
      BY <1>2, <1>3, <2>2
    <3> HIDE DEF h, m, a
    <3>2. had = 0
      BY <1>2, <3>1
    <3> HIDE DEF had
    <3> QED
      BY <1>1, <3>1, <3>2
  <2> QED
    BY <1>2, <2>1, <2>2
<1> HIDE DEF N, h, m, had, a
<1>6. \/ Done(s, q2) = N + 1 /\ n = h
      \/ Done(s, q2) = N /\ Len(q2[1]) = h - n /\ q2 # <<>>
  <2>1. CASE n = Len(q[1]) /\ Len(q2) = Len(q) - 1
    <3> DEFINE w == Len(q)
               u == Len(s)
    <3>1. w \in Nat /\ u \in Nat /\ N \in Nat /\ N + w = u /\ Done(s, q2) = u - (w - 1)
      BY <1>1, <1>2, <2>1 DEF Done
    <3> HIDE DEF w, u
    <3>2. Done(s, q2) = N + 1
      BY <3>1
    <3> QED
      BY <2>1, <3>2 DEF h
  <2>2. CASE n < Len(q[1]) /\ Len(q2) = Len(q) /\ Len(q2[1]) = Len(q[1]) - n
    <3>1. Done(s, q2) = N /\ q2 # <<>>
      BY <1>1, <1>2, <2>2 DEF Done, N
    <3> QED
      BY <2>2, <3>1 DEF h
  <2> QED
    BY <2>1, <2>2 DEF Shorter
<1>d. Done(s, q2) = N <=> Len(q2) = Len(q)
  <2> DEFINE w == Len(q)
             u == Len(s)
             v == Len(q2)
  <2>1. w \in Nat /\ u \in Nat /\ v \in Nat /\ N = u - w /\ Done(s, q2) = u - v
    BY <1>1, StreamFacts DEF Done, N
  <2> HIDE DEF w, u, v
  <2>2. Done(s, q2) = N <=> v = w
    BY <2>1
  <2> QED
    BY <2>2 DEF v, w
<1>7. /\ PartIn(s, q2, N + 1) = had + n
      /\ \A k \in 1..N : PartIn(s, q2, k) = PartIn(s, q, k)
  <2>1. PartIn(s, q2, N + 1) = had + n
    <3>1. CASE Done(s, q2) = N + 1 /\ n = h
      BY <1>2, <3>1 DEF PartIn, had, m
    <3>2. CASE Done(s, q2) = N /\ Len(q2[1]) = h - n
      <4>1. PartIn(s, q2, N + 1) = m - (h - n)
        <5>1. ~(N + 1 <= Done(s, q2))
          BY <1>2, <3>2
        <5>2. PartIn(s, q2, N + 1) = m - Len(q2[1])
          BY <5>1 DEF PartIn, m
        <5> QED
          BY <3>2, <5>2
      <4>2. n \in Nat
        BY <1>2 DEF h
      <4> QED
        BY <1>2, <4>1, <4>2 DEF had
    <3> QED
      BY <1>6, <3>1, <3>2
  <2>2. ASSUME NEW k \in 1..N PROVE PartIn(s, q2, k) = PartIn(s, q, k)
    <3>1. k <= N /\ k <= Done(s, q2) /\ Done(s, q) = N
      BY <1>2, <1>6 DEF N
    <3> QED
      BY <3>1 DEF PartIn
  <2> QED
    BY <2>1, <2>2
<1>8. /\ EndIn(s, q2, g2, N + 1) = Len(b2)
      /\ \A k \in 0..N : EndIn(s, q2, g2, k) = EndIn(s, q, g, k)
  <2>1. n \in Nat
    BY <1>2 DEF h
  <2>2. EndIn(s, q2, g2, N + 1) = a + (had + n)
    BY <1>2, <1>7 DEF EndIn, a
  <2>3. EndIn(s, q2, g2, N + 1) = Len(b2)
    <3> DEFINE w == Len(b)
    <3>1. w \in Nat /\ a \in Nat /\ had \in Nat /\ a + had = w /\ Len(b2) = w + n
      BY <1>1, <1>2, <1>3, <1>5
    <3> HIDE DEF w
    <3>2. a + (had + n) = w + n
      BY <2>1, <3>1
    <3> QED
      BY <2>2, <3>1, <3>2
  <2>4. ASSUME NEW k \in 0..N PROVE EndIn(s, q2, g2, k) = EndIn(s, q, g, k)
    <3>1. CASE k = 0
      BY <3>1 DEF EndIn
    <3>2. CASE k # 0
      <4>1. k \in 1..N /\ k \in 1..Len(g)
        BY <1>2, <3>2
      <4> QED
        BY <1>c, <1>7, <3>2, <4>1 DEF EndIn
    <3> QED
      BY <3>1, <3>2
  <2> QED
    BY <2>3, <2>4
<1>9. /\ StartIn(b2, g2, N + 2) = Len(b2)
      /\ \A k \in 0..N : StartIn(b2, g2, k + 1) = StartIn(b, g, k + 1)
  <2>1. StartIn(b2, g2, N + 2) = Len(b2)
    BY <1>2, <1>3 DEF StartIn
  <2>2. ASSUME NEW k \in 0..N PROVE StartIn(b2, g2, k + 1) = StartIn(b, g, k + 1)
    <3>1. StartIn(b2, g2, k + 1) = g2[k + 1]
      BY <1>2, <1>3 DEF StartIn
    <3>2. CASE k + 1 <= Len(g)
      <4>1. k + 1 \in 1..Len(g)
        BY <1>1, <3>2
      <4> QED
        BY <1>c, <3>1, <3>2, <4>1 DEF StartIn
    <3>3. CASE ~(k + 1 <= Len(g))
      <4>1. Len(g) = N /\ k = N
        BY <1>2, <3>3
      <4> QED
        BY <1>3, <3>1, <3>3, <4>1 DEF StartIn, a
    <3> QED
      BY <3>2, <3>3
  <2> QED
    BY <2>1, <2>2
<1>10. Len(b2) \in Nat /\ Len(b) <= Len(b2) /\ n \in Nat
  BY <1>1, <1>2 DEF h
<1>11. \A k \in 0..N : Quiet(b, c, EndIn(s, q, g, k), StartIn(b, g, k + 1))
  <2>1. 0..N \subseteq 0..Len(g)
    BY <1>2
  <2> QED
    BY <2>1 DEF Laid
<1>12. ASSUME NEW k \in 0..Len(g2) PROVE Quiet(b2, c, EndIn(s, q2, g2, k), StartIn(b2, g2, k + 1))
  <2>1. CASE k = N + 1
    <3>1. k + 1 = N + 2
      BY <1>2, <2>1
    <3>2. Quiet(b2, c, Len(b2), Len(b2))
      BY <1>10, NothingBetween
    <3> QED
      BY <1>8, <1>9, <2>1, <3>1, <3>2
  <2>2. CASE k # N + 1
    <3>1. k \in 0..N
      BY <1>2, <1>3, <2>2
    <3>2. Quiet(b2, c, EndIn(s, q, g, k), StartIn(b, g, k + 1))
      BY <1>1, <1>10, <1>11, <3>1, StillQuiet
    <3> QED
      BY <1>8, <1>9, <3>1, <3>2
  <2> QED
    BY <2>1, <2>2
<1>13. ASSUME NEW k \in 1..N, NEW i \in 1..PartIn(s, q2, k) PROVE b2[g2[k] + i] = s[k][i]
  <2>1. k \in 1..Len(g) /\ k \in 0..N /\ k # 0
    BY <1>2
  <2>2. PartIn(s, q2, k) = PartIn(s, q, k) /\ g2[k] = g[k] /\ g[k] \in Nat
    BY <1>a, <1>c, <1>7, <2>1
  <2>3. b[g[k] + i] = s[k][i]
    BY <2>1, <2>2 DEF Laid
  <2>4. PartIn(s, q, k) \in Nat
    <3>1. k <= Done(s, q) /\ k \in 1..Len(s)
      BY <1>1, <1>2 DEF N
    <3>2. PartIn(s, q, k) = Len(s[k]) - 0
      BY <3>1 DEF PartIn
    <3> QED
      BY <1>a, <3>1, <3>2
  <2>5. g[k] + PartIn(s, q, k) <= Len(b)
    <3>1. EndIn(s, q, g, k) <= StartIn(b, g, k + 1) /\ StartIn(b, g, k + 1) <= Len(b)
          /\ StartIn(b, g, k + 1) \in Nat
      BY <1>11, <2>1 DEF Quiet
    <3>2. EndIn(s, q, g, k) = g[k] + PartIn(s, q, k)
      BY <2>1 DEF EndIn
    <3> QED
      BY <1>1, <2>2, <2>4, <3>1, <3>2
  <2>6. g[k] + i \in 1..Len(b)
    <3> DEFINE w == Len(b)
               x == g[k]
               y == PartIn(s, q, k)
    <3>1. w \in Nat /\ x \in Nat /\ y \in Nat /\ x + y <= w /\ i \in 1..y
      BY <1>1, <2>2, <2>4, <2>5
    <3> HIDE DEF w, x, y
    <3>2. x + i \in 1..w
      BY <3>1
    <3> QED
      BY <3>2 DEF w, x
  <2> QED
    BY <2>2, <2>3, <2>6
<1>14. ASSUME NEW i \in 1..PartIn(s, q2, N + 1) PROVE b2[g2[N + 1] + i] = s[N + 1][i]
  <2>1. i \in 1..had + n /\ g2[N + 1] = a
    BY <1>7 DEF a
  <2>2. CASE i <= had
    <3>1. Len(g) = N + 1
      <4>1. had # 0
        BY <1>2, <2>1, <2>2
      <4> QED
        BY <1>2, <4>1 DEF had
    <3>2. N + 1 \in 1..Len(g) /\ i \in 1..PartIn(s, q, N + 1)
      BY <1>2, <1>4, <2>1, <2>2, <3>1
    <3>3. b[g[N + 1] + i] = s[N + 1][i]
      BY <3>2 DEF Laid
    <3>4. a + i \in 1..Len(b)
      <4> DEFINE w == Len(b)
      <4>1. w \in Nat /\ a \in Nat /\ had \in Nat /\ a + had = w /\ i \in 1..had + n
        BY <1>1, <1>2, <1>3, <1>5, <2>1
      <4> HIDE DEF w
      <4>2. a + i \in 1..w
        BY <1>10, <2>2, <4>1
      <4> QED
        BY <4>2 DEF w
    <3> QED
      BY <1>4, <2>1, <3>1, <3>3, <3>4
  <2>3. CASE ~(i <= had)
    <3> DEFINE j == i - had
    <3>1. j \in 1..n /\ a + i = Len(b) + j /\ had + j = i
      <4> DEFINE w == Len(b)
      <4>1. w \in Nat /\ a \in Nat /\ had \in Nat /\ a + had = w /\ i \in 1..had + n /\ n \in Nat
        BY <1>1, <1>2, <1>3, <1>5, <1>10, <2>1
      <4> HIDE DEF w
      <4>2. j \in 1..n /\ a + i = w + j /\ had + j = i
        BY <2>3, <4>1
      <4> QED
        BY <4>2 DEF w
    <3> HIDE DEF j
    <3>2. b2[a + i] = q[1][j]
      BY <3>1
    <3>3. j \in 1..h
      BY <1>2, <1>10, <3>1 DEF h
    <3>4. q[1][j] = s[N + 1][i]
      BY <1>b, <3>1, <3>3
    <3> QED
      BY <2>1, <3>2, <3>4
  <2> QED
    BY <1>2, <2>1, <2>2, <2>3
<1>15. Laid(b2, s, q2, g2, c)
  <2>1. \A k \in 1..Len(g2) : k \in 1..N \/ k = N + 1
    BY <1>2, <1>3
  <2>2. \A k \in 1..Len(g2) : \A i \in 1..PartIn(s, q2, k) : b2[g2[k] + i] = s[k][i]
    BY Zenon, <1>13, <1>14, <2>1
  <2> QED
    BY <1>12, <2>2 DEF Laid
<1>16. Left(s, q2, g2) /\ AtTheEnd(b2, s, q2, g2)
  <2>0. \A j \in 2..Len(q) : q[j] = s[N + j]
    BY DEF Left, N
  <2>1. CASE n = Len(q[1]) /\ Len(q2) = Len(q) - 1 /\ \A j \in 1..Len(q2) : q2[j] = q[j + 1]
    <3>1. Done(s, q2) = N + 1 /\ Len(g2) = N + 1 /\ N + 1 \in Nat /\ ~(N + 1 = (N + 1) + 1)
      <4>1. ~(Len(q2) = Len(q))
        BY <1>1, <2>1
      <4>2. Done(s, q2) # N
        BY <1>d, <4>1
      <4> QED
        BY <1>2, <1>3, <1>6, <4>2
    <3>2. ASSUME NEW j \in 1..Len(q2) PROVE q2[j] = s[(N + 1) + j]
      <4>1. j + 1 \in 2..Len(q) /\ N + (j + 1) = (N + 1) + j
        BY <1>1, <1>2, <2>1
      <4>2. q[j + 1] = s[N + (j + 1)]
        BY <2>0, <4>1
      <4> QED
        BY <2>1, <4>1, <4>2
    <3>3. \A j \in 2..Len(q2) : q2[j] = s[(N + 1) + j]
      <4>1. \A j \in 2..Len(q2) : j \in 1..Len(q2)
        BY <1>1, <2>1
      <4> QED
        BY <3>2, <4>1
    <3>4. ASSUME q2 # <<>>
          PROVE  /\ Len(q2[1]) <= Len(s[(N + 1) + 1])
                 /\ \A i \in 1..Len(q2[1]) :
                      q2[1][i] = s[(N + 1) + 1][Len(s[(N + 1) + 1]) - Len(q2[1]) + i]
                 /\ Len(q2[1]) = Len(s[(N + 1) + 1])
      <4>1. 1 \in 1..Len(q2)
        BY <3>4, StreamFacts
      <4> DEFINE x == q2[1]
                 y == s[(N + 1) + 1]
      <4>2. x = y /\ Len(x) \in Nat
        BY <3>2, <4>1, StreamFacts
      <4> HIDE DEF x, y
      <4>3. Len(x) <= Len(y) /\ Len(x) = Len(y) /\ \A i \in 1..Len(x) : x[i] = y[Len(y) - Len(x) + i]
        BY <4>2
      <4> QED
        BY <4>3 DEF x, y
    <3>5. Left(s, q2, g2)
      <4> DEFINE d == Done(s, q2)
      <4>1. d = N + 1
        BY <3>1
      <4>2. d \in Nat /\ Len(g2) \in {d, d + 1} /\ Len(g2) = d
        BY <3>1
      <4>3. \A j \in 2..Len(q2) : q2[j] = s[d + j]
        BY Zenon, <3>3, <4>1
      <4>4. q2 # <<>> => /\ Len(q2[1]) <= Len(s[d + 1])
                         /\ \A i \in 1..Len(q2[1]) : q2[1][i] = s[d + 1][Len(s[d + 1]) - Len(q2[1]) + i]
                         /\ Len(q2[1]) = Len(s[d + 1])
        BY Zenon, <3>4, <4>1
      <4> HIDE DEF d
      <4> QED
        BY Zenon, <4>2, <4>3, <4>4 DEF Left, d
    <3>6. AtTheEnd(b2, s, q2, g2)
      BY Zenon, <3>1 DEF AtTheEnd
    <3> QED
      BY <3>5, <3>6
  <2>2. CASE /\ n < Len(q[1]) /\ Len(q2) = Len(q) /\ Len(q2[1]) = Len(q[1]) - n
             /\ \A i \in 1..Len(q2[1]) : q2[1][i] = q[1][n + i]
             /\ \A j \in 2..Len(q) : q2[j] = q[j]
    <3>1. Done(s, q2) = N /\ Len(g2) = N + 1 /\ N \in Nat /\ ~(N + 1 = N) /\ q2 # <<>>
      <4>1. Done(s, q2) = N
        BY <1>d, <2>2
      <4>2. N # N + 1
        BY <1>2
      <4> QED
        BY <1>2, <1>3, <1>6, <4>1, <4>2
    <3>2. \A j \in 2..Len(q2) : q2[j] = s[N + j]
      BY <2>0, <2>2
    <3>3. Len(q2[1]) = h - n /\ n < h
      BY <2>2 DEF h
    <3>4. Len(q2[1]) <= m
      BY <1>2, <1>10, <3>3
    <3>5. ASSUME NEW i \in 1..Len(q2[1]) PROVE q2[1][i] = s[N + 1][m - Len(q2[1]) + i]
      <4>1. n + i \in 1..h /\ had + (n + i) = m - Len(q2[1]) + i
        BY <1>2, <1>10, <3>3 DEF had
      <4>2. q[1][n + i] = s[N + 1][had + (n + i)]
        BY <1>b, <4>1
      <4> QED
        BY <2>2, <4>1, <4>2
    <3>6. Left(s, q2, g2)
      <4>1. /\ Len(q2[1]) <= Len(s[N + 1])
            /\ \A i \in 1..Len(q2[1]) : q2[1][i] = s[N + 1][Len(s[N + 1]) - Len(q2[1]) + i]
        BY <3>4, <3>5 DEF m
      <4> QED
        BY Zenon, <3>1, <3>2, <4>1 DEF Left
    <3>7. AtTheEnd(b2, s, q2, g2)
      BY <1>3, <1>8 DEF AtTheEnd
    <3> QED
      BY <3>6, <3>7
  <2> QED
    BY <2>1, <2>2 DEF Shorter
<1> QED
  BY <1>15, <1>16

\* What was sent of a buffer lies within the stream.
LEMMA WithinStream ==
  ASSUME NEW b, NEW s, NEW q, NEW g, NEW c, Streams(b, s, q, g), Laid(b, s, q, g, c), Left(s, q, g),
         NEW k \in 1..Len(g), NEW i \in 1..PartIn(s, q, k)
  PROVE  g[k] + i \in 1..Len(b)
<1> DEFINE x == g[k]
           y == PartIn(s, q, k)
           w == Len(b)
           N == Done(s, q)
<1>1. w \in Nat /\ Len(s) \in Nat /\ Len(q) \in Nat /\ Len(g) \in Nat /\ x \in Nat /\ (q = <<>> <=> Len(q) = 0)
  BY StreamFacts
<1>2. N \in Nat /\ N = Len(s) - Len(q) /\ Len(g) \in {N, N + 1} /\ (q = <<>> => Len(g) = N)
  BY DEF Left, Done
<1> HIDE DEF N
<1>3. k \in 1..Len(s) /\ (~(k <= N) => 1 \in 1..Len(q))
  BY <1>1, <1>2
<1>4. Len(s[k]) \in Nat /\ (~(k <= N) => Len(q[1]) \in Nat)
  BY <1>3, StreamFacts
<1>5. y \in Int
  BY <1>4 DEF PartIn, N
<1>6. k \in 0..Len(g) /\ k # 0
  BY <1>1
<1>7. x + y <= w
  <2>1. Quiet(b, c, EndIn(s, q, g, k), StartIn(b, g, k + 1))
    BY <1>6 DEF Laid
  <2>2. EndIn(s, q, g, k) = x + y
    BY <1>6 DEF EndIn
  <2> HIDE DEF x, y, w
  <2>3. /\ x + y \in Nat /\ StartIn(b, g, k + 1) \in Nat
        /\ x + y <= StartIn(b, g, k + 1) /\ StartIn(b, g, k + 1) <= w
    BY <2>1, <2>2 DEF Quiet, w
  <2> QED
    BY <1>1, <2>3
<1>8. i \in 1..y
  OBVIOUS
<1> HIDE DEF x, y, w
<1>9. x + i \in 1..w
  BY <1>1, <1>5, <1>7, <1>8
<1> QED
  BY <1>9 DEF x, w

\* Some bytes of a keep-alive go out.
ZerosTaken(b, c, n, b2, c2) ==
  /\ n \in 0..SizeBytes /\ Len(b2) = Len(b) + n /\ \A i \in 1..Len(b) : b2[i] = b[i]
  /\ \A i \in 1..n : b2[Len(b) + i] = 0
  /\ ~c2 => ~c /\ (n = 0 \/ n = SizeBytes)

LEMMA ZerosAdded ==
  ASSUME NEW b, NEW s, NEW q, NEW g, NEW c, Streams(b, s, q, g), Laid(b, s, q, g, c), Left(s, q, g),
         NEW n, NEW b2, NEW c2, ZerosTaken(b, c, n, b2, c2)
  PROVE  Laid(b2, s, q, g, c2)
<1> SUFFICES ASSUME n \in 0..SizeBytes, Len(b2) = Len(b) + n, \A i \in 1..Len(b) : b2[i] = b[i],
                    \A i \in 1..n : b2[Len(b) + i] = 0, ~c2 => ~c /\ (n = 0 \/ n = SizeBytes)
             PROVE  Laid(b2, s, q, g, c2)
  BY DEF ZerosTaken
<1>1. Len(b) \in Nat /\ Len(g) \in Nat /\ SizeBytes \in Nat \ {0} /\ n \in Nat
  BY StreamFacts, KeepAliveFacts
<1>2. Len(b2) \in Nat /\ Len(b) <= Len(b2)
  BY <1>1
<1>3. \A k \in 1..Len(g) : \A i \in 1..PartIn(s, q, k) : b2[g[k] + i] = s[k][i]
  <2> SUFFICES ASSUME NEW k \in 1..Len(g), NEW i \in 1..PartIn(s, q, k) PROVE b2[g[k] + i] = s[k][i]
    OBVIOUS
  <2>1. g[k] + i \in 1..Len(b)
    BY WithinStream
  <2>2. b[g[k] + i] = s[k][i]
    BY DEF Laid
  <2> QED
    BY <2>1, <2>2
<1>4. ASSUME NEW k \in 0..Len(g) PROVE Quiet(b2, c2, EndIn(s, q, g, k), StartIn(b2, g, k + 1))
  <2> DEFINE from == EndIn(s, q, g, k)
             to == StartIn(b, g, k + 1)
  <2>1. Quiet(b, c, from, to)
    BY <1>4 DEF Laid
  <2> HIDE DEF from, to
  <2>2. Quiet(b2, c, from, to)
    BY Zenon, <1>1, <1>2, <2>1, StillQuiet
  <2>3. CASE k # Len(g)
    <3>1. k + 1 <= Len(g)
      BY <1>1, <1>4, <2>3
    <3>2. StartIn(b2, g, k + 1) = to
      BY <3>1 DEF StartIn, to
    <3>3. Quiet(b2, c2, from, to)
      BY <2>2 DEF Quiet
    <3> QED
      BY <3>2, <3>3 DEF from
  <2>4. CASE k = Len(g)
    <3>1. ~(k + 1 <= Len(g))
      BY <1>1, <2>4
    <3>2. to = Len(b) /\ StartIn(b2, g, k + 1) = Len(b2)
      BY <3>1 DEF StartIn, to
    <3>3. from \in Nat /\ from <= Len(b)
      BY <2>1, <3>2 DEF Quiet
    <3>4. ASSUME NEW i \in from + 1..Len(b2) PROVE b2[i] = 0
      <4>1. CASE i <= Len(b)
        <5>1. i \in from + 1..Len(b)
          BY <1>1, <3>3, <4>1
        <5> QED
          BY <2>2, <3>2, <5>1 DEF Quiet
      <4>2. CASE ~(i <= Len(b))
        <5>1. i - Len(b) \in 1..n /\ Len(b) + (i - Len(b)) = i
          BY <1>1, <3>3, <4>2
        <5> QED
          BY Zenon, <5>1
      <4> QED
        BY <4>1, <4>2
    <3>5. ASSUME ~c2 PROVE \E m \in 0..Len(b2) : Len(b2) = from + m * SizeBytes
      <4>1. ~c /\ (n = 0 \/ n = SizeBytes)
        BY <3>5
      <4> PICK m \in 0..Len(b) : Len(b) = from + m * SizeBytes
        BY <2>1, <3>2, <4>1 DEF Quiet
      <4>2. CASE n = 0
        <5>1. m \in 0..Len(b2) /\ Len(b2) = Len(b)
          BY <1>1, <4>2
        <5> QED
          BY <5>1
      <4>3. CASE n = SizeBytes
        <5>1. m + 1 \in 0..Len(b2)
          BY <1>1, <4>3
        <5>2. (m + 1) * SizeBytes = m * SizeBytes + SizeBytes
          BY <1>1
        <5>3. m * SizeBytes \in Nat
          BY <1>1
        <5>4. Len(b2) = from + (m + 1) * SizeBytes
          BY <1>1, <3>3, <4>3, <5>2, <5>3
        <5> QED
          BY <5>1, <5>4
      <4> QED
        BY <4>1, <4>2, <4>3
    <3>6. from <= Len(b2) /\ Len(b2) <= Len(b2)
      BY <1>1, <1>2, <3>3
    <3>7. Quiet(b2, c2, from, Len(b2))
      BY Zenon, <1>2, <3>3, <3>4, <3>5, <3>6 DEF Quiet
    <3> QED
      BY <3>2, <3>7 DEF from
  <2> QED
    BY <2>3, <2>4
<1> QED
  BY <1>3, <1>4 DEF Laid
-----------------------------------------------------------------------------
\* The stream to the server through the steps of the connection.

\* The connection begins with nothing queued and nothing sent.
LEMMA QueueInit == LobbyInit => QueueKept
<1> SUFFICES ASSUME LobbyInit PROVE QueueKept
  OBVIOUS
<1> DEFINE none == <<>>
<1>1. outbound = none /\ queued = none /\ m_outgoing = none /\ began = none /\ m_status = "NOT_CONNECTED"
  BY DEF LobbyInit
<1>2. none \in Seq(Bytes) /\ none \in Seq(Pieces) /\ none \in Seq(Nat) /\ Len(none) = 0 /\ none = <<>>
  OBVIOUS
<1> HIDE DEF none
<1>3. Streams(none, none, none, none)
  BY <1>2 DEF Streams
<1>4. Done(none, none) = 0
  BY <1>2 DEF Done
<1>5. Laid(none, none, none, none, cut)
  <2>1. EndIn(none, none, none, 0) = 0 /\ StartIn(none, none, 1) = 0
    BY <1>2 DEF EndIn, StartIn
  <2>2. Quiet(none, cut, 0, 0)
    BY <1>2, NothingBetween
  <2>3. 0..Len(none) = {0} /\ 1..Len(none) = {} /\ 0 + 1 = 1
    BY <1>2
  <2> QED
    BY <2>1, <2>2, <2>3 DEF Laid
<1>6. Left(none, none, none)
  <2>1. 2..Len(none) = {}
    BY <1>2
  <2> QED
    BY <1>2, <1>4, <2>1 DEF Left
<1>7. AtTheEnd(none, none, none, none)
  BY <1>2, <1>4 DEF AtTheEnd
<1> QED
  BY <1>1, <1>2, <1>3, <1>5, <1>6, <1>7 DEF QueueKept

\* Nobody else touches the queue or what was sent.
LEMMA OthersLeaveQueue ==
  ASSUME \/ Connect \/ Disconnect \/ Poll \/ PumpConnecting \/ ListenerReturns \/ SendNothing \/ CheckSilence
         \/ Receiving \/ Outside \/ UNCHANGED lobbyVars
  PROVE  UNCHANGED <<outbound, began, queued, m_outgoing, cut>>
<1>1. CASE Connect \/ Disconnect \/ Poll \/ UNCHANGED lobbyVars
  BY <1>1 DEF Connect, Disconnect, Poll, lobbyVars, streams
<1>2. CASE PumpConnecting \/ ListenerReturns \/ SendNothing \/ CheckSilence
  BY <1>2 DEF PumpConnecting, ListenerReturns, SendNothing, CheckSilence, streams
<1>3. CASE RecvSize \/ RecvEncrypt \/ RecvMessage
  BY <1>3 DEF RecvSize, RecvEncrypt, RecvMessage
<1>4. CASE RecvNothing \/ Dispatch
  BY <1>4 DEF RecvNothing, Dispatch, streams
<1>5. CASE Outside
  BY <1>5 DEF Outside, ServerSend, ServerKeepAlive, ServerCloses, Reset, OnlyStreams, QuietFor40, SilentFor120, streams
<1> QED
  BY <1>1, <1>2, <1>3, <1>4, <1>5 DEF Receiving

\* A step of the status alone.
LEMMA QueueAlone ==
  ASSUME ReaderInv, QueueKept, [LobbyNext]_lobbyVars, UNCHANGED <<outbound, began, queued, m_outgoing, cut>>
  PROVE  QueueKept'
<1>1. m_status \in {"NOT_CONNECTED", "CONNECTING"} => AtTheEnd(outbound, queued, m_outgoing, began)
  <2> SUFFICES ASSUME m_status \in {"NOT_CONNECTED", "CONNECTING"}
               PROVE  AtTheEnd(outbound, queued, m_outgoing, began)
    OBVIOUS
  <2>1. began = <<>> /\ Done(queued, m_outgoing) \in Nat
    BY DEF QueueKept, Left
  <2>2. Len(began) = 0
    BY <2>1
  <2>3. ~(Len(began) = Done(queued, m_outgoing) + 1)
    BY <2>1, <2>2
  <2> QED
    BY <2>3 DEF AtTheEnd
<1>2. /\ m_status' = "CONNECTED" \/ ~cut => AtTheEnd(outbound, queued, m_outgoing, began)
      /\ m_status' \in {"NOT_CONNECTED", "CONNECTING"} => began = <<>>
  BY <1>1, StatusSteps DEF QueueKept
<1> QED
  BY <1>2 DEF QueueKept

\* A buffer is queued.
LEMMA QueueGrows ==
  ASSUME QueueKept, NEW x \in Pieces, Enqueue(x) \/ UNCHANGED <<m_outgoing, queued>>,
         UNCHANGED <<m_status, outbound, began, cut>>
  PROVE  QueueKept'
<1>1. CASE Enqueue(x)
  <2>1. m_outgoing' = Append(m_outgoing, x) /\ queued' = Append(queued, x)
    BY <1>1 DEF Enqueue
  <2>2. /\ Streams(outbound, queued, m_outgoing, began) /\ Laid(outbound, queued, m_outgoing, began, cut)
        /\ Left(queued, m_outgoing, began)
    BY DEF QueueKept
  <2>3. /\ Streams(outbound, queued', m_outgoing', began) /\ Laid(outbound, queued', m_outgoing', began, cut)
        /\ Left(queued', m_outgoing', began)
        /\ AtTheEnd(outbound, queued, m_outgoing, began) => AtTheEnd(outbound, queued', m_outgoing', began)
    BY <2>1, <2>2, BufferQueued
  <2> QED
    BY <2>3 DEF QueueKept
<1>2. CASE UNCHANGED <<m_outgoing, queued>>
  BY <1>2 DEF QueueKept
<1> QED
  BY <1>1, <1>2

\* The socket takes bytes of the first buffer.
LEMMA QueueSent ==
  ASSUME ReaderInv, QueueKept, SendSome, ReaderInv'
  PROVE  QueueKept'
<1> DEFINE b == outbound
           q == m_outgoing
           h == m_outgoing[1]
<1>1. /\ Streams(b, queued, q, began) /\ Laid(b, queued, q, began, cut) /\ Left(queued, q, began)
      /\ AtTheEnd(b, queued, q, began) /\ q # <<>>
  BY DEF QueueKept, SendSome
<1>2. Streams(outbound', queued, m_outgoing', began')
  <2>1. UNCHANGED queued
    BY DEF SendSome
  <2> QED
    BY <1>1, <2>1, TypesSplit DEF ReaderInv, LobbyTypeOK, Streams, Pieces
<1>3. Len(b) \in Nat /\ Len(q) \in Nat \ {0} /\ q \in Seq(Pieces) /\ b \in Seq(Bytes)
  BY <1>1, StreamFacts DEF Streams
<1>4. h \in Seq(Bytes) /\ Len(h) \in Nat \ {0} /\ Head(q) = h
  BY <1>3 DEF Pieces
<1>5. PICK n \in 1..Len(h) :
           /\ outbound' = b \o SubSeq(h, 1, n)
           /\ m_outgoing' = IF n = Len(h) THEN Tail(q) ELSE <<SubSeq(h, n + 1, Len(h))>> \o Tail(q)
  BY <1>4 DEF SendSome, Takes
<1>6. began' = IF Len(began) > Done(queued, q) THEN began ELSE Append(began, Len(b))
  BY DEF SendSome, Begun, Whole, Done
<1> HIDE DEF b, q, h
<1>7. /\ SubSeq(h, 1, n) \in Seq(Bytes) /\ Len(SubSeq(h, 1, n)) = n
      /\ \A i \in 1..n : SubSeq(h, 1, n)[i] = h[i]
  BY <1>4
<1>8. /\ Len(outbound') = Len(b) + n /\ (\A i \in 1..Len(b) : outbound'[i] = b[i])
      /\ \A i \in 1..n : outbound'[Len(b) + i] = h[i]
  <2> DEFINE x == SubSeq(h, 1, n)
  <2>1. x \in Seq(Bytes) /\ Len(x) = n /\ \A i \in 1..n : x[i] = h[i]
    BY <1>7
  <2>2. outbound' = b \o x
    BY <1>5
  <2> HIDE DEF x
  <2>3. /\ Len(b \o x) = Len(b) + Len(x) /\ (\A i \in 1..Len(b) : (b \o x)[i] = b[i])
        /\ \A i \in 1..Len(x) : (b \o x)[Len(b) + i] = x[i]
    BY Zenon, <1>3, <2>1, BytesJoined
  <2> QED
    BY <2>1, <2>2, <2>3
<1>9. Shorter(q, n, m_outgoing')
  <2>1. Tail(q) \in Seq(Pieces) /\ Len(Tail(q)) = Len(q) - 1 /\ \A j \in 1..Len(q) - 1 : Tail(q)[j] = q[j + 1]
    BY <1>3
  <2>2. CASE n = Len(h)
    <3>1. m_outgoing' = Tail(q)
      BY <1>5, <2>2
    <3> QED
      BY <2>1, <2>2, <3>1 DEF Shorter, h, q
  <2>3. CASE n # Len(h)
    <3> DEFINE y == SubSeq(h, n + 1, Len(h))
               r == Tail(q)
               front == <<y>>
    <3>1. n \in Nat /\ n < Len(h)
      BY <1>4, <2>3
    <3>2. y \in Seq(Bytes) /\ Len(y) = Len(h) - n /\ \A i \in 1..Len(h) - n : y[i] = h[n + i]
      BY <1>4, <3>1
    <3>3. m_outgoing' = front \o r
      BY <1>5, <2>3
    <3>4. front \in Seq(Seq(Bytes)) /\ Len(front) = 1 /\ front[1] = y /\ r \in Seq(Seq(Bytes))
      <4>1. Pieces \subseteq Seq(Bytes)
        BY DEF Pieces
      <4>2. r \in Seq(Seq(Bytes))
        BY <2>1, <4>1
      <4> QED
        BY <3>2, <4>2
    <3>5. Len(r) = Len(q) - 1 /\ \A j \in 1..Len(q) - 1 : r[j] = q[j + 1]
      BY <2>1
    <3> HIDE DEF y, r, front
    <3>6. /\ Len(front \o r) = Len(front) + Len(r) /\ (\A i \in 1..Len(front) : (front \o r)[i] = front[i])
          /\ \A i \in 1..Len(r) : (front \o r)[Len(front) + i] = r[i]
      BY Zenon, <3>4, BuffersJoined
    <3>7. Len(m_outgoing') = Len(q) /\ m_outgoing'[1] = y
      BY <1>3, <3>3, <3>4, <3>5, <3>6
    <3>8. ASSUME NEW j \in 2..Len(q) PROVE m_outgoing'[j] = q[j]
      <4>1. j - 1 \in 1..Len(q) - 1 /\ 1 + (j - 1) = j /\ (j - 1) + 1 = j
        BY <1>3
      <4>2. (front \o r)[1 + (j - 1)] = r[j - 1] /\ r[j - 1] = q[(j - 1) + 1]
        BY <3>4, <3>5, <3>6, <4>1
      <4> QED
        BY <3>3, <4>1, <4>2
    <3> QED
      BY <3>1, <3>2, <3>7, <3>8 DEF Shorter, h, q
  <2> QED
    BY <2>2, <2>3
<1>10. /\ Laid(outbound', queued, m_outgoing', began', cut) /\ Left(queued, m_outgoing', began')
       /\ AtTheEnd(outbound', queued, m_outgoing', began')
  <2>1. n \in 1..Len(q[1])
    BY DEF h, q
  <2>2. \A i \in 1..n : outbound'[Len(b) + i] = q[1][i]
    BY <1>8 DEF h, q
  <2> QED
    <3>1. Taken(b, queued, q, began, cut, n, outbound', m_outgoing', began')
      BY Zenon, <1>1, <1>2, <1>6, <1>8, <1>9, <2>1, <2>2 DEF Taken
    <3> QED
      BY Zenon, <3>1, BufferTaken
<1>11. UNCHANGED <<queued, cut, m_status>> /\ m_status = "CONNECTED"
  BY DEF SendSome
<1> QED
  BY <1>2, <1>10, <1>11 DEF QueueKept

\* A keep-alive goes out, or a part of one.
LEMMA KeepAliveGoes ==
  ASSUME ReaderInv, ReaderInv', QueueKept, NEW n \in 0..SizeBytes, Takes(KeepAlive, n), SendsOver,
         cut' = (cut \/ (n > 0 /\ ~(n = SizeBytes /\ Established))),
         UNCHANGED <<m_status, m_outgoing, queued, began>>
  PROVE  QueueKept'
<1> DEFINE x == SubSeq(KeepAlive, 1, n)
<1>1. /\ Streams(outbound, queued, m_outgoing, began) /\ Laid(outbound, queued, m_outgoing, began, cut)
      /\ Left(queued, m_outgoing, began)
  BY DEF QueueKept
<1>2. KeepAlive \in Seq(Bytes) /\ Len(KeepAlive) = SizeBytes /\ SizeBytes \in Nat \ {0}
  BY KeepAliveFacts
<1>3. \A i \in 1..SizeBytes : KeepAlive[i] = 0
  BY KeepAliveZeros
<1>4. x \in Seq(Bytes) /\ Len(x) = n /\ \A i \in 1..n : x[i] = 0
  BY <1>2, <1>3
<1>5. outbound' = outbound \o x /\ outbound \in Seq(Bytes)
  BY <1>1 DEF Takes, Streams
<1> HIDE DEF x
<1>6. /\ Len(outbound') = Len(outbound) + n /\ (\A i \in 1..Len(outbound) : outbound'[i] = outbound[i])
      /\ \A i \in 1..n : outbound'[Len(outbound) + i] = 0
  <2>1. /\ Len(outbound \o x) = Len(outbound) + Len(x)
        /\ \A i \in 1..Len(outbound) : (outbound \o x)[i] = outbound[i]
        /\ \A i \in 1..Len(x) : (outbound \o x)[Len(outbound) + i] = x[i]
    BY Zenon, <1>4, <1>5, BytesJoined
  <2> QED
    BY <1>4, <1>5, <2>1
<1>7. ~cut' => ~cut /\ (n = 0 \/ (n = SizeBytes /\ Established))
  <2> SUFFICES ASSUME ~cut' PROVE ~cut /\ (n = 0 \/ (n = SizeBytes /\ Established))
    OBVIOUS
  <2>1. ~cut /\ ~(n > 0 /\ ~(n = SizeBytes /\ Established))
    BY Zenon
  <2> QED
    BY <1>2, <2>1
<1>8. Laid(outbound', queued, m_outgoing, began, cut')
  <2>1. ~cut' => ~cut /\ (n = 0 \/ n = SizeBytes)
    BY <1>7
  <2> QED
    <3>1. ZerosTaken(outbound, cut, n, outbound', cut')
      BY Zenon, <1>6, <2>1 DEF ZerosTaken
    <3> QED
      BY Zenon, <1>1, <3>1, ZerosAdded
<1>9. Established => AtTheEnd(outbound', queued, m_outgoing, began)
  <2> SUFFICES ASSUME Established PROVE AtTheEnd(outbound', queued, m_outgoing, began)
    OBVIOUS
  <2>1. m_outgoing = <<>>
    BY DEF Established, SendsOver
  <2>2. Len(began) = Done(queued, m_outgoing) /\ Done(queued, m_outgoing) \in Nat
    BY <1>1, <2>1 DEF Left
  <2>3. ~(Len(began) = Done(queued, m_outgoing) + 1)
    BY <2>2
  <2> QED
    BY <2>3 DEF AtTheEnd
<1>10. ~cut' => AtTheEnd(outbound', queued, m_outgoing, began)
  <2> SUFFICES ASSUME ~cut', n = 0 PROVE AtTheEnd(outbound', queued, m_outgoing, began)
    BY <1>7, <1>9
  <2>1. Len(outbound') = Len(outbound)
    BY <1>1, <1>6, StreamFacts
  <2>2. AtTheEnd(outbound, queued, m_outgoing, began)
    BY <1>7 DEF QueueKept
  <2> QED
    BY <2>1, <2>2 DEF AtTheEnd
<1>11. Streams(outbound', queued, m_outgoing, began)
  BY <1>1, TypesSplit DEF Streams, ReaderInv, LobbyTypeOK
<1> QED
  BY <1>1, <1>8, <1>9, <1>10, <1>11 DEF QueueKept, Established

\* Every step keeps the stream what was queued.
LEMMA QueueStep ==
  ASSUME ReaderInv, ReaderInv', QueueKept, [LobbyNext]_lobbyVars
  PROVE  QueueKept'
<1>1. ASSUME NEW m \in ClientMessages, SendTask(m) PROVE QueueKept'
  <2>1. Frame(m) \in Pieces
    BY LobbyAssumption, FrameFacts DEF Pieces
  <2>2. (Enqueue(Frame(m)) \/ UNCHANGED <<m_outgoing, queued>>) /\ UNCHANGED <<m_status, outbound, began, cut>>
    BY <1>1 DEF SendTask, streams
  <2> QED
    BY <2>1, <2>2, QueueGrows
<1>2. ASSUME NEW bytes \in RawMessages, SendRaw(bytes) PROVE QueueKept'
  <2>1. bytes \in Pieces
    BY RawAssumption DEF Pieces
  <2>2. Enqueue(bytes) /\ UNCHANGED <<m_status, outbound, began, cut>>
    BY <1>2 DEF SendRaw, streams
  <2> QED
    BY <2>1, <2>2, QueueGrows
<1>3. CASE SendSome
  BY <1>3, QueueSent
<1>4. CASE SendKeepAlive
  <2>1. UNCHANGED <<m_outgoing, queued, began>> /\ SendsOver
    BY <1>4 DEF SendKeepAlive
  <2>2. CASE UNCHANGED <<outbound, cut>>
    BY <2>1, <2>2, QueueAlone
  <2>3. CASE \E n \in 0..SizeBytes :
                /\ Takes(KeepAlive, n) /\ m_status' = m_status
                /\ cut' = (cut \/ (n > 0 /\ ~(n = SizeBytes /\ Established)))
    BY <2>1, <2>3, KeepAliveGoes
  <2> QED
    BY <1>4, <2>2, <2>3 DEF SendKeepAlive
<1>5. CASE \/ Connect \/ Disconnect \/ Poll \/ PumpConnecting \/ ListenerReturns \/ SendNothing \/ CheckSilence
           \/ Receiving \/ Outside \/ UNCHANGED lobbyVars
  BY <1>5, OthersLeaveQueue, QueueAlone
<1> QED
  BY <1>1, <1>2, <1>3, <1>4, <1>5 DEF LobbyNext, Calls, Pumping

\* What the invariant says is what the property says.
LEMMA QueueRead ==
  ASSUME ReaderInv, QueueKept
  PROVE  ServerGetsTheQueue
<1> DEFINE N == Done(queued, m_outgoing)
<1>1. /\ Streams(outbound, queued, m_outgoing, began) /\ Laid(outbound, queued, m_outgoing, began, cut)
      /\ Left(queued, m_outgoing, began)
  BY DEF QueueKept
<1>2. /\ Len(outbound) \in Nat /\ Len(queued) \in Nat /\ Len(m_outgoing) \in Nat /\ Len(began) \in Nat
      /\ (m_outgoing = <<>> <=> Len(m_outgoing) = 0) /\ m_outgoing \in Seq(Pieces)
  BY <1>1, StreamFacts DEF Streams
<1>3. N \in Nat /\ N = Len(queued) - Len(m_outgoing) /\ Len(began) \in {N, N + 1} /\ Whole = N
      /\ (m_outgoing = <<>> => Len(began) = N)
  BY <1>1 DEF Left, Done, Whole
<1> HIDE DEF N
<1>4. Len(began) \in Whole..Len(queued) /\ Len(began) <= Whole + 1
  BY <1>2, <1>3
<1>5. ASSUME NEW k \in 1..Len(began) PROVE SentOf(k) = PartIn(queued, m_outgoing, k)
  <2>1. CASE k <= N
    BY <1>3, <2>1 DEF SentOf, PartIn, N
  <2>2. CASE ~(k <= N)
    <3>1. m_outgoing # <<>>
      BY <1>2, <1>3, <2>2
    <3>2. Head(m_outgoing) = m_outgoing[1]
      BY <1>2, <3>1
    <3> QED
      BY <1>3, <2>2, <3>2 DEF SentOf, PartIn, N
  <2> QED
    BY <2>1, <2>2
<1>6. ASSUME NEW k \in 0..Len(began) PROVE EndOf(k) = EndIn(queued, m_outgoing, began, k)
  <2>1. k # 0 => k \in 1..Len(began)
    BY <1>2
  <2> QED
    BY <1>5, <2>1 DEF EndOf, EndIn
<1>7. \A k \in 1..Len(began) : \A i \in 1..SentOf(k) : outbound[began[k] + i] = queued[k][i]
  BY <1>1, <1>5 DEF Laid
<1>8. ASSUME NEW k \in 0..Len(began)
      PROVE  /\ EndOf(k) <= StartOf(k + 1)
             /\ \A i \in EndOf(k) + 1..StartOf(k + 1) : outbound[i] = 0
             /\ ~cut => KeepAlivesOnly(EndOf(k), StartOf(k + 1))
  <2>1. Quiet(outbound, cut, EndIn(queued, m_outgoing, began, k), StartIn(outbound, began, k + 1))
    BY <1>1 DEF Laid
  <2>2. EndOf(k) = EndIn(queued, m_outgoing, began, k) /\ StartOf(k + 1) = StartIn(outbound, began, k + 1)
    BY <1>6 DEF StartOf, StartIn
  <2>3. Quiet(outbound, cut, EndOf(k), StartOf(k + 1))
    BY <2>1, <2>2
  <2> QED
    BY <2>3 DEF Quiet, KeepAlivesOnly
<1>9. ~cut /\ Begun => EndOf(Len(began)) = Len(outbound)
  <2> SUFFICES ASSUME ~cut, Begun PROVE EndOf(Len(began)) = Len(outbound)
    OBVIOUS
  <2>1. Len(began) = N + 1 /\ Len(began) \in 0..Len(began)
    BY <1>2, <1>3 DEF Begun
  <2>2. AtTheEnd(outbound, queued, m_outgoing, began)
    BY DEF QueueKept
  <2>3. EndIn(queued, m_outgoing, began, Len(began)) = Len(outbound)
    BY <2>1, <2>2 DEF AtTheEnd, N
  <2> QED
    BY <1>6, <2>1, <2>3
<1> QED
  BY <1>4, <1>7, <1>8, <1>9 DEF ServerGetsTheQueue

\* ServerGetsTheQueue: what pump has put into the socket is what sendTask and
\* sendRaw queued, each buffer in one piece and in order, with nothing but the
\* zeros of keep-alives between, however the bytes were split and whoever called.
THEOREM ServerGetsTheQueueHolds == LobbySpec => []ServerGetsTheQueue
<1>1. LobbySpec => []QueueKept
  BY ReaderInvHolds, QueueInit, QueueStep, PTL DEF LobbySpec
<1>2. ReaderInv /\ QueueKept => ServerGetsTheQueue
  BY QueueRead
<1> QED
  BY <1>1, <1>2, ReaderInvHolds, PTL
=============================================================================
