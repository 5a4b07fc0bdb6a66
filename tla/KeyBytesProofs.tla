--------------------------- MODULE KeyBytesProofs ---------------------------
(***************************************************************************)
(* Proofs about KeyBytes.tla for keys of any number of bytes, of any even  *)
(* number of values.                                                       *)
(***************************************************************************)
EXTENDS KeyBytes, WellFoundedInduction, TLAPS

-----------------------------------------------------------------------------
\* Induction and recursion.

\* A set that holds 0, and with every number below N the next one, holds all
\* numbers up to N.
LEMMA UpTo ==
    ASSUME NEW N \in Nat, NEW S, 0 \in S,
           \A n \in 0 .. N - 1 : n \in S => n + 1 \in S
    PROVE  \A n \in 0 .. N : n \in S
<1> DEFINE T == {n \in 0 .. N : n \notin S}
<1>1. SUFFICES ASSUME T # {} PROVE FALSE
  OBVIOUS
<1>2. T \in SUBSET Nat
  OBVIOUS
<1> HIDE DEF T
<1>3. PICK n \in T : \A m \in T : ~ (<<m, n>> \in OpToRel(<, Nat))
  BY <1>1, <1>2, NatLessThanWellFounded, WFMin
<1>4. n \in 0 .. N /\ n \notin S /\ n # 0
  BY DEF T
<1>5. n - 1 \in 0 .. N - 1 /\ n - 1 \in Nat /\ n - 1 < n
  BY <1>4
<1>6. n - 1 \notin T
  <2>1. <<n - 1, n>> \in OpToRel(<, Nat)
    BY <1>4, <1>5 DEF OpToRel
  <2> QED
    BY <1>3, <2>1
<1> QED
  BY <1>4, <1>5, <1>6 DEF T

\* A function on 0 .. N is defined by where it begins and by how it goes on.
Rules(N, S) == [1 .. N -> [S -> S]]
Follows(f, N, S, b, G) ==
    f \in [0 .. N -> S] /\ f[0] = b /\ \A i \in 1 .. N : f[i] = G[i][f[i - 1]]

LEMMA Recursion ==
    ASSUME NEW N \in Nat, NEW S, NEW b \in S, NEW G \in Rules(N, S)
    PROVE  \E f : Follows(f, N, S, b, G)
<1> USE DEF Rules, Follows
<1> DEFINE F(n, f) == f \in [0 .. n -> S] /\ f[0] = b
                      /\ \A i \in 1 .. n : f[i] = G[i][f[i - 1]]
           T == {n \in 0 .. N : \E f : F(n, f)}
<1>1. 0 \in T
  <2> DEFINE f == [i \in 0 .. 0 |-> b]
  <2>1. F(0, f)
    OBVIOUS
  <2> HIDE DEF F, f
  <2> QED
    BY <2>1
<1>2. ASSUME NEW n \in 0 .. N - 1, n \in T PROVE n + 1 \in T
  <2>1. PICK f : F(n, f)
    BY <1>2
  <2> DEFINE g == [i \in 0 .. n + 1 |-> IF i = n + 1 THEN G[n + 1][f[n]] ELSE f[i]]
  <2>2. G[n + 1][f[n]] \in S
    BY <2>1
  <2>3. g \in [0 .. n + 1 -> S] /\ g[0] = b
    BY <2>1, <2>2
  <2>4. ASSUME NEW i \in 1 .. n + 1 PROVE g[i] = G[i][g[i - 1]]
    <3>1. CASE i = n + 1
      BY <3>1
    <3>2. CASE i # n + 1
      BY <2>1, <3>2
    <3> QED
      BY <3>1, <3>2
  <2>5. F(n + 1, g)
    BY <2>3, <2>4
  <2>6. n + 1 \in 0 .. N
    OBVIOUS
  <2> HIDE DEF F, g
  <2> QED
    BY <2>5, <2>6
<1> HIDE DEF T
<1>3. \A n \in 0 .. N - 1 : n \in T => n + 1 \in T
  BY <1>2
<1>4. \A n \in 0 .. N : n \in T
  BY <1>1, <1>3, UpTo
<1>5. N \in T
  BY <1>4
<1> QED
  BY <1>5 DEF T

-----------------------------------------------------------------------------
\* The number a key stands for.

LEMMA Sizes == /\ Size \in Nat /\ Size > 1 /\ Size - 1 \in Nat
               /\ Place = 0 .. Size - 1 /\ Base \in Nat /\ Base >= 2
               /\ Base \div 2 \in Nat /\ Base = 2 * (Base \div 2)
               /\ Byte = 0 .. Base - 1
  BY KeyBytesAssumption DEF Place, Byte

\* Products, for the solver that does not multiply.
LEMMA Times == \A m, n \in Nat : m * n \in Nat
  OBVIOUS

Digits == [Place -> Nat]

\* The numbers that the first bytes of a key stand for.
Reading(key, val) ==
    /\ val \in [Place -> Nat] /\ val[0] = key[0]
    /\ \A i \in 1 .. Size - 1 : val[i] = key[i] + Base * val[i - 1]

Val(key) == CHOOSE val :
    val = [i \in Place |-> key[i] + (IF i = 0 THEN 0 ELSE Base * val[i - 1])]

LEMMA ValueIsVal == \A key : Value(key) = Val(key)[Size - 1]
  BY DEF Value, Val

LEMMA ValReads == ASSUME NEW key \in Digits PROVE Reading(key, Val(key))
<1> DEFINE P(val) == val = [i \in Place |-> key[i] + (IF i = 0 THEN 0 ELSE Base * val[i - 1])]
           G == [i \in 1 .. Size - 1 |-> [v \in Nat |-> key[i] + Base * v]]
<1>1. G \in Rules(Size - 1, Nat) /\ key[0] \in Nat
  BY Sizes DEF Digits, Rules
<1>2. PICK val : Follows(val, Size - 1, Nat, key[0], G)
  <2> HIDE DEF G
  <2> QED
    BY <1>1, Sizes, Recursion
<1>3. P(val)
  <2> USE DEF Follows
  <2>1. ASSUME NEW i \in Place
        PROVE  val[i] = key[i] + (IF i = 0 THEN 0 ELSE Base * val[i - 1])
    <3>1. CASE i = 0
      BY <1>2, <3>1, Sizes DEF Digits
    <3>2. CASE i # 0
      <4>1. i \in 1 .. Size - 1 /\ val[i - 1] \in Nat
        BY <1>2, <3>2, Sizes
      <4>2. G[i][val[i - 1]] = key[i] + Base * val[i - 1]
        BY <4>1
      <4> QED
        BY <1>2, <3>2, <4>1, <4>2
    <3> QED
      BY <3>1, <3>2
  <2>2. val = [i \in Place |-> val[i]]
    BY <1>2, Sizes
  <2> HIDE DEF G
  <2> QED
    BY <2>1, <2>2
<1>4. P(Val(key))
  <2> HIDE DEF G
  <2>1. P(CHOOSE v : P(v))
    <3> HIDE DEF P
    <3> QED
      BY <1>3
  <2> QED
    BY <2>1 DEF Val
<1>5. \A i \in Place : Val(key)[i] = key[i] + (IF i = 0 THEN 0 ELSE Base * Val(key)[i - 1])
  BY <1>4
<1> DEFINE v == Val(key)
<1>6. v[0] = key[0] /\ \A i \in 1 .. Size - 1 : v[i] = key[i] + Base * v[i - 1]
  BY <1>5, Sizes DEF Digits
<1>7. v = [i \in Place |-> v[i]]
  <2> DEFINE e(i) == key[i] + (IF i = 0 THEN 0 ELSE Base * v[i - 1])
  <2>1. v = [i \in Place |-> e(i)]
    BY <1>4
  <2>2. DOMAIN v = Place
    BY <2>1
  <2> HIDE DEF e, v, P
  <2> QED
    BY <2>1
<1> HIDE DEF v
<1>8. \A i \in Place : v[i] \in Nat
  <2> DEFINE T == {i \in Place : v[i] \in Nat}
  <2>1. 0 \in T
    BY <1>6, Sizes DEF Digits
  <2>2. \A n \in 0 .. Size - 2 : n \in T => n + 1 \in T
    <3>1. ASSUME NEW n \in 0 .. Size - 2, n \in T PROVE n + 1 \in T
      <4>0. n + 1 \in 1 .. Size - 1 /\ (n + 1) - 1 = n
        BY <3>1, Sizes
      <4>1. v[n + 1] = key[n + 1] + Base * v[n] /\ key[n + 1] \in Nat /\ v[n] \in Nat
        BY <1>6, <3>1, <4>0, Sizes DEF Digits
      <4>2. Base * v[n] \in Nat
        BY <4>1, Times, Sizes
      <4> QED
        BY <4>0, <4>1, <4>2, Sizes
    <3> QED
      BY <3>1
  <2> HIDE DEF T
  <2>3. \A n \in 0 .. Size - 1 : n \in T
    <3> DEFINE M == Size - 1
    <3>1. M \in Nat /\ \A n \in 0 .. M - 1 : n \in T => n + 1 \in T
      BY <2>2, Sizes
    <3> HIDE DEF M
    <3>2. \A n \in 0 .. M : n \in T
      BY <2>1, <3>1, UpTo
    <3> QED
      BY <3>2 DEF M
  <2> QED
    BY <2>3, Sizes DEF T
<1> QED
  BY <1>6, <1>7, <1>8 DEF Reading, v

LEMMA ValStarts == ASSUME NEW k \in Digits PROVE Val(k) \in Digits /\ Val(k)[0] = k[0]
  BY ValReads DEF Reading, Digits

LEMMA ValGoesOn ==
    ASSUME NEW k \in Digits, NEW i \in Place, i > 0
    PROVE  /\ i - 1 \in Place /\ k[i] \in Nat /\ Val(k)[i] \in Nat /\ Val(k)[i - 1] \in Nat
           /\ Val(k)[i] = k[i] + Base * Val(k)[i - 1]
<1>1. i \in 1 .. Size - 1 /\ i - 1 \in Place
  BY Sizes
<1> QED
  BY <1>1, ValReads DEF Reading, Digits

LEMMA ValueType ==
    ASSUME NEW k \in Digits PROVE Value(k) = Val(k)[Size - 1] /\ Value(k) \in Nat
  BY ValueIsVal, ValStarts, Sizes DEF Digits

LEMMA KeysAreDigits ==
    /\ Keys \subseteq Digits
    /\ \A k \in Keys : \A i \in Place : k[i] \in Nat /\ k[i] < Base
  BY Sizes DEF Keys, Digits

\* Induction from one byte to the last.
LEMMA FromPlace ==
    ASSUME NEW p \in Place, NEW T, p \in T,
           \A i \in Place : i > p /\ i - 1 \in T => i \in T
    PROVE  \A i \in Place : i >= p => i \in T
<1> DEFINE S == {i \in Place : i >= p => i \in T}
           N == Size - 1
<1>1. N \in Nat /\ Place = 0 .. N /\ p \in 0 .. N
  BY Sizes
<1>2. 0 \in S
  BY <1>1
<1>3. ASSUME NEW n \in 0 .. N - 1, n \in S PROVE n + 1 \in S
  <2>1. n + 1 \in Place /\ n \in Place /\ (n + 1) - 1 = n
    BY <1>1
  <2>2. CASE n + 1 > p
    BY <1>3, <2>1, <2>2
  <2>3. CASE n + 1 <= p
    BY <2>1, <2>3, <1>1
  <2> QED
    BY <2>1, <2>2, <2>3, <1>1
<1> HIDE DEF S, N
<1>4. \A n \in 0 .. N - 1 : n \in S => n + 1 \in S
  BY <1>3
<1>5. \A n \in 0 .. N : n \in S
  BY <1>1, <1>2, <1>4, UpTo
<1> QED
  BY <1>1, <1>5 DEF S

LEMMA DigitsLess ==
    \A B, v, w, d, e \in Nat : d < B /\ v < w => d + B * v < e + B * w
  OBVIOUS

\* The first byte that differs decides.
LEMMA FirstDiffers ==
    ASSUME NEW a \in Keys, NEW b \in Keys, NEW p \in Place, a[p] < b[p],
           \A i \in Place : i < p => a[i] = b[i]
    PROVE  Value(a) < Value(b)
<1> DEFINE A == Val(a)  B == Val(b)
<1>1. A \in Digits /\ B \in Digits /\ a \in Digits /\ b \in Digits
  BY ValStarts, KeysAreDigits
<1>2. \A i \in Place : i < p => A[i] = B[i]
  <2> DEFINE T == {i \in Place : i < p => A[i] = B[i]}
  <2>1. 0 \in T
    BY <1>1, ValStarts, Sizes
  <2>2. ASSUME NEW i \in Place, i > 0, i - 1 \in T PROVE i \in T
    <3>1. i < p => A[i - 1] = B[i - 1] /\ a[i] = b[i]
      BY <2>2, Sizes
    <3> QED
      BY <1>1, <2>2, <3>1, ValGoesOn
  <2>3. 0 \in Place
    BY Sizes
  <2> HIDE DEF T
  <2>4. \A i \in Place : i >= 0 => i \in T
    BY <2>1, <2>2, <2>3, FromPlace
  <2> QED
    BY <2>4, Sizes DEF T
<1>3. A[p] < B[p]
  <2>1. CASE p = 0
    BY <1>1, <2>1, ValStarts
  <2>2. CASE p > 0
    <3>1. A[p - 1] = B[p - 1]
      BY <1>2, <2>2, Sizes
    <3>2. /\ A[p] = a[p] + Base * A[p - 1] /\ B[p] = b[p] + Base * B[p - 1]
          /\ a[p] \in Nat /\ b[p] \in Nat /\ A[p - 1] \in Nat
      BY <1>1, <2>2, ValGoesOn
    <3>3. Base * A[p - 1] \in Nat
      BY <3>2, Times, Sizes
    <3> HIDE DEF A, B
    <3> QED
      BY <3>1, <3>2, <3>3
  <2> QED
    BY <2>1, <2>2, Sizes
<1>4. \A i \in Place : i >= p => A[i] < B[i]
  <2> DEFINE T == {i \in Place : A[i] < B[i]}
  <2>1. ASSUME NEW i \in Place, i > p, i - 1 \in T PROVE i \in T
    <3>1. i > 0
      BY <2>1, Sizes
    <3>2. /\ A[i] = a[i] + Base * A[i - 1] /\ B[i] = b[i] + Base * B[i - 1]
          /\ a[i] \in Nat /\ b[i] \in Nat /\ A[i - 1] \in Nat /\ B[i - 1] \in Nat
          /\ a[i] < Base
      BY <1>1, <2>1, <3>1, ValGoesOn, KeysAreDigits
    <3>3. A[i - 1] < B[i - 1]
      BY <2>1
    <3>4. a[i] + Base * A[i - 1] < b[i] + Base * B[i - 1]
      <4> HIDE DEF A, B
      <4> QED
        BY <3>2, <3>3, DigitsLess, Sizes
    <3> QED
      BY <3>2, <3>4
  <2>2. p \in T
    BY <1>3
  <2> HIDE DEF T
  <2>3. \A i \in Place : i >= p => i \in T
    BY <2>1, <2>2, FromPlace
  <2> QED
    BY <2>3 DEF T
<1> QED
  BY <1>1, <1>4, ValueType, Sizes

LEMMA SomeDiffers ==
    ASSUME NEW a \in Keys, NEW b \in Keys, a # b
    PROVE  \E p \in Place : a[p] # b[p] /\ \A i \in Place : i < p => a[i] = b[i]
<1> DEFINE T == {i \in Place : \A j \in Place : j <= i => a[j] = b[j]}
<1>1. SUFFICES ASSUME \A p \in Place : (\A i \in Place : i < p => a[i] = b[i]) => a[p] = b[p]
               PROVE  a = b
  OBVIOUS
<1>2. 0 \in T
  <2>1. \A j \in Place : ~(j < 0) /\ (j <= 0 => j = 0)
    BY Sizes
  <2>2. 0 \in Place
    BY Sizes
  <2> QED
    BY <1>1, <2>1, <2>2
<1>3. ASSUME NEW i \in Place, i > 0, i - 1 \in T PROVE i \in T
  <2>1. \A j \in Place : j < i => j <= i - 1
    BY Sizes
  <2>2. \A j \in Place : j < i => a[j] = b[j]
    BY <1>3, <2>1
  <2>3. a[i] = b[i]
    BY <1>1, <2>2
  <2>4. \A j \in Place : j <= i => j < i \/ j = i
    BY Sizes
  <2> QED
    BY <2>2, <2>3, <2>4
<1>4. 0 \in Place
  BY Sizes
<1> HIDE DEF T
<1>5. \A i \in Place : i >= 0 => i \in T
  BY <1>2, <1>3, <1>4, FromPlace
<1>6. \A i \in Place : a[i] = b[i]
  BY <1>5, Sizes DEF T
<1> QED
  BY <1>6 DEF Keys

\* Two keys are the same number only if they are the same key.
LEMMA ValueTellsApart ==
    ASSUME NEW a \in Keys, NEW b \in Keys, Value(a) = Value(b)
    PROVE  a = b
<1>1. SUFFICES ASSUME a # b PROVE FALSE
  OBVIOUS
<1>2. PICK p \in Place : a[p] # b[p] /\ \A i \in Place : i < p => a[i] = b[i]
  BY <1>1, SomeDiffers
<1>3. a[p] < b[p] \/ b[p] < a[p]
  BY <1>2, KeysAreDigits
<1>4. Value(a) < Value(b) \/ Value(b) < Value(a)
  BY <1>2, <1>3, FirstDiffers
<1> QED
  BY <1>4, ValueType, KeysAreDigits

\* key_cmp on bytes compares the numbers.
LEMMA BytesCompare ==
    ASSUME NEW a \in Keys, NEW b \in Keys
    PROVE  bytes_cmp(a, b) = key_cmp(Value(a), Value(b))
<1>1. Value(a) \in Nat /\ Value(b) \in Nat
  BY ValueType, KeysAreDigits
<1> DEFINE differ == {i \in Place : a[i] # b[i]}
           first  == CHOOSE i \in differ : \A j \in differ : i <= j
<1>2. CASE a = b
  BY <1>1, <1>2 DEF bytes_cmp, key_cmp
<1>3. CASE a # b
  <2>1. PICK p \in Place : a[p] # b[p] /\ \A i \in Place : i < p => a[i] = b[i]
    BY <1>3, SomeDiffers
  <2>2. p \in differ /\ \A j \in differ : p <= j
    BY <2>1, Sizes
  <2>3. \A i \in differ : (\A j \in differ : i <= j) => i = p
    <3>1. \A i \in Place : i <= p /\ p <= i => i = p
      BY Sizes
    <3> QED
      BY <2>2, <3>1
  <2>4. first = p
    <3> HIDE DEF differ
    <3> QED
      BY <2>2, <2>3
  <2>5. bytes_cmp(a, b) = IF a[p] > b[p] THEN 1 ELSE -1
    BY <2>2, <2>4 DEF bytes_cmp
  <2>6. a[p] \in Nat /\ b[p] \in Nat
    BY KeysAreDigits
  <2>7. CASE a[p] < b[p]
    <3>1. Value(a) < Value(b)
      BY <2>1, <2>7, FirstDiffers
    <3> QED
      BY <1>1, <2>5, <2>6, <2>7, <3>1 DEF key_cmp
  <2>8. CASE b[p] < a[p]
    <3>1. Value(b) < Value(a)
      BY <2>1, <2>8, FirstDiffers
    <3> QED
      BY <1>1, <2>5, <2>6, <2>8, <3>1 DEF key_cmp
  <2> QED
    BY <2>1, <2>6, <2>7, <2>8
<1> QED
  BY <1>2, <1>3

\* Membership in a circular interval is the same on bytes and on numbers.
LEMMA BytesIn ==
    ASSUME NEW k \in Keys, NEW min \in Keys, NEW max \in Keys,
           NEW l \in {0, 1}, NEW r \in {0, 1}
    PROVE  bytes_in(k, min, l, max, r)
               <=> key_in(Value(k), Value(min), l = 1, Value(max), r = 1)
<1> DEFINE K == Value(k)  m == Value(min)  M == Value(max)
<1>1. K \in Nat /\ m \in Nat /\ M \in Nat
  BY ValueType, KeysAreDigits
<1>2. /\ bytes_cmp(min, k) = key_cmp(m, K) /\ bytes_cmp(k, max) = key_cmp(K, M)
      /\ bytes_cmp(min, max) = key_cmp(m, M)
  BY BytesCompare
<1> HIDE DEF K, m, M
<1>3. (key_cmp(m, K) = 0 <=> K = m) /\ (key_cmp(K, M) = 0 <=> K = M)
  BY <1>1 DEF key_cmp
<1>4. bytes_in(k, min, l, max, r) <=> key_in(K, m, l = 1, M, r = 1)
  BY <1>2, <1>3 DEF bytes_in, key_in
<1> QED
  BY <1>4 DEF K, m, M

-----------------------------------------------------------------------------
\* For every size of keys and every set of ids, intervals on bytes are intervals
\* on numbers.
THEOREM IntervalsOnBytes == Spec => []IntervalsAgree
<1>1. id \in Ids => IntervalsAgree
  <2>1. Ids \subseteq Keys
    BY KeyBytesAssumption
  <2> QED
    BY <2>1, BytesIn DEF IntervalsAgree
<1>2. Init => id \in Ids
  BY DEF Init
<1>3. id \in Ids /\ [Next]_vars => (id \in Ids)'
  BY DEF Next, StartFinger, vars
<1> QED
  BY <1>1, <1>2, <1>3, PTL DEF Spec

-----------------------------------------------------------------------------
\* Addition.

\* The numbers of the masked keys of CarryIn, of Weight and of KeySpace.
Low(k, p) == [j \in Place |-> IF j > p THEN k[j] ELSE 0]
One(p)    == [j \in Place |-> IF j = p THEN 1 ELSE 0]
Full      == [j \in Place |-> Base - 1]

LEMMA MasksAreKeys ==
    /\ Full \in Keys
    /\ \A p \in Place : One(p) \in Keys /\ \A k \in Keys : Low(k, p) \in Keys
  BY Sizes DEF Full, One, Low, Keys

\* Adding column by column from column p: what is carried out of it weighs W.
Carries == [Place -> {0, 1}]
Columns(x, y, c, d, W, p) ==
    \A i \in Place : i > p => /\ W[i] = Base * W[i - 1]
                              /\ x[i] + y[i] + c[i] = d[i] + Base * c[i - 1]
Adds(x, y, c, d, W, i) == Val(x)[i] + Val(y)[i] + c[i] = Val(d)[i] + W[i]

LEMMA AddFrom ==
    ASSUME NEW x \in Keys, NEW y \in Keys, NEW d \in Keys, NEW c \in Carries,
           NEW W \in Digits, NEW p \in Place,
           Adds(x, y, c, d, W, p), Columns(x, y, c, d, W, p)
    PROVE  \A i \in Place : i >= p => Adds(x, y, c, d, W, i)
<1> USE DEF Columns, Adds
<1> DEFINE T == {i \in Place : Val(x)[i] + Val(y)[i] + c[i] = Val(d)[i] + W[i]}
<1>1. ASSUME NEW i \in Place, i > p, i - 1 \in T PROVE i \in T
  <2>1. i > 0 /\ i - 1 \in Place
    BY <1>1, Sizes
  <2>2. x \in Digits /\ y \in Digits /\ d \in Digits
    BY KeysAreDigits
  <2>3. /\ c[i] \in Nat /\ c[i - 1] \in Nat /\ W[i - 1] \in Nat
    BY <2>1 DEF Carries, Digits
  <2>4. /\ Val(x)[i] = x[i] + Base * Val(x)[i - 1] /\ x[i] \in Nat /\ Val(x)[i - 1] \in Nat
        /\ Val(y)[i] = y[i] + Base * Val(y)[i - 1] /\ y[i] \in Nat /\ Val(y)[i - 1] \in Nat
        /\ Val(d)[i] = d[i] + Base * Val(d)[i - 1] /\ d[i] \in Nat /\ Val(d)[i - 1] \in Nat
    BY <2>1, <2>2, ValGoesOn
  <2>5. Val(x)[i - 1] + Val(y)[i - 1] + c[i - 1] = Val(d)[i - 1] + W[i - 1]
    BY <1>1
  <2>6. W[i] = Base * W[i - 1] /\ x[i] + y[i] + c[i] = d[i] + Base * c[i - 1]
    BY <1>1
  <2> DEFINE X == Val(x)[i - 1]  Y == Val(y)[i - 1]  D == Val(d)[i - 1]
             C == c[i - 1]       V == W[i - 1]
  <2>7. /\ Base * X \in Nat /\ Base * Y \in Nat /\ Base * D \in Nat
        /\ Base * C \in Nat /\ Base * V \in Nat
        /\ Base * X + Base * Y + Base * C = Base * D + Base * V
    <3>1. /\ X \in Nat /\ Y \in Nat /\ D \in Nat /\ C \in Nat /\ V \in Nat
          /\ X + Y + C = D + V /\ Base \in Nat
      BY <2>3, <2>4, <2>5, Sizes
    <3> HIDE DEF X, Y, D, C, V
    <3> QED
      BY <3>1
  <2>8. /\ Val(x)[i] = x[i] + Base * X /\ Val(y)[i] = y[i] + Base * Y
        /\ Val(d)[i] = d[i] + Base * D /\ W[i] = Base * V
        /\ x[i] + y[i] + c[i] = d[i] + Base * C
    BY <2>4, <2>6
  <2> HIDE DEF X, Y, D, C, V
  <2>9. Val(x)[i] + Val(y)[i] + c[i] = Val(d)[i] + W[i]
    BY <2>3, <2>4, <2>7, <2>8
  <2> QED
    BY <2>9
<1>2. p \in T
  OBVIOUS
<1> HIDE DEF T
<1>3. \A i \in Place : i >= p => i \in T
  BY <1>1, <1>2, FromPlace
<1> QED
  BY <1>3 DEF T

\* The largest key stands for one less than a power of Base.
LEMMA FullGoesOn ==
    /\ Val(Full)[0] + 1 = Base
    /\ \A i \in Place : i > 0 => Val(Full)[i] + 1 = Base * (Val(Full)[i - 1] + 1)
    /\ \A i \in Place : Val(Full)[i] \in Nat
    /\ KeySpace = Val(Full)[Size - 1] + 1
<1>1. Full \in Digits /\ \A i \in Place : Full[i] = Base - 1
  BY MasksAreKeys, KeysAreDigits DEF Full
<1>2. Val(Full)[0] + 1 = Base
  BY <1>1, ValStarts, Sizes
<1>3. ASSUME NEW i \in Place, i > 0
      PROVE  Val(Full)[i] + 1 = Base * (Val(Full)[i - 1] + 1)
  <2> DEFINE v == Val(Full)[i - 1]
  <2>1. Val(Full)[i] = (Base - 1) + Base * v /\ v \in Nat
    BY <1>1, <1>3, ValGoesOn
  <2>2. Base * (v + 1) = Base * v + Base /\ Base * v \in Nat
    <3> HIDE DEF v
    <3> QED
      BY <2>1, Sizes
  <2> HIDE DEF v
  <2>3. Val(Full)[i] + 1 = Base * (v + 1)
    BY <2>1, <2>2, Sizes
  <2> QED
    BY <2>3 DEF v
<1>4. \A i \in Place : Val(Full)[i] \in Nat
  BY <1>1, ValStarts DEF Digits
<1>5. KeySpace = Val(Full)[Size - 1] + 1
  BY ValueIsVal DEF KeySpace, Full
<1> QED
  BY <1>2, <1>3, <1>4, <1>5

\* A one in byte p, then zeros.
LEMMA OneGoesOn ==
    ASSUME NEW p \in Place
    PROVE  /\ Val(One(p))[p] = 1 /\ Weight(p) = Val(One(p))[Size - 1]
           /\ \A i \in Place : i > p => Val(One(p))[i] = Base * Val(One(p))[i - 1]
<1> DEFINE u == One(p)
<1>1. u \in Digits /\ u[p] = 1 /\ \A i \in Place : i # p => u[i] = 0
  BY MasksAreKeys, KeysAreDigits DEF One
<1>2. Weight(p) = Val(u)[Size - 1]
  BY ValueIsVal DEF Weight, One
<1> HIDE DEF u
<1>3. \A i \in Place : i < p => Val(u)[i] = 0
  <2> DEFINE T == {i \in Place : i < p => Val(u)[i] = 0}
  <2>1. 0 \in T /\ 0 \in Place
    BY <1>1, ValStarts, Sizes
  <2>2. ASSUME NEW i \in Place, i > 0, i - 1 \in T PROVE i \in T
    <3>1. i < p => Val(u)[i - 1] = 0 /\ u[i] = 0
      BY <1>1, <2>2, Sizes
    <3>2. Val(u)[i] = u[i] + Base * Val(u)[i - 1]
      BY <1>1, <2>2, ValGoesOn
    <3> QED
      BY <3>1, <3>2, Sizes
  <2> HIDE DEF T
  <2>3. \A i \in Place : i >= 0 => i \in T
    BY <2>1, <2>2, FromPlace
  <2> QED
    BY <2>3, Sizes DEF T
<1>4. Val(u)[p] = 1
  <2>1. CASE p = 0
    BY <1>1, <2>1, ValStarts
  <2>2. CASE p > 0
    <3>1. Val(u)[p - 1] = 0
      BY <1>3, <2>2, Sizes
    <3> QED
      BY <1>1, <2>2, <3>1, ValGoesOn, Sizes
  <2> QED
    BY <2>1, <2>2, Sizes
<1>5. ASSUME NEW i \in Place, i > p PROVE Val(u)[i] = Base * Val(u)[i - 1]
  <2>1. i > 0 /\ u[i] = 0
    BY <1>1, <1>5, Sizes
  <2>2. Val(u)[i] = u[i] + Base * Val(u)[i - 1] /\ Base * Val(u)[i - 1] \in Nat
    BY <1>1, <2>1, ValGoesOn, Times, Sizes
  <2> QED
    BY <2>1, <2>2
<1> QED
  BY <1>2, <1>4, <1>5 DEF u

LEMMA LessFrom ==
    ASSUME NEW d \in Keys, NEW W \in Digits, NEW p \in Place, Val(d)[p] < W[p],
           \A i \in Place : i > p => W[i] = Base * W[i - 1]
    PROVE  \A i \in Place : i >= p => Val(d)[i] < W[i]
<1> DEFINE T == {i \in Place : Val(d)[i] < W[i]}
<1>1. ASSUME NEW i \in Place, i > p, i - 1 \in T PROVE i \in T
  <2>1. i > 0 /\ i - 1 \in Place /\ d \in Digits
    BY <1>1, Sizes, KeysAreDigits
  <2> DEFINE v == Val(d)[i - 1]  w == W[i - 1]
  <2>2. /\ Val(d)[i] = d[i] + Base * v /\ d[i] \in Nat /\ v \in Nat /\ d[i] < Base
    BY <2>1, ValGoesOn, KeysAreDigits
  <2>3. v < w /\ w \in Nat /\ W[i] = Base * w
    BY <1>1, <2>1 DEF Digits
  <2> HIDE DEF v, w
  <2>4. d[i] + Base * v < 0 + Base * w
    BY <2>2, <2>3, DigitsLess, Sizes
  <2>5. Base * w \in Nat
    BY <2>3, Times, Sizes
  <2> QED
    BY <2>2, <2>3, <2>4, <2>5
<1>2. p \in T
  OBVIOUS
<1> HIDE DEF T
<1>3. \A i \in Place : i >= p => i \in T
  BY <1>1, <1>2, FromPlace
<1> QED
  BY <1>3 DEF T

\* The carries of an addition, and the bytes of the sum.
Carried(s) == IF s >= Base THEN 1 ELSE 0
AddCarries(x, y, c) ==
    /\ c \in Carries /\ c[Size - 1] = 0
    /\ \A i \in Place : i > 0 => c[i - 1] = Carried(x[i] + y[i] + c[i])
Sum(x, y, c) == [i \in Place |-> (x[i] + y[i] + c[i]) % Base]

LEMMA ModBase ==
    ASSUME NEW s \in Nat, s < 2 * Base
    PROVE  /\ s % Base = (IF s < Base THEN s ELSE s - Base)
           /\ s \div Base = Carried(s) /\ s = (s % Base) + Base * Carried(s)
           /\ s % Base \in Byte /\ Carried(s) \in {0, 1}
<1>1. Base \in Nat /\ Base >= 2
  BY Sizes
<1>2. CASE s < Base
  <2>1. s % Base = s /\ s \div Base = 0
    BY <1>1, <1>2
  <2> QED
    BY <1>1, <1>2, <2>1 DEF Carried, Byte
<1>3. CASE s >= Base
  <2>1. s % Base = s - Base /\ s \div Base = 1
    BY <1>1, <1>3
  <2> QED
    BY <1>1, <1>3, <2>1 DEF Carried, Byte
<1> QED
  BY <1>1, <1>2, <1>3

LEMMA ColumnSum ==
    ASSUME NEW x \in Keys, NEW y \in Keys, NEW c \in Carries, NEW i \in Place
    PROVE  /\ x[i] + y[i] + c[i] \in Nat /\ x[i] + y[i] + c[i] < 2 * Base
           /\ c[i] \in {0, 1}
  BY KeysAreDigits, Sizes DEF Carries

LEMMA CarriesExist ==
    ASSUME NEW x \in Keys, NEW y \in Keys
    PROVE  \E c : AddCarries(x, y, c)
<1> DEFINE N == Size - 1
           G == [m \in 1 .. N |-> [v \in {0, 1} |-> Carried(x[Size - m] + y[Size - m] + v)]]
<1>1. N \in Nat /\ 0 \in {0, 1} /\ G \in Rules(N, {0, 1})
  BY Sizes DEF Rules, Carried
<1>2. PICK f : Follows(f, N, {0, 1}, 0, G)
  <2> HIDE DEF G, N
  <2> QED
    BY <1>1, Recursion
<1> DEFINE c == [i \in Place |-> f[N - i]]
<1>3. c \in Carries /\ c[Size - 1] = 0
  BY <1>2, Sizes DEF Follows, Carries
<1>4. ASSUME NEW i \in Place, i > 0
      PROVE  c[i - 1] = Carried(x[i] + y[i] + c[i])
  <2> DEFINE m == Size - i
  <2>1. /\ m \in 1 .. N /\ N - (i - 1) = m /\ N - i = m - 1 /\ Size - m = i
        /\ i - 1 \in Place
    BY <1>4, Sizes
  <2>2. f[m] = G[m][f[m - 1]] /\ f[m - 1] \in {0, 1}
    <3>1. m - 1 \in 0 .. N
      BY <1>1, <2>1
    <3> HIDE DEF G, m, N
    <3> QED
      BY <1>2, <2>1, <3>1 DEF Follows
  <2>3. G[m][f[m - 1]] = Carried(x[Size - m] + y[Size - m] + f[m - 1])
    BY <2>1, <2>2
  <2>4. c[i - 1] = f[m] /\ c[i] = f[m - 1]
    BY <2>1
  <2> QED
    BY <2>1, <2>2, <2>3, <2>4
<1> QED
  BY <1>3, <1>4 DEF AddCarries

\* Bytes added with their carries are the sum on the circle.
LEMMA SumIsRight ==
    ASSUME NEW x \in Keys, NEW y \in Keys, NEW c, AddCarries(x, y, c)
    PROVE  /\ Sum(x, y, c) \in Keys
           /\ Value(Sum(x, y, c)) = (Value(x) + Value(y)) % KeySpace
<1> DEFINE d == Sum(x, y, c)
<1>1. c \in Carries /\ c[Size - 1] = 0
  BY DEF AddCarries
<1>2. \A i \in Place : /\ d[i] \in Byte /\ Carried(x[i] + y[i] + c[i]) \in {0, 1}
                       /\ x[i] + y[i] + c[i] = d[i] + Base * Carried(x[i] + y[i] + c[i])
  BY <1>1, ColumnSum, ModBase DEF Sum
<1>3. d \in Keys
  BY <1>2 DEF Sum, Keys
<1> DEFINE k == Carried(x[0] + y[0] + c[0])
           W == [i \in Place |-> IF k = 1 THEN Val(Full)[i] + 1 ELSE 0]
           F == [i \in Place |-> Val(Full)[i] + 1]
<1>4. W \in Digits /\ F \in Digits
  BY FullGoesOn DEF Digits
<1>5. /\ \A i \in Place : i > 0 => W[i] = Base * W[i - 1] /\ F[i] = Base * F[i - 1]
      /\ W[0] = Base * k /\ F[0] = Base
  <2>1. k \in {0, 1} /\ 0 \in Place /\ \A i \in Place : i > 0 => i - 1 \in Place
    BY <1>2, Sizes
  <2> HIDE DEF k
  <2>2. W[0] = Base * k /\ F[0] = Base
    BY <2>1, FullGoesOn, Sizes
  <2>3. \A i \in Place : i > 0 => W[i] = Base * W[i - 1] /\ F[i] = Base * F[i - 1]
    BY <2>1, FullGoesOn, Sizes
  <2> QED
    BY <2>2, <2>3
<1>6. /\ x \in Digits /\ y \in Digits /\ d \in Digits /\ 0 \in Place /\ Size - 1 \in Place
      /\ Size - 1 >= 0
  BY <1>3, KeysAreDigits, Sizes
<1>7. Val(x)[0] + Val(y)[0] + c[0] = Val(d)[0] + W[0]
  BY <1>2, <1>5, <1>6, ValStarts
<1>8. \A i \in Place : i > 0 => x[i] + y[i] + c[i] = d[i] + Base * c[i - 1]
  BY <1>2 DEF AddCarries
<1>9. Val(d)[0] < F[0]
  BY <1>3, <1>5, <1>6, ValStarts, KeysAreDigits
<1> HIDE DEF d, W, F
<1>10. Val(x)[Size - 1] + Val(y)[Size - 1] + c[Size - 1] = Val(d)[Size - 1] + W[Size - 1]
  <2>1. Adds(x, y, c, d, W, 0) /\ Columns(x, y, c, d, W, 0)
    BY <1>5, <1>7, <1>8 DEF Adds, Columns
  <2>2. Adds(x, y, c, d, W, Size - 1)
    BY <1>1, <1>3, <1>4, <1>6, <2>1, AddFrom
  <2> QED
    BY <2>2 DEF Adds
<1>11. Val(d)[Size - 1] < F[Size - 1]
  BY <1>3, <1>4, <1>5, <1>6, <1>9, LessFrom
<1>12. /\ KeySpace = F[Size - 1] /\ KeySpace \in Nat
       /\ W[Size - 1] = KeySpace \/ W[Size - 1] = 0
  BY <1>4, <1>6, FullGoesOn DEF F, W, Digits
<1>13. /\ Value(x) + Value(y) = Value(d) + W[Size - 1]
       /\ Value(d) \in Nat /\ Value(d) < KeySpace
  BY <1>1, <1>6, <1>10, <1>11, <1>12, ValueType
<1> DEFINE K == KeySpace  v == Value(d)  t == Value(x) + Value(y)
<1>14. K \in Nat /\ v \in Nat /\ v < K /\ (t = v + K \/ t = v + 0)
  BY <1>12, <1>13
<1> HIDE DEF K, v, t
<1>15. v = t % K
  BY <1>14
<1> QED
  BY <1>3, <1>15 DEF d, K, v, t

\* CarryIn is the carry.
LEMMA CarryInIs ==
    ASSUME NEW x \in Keys, NEW y \in Keys, NEW c, AddCarries(x, y, c), NEW p \in Place
    PROVE  CarryIn(x, y, p) <=> c[p] = 1
<1> DEFINE lx == Low(x, p)  ly == Low(y, p)  ld == Low(Sum(x, y, c), p)
           U  == Val(One(p))
           W  == [i \in Place |-> IF c[p] = 1 THEN U[i] ELSE 0]
           L  == Size - 1
<1>1. /\ lx \in Keys /\ ly \in Keys /\ ld \in Keys /\ One(p) \in Keys
      /\ lx \in Digits /\ ly \in Digits /\ ld \in Digits /\ One(p) \in Digits
  BY SumIsRight, MasksAreKeys, KeysAreDigits
<1>2. c \in Carries /\ c[p] \in {0, 1} /\ c[L] = 0 /\ L \in Place /\ L >= p
  BY Sizes DEF AddCarries, Carries
<1>3. U \in Digits /\ W \in Digits
  BY <1>1, ValStarts DEF Digits
<1>4. /\ \A i \in Place : i <= p => lx[i] = 0 /\ ly[i] = 0 /\ ld[i] = 0
      /\ \A i \in Place : i > p => lx[i] = x[i] /\ ly[i] = y[i] /\ ld[i] = Sum(x, y, c)[i]
  BY Sizes DEF Low
<1>5. \A k \in Keys : (\A i \in Place : i <= p => k[i] = 0) => Val(k)[p] = 0
  <2>1. SUFFICES ASSUME NEW k \in Keys, \A i \in Place : i <= p => k[i] = 0
                 PROVE  Val(k)[p] = 0
    OBVIOUS
  <2> DEFINE T == {i \in Place : i <= p => Val(k)[i] = 0}
  <2>2. 0 \in T /\ 0 \in Place /\ k \in Digits
    BY <2>1, ValStarts, KeysAreDigits, Sizes
  <2>3. ASSUME NEW i \in Place, i > 0, i - 1 \in T PROVE i \in T
    <3>1. i <= p => Val(k)[i - 1] = 0 /\ k[i] = 0
      BY <2>1, <2>3, Sizes
    <3> QED
      BY <2>2, <2>3, <3>1, ValGoesOn, Sizes
  <2> HIDE DEF T
  <2>4. \A i \in Place : i >= 0 => i \in T
    BY <2>2, <2>3, FromPlace
  <2> QED
    BY <2>4, Sizes DEF T
<1>6. \A i \in Place : i > p => lx[i] + ly[i] + c[i] = ld[i] + Base * c[i - 1]
  <2>1. SUFFICES ASSUME NEW i \in Place, i > p
                 PROVE  x[i] + y[i] + c[i] = Sum(x, y, c)[i] + Base * c[i - 1]
    BY <1>4
  <2>2. i > 0
    BY <2>1, Sizes
  <2> QED
    BY <1>2, <2>1, <2>2, ColumnSum, ModBase DEF AddCarries, Sum
<1>7. Val(lx)[p] + Val(ly)[p] + c[p] = Val(ld)[p] + W[p] /\ Val(ld)[p] < U[p]
  <2>1. Val(lx)[p] = 0 /\ Val(ly)[p] = 0 /\ Val(ld)[p] = 0 /\ U[p] = 1
    BY <1>1, <1>4, <1>5, OneGoesOn
  <2> QED
    BY <1>2, <2>1
<1>8. \A i \in Place : i > p => U[i] = Base * U[i - 1] /\ W[i] = Base * W[i - 1]
  <2>1. SUFFICES ASSUME NEW i \in Place, i > p
                 PROVE  U[i] = Base * U[i - 1] /\ W[i] = Base * W[i - 1]
    OBVIOUS
  <2>2. i - 1 \in Place /\ U[i] = Base * U[i - 1]
    BY <2>1, OneGoesOn, Sizes
  <2> HIDE DEF U
  <2> QED
    BY <2>2, Sizes
<1> HIDE DEF lx, ly, ld, U, W
<1>9. Val(lx)[L] + Val(ly)[L] + c[L] = Val(ld)[L] + W[L]
  <2>1. Adds(lx, ly, c, ld, W, p) /\ Columns(lx, ly, c, ld, W, p)
    BY <1>6, <1>7, <1>8 DEF Adds, Columns
  <2>2. Adds(lx, ly, c, ld, W, L)
    BY <1>1, <1>2, <1>3, <2>1, AddFrom
  <2> QED
    BY <2>2 DEF Adds
<1>10. Val(ld)[L] < U[L]
  BY <1>1, <1>2, <1>3, <1>7, <1>8, LessFrom
<1>11. Value(lx) + Value(ly) = Value(ld) + W[L] /\ Value(ld) < U[L] /\ Value(ld) \in Nat
  BY <1>1, <1>2, <1>9, <1>10, ValueType
<1>12. Weight(p) = U[L] /\ U[L] \in Nat /\ W[L] = IF c[p] = 1 THEN U[L] ELSE 0
  BY <1>2, <1>3, OneGoesOn DEF U, W, Digits
<1>13. CarryIn(x, y, p) <=> Value(lx) + Value(ly) >= Weight(p)
  BY DEF CarryIn, lx, ly, Low
<1> QED
  BY <1>11, <1>12, <1>13

-----------------------------------------------------------------------------
\* key_add.

\* Induction from the last byte to the first.
LEMMA FromLast ==
    ASSUME NEW T, Size - 1 \in T,
           \A i \in Place : i > 0 /\ i \in T => i - 1 \in T
    PROVE  \A i \in Place : i \in T
<1> DEFINE N == Size - 1
           S == {m \in 0 .. N : N - m \in T}
<1>1. N \in Nat /\ Place = 0 .. N /\ 0 \in S
  BY Sizes
<1>2. ASSUME NEW m \in 0 .. N - 1, m \in S PROVE m + 1 \in S
  <2>1. N - m \in Place /\ N - m > 0 /\ (N - m) - 1 = N - (m + 1) /\ m + 1 \in 0 .. N
    BY <1>1
  <2> QED
    BY <1>2, <2>1
<1> HIDE DEF S, N
<1>3. \A m \in 0 .. N - 1 : m \in S => m + 1 \in S
  BY <1>2
<1>4. \A m \in 0 .. N : m \in S
  BY <1>1, <1>3, UpTo
<1>5. ASSUME NEW i \in Place PROVE i \in T
  <2>1. N - i \in 0 .. N /\ N - (N - i) = i
    BY <1>1
  <2> QED
    BY <1>4, <2>1 DEF S
<1> QED
  BY <1>5

\* The loop's sums: every byte is added to what its carry leaves of key1's.
Total(a, b) == CHOOSE total :
    total = [i \in Place |->
                ((a[i] + (IF i = Size - 1 THEN 0 ELSE total[i + 1] \div Base)) % Base) + b[i]]

LEMMA AddIsTotal ==
    \A a, b : key_add(a, b) = [i \in Place |-> Total(a, b)[i] % Base]
  BY DEF key_add, Total

\* What the loop carries into byte i.
InCarry(a, b, i) == IF i = Size - 1 THEN 0 ELSE Total(a, b)[i + 1] \div Base

LEMMA TotalGoesOn ==
    ASSUME NEW a \in Keys, NEW b \in Keys, NEW i \in Place
    PROVE  /\ InCarry(a, b, i) \in {0, 1}
           /\ Total(a, b)[i] = ((a[i] + InCarry(a, b, i)) % Base) + b[i]
           /\ Total(a, b)[i] \in Nat /\ Total(a, b)[i] < 2 * Base
<1> DEFINE N == Size - 1
           S == 0 .. 2 * Base - 1
           P(t) == t = [j \in Place |->
                    ((a[j] + (IF j = Size - 1 THEN 0 ELSE t[j + 1] \div Base)) % Base) + b[j]]
           first == ((a[N] + 0) % Base) + b[N]
           G == [m \in 1 .. N |-> [v \in S |->
                    ((a[N - m] + (v \div Base)) % Base) + b[N - m]]]
<1>1. \A j \in Place : /\ a[j] \in Nat /\ a[j] < Base
                       /\ b[j] \in Nat /\ b[j] < Base
  BY KeysAreDigits
<1>2. \A s \in S : s \div Base \in {0, 1}
  <2>1. SUFFICES ASSUME NEW s \in S PROVE s \div Base \in {0, 1}
    OBVIOUS
  <2>2. s \in Nat /\ s < 2 * Base
    BY Sizes
  <2> QED
    BY <2>2, ModBase
<1>3. \A j \in Place : \A v \in {0, 1} : ((a[j] + v) % Base) + b[j] \in S
  <2>1. SUFFICES ASSUME NEW j \in Place, NEW v \in {0, 1}
                 PROVE  ((a[j] + v) % Base) + b[j] \in S
    OBVIOUS
  <2>3. a[j] + v \in Nat /\ a[j] + v < 2 * Base
    BY <1>1, Sizes
  <2>2. (a[j] + v) % Base \in Byte
    BY <2>3, ModBase
  <2> QED
    BY <1>1, <2>2, Sizes
<1>4. N \in Nat /\ N \in Place /\ \A m \in 1 .. N : N - m \in Place
  BY Sizes
<1>5. first \in S
  BY <1>3, <1>4
<1>6. G \in Rules(N, S)
  BY <1>2, <1>3, <1>4 DEF Rules
<1>7. PICK f : Follows(f, N, S, first, G)
  <2> HIDE DEF G, N, S, first
  <2> QED
    BY <1>4, <1>5, <1>6, Recursion
<1> DEFINE t == [j \in Place |-> f[N - j]]
<1>8. \A j \in Place : t[j] \in S
                       /\ t[j] = ((a[j] + (IF j = Size - 1 THEN 0 ELSE t[j + 1] \div Base)) % Base) + b[j]
  <2>1. SUFFICES ASSUME NEW j \in Place
                 PROVE  t[j] \in S
                        /\ t[j] = ((a[j] + (IF j = Size - 1 THEN 0 ELSE t[j + 1] \div Base)) % Base) + b[j]
    OBVIOUS
  <2>2. N - j \in 0 .. N
    BY Sizes
  <2>3. t[j] \in S
    <3> HIDE DEF G, N, S, first
    <3> QED
      BY <1>7, <2>2 DEF Follows
  <2>4. CASE j = Size - 1
    <3>1. N - j = 0 /\ j = N
      BY <2>4, Sizes
    <3>2. f[0] = first
      BY <1>7 DEF Follows
    <3> QED
      BY <2>3, <2>4, <3>1, <3>2
  <2>5. CASE j # Size - 1
    <3> DEFINE m == N - j
    <3>1. m \in 1 .. N /\ j + 1 \in Place /\ N - (j + 1) = m - 1 /\ m - 1 \in 0 .. N
          /\ N - m = j
      BY <2>5, Sizes
    <3>2. f[m] = G[m][f[m - 1]] /\ f[m - 1] \in S
      <4> HIDE DEF G, N, S, first, m
      <4> QED
        BY <1>7, <3>1 DEF Follows
    <3>3. G[m][f[m - 1]] = ((a[N - m] + (f[m - 1] \div Base)) % Base) + b[N - m]
      BY <3>1, <3>2
    <3>4. t[j] = f[m] /\ t[j + 1] = f[m - 1]
      BY <3>1
    <3> HIDE DEF G, t, m, N
    <3> QED
      BY <2>3, <2>5, <3>1, <3>2, <3>3, <3>4
  <2> QED
    BY <2>4, <2>5
<1>9. P(t)
  <2> DEFINE e(j) == ((a[j] + (IF j = Size - 1 THEN 0 ELSE t[j + 1] \div Base)) % Base) + b[j]
  <2>1. \A j \in Place : t[j] = e(j)
    BY <1>8
  <2>2. t = [j \in Place |-> t[j]]
    OBVIOUS
  <2> HIDE DEF t
  <2> QED
    BY <2>1, <2>2
<1>10. P(Total(a, b))
  <2> HIDE DEF G, t
  <2>1. P(CHOOSE v : P(v))
    <3> HIDE DEF P
    <3> QED
      BY <1>9
  <2> QED
    BY <2>1 DEF Total
<1> DEFINE T == Total(a, b)
<1>11. \A j \in Place : T[j] = ((a[j] + InCarry(a, b, j)) % Base) + b[j]
  BY <1>10 DEF InCarry
<1> HIDE DEF T, P, G, t
<1>12. InCarry(a, b, N) = 0
  BY DEF InCarry
<1>13. \A j \in Place : j > 0 => InCarry(a, b, j - 1) = T[j] \div Base
  BY Sizes DEF InCarry, T
<1> DEFINE R == {j \in Place : InCarry(a, b, j) \in {0, 1}}
<1>14. Size - 1 \in R
  BY <1>4, <1>12
<1>15. ASSUME NEW j \in Place, j > 0, j \in R PROVE j - 1 \in R
  <2>1. T[j] \in S
    BY <1>3, <1>11, <1>15
  <2>2. InCarry(a, b, j - 1) \in {0, 1}
    BY <1>2, <1>13, <1>15, <2>1
  <2> QED
    BY <1>15, <2>2, Sizes
<1> HIDE DEF R
<1>16. \A j \in Place : j \in R
  BY <1>14, <1>15, FromLast
<1>17. InCarry(a, b, i) \in {0, 1} /\ T[i] = ((a[i] + InCarry(a, b, i)) % Base) + b[i]
  BY <1>11, <1>16 DEF R
<1>18. T[i] \in S
  BY <1>3, <1>17
<1> QED
  BY <1>17, <1>18, Sizes DEF T

\* One byte of the loop: the carry is lost when x is full, and the byte left
\* tells which carry went in.
LEMMA AddByte ==
    ASSUME NEW x \in Byte, NEW y \in Byte, NEW v \in {0, 1}
    PROVE  /\ (((x + v) % Base) + y) % Base = (x + y + v) % Base
           /\ (((x + v) % Base) + y) % Base \in Byte
           /\ (((x + v) % Base) + y) \div Base
                  = IF x = Base - 1 /\ v = 1 THEN 0 ELSE Carried(x + y + v)
           /\ x = Base - 1 => Carried(x + y + 1) = 1
           /\ (x + y + 0) % Base # (x + y + 1) % Base
<1>1. /\ Base \in Nat /\ Base >= 2 /\ x \in Nat /\ y \in Nat /\ x < Base /\ y < Base
  BY Sizes
<1> DEFINE u == (x + v) % Base
<1>2. u = IF x = Base - 1 /\ v = 1 THEN 0 ELSE x + v
  <2>1. x + v \in Nat /\ x + v < 2 * Base
    BY <1>1
  <2>2. u = IF x + v < Base THEN x + v ELSE x + v - Base
    <3>0. PICK s : s = x + v
      OBVIOUS
    <3>1. s \in Nat /\ s < 2 * Base
      BY <2>1, <3>0
    <3>2. s % Base = IF s < Base THEN s ELSE s - Base
      BY <3>1, ModBase
    <3> QED
      BY <1>1, <3>0, <3>1, <3>2
  <2> QED
    BY <1>1, <2>2
<1>3. \A w \in {0, 1} : x + y + w \in Nat /\ x + y + w < 2 * Base
  BY <1>1
<1>4. \A w \in {0, 1} :
          (x + y + w) % Base = IF x + y + w < Base THEN x + y + w ELSE x + y + w - Base
  <2>1. SUFFICES ASSUME NEW w \in {0, 1}
                 PROVE (x + y + w) % Base
                          = IF x + y + w < Base THEN x + y + w ELSE x + y + w - Base
    OBVIOUS
  <2>0. PICK s : s = x + y + w
    OBVIOUS
  <2>2. s \in Nat /\ s < 2 * Base
    BY <1>3, <2>0
  <2>3. s % Base = IF s < Base THEN s ELSE s - Base
    BY <2>2, ModBase
  <2> QED
    BY <1>1, <2>0, <2>2, <2>3
<1>5. u + y \in Nat /\ u + y < 2 * Base
  BY <1>1, <1>2
<1>6. /\ (u + y) % Base = IF u + y < Base THEN u + y ELSE u + y - Base
      /\ (u + y) \div Base = Carried(u + y) /\ (u + y) % Base \in Byte
  <2>0. PICK s : s = u + y
    OBVIOUS
  <2>1. s \in Nat /\ s < 2 * Base
    BY <1>5, <2>0
  <2>2. /\ s % Base = IF s < Base THEN s ELSE s - Base
        /\ s \div Base = Carried(s) /\ s % Base \in Byte
    BY <2>1, ModBase
  <2> QED
    BY <1>1, <1>2, <2>0, <2>1, <2>2
<1> HIDE DEF u
<1>7. (u + y) % Base = (x + y + v) % Base
  BY <1>1, <1>2, <1>4, <1>6
<1>8. Carried(u + y) = IF x = Base - 1 /\ v = 1 THEN 0 ELSE Carried(x + y + v)
  BY <1>1, <1>2 DEF Carried
<1>9. x = Base - 1 => Carried(x + y + 1) = 1
  BY <1>1 DEF Carried
<1>10. (x + y + 0) % Base # (x + y + 1) % Base
  BY <1>1, <1>4
<1> QED
  BY <1>6, <1>7, <1>8, <1>9, <1>10 DEF u

LEMMA AddReads ==
    ASSUME NEW a \in Keys, NEW b \in Keys, NEW i \in Place
    PROVE  /\ key_add(a, b)[i] = (a[i] + b[i] + InCarry(a, b, i)) % Base
           /\ key_add(a, b)[i] \in Byte
           /\ i > 0 => InCarry(a, b, i - 1)
                  = IF a[i] = Base - 1 /\ InCarry(a, b, i) = 1
                    THEN 0 ELSE Carried(a[i] + b[i] + InCarry(a, b, i))
<1> DEFINE v == InCarry(a, b, i)
<1>1. a[i] \in Byte /\ b[i] \in Byte /\ v \in {0, 1}
  BY TotalGoesOn DEF Keys
<1>2. Total(a, b)[i] = ((a[i] + v) % Base) + b[i]
  BY TotalGoesOn
<1>3. key_add(a, b)[i] = Total(a, b)[i] % Base
  BY AddIsTotal
<1>4. i > 0 => InCarry(a, b, i - 1) = Total(a, b)[i] \div Base
  BY Sizes DEF InCarry
<1> HIDE DEF v
<1> DEFINE x == a[i]  y == b[i]
<1>5. /\ (((x + v) % Base) + y) % Base = (x + y + v) % Base
      /\ (((x + v) % Base) + y) % Base \in Byte
      /\ (((x + v) % Base) + y) \div Base
             = IF x = Base - 1 /\ v = 1 THEN 0 ELSE Carried(x + y + v)
  BY <1>1, AddByte
<1>6. /\ key_add(a, b)[i] = (x + y + v) % Base
      /\ key_add(a, b)[i] \in Byte
      /\ i > 0 => InCarry(a, b, i - 1)
             = IF x = Base - 1 /\ v = 1 THEN 0 ELSE Carried(x + y + v)
  BY <1>2, <1>3, <1>4, <1>5
<1> QED
  BY <1>6 DEF v

LEMMA AddIsKey == ASSUME NEW a \in Keys, NEW b \in Keys PROVE key_add(a, b) \in Keys
<1>1. key_add(a, b) = [i \in Place |-> Total(a, b)[i] % Base]
  BY AddIsTotal
<1>2. \A i \in Place : Total(a, b)[i] % Base \in Byte
  BY <1>1, AddReads
<1> QED
  BY <1>1, <1>2 DEF Keys

\* key_add adds, except where a carry meets a full byte of the first key.
LEMMA AddIsRight ==
    ASSUME NEW a \in Keys, NEW b \in Keys
    PROVE  Value(key_add(a, b)) = (Value(a) + Value(b)) % KeySpace <=> ~CarryLost(a, b)
<1>1. PICK c : AddCarries(a, b, c)
  BY CarriesExist
<1>2. c \in Carries /\ \A i \in Place : c[i] \in {0, 1}
  BY <1>1 DEF AddCarries, Carries
<1> DEFINE d == Sum(a, b, c)
           in(i) == InCarry(a, b, i)
<1>3. /\ d \in Keys /\ key_add(a, b) \in Keys
      /\ Value(d) = (Value(a) + Value(b)) % KeySpace
  BY <1>1, SumIsRight, AddIsKey
<1>4. Value(key_add(a, b)) = Value(d) <=> key_add(a, b) = d
  BY <1>3, ValueTellsApart
<1>5. \A i \in Place : /\ a[i] \in Byte /\ b[i] \in Byte /\ in(i) \in {0, 1}
                       /\ key_add(a, b)[i] = (a[i] + b[i] + in(i)) % Base
                       /\ d[i] = (a[i] + b[i] + c[i]) % Base
  BY AddReads, TotalGoesOn DEF Keys, Sum
<1>6. \A i \in Place : key_add(a, b)[i] = d[i] <=> in(i) = c[i]
  <2>1. SUFFICES ASSUME NEW i \in Place PROVE key_add(a, b)[i] = d[i] <=> in(i) = c[i]
    OBVIOUS
  <2>2. (a[i] + b[i] + 0) % Base # (a[i] + b[i] + 1) % Base
    BY <1>5, AddByte
  <2> HIDE DEF d, in
  <2> QED
    BY <1>2, <1>5, <2>2
<1>7. key_add(a, b) = d <=> \A i \in Place : in(i) = c[i]
  <2>1. key_add(a, b) = d <=> \A i \in Place : key_add(a, b)[i] = d[i]
    <3> HIDE DEF d
    <3> QED
      BY <1>3 DEF Keys
  <2> QED
    BY <1>6, <2>1
<1>8. CarryLost(a, b) <=> \E i \in Place : i > 0 /\ a[i] = Base - 1 /\ c[i] = 1
  BY <1>1, CarryInIs, Sizes DEF CarryLost
<1>9. \A i \in Place : i > 0 =>
          /\ in(i - 1) = IF a[i] = Base - 1 /\ in(i) = 1 THEN 0 ELSE Carried(a[i] + b[i] + in(i))
          /\ c[i - 1] = Carried(a[i] + b[i] + c[i])
          /\ i - 1 \in Place
  BY <1>1, AddReads, Sizes DEF AddCarries
<1>10. in(Size - 1) = c[Size - 1]
  BY <1>1 DEF InCarry, AddCarries
<1> HIDE DEF in, d
<1>11. ASSUME CarryLost(a, b) PROVE \E i \in Place : in(i) # c[i]
  <2>1. PICK i \in Place : i > 0 /\ a[i] = Base - 1 /\ c[i] = 1
    BY <1>8, <1>11
  <2>2. c[i - 1] = 1
    BY <1>5, <1>9, <2>1, AddByte
  <2>3. in(i) = 1 => in(i - 1) = 0
    BY <1>9, <2>1
  <2> QED
    BY <1>9, <2>1, <2>2, <2>3
<1>12. ASSUME ~CarryLost(a, b) PROVE \A i \in Place : in(i) = c[i]
  <2> DEFINE T == {i \in Place : in(i) = c[i]}
  <2>1. Size - 1 \in T
    BY <1>10, Sizes
  <2>2. ASSUME NEW i \in Place, i > 0, i \in T PROVE i - 1 \in T
    BY <1>8, <1>9, <1>12, <2>2
  <2> HIDE DEF T
  <2>3. \A i \in Place : i \in T
    BY <2>1, <2>2, FromLast
  <2> QED
    BY <2>3 DEF T
<1> QED
  BY <1>3, <1>4, <1>7, <1>11, <1>12

-----------------------------------------------------------------------------
\* key_double.

Half == Base \div 2

LEMMA HalfOf == \A h, x \in Nat : x < 2 * h => x \div h = IF x >= h THEN 1 ELSE 0
<1>1. \A h, x \in Nat : x < h => x \div h = 0
  OBVIOUS
<1>2. \A h, x \in Nat : h <= x /\ x < 2 * h => x \div h = 1
  OBVIOUS
<1> QED
  BY <1>1, <1>2

LEMMA HalfByte ==
    /\ Half \in Nat /\ Base = 2 * Half
    /\ \A byte \in Byte : byte \div Half = IF byte >= Half THEN 1 ELSE 0
<1>1. Half \in Nat /\ Base = 2 * Half
  BY Sizes DEF Half
<1>2. \A byte \in Byte : byte \in Nat /\ byte < 2 * Half
  BY <1>1, Sizes
<1> QED
  BY <1>1, <1>2, HalfOf

LEMMA DoubleByte ==
    ASSUME NEW x \in Byte, NEW e \in {0, 1}
    PROVE  (2 * x + e) % Base = (x + x + e) % Base /\ (2 * x + e) % Base \in Byte
<1>1. x \in Nat /\ x < Base /\ Base \in Nat
  BY Sizes
<1>2. PICK s : s = 2 * x + e
  OBVIOUS
<1>3. s \in Nat /\ s < 2 * Base /\ s = x + x + e
  BY <1>1, <1>2
<1>4. s % Base \in Byte
  BY <1>3, ModBase
<1> QED
  BY <1>1, <1>2, <1>3, <1>4

Double(k, junk) == CHOOSE double :
    double = [i \in Place |->
        LET before == IF i = 0 THEN junk ELSE double[i - 1]
            carry  == IF i = Size - 1 THEN 0 ELSE before \div (Base \div 2)
        IN  (2 * k[i] + carry) % Base]

LEMMA DoubleIs == \A k, junk : key_double(k, junk) = [i \in Place |-> Double(k, junk)[i]]
  BY DEF key_double, Double

\* The byte key_double reads the carry into byte i from, and that carry.
Before(k, junk, i)  == IF i = 0 THEN junk ELSE key_double(k, junk)[i - 1]
CarryAt(k, junk, i) == IF i = Size - 1 THEN 0 ELSE Before(k, junk, i) \div Half

LEMMA DoubleGoesOn ==
    ASSUME NEW k \in Keys, NEW junk \in Byte
    PROVE  /\ key_double(k, junk) \in Keys
           /\ \A i \in Place : key_double(k, junk)[i] = (2 * k[i] + CarryAt(k, junk, i)) % Base
<1> DEFINE N == Size - 1
           P(t) == t = [i \in Place |->
                LET before == IF i = 0 THEN junk ELSE t[i - 1]
                    carry  == IF i = Size - 1 THEN 0 ELSE before \div (Base \div 2)
                IN  (2 * k[i] + carry) % Base]
           byte(i, v) == (2 * k[i] + (IF i = N THEN 0 ELSE v \div Half)) % Base
           first == byte(0, junk)
           G == [m \in 1 .. N |-> [v \in Byte |-> byte(m, v)]]
<1>1. N \in Nat /\ N > 0 /\ Place = 0 .. N
  BY Sizes
<1>2. \A i \in Place, v \in Byte : byte(i, v) \in Byte
  <2>1. SUFFICES ASSUME NEW i \in Place, NEW v \in Byte PROVE byte(i, v) \in Byte
    OBVIOUS
  <2>2. k[i] \in Byte /\ (IF i = N THEN 0 ELSE v \div Half) \in {0, 1}
    BY HalfByte DEF Keys
  <2> QED
    BY <2>2, DoubleByte
<1> HIDE DEF byte, N
<1>3. first \in Byte /\ G \in Rules(N, Byte)
  BY <1>1, <1>2 DEF Rules
<1>4. PICK f : Follows(f, N, Byte, first, G)
  <2> HIDE DEF G, first
  <2> QED
    BY <1>1, <1>3, Recursion
<1>5. /\ f \in [Place -> Byte] /\ f[0] = byte(0, junk)
      /\ \A i \in Place : i > 0 => f[i] = byte(i, f[i - 1])
  <2>1. f \in [Place -> Byte] /\ f[0] = byte(0, junk)
    BY <1>1, <1>4 DEF Follows
  <2>2. ASSUME NEW i \in Place, i > 0 PROVE f[i] = byte(i, f[i - 1])
    <3>1. i \in 1 .. N /\ i - 1 \in Place
      BY <1>1, <2>2
    <3>2. f[i] = G[i][f[i - 1]]
      <4> HIDE DEF G
      <4> QED
        BY <1>4, <3>1 DEF Follows
    <3>3. f[i - 1] \in Byte
      BY <2>1, <3>1
    <3> QED
      BY <3>1, <3>2, <3>3
  <2> QED
    BY <2>1, <2>2
<1>6. P(f)
  <2> DEFINE e(i) == LET before == IF i = 0 THEN junk ELSE f[i - 1]
                         carry  == IF i = Size - 1 THEN 0 ELSE before \div (Base \div 2)
                     IN  (2 * k[i] + carry) % Base
  <2>1. \A i \in Place : f[i] = byte(i, IF i = 0 THEN junk ELSE f[i - 1])
    BY <1>1, <1>5
  <2>2. \A i \in Place : byte(i, IF i = 0 THEN junk ELSE f[i - 1]) = e(i)
    BY DEF byte, N, Half
  <2>3. \A i \in Place : f[i] = e(i)
    BY <2>1, <2>2
  <2>4. f = [i \in Place |-> f[i]]
    BY <1>5
  <2> HIDE DEF e
  <2>5. f = [i \in Place |-> e(i)]
    BY <2>3, <2>4
  <2> QED
    BY <2>5 DEF e
<1>7. P(Double(k, junk))
  <2>1. P(CHOOSE v : P(v))
    <3> HIDE DEF P
    <3> QED
      BY <1>6
  <2> QED
    BY <2>1 DEF Double
<1>8. key_double(k, junk) = Double(k, junk)
  <2> DEFINE D == Double(k, junk)
  <2>1. D = [i \in Place |-> D[i]]
    <3> HIDE DEF G, first
    <3> QED
      BY <1>7
  <2> QED
    BY <2>1, DoubleIs
<1> DEFINE D == key_double(k, junk)
<1>9. P(D)
  BY <1>7, <1>8
<1>10. \A i \in Place : D[i] = byte(i, IF i = 0 THEN junk ELSE D[i - 1])
  <2> HIDE DEF D, G, first
  <2> QED
    BY <1>9 DEF byte, N, Half
<1>11. \A i \in Place : byte(i, Before(k, junk, i)) = (2 * k[i] + CarryAt(k, junk, i)) % Base
  BY DEF CarryAt, byte, N
<1>12. D = [i \in Place |-> D[i]]
  <2> HIDE DEF D, G, first
  <2> QED
    BY <1>9
<1> DEFINE R == {i \in Place : D[i] \in Byte}
<1> HIDE DEF D, P, G, first
<1>13. 0 \in R
  BY <1>1, <1>2, <1>10
<1>14. ASSUME NEW i \in Place, i > 0, i - 1 \in R PROVE i \in R
  BY <1>2, <1>10, <1>14
<1> HIDE DEF R
<1>15. \A i \in Place : i \in R
  <2>1. \A i \in Place : i >= 0 => i \in R
    BY <1>1, <1>13, <1>14, FromPlace
  <2> QED
    BY <1>1, <2>1
<1>16. D \in Keys
  BY <1>12, <1>15 DEF R, Keys
<1>17. \A i \in Place : D[i] = (2 * k[i] + CarryAt(k, junk, i)) % Base
  BY <1>10, <1>11 DEF Before, D
<1> QED
  BY <1>16, <1>17 DEF D

LEMMA BeforeIsByte ==
    ASSUME NEW k \in Keys, NEW junk \in Byte, NEW i \in Place
    PROVE  /\ Before(k, junk, i) \in Byte
           /\ CarryAt(k, junk, i) = IF i # Size - 1 /\ Before(k, junk, i) >= Half THEN 1 ELSE 0
<1>1. key_double(k, junk) \in Keys
  BY DoubleGoesOn
<1>2. Before(k, junk, i) \in Byte
  BY <1>1, Sizes DEF Before, Keys
<1> QED
  BY <1>2, HalfByte DEF CarryAt

\* key_double doubles, except where a carry is not the one it reads.
LEMMA DoubleIsRight ==
    ASSUME NEW k \in Keys, NEW junk \in Byte
    PROVE  Value(key_double(k, junk)) = (2 * Value(k)) % KeySpace <=> ~CarryMisplaced(k, junk)
<1>1. PICK c : AddCarries(k, k, c)
  BY CarriesExist
<1>2. c \in Carries /\ \A i \in Place : c[i] \in {0, 1}
  BY <1>1 DEF AddCarries, Carries
<1> DEFINE d == Sum(k, k, c)
           D == key_double(k, junk)
           e(i) == CarryAt(k, junk, i)
<1>3. d \in Keys /\ D \in Keys /\ Value(d) = (2 * Value(k)) % KeySpace
  <2>1. Value(k) + Value(k) = 2 * Value(k)
    BY KeysAreDigits, ValueType
  <2> QED
    BY <1>1, <2>1, SumIsRight, DoubleGoesOn
<1>4. Value(D) = Value(d) <=> D = d
  BY <1>3, ValueTellsApart
<1>5. \A i \in Place : /\ e(i) \in {0, 1} /\ k[i] \in Byte
                       /\ D[i] = (k[i] + k[i] + e(i)) % Base
                       /\ d[i] = (k[i] + k[i] + c[i]) % Base
  <2>1. \A i \in Place : e(i) \in {0, 1} /\ k[i] \in Byte
    BY BeforeIsByte DEF Keys
  <2>2. \A i \in Place : D[i] = (2 * k[i] + e(i)) % Base
    BY DoubleGoesOn
  <2>3. \A i \in Place : d[i] = (k[i] + k[i] + c[i]) % Base
    BY DEF Sum
  <2> HIDE DEF e, D, d
  <2> QED
    BY <2>1, <2>2, <2>3, DoubleByte
<1>6. \A i \in Place : D[i] = d[i] <=> e(i) = c[i]
  <2>1. SUFFICES ASSUME NEW i \in Place PROVE D[i] = d[i] <=> e(i) = c[i]
    OBVIOUS
  <2>2. (k[i] + k[i] + 0) % Base # (k[i] + k[i] + 1) % Base
    BY <1>5, AddByte
  <2> HIDE DEF d, D, e
  <2> QED
    BY <1>2, <1>5, <2>2
<1>7. D = d <=> \A i \in Place : e(i) = c[i]
  <2>1. D = d <=> \A i \in Place : D[i] = d[i]
    <3> HIDE DEF d, D
    <3> QED
      BY <1>3 DEF Keys
  <2> QED
    BY <1>6, <2>1
<1>8. \A i \in 0 .. Size - 2 : c[i] = IF k[i + 1] >= Half THEN 1 ELSE 0
  <2>1. SUFFICES ASSUME NEW i \in 0 .. Size - 2
                 PROVE  c[i] = IF k[i + 1] >= Half THEN 1 ELSE 0
    OBVIOUS
  <2>2. i + 1 \in Place /\ i + 1 > 0 /\ (i + 1) - 1 = i
    BY Sizes
  <2>3. c[i] = Carried(k[i + 1] + k[i + 1] + c[i + 1])
    BY <1>1, <2>2 DEF AddCarries
  <2>4. k[i + 1] \in Nat /\ c[i + 1] \in {0, 1}
    BY <1>2, <2>2, KeysAreDigits
  <2> QED
    BY <2>3, <2>4, HalfByte DEF Carried
<1>9. \A i \in 0 .. Size - 2 : e(i) = IF Before(k, junk, i) >= Half THEN 1 ELSE 0
  BY BeforeIsByte, Sizes
<1>10. e(Size - 1) = 0 /\ c[Size - 1] = 0
  BY <1>1 DEF CarryAt, AddCarries
<1>11. CarryMisplaced(k, junk) <=>
           \E i \in 0 .. Size - 2 : ~(k[i + 1] >= Half <=> Before(k, junk, i) >= Half)
  BY DEF CarryMisplaced, Before, Half
<1> HIDE DEF e, d, D
<1>12. (\A i \in Place : e(i) = c[i]) <=> \A i \in 0 .. Size - 2 : e(i) = c[i]
  <2>1. Place = 0 .. Size - 1 /\ \A i \in 0 .. Size - 1 : i = Size - 1 \/ i \in 0 .. Size - 2
    BY Sizes
  <2>2. 0 .. Size - 2 \subseteq 0 .. Size - 1
    BY Sizes
  <2> QED
    BY <1>10, <2>1, <2>2
<1>13. (\A i \in Place : e(i) = c[i]) <=> ~CarryMisplaced(k, junk)
  BY <1>8, <1>9, <1>11, <1>12
<1> QED
  BY <1>3, <1>4, <1>7, <1>13 DEF D, d

-----------------------------------------------------------------------------
\* key_add_int, and node_join's loop.

LEMMA Quotients ==
    \A B, n \in Nat : B > 0 => n % B \in Nat /\ n % B < B /\ n \div B \in Nat
  OBVIOUS

LEMMA Shifts == \A x \in Nat, i \in 0 .. 3 : x \div 2 ^ (3 - i) \in Nat
<1>1. 2 ^ 3 = 8 /\ 2 ^ 2 = 4 /\ 2 ^ 1 = 2 /\ 2 ^ 0 = 1
  OBVIOUS
<1>2. SUFFICES ASSUME NEW x \in Nat, NEW i \in 0 .. 3 PROVE x \div 2 ^ (3 - i) \in Nat
  OBVIOUS
<1>3. 3 - i \in {0, 1, 2, 3}
  OBVIOUS
<1>4. 2 ^ (3 - i) \in {1, 2, 4, 8}
  BY <1>1, <1>3
<1> DEFINE p == 2 ^ (3 - i)
<1> HIDE DEF p
<1>5. p \in Nat /\ p > 0
  BY <1>4 DEF p
<1>6. x \div p \in Nat
  BY <1>5, Quotients
<1> QED
  BY <1>6 DEF p

IntTotal(k, x) == CHOOSE total :
    total = [i \in 0 .. 3 |->
        LET carry == IF i = 3 THEN 0 ELSE total[i + 1] \div Base
        IN  ((k[i] + carry) % Base) + ((x \div 2 ^ (3 - i)) % Base)]

LEMMA AddIntIsTotal ==
    \A k, x : key_add_int(k, x)
                 = [i \in Place |-> IF i < 4 THEN IntTotal(k, x)[i] % Base ELSE k[i]]
  BY DEF key_add_int, IntTotal

IntColumn(k, x, i) ==
    ((k[i] + (IF i = 3 THEN 0 ELSE IntTotal(k, x)[i + 1] \div Base)) % Base)
        + ((x \div 2 ^ (3 - i)) % Base)

LEMMA IntTotalGoesOn ==
    ASSUME NEW k \in Keys, NEW x \in Nat
    PROVE  \A i \in 0 .. 3 :
              /\ IntTotal(k, x)[i] \in Nat
              /\ IntTotal(k, x)[i] % Base \in Byte
              /\ IntTotal(k, x)[i] = IntColumn(k, x, i)
<1> DEFINE P(t) == t = [i \in 0 .. 3 |->
                LET carry == IF i = 3 THEN 0 ELSE t[i + 1] \div Base
                IN  ((k[i] + carry) % Base) + ((x \div 2 ^ (3 - i)) % Base)]
           q(i, c) == ((k[i] + c) % Base) + ((x \div 2 ^ (3 - i)) % Base)
           t3 == q(3, 0)
           t2 == q(2, t3 \div Base)
           t1 == q(1, t2 \div Base)
           t0 == q(0, t1 \div Base)
           f == [i \in 0 .. 3 |-> IF i = 3 THEN t3 ELSE IF i = 2 THEN t2 ELSE IF i = 1 THEN t1 ELSE t0]
<1>1. /\ Base \in Nat /\ Base > 0 /\ Byte = 0 .. Base - 1
      /\ \A i \in 0 .. 3 : i \in Place
  BY KeyBytesAssumption DEF Place, Byte
<1>2. \A n \in Nat : n \div Base \in Nat /\ n % Base \in Nat /\ n % Base \in Byte
  BY <1>1, Quotients
<1>3. \A i \in 0 .. 3, c \in Nat : q(i, c) \in Nat
  <2>1. SUFFICES ASSUME NEW i \in 0 .. 3, NEW c \in Nat PROVE q(i, c) \in Nat
    OBVIOUS
  <2>2. k[i] + c \in Nat
    BY <1>1, KeysAreDigits
  <2>3. (k[i] + c) % Base \in Nat
    BY <1>2, <2>2
  <2>4. (x \div 2 ^ (3 - i)) % Base \in Nat
    BY <1>2, Shifts
  <2> QED
    BY <2>3, <2>4
<1> HIDE DEF q
<1>4. t3 \in Nat /\ t2 \in Nat /\ t1 \in Nat /\ t0 \in Nat
  <2> HIDE DEF t3, t2, t1, t0
  <2>1. t3 \in Nat
    BY <1>3 DEF t3
  <2>2. t2 \in Nat
    BY <1>2, <1>3, <2>1 DEF t2
  <2>3. t1 \in Nat
    BY <1>2, <1>3, <2>2 DEF t1
  <2> QED
    BY <1>2, <1>3, <2>1, <2>2, <2>3 DEF t0
<1>5. \A i \in 0 .. 3 : f[i] \in Nat /\ f[i] = q(i, IF i = 3 THEN 0 ELSE f[i + 1] \div Base)
  <2>1. f[3] = t3 /\ f[2] = t2 /\ f[1] = t1 /\ f[0] = t0
    OBVIOUS
  <2> HIDE DEF f
  <2>2. /\ f[3] = q(3, 0) /\ f[2] = q(2, f[3] \div Base)
        /\ f[1] = q(1, f[2] \div Base) /\ f[0] = q(0, f[1] \div Base)
    BY <2>1
  <2> HIDE DEF t3, t2, t1, t0
  <2>3. ASSUME NEW i \in 0 .. 3
        PROVE  f[i] \in Nat /\ f[i] = q(i, IF i = 3 THEN 0 ELSE f[i + 1] \div Base)
    <3>1. CASE i = 3
      BY <1>4, <2>1, <2>2, <3>1
    <3>2. CASE i = 2
      BY <1>4, <2>1, <2>2, <3>2
    <3>3. CASE i = 1
      BY <1>4, <2>1, <2>2, <3>3
    <3>4. CASE i = 0
      BY <1>4, <2>1, <2>2, <3>4
    <3> QED
      BY <3>1, <3>2, <3>3, <3>4
  <2> QED
    BY <2>3
<1>6. P(f)
  <2>1. f = [i \in 0 .. 3 |-> f[i]]
    OBVIOUS
  <2> HIDE DEF f
  <2>2. f = [i \in 0 .. 3 |-> q(i, IF i = 3 THEN 0 ELSE f[i + 1] \div Base)]
    BY <1>5, <2>1
  <2> QED
    BY <2>2 DEF q
<1>7. P(IntTotal(k, x))
  <2>1. P(CHOOSE v : P(v))
    <3> HIDE DEF P
    <3> QED
      BY <1>6
  <2> QED
    BY <2>1 DEF IntTotal
<1> DEFINE T == IntTotal(k, x)
<1>8. \A i \in 0 .. 3 : T[i] = q(i, IF i = 3 THEN 0 ELSE T[i + 1] \div Base)
  BY <1>7 DEF q
<1> HIDE DEF T, P, f
<1>9. T[3] \in Nat
  BY <1>3, <1>8
<1>10. T[2] \in Nat
  <2>1. T[2] = q(2, T[3] \div Base)
    BY <1>8
  <2> QED
    BY <1>2, <1>3, <1>9, <2>1
<1>11. T[1] \in Nat
  <2>1. T[1] = q(1, T[2] \div Base)
    BY <1>8
  <2> QED
    BY <1>2, <1>3, <1>10, <2>1
<1>12. T[0] \in Nat
  <2>1. T[0] = q(0, T[1] \div Base)
    BY <1>8
  <2> QED
    BY <1>2, <1>3, <1>11, <2>1
<1>13. \A i \in 0 .. 3 : T[i] \in Nat
  <2>1. \A i \in 0 .. 3 : i = 0 \/ i = 1 \/ i = 2 \/ i = 3
    OBVIOUS
  <2> QED
    BY <1>9, <1>10, <1>11, <1>12, <2>1
<1>14. \A i \in 0 .. 3 : T[i] % Base \in Byte
  BY <1>2, <1>13
<1> QED
  BY <1>8, <1>13, <1>14 DEF q, T, IntColumn

LEMMA AddIntIsKey ==
    ASSUME NEW k \in Keys, NEW x \in Nat
    PROVE  key_add_int(k, x) \in Keys
<1>1. \A i \in Place : i < 4 => i \in 0 .. 3
  BY Sizes
<1>2. \A i \in Place : i < 4 => IntTotal(k, x)[i] % Base \in Byte
  BY <1>1, IntTotalGoesOn
<1> QED
  BY <1>2, AddIntIsTotal DEF Keys

\* node_join begins with a one in the fourth byte.
LEMMA PowersBegin == key_add_int([i \in Place |-> 0], 1) = One(3)
<1> DEFINE z == [i \in Place |-> 0]
           T == IntTotal(z, 1)
           w(i) == (1 \div 2 ^ (3 - i)) % Base
<1>1. /\ z \in Keys /\ 1 \in Nat
      /\ \A i \in 0 .. 3 : i \in Place /\ z[i] = 0
      /\ \A i \in Place : z[i] = 0
  BY Sizes, KeyBytesAssumption DEF Keys
<1>2. Base \in Nat /\ Base >= 2
  BY Sizes
<1>3. 0 % Base = 0 /\ 1 % Base = 1 /\ 0 \div Base = 0 /\ 1 \div Base = 0
  BY <1>2
<1>4. w(3) = 1 /\ w(2) = 0 /\ w(1) = 0 /\ w(0) = 0
  <2>1. /\ 2 ^ 3 = 8 /\ 2 ^ 2 = 4 /\ 2 ^ 1 = 2 /\ 2 ^ 0 = 1
        /\ 3 - 0 = 3 /\ 3 - 1 = 2 /\ 3 - 2 = 1 /\ 3 - 3 = 0
    OBVIOUS
  <2>2. 1 \div 1 = 1
    OBVIOUS
  <2>3. 1 \div 2 = 0
    OBVIOUS
  <2>4. 1 \div 4 = 0
    OBVIOUS
  <2>5. 1 \div 8 = 0
    OBVIOUS
  <2>6. w(3) = 1
    BY <1>3, <2>1, <2>2
  <2>7. w(2) = 0
    BY <1>3, <2>1, <2>3
  <2>8. w(1) = 0
    BY <1>3, <2>1, <2>4
  <2>9. w(0) = 0
    BY <1>3, <2>1, <2>5
  <2> HIDE DEF w
  <2> QED
    BY <2>6, <2>7, <2>8, <2>9
<1> HIDE DEF z
<1>5. \A i \in 0 .. 3 : T[i] = ((z[i] + (IF i = 3 THEN 0 ELSE T[i + 1] \div Base)) % Base) + w(i)
  <2>1. \A i \in 0 .. 3 : IntTotal(z, 1)[i] = IntColumn(z, 1, i)
    BY <1>1, IntTotalGoesOn
  <2> QED
    BY <2>1, Zenon DEF IntColumn
<1> HIDE DEF T, w
<1>6. T[3] = 1
  <2>1. T[3] = ((0 + 0) % Base) + w(3)
    BY <1>1, <1>5
  <2> QED
    BY <1>3, <1>4, <2>1
<1>7. T[2] = 0
  <2>1. T[2] = ((0 + (T[3] \div Base)) % Base) + w(2)
    BY <1>1, <1>5
  <2> QED
    BY <1>3, <1>4, <1>6, <2>1
<1>8. T[1] = 0
  <2>1. T[1] = ((0 + (T[2] \div Base)) % Base) + w(1)
    BY <1>1, <1>5
  <2> QED
    BY <1>3, <1>4, <1>7, <2>1
<1>9. T[0] = 0
  <2>1. T[0] = ((0 + (T[1] \div Base)) % Base) + w(0)
    BY <1>1, <1>5
  <2> QED
    BY <1>3, <1>4, <1>8, <2>1
<1> DEFINE e(i) == IF i < 4 THEN T[i] % Base ELSE z[i]
           o(i) == IF i = 3 THEN 1 ELSE 0
<1>10. \A i \in Place : e(i) = o(i)
  <2>1. \A i \in Place : i = 0 \/ i = 1 \/ i = 2 \/ i = 3 \/ (i >= 4 /\ ~(i < 4) /\ i # 3)
    BY Sizes
  <2> QED
    BY <1>1, <1>3, <1>6, <1>7, <1>8, <1>9, <2>1
<1>11. key_add_int(z, 1) = [i \in Place |-> e(i)]
  BY AddIntIsTotal DEF T
<1> HIDE DEF e, o
<1>12. key_add_int(z, 1) = [i \in Place |-> o(i)]
  BY <1>10, <1>11
<1> QED
  BY <1>12 DEF One, o, z

KeysInv == id \in Keys /\ id \in Ids /\ pow2 \in Keys

LEMMA KeysInvInit == Init => KeysInv
<1>1. [i \in Place |-> 0] \in Keys
  BY Sizes DEF Keys
<1>2. key_add_int([i \in Place |-> 0], 1) \in Keys
  BY <1>1, AddIntIsKey
<1> QED
  BY <1>2, KeyBytesAssumption DEF Init, KeysInv

LEMMA KeysInvStep == KeysInv /\ [Next]_vars => KeysInv'
<1> USE DEF KeysInv
<1>1. ASSUME KeysInv, StartFinger PROVE KeysInv'
  BY <1>1, DoubleGoesOn DEF StartFinger
<1>2. ASSUME KeysInv, UNCHANGED vars PROVE KeysInv'
  BY <1>2 DEF vars
<1> QED
  BY <1>1, <1>2 DEF Next

\* key_add adds and key_double doubles except for the carries they lose or take
\* from the wrong byte, on the keys of node_join's loop, at every finger.
THEOREM CarriesOnBytes == Spec => []OnlyCarriesGoWrong
<1>1. KeysInv => OnlyCarriesGoWrong
  <2>1. SUFFICES ASSUME KeysInv PROVE OnlyCarriesGoWrong
    OBVIOUS
  <2>2. Ids \subseteq Keys /\ id \in Keys /\ pow2 \in Keys
    BY <2>1, KeyBytesAssumption DEF KeysInv
  <2>3. \A b \in Ids : Value(key_add(id, b)) = (Value(id) + Value(b)) % KeySpace
                          <=> ~CarryLost(id, b)
    BY <2>2, AddIsRight
  <2>4. Value(key_add(id, pow2)) = (Value(id) + Value(pow2)) % KeySpace
          <=> ~CarryLost(id, pow2)
    BY <2>2, AddIsRight
  <2>5. \A key \in {id, pow2}, junk \in Byte :
          Value(key_double(key, junk)) = (2 * Value(key)) % KeySpace
              <=> ~CarryMisplaced(key, junk)
    BY <2>2, DoubleIsRight
  <2> QED
    BY <2>3, <2>4, <2>5 DEF OnlyCarriesGoWrong
<1> QED
  BY <1>1, KeysInvInit, KeysInvStep, PTL DEF Spec

-----------------------------------------------------------------------------
\* Where the first finger starts.

LEMMA BelowKeySpace == ASSUME NEW d \in Keys PROVE Value(d) < KeySpace
<1> DEFINE F == [i \in Place |-> Val(Full)[i] + 1]
<1>1. d \in Digits /\ 0 \in Place /\ Size - 1 \in Place /\ Size - 1 >= 0
  BY KeysAreDigits, Sizes
<1>2. /\ F \in Digits /\ F[0] = Base /\ F[Size - 1] = KeySpace
      /\ \A i \in Place : i > 0 => F[i] = Base * F[i - 1]
  <2>1. \A i \in Place : i > 0 => i - 1 \in Place
    BY Sizes
  <2>2. F \in Digits /\ F[0] = Base /\ F[Size - 1] = KeySpace
    BY <1>1, FullGoesOn DEF Digits
  <2>3. \A i \in Place : i > 0 => F[i] = Base * F[i - 1]
    BY <2>1, FullGoesOn, Sizes
  <2> QED
    BY <2>2, <2>3
<1> HIDE DEF F
<1>3. Val(d)[0] < F[0]
  BY <1>1, <1>2, ValStarts, KeysAreDigits
<1>4. Val(d)[Size - 1] < F[Size - 1]
  BY <1>1, <1>2, <1>3, LessFrom
<1> QED
  BY <1>1, <1>2, <1>4, ValueType

LEMMA FourthByteWeighs == Size > 4 => 1 < Weight(3) /\ Weight(3) < KeySpace
<1>1. SUFFICES ASSUME Size > 4 PROVE 1 < Weight(3) /\ Weight(3) < KeySpace
  OBVIOUS
<1> DEFINE U == Val(One(3))
           T == {i \in Place : U[i] > 1}
<1>2. /\ 3 \in Place /\ 4 \in Place /\ 4 - 1 = 3 /\ 4 > 3 /\ Size - 1 \in Place
      /\ Size - 1 >= 4 /\ Base \in Nat /\ Base >= 2
  BY <1>1, Sizes
<1>3. /\ One(3) \in Keys /\ One(3) \in Digits /\ U \in Digits
  BY <1>2, MasksAreKeys, KeysAreDigits, ValStarts
<1>4. /\ U[3] = 1 /\ Weight(3) = U[Size - 1]
      /\ \A i \in Place : i > 3 => U[i] = Base * U[i - 1]
  BY <1>2, OneGoesOn
<1> HIDE DEF U
<1>5. 4 \in T
  <2>1. U[4] = Base * U[3]
    BY <1>2, <1>4
  <2> QED
    BY <1>2, <1>4, <2>1
<1>6. ASSUME NEW i \in Place, i > 4, i - 1 \in T PROVE i \in T
  <2> DEFINE u == U[i - 1]
  <2>1. u \in Nat /\ u > 1
    BY <1>3, <1>6 DEF Digits
  <2>2. i > 3
    BY <1>6, Sizes
  <2>3. U[i] = Base * u
    BY <1>4, <2>2
  <2> HIDE DEF u
  <2>4. Base * u > 1
    BY <1>2, <2>1
  <2> QED
    BY <2>3, <2>4
<1> HIDE DEF T
<1>7. \A i \in Place : i >= 4 => i \in T
  BY <1>2, <1>5, <1>6, FromPlace
<1>8. U[Size - 1] > 1
  BY <1>2, <1>7 DEF T
<1>9. Value(One(3)) = Weight(3)
  BY <1>3, <1>4, ValueType DEF U
<1> QED
  BY <1>3, <1>4, <1>8, <1>9, BelowKeySpace

\* The first finger of a node starts past it by what a one in the fourth byte
\* counts, not by one: dht.c:238 and dht.h:20 say node->id + 2^0.
FirstFingerIsFar ==
    start # <<>> /\ ~CarryLost(id, One(3)) =>
        /\ Value(start[1]) = (Value(id) + Weight(3)) % KeySpace
        /\ Value(start[1]) # (Value(id) + 1) % KeySpace

StartInv ==
    /\ start \in Seq(Keys)
    /\ IF start = <<>> THEN pow2 = One(3) ELSE start[1] = key_add(id, One(3))

LEMMA StartInvInit == Init => StartInv
  BY PowersBegin DEF Init, StartInv

LEMMA StartInvStep == KeysInv /\ StartInv /\ [Next]_vars => StartInv'
<1>1. ASSUME KeysInv, StartInv, StartFinger PROVE StartInv'
  <2>1. start \in Seq(Keys) /\ key_add(id, pow2) \in Keys
    BY <1>1, AddIsKey DEF KeysInv, StartInv
  <2>2. start' = Append(start, key_add(id, pow2)) /\ id' = id
    BY <1>1 DEF StartFinger
  <2>3. start' \in Seq(Keys) /\ start' # <<>>
    BY <2>1, <2>2
  <2>4. CASE start = <<>>
    <3>1. start'[1] = key_add(id, pow2)
      BY <2>2, <2>4
    <3> QED
      BY <1>1, <2>2, <2>3, <2>4, <3>1 DEF StartInv
  <2>5. CASE start # <<>>
    <3>1. start'[1] = start[1]
      BY <2>1, <2>2, <2>5
    <3> QED
      BY <1>1, <2>2, <2>3, <2>5, <3>1 DEF StartInv
  <2> QED
    BY <2>4, <2>5
<1>2. ASSUME StartInv, UNCHANGED vars PROVE StartInv'
  BY <1>2 DEF StartInv, vars
<1> QED
  BY <1>1, <1>2 DEF Next

LEMMA OnceRound ==
    \A K, x \in Nat : K > 0 /\ x < 2 * K => x % K = IF x < K THEN x ELSE x - K
  OBVIOUS

LEMMA NextDoor ==
    \A K, v, w \in Nat : v < K /\ 1 < w /\ w < K => (v + w) % K # (v + 1) % K
<1>1. SUFFICES ASSUME NEW K \in Nat, NEW v \in Nat, NEW w \in Nat, v < K, 1 < w, w < K
              PROVE  (v + w) % K # (v + 1) % K
  OBVIOUS
<1>2. (v + w) % K = IF v + w < K THEN v + w ELSE v + w - K
  BY <1>1, OnceRound
<1>3. (v + 1) % K = IF v + 1 < K THEN v + 1 ELSE v + 1 - K
  BY <1>1, OnceRound
<1> QED
  BY <1>1, <1>2, <1>3

\* Keys have more than four bytes, 32 in the code: then no node has a first
\* finger at its successor position, unless key_add loses a carry.
THEOREM FirstFingerStartsFar ==
    ASSUME Size > 4
    PROVE  Spec => []FirstFingerIsFar
<1>1. KeysInv /\ StartInv => FirstFingerIsFar
  <2>1. SUFFICES ASSUME KeysInv, StartInv, start # <<>>, ~CarryLost(id, One(3))
        PROVE  /\ Value(start[1]) = (Value(id) + Weight(3)) % KeySpace
               /\ Value(start[1]) # (Value(id) + 1) % KeySpace
    BY DEF FirstFingerIsFar
  <2>2. /\ start[1] = key_add(id, One(3)) /\ id \in Keys /\ 3 \in Place
        /\ One(3) \in Keys /\ One(3) \in Digits /\ id \in Digits
    BY <2>1, MasksAreKeys, KeysAreDigits, KeyBytesAssumption DEF KeysInv, StartInv, Place
  <2>3. Value(start[1]) = (Value(id) + Value(One(3))) % KeySpace
    BY <2>1, <2>2, AddIsRight
  <2>4. Value(One(3)) = Weight(3) /\ Weight(3) \in Nat /\ Value(id) \in Nat
    BY <2>2, OneGoesOn, ValueType
  <2>5. KeySpace \in Nat
    BY FullGoesOn, Sizes
  <2>6. Value(id) < KeySpace /\ 1 < Weight(3) /\ Weight(3) < KeySpace
    BY <2>2, BelowKeySpace, FourthByteWeighs
  <2>7. (Value(id) + Weight(3)) % KeySpace # (Value(id) + 1) % KeySpace
    BY <2>4, <2>5, <2>6, NextDoor
  <2> QED
    BY <2>3, <2>4, <2>7
<1> QED
  BY <1>1, KeysInvInit, KeysInvStep, StartInvInit, StartInvStep, PTL DEF Spec
=============================================================================
