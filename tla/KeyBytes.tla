------------------------------ MODULE KeyBytes ------------------------------
(***************************************************************************)
(* Keys as src/lib/key.c stores them: Size bytes of Base values each, the  *)
(* first one the most significant (32 bytes of 256 values in the code),    *)
(* and the loop of node_join that computes where the fingers start.        *)
(* KeyOrder.tla and Tracker.tla use the numbers these bytes stand for.     *)
(***************************************************************************)
EXTENDS KeyOrder, Sequences

CONSTANTS
    Base,  \* values of a byte, an even number (256)
    Size,  \* SHA256_BLOCK_SIZE, the bytes of a key (32)
    Bits,  \* KEY_BITS, the fingers of a node
    Ids    \* the keys a node may have

Byte  == 0 .. Base - 1
Place == 0 .. Size - 1
Keys  == [Place -> Byte]

ASSUME KeyBytesAssumption ==
    /\ Base \in Nat /\ Base % 2 = 0 /\ Base > 0
    /\ Size \in Nat /\ Size > 3
    /\ Bits \in Nat
    /\ Ids \subseteq Keys

-----------------------------------------------------------------------------
\* Mistake: the last byte that differs decides.
bytes_cmp_last(a, b) ==
    LET differ == {i \in Place : a[i] # b[i]}
        last   == CHOOSE i \in differ : \A j \in differ : j <= i
    IN  IF differ = {} THEN 0 ELSE IF a[last] > b[last] THEN 1 ELSE -1

\* key_cmp: the first byte that differs decides.
bytes_cmp(a, b) ==
    LET differ == {i \in Place : a[i] # b[i]}
        first  == CHOOSE i \in differ : \A j \in differ : i <= j
    IN  IF differ = {} THEN 0 ELSE IF a[first] > b[first] THEN 1 ELSE -1

\* key_in, on bytes; its two flags as in the code.
bytes_in(key, min, min_eq, max, max_eq) ==
    LET after  == \/ bytes_cmp(min, key) < 0
                  \/ min_eq = 1 /\ bytes_cmp(min, key) = 0
        before == \/ bytes_cmp(key, max) < 0
                  \/ max_eq = 1 /\ bytes_cmp(key, max) = 0
    IN  IF bytes_cmp(min, max) < 0 THEN after /\ before ELSE after \/ before

\* Mistake: the carry is dropped.
key_add_dry(key1, key2) == [i \in Place |-> (key1[i] + key2[i]) % Base]

\* key_add, from the last byte to the first.  A byte's carry is added to the
\* next byte of key1 before that byte is added, in Base values.
key_add(key1, key2) ==
    LET total[i \in Place] ==
            LET carry == IF i = Size - 1 THEN 0 ELSE total[i + 1] \div Base
            IN  ((key1[i] + carry) % Base) + key2[i]
    IN  [i \in Place |-> total[i] % Base]

\* key_add_int: only the first four bytes, to which x is added shifted by
\* 3 - i bits.
key_add_int(key, x) ==
    LET total[i \in 0 .. 3] ==
            LET carry == IF i = 3 THEN 0 ELSE total[i + 1] \div Base
            IN  ((key[i] + carry) % Base) + ((x \div 2 ^ (3 - i)) % Base)
    IN  [i \in Place |-> IF i < 4 THEN total[i] % Base ELSE key[i]]

\* Mistake: the doubled byte is not cut to a byte.
key_double_wide(key, junk) ==
    LET double[i \in Place] ==
            LET before == IF i = 0 THEN junk ELSE double[i - 1]
                carry  == IF i = Size - 1 THEN 0 ELSE before \div (Base \div 2)
            IN  2 * key[i] + carry
    IN  [i \in Place |-> double[i]]

\* key_double, from the first byte to the last.  The carry into a byte is read
\* from the byte before it, which has been doubled already; before the first
\* byte that is whatever lies there.
key_double(key, junk) ==
    LET double[i \in Place] ==
            LET before == IF i = 0 THEN junk ELSE double[i - 1]
                carry  == IF i = Size - 1 THEN 0 ELSE before \div (Base \div 2)
            IN  (2 * key[i] + carry) % Base
    IN  [i \in Place |-> double[i]]

\* The number a key stands for.
Value(key) ==
    LET val[i \in Place] == key[i] + (IF i = 0 THEN 0 ELSE Base * val[i - 1])
    IN  val[Size - 1]
\* What a one in byte i counts, and how many keys there are.
Weight(i) == Value([j \in Place |-> IF j = i THEN 1 ELSE 0])
KeySpace  == Value([j \in Place |-> Base - 1]) + 1

-----------------------------------------------------------------------------
\* node_join's loop.

VARIABLES id,     \* node->id
          pow2,   \* pow2
          start   \* node->finger[i].start of the fingers passed so far

vars == <<id, pow2, start>>

Init ==
    /\ id \in Ids
    /\ pow2 = key_add_int([i \in Place |-> 0], 1)
    /\ start = <<>>

\* finger[i].start = id + pow2; pow2 is doubled.
StartFinger ==
    /\ Len(start) < Bits
    /\ start' = Append(start, key_add(id, pow2))
    /\ \E junk \in Byte : pow2' = key_double(pow2, junk)
    /\ UNCHANGED id

Next == StartFinger
Spec == Init /\ [][Next]_vars

-----------------------------------------------------------------------------
\* On bytes, membership in a circular interval is what it is on numbers, for
\* every combination of the two flags.
IntervalsAgree ==
    start = <<>> =>
        \A min, max \in Ids : \A l, r \in {0, 1} :
            bytes_in(id, min, l, max, r)
                <=> key_in(Value(id), Value(min), l = 1, Value(max), r = 1)

\* The carry from byte i is lost when byte i - 1 of the first key is full; it
\* does not matter at the most significant byte.
CarryIn(a, b, i) ==
    LET low(k) == Value([j \in Place |-> IF j > i THEN k[j] ELSE 0])
    IN  low(a) + low(b) >= Weight(i)
CarryLost(a, b) == \E i \in 1 .. Size - 1 : a[i] = Base - 1 /\ CarryIn(a, b, i)

\* The carry out of byte i + 1 goes into byte i; key_double takes it from the
\* byte on the other side instead.
CarryMisplaced(k, junk) ==
    LET half(byte) == byte >= Base \div 2
        before(i) == IF i = 0 THEN junk ELSE key_double(k, junk)[i - 1]
    IN  \E i \in 0 .. Size - 2 : half(k[i + 1]) # half(before(i))

\* key_add is addition on the circle exactly when no carry meets a full byte, and
\* key_double doubles exactly when both neighbours of a byte agree on its carry.
\* The starts that node_join makes of them are wrong for another reason, too: the
\* power it begins with has its 1 in byte 3 (key_add_int).
OnlyCarriesGoWrong ==
    /\ start = <<>> =>
          \A b \in Ids : Value(key_add(id, b)) = (Value(id) + Value(b)) % KeySpace
                            <=> ~CarryLost(id, b)
    /\ ~CarryLost(id, pow2) =>
          Value(key_add(id, pow2)) = (Value(id) + Value(pow2)) % KeySpace
    /\ \A key \in {id, pow2}, junk \in Byte :
          Value(key_double(key, junk)) = (2 * Value(key)) % KeySpace
              <=> ~CarryMisplaced(key, junk)
=============================================================================
