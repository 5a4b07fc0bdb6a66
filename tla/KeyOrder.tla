------------------------------ MODULE KeyOrder ------------------------------
(***************************************************************************)
(* Keys and the circular intervals of the identifier circle (src/lib/key.c).*)
(* A key2_t is 32 bytes compared from its first byte to its last, that is, *)
(* as a big-endian number: here it is that number.  KeyBytes.tla models the *)
(* bytes, and checks that the comparison and the intervals agree.          *)
(***************************************************************************)
EXTENDS Integers

\* key_cmp: 1, -1 or 0.
key_cmp(a, b) == IF a > b THEN 1 ELSE IF a < b THEN -1 ELSE 0

\* key_in: is key between min and max, going clockwise?  The two flags close
\* the ends.  min = max denotes the whole circle (without min if both ends
\* are open).
key_in(key, min, min_eq, max, max_eq) ==
    LET after  == key_cmp(min, key) < 0 \/ (min_eq /\ key = min)
        before == key_cmp(key, max) < 0 \/ (max_eq /\ key = max)
    IN  IF key_cmp(min, max) < 0 THEN after /\ before ELSE after \/ before

\* The two forms the code uses: (a, b) and (a, b].
InOpen(key, a, b)     == key_in(key, a, FALSE, b, FALSE)
InHalfOpen(key, a, b) == key_in(key, a, FALSE, b, TRUE)

\* Reference: steps to walk clockwise from a to b on a circle of size
\* KeySpace.  Walk counts a full turn from a to itself, Gap counts none.
Walk(a, b, KeySpace) == IF b > a THEN b - a ELSE b - a + KeySpace
Gap(a, b, KeySpace)  == IF b >= a THEN b - a ELSE b - a + KeySpace
=============================================================================
