------------------------------- MODULE Remainders -------------------------------
(***************************************************************************)
(* Facts about remainders that the proofs about rings in arrays rest on.   *)
(***************************************************************************)
EXTENDS Integers, TLAPS

\* The remainder of a number that is less than twice the divisor: an index comes
\* round the end of the array at most once.
LEMMA OnceRound ==
  ASSUME NEW c \in Nat, c > 0, NEW x \in 0..(2 * c - 1)
  PROVE  x % c = IF x < c THEN x ELSE x - c
<1>1. CASE x < c
  BY <1>1, Z3
<1>2. CASE x >= c
  <2>1. x - c \in 0..(c - 1) /\ x = c + (x - c)
    BY <1>2
  <2>2. QED
    BY <1>2, <2>1, Z3
<1>3. QED
  BY <1>1, <1>2

\* Multiples of a divisor are at least the divisor apart.
LEMMA Apart ==
  ASSUME NEW c \in Nat, NEW a \in Int, NEW b \in Int, a < b
  PROVE  c * a + c <= c * b
<1>1. c * (b - a - 1) >= 0
  BY Z3
<1>2. QED
  BY <1>1, Z3

\* A number determines its remainder.
LEMMA RemainderUnique ==
  ASSUME NEW c \in Nat, c > 0, NEW q \in Int, NEW r \in 0..(c - 1)
  PROVE  (c * q + r) % c = r
<1> DEFINE x == c * q + r
           d == x \div c
           s == x % c
<1>1. x \in Int /\ d \in Int /\ s \in 0..(c - 1) /\ x = c * d + s
  BY Z3
<1>2. ~(d < q)
  BY <1>1, Apart, Z3
<1>3. ~(q < d)
  BY <1>1, Apart, Z3
<1>4. QED
  BY <1>1, <1>2, <1>3, Z3

\* Adding a multiple of the divisor changes nothing.
LEMMA RemainderPlus ==
  ASSUME NEW c \in Nat, c > 0, NEW x \in Int, NEW m \in Int
  PROVE  (x + c * m) % c = x % c
<1>1. x \div c \in Int /\ x % c \in 0..(c - 1) /\ x = c * (x \div c) + (x % c)
  BY Z3
<1>2. x + c * m = c * ((x \div c) + m) + (x % c)
  BY <1>1, Z3
<1>3. (x \div c) + m \in Int
  BY <1>1
<1>4. (c * ((x \div c) + m) + (x % c)) % c = x % c
  BY <1>1, <1>3, RemainderUnique, Zenon
<1>5. QED
  BY <1>2, <1>4, Zenon

\* Numbers less than the divisor apart have different remainders.
LEMMA RemainderDistinct ==
  ASSUME NEW c \in Nat, c > 0, NEW x \in Int, NEW y \in Int, x < y, y < x + c
  PROVE  x % c # y % c
<1>1. /\ x \div c \in Int /\ x % c \in 0..(c - 1) /\ x = c * (x \div c) + (x % c)
      /\ y \div c \in Int /\ y % c \in 0..(c - 1) /\ y = c * (y \div c) + (y % c)
  BY Z3
<1>2. CASE x \div c < y \div c
  BY <1>1, <1>2, Apart, Z3
<1>3. CASE y \div c < x \div c
  BY <1>1, <1>3, Apart, Z3
<1>4. QED
  BY <1>1, <1>2, <1>3, Z3
=============================================================================
