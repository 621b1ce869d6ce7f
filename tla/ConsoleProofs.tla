----------------------------- MODULE ConsoleProofs -----------------------------
(***************************************************************************)
(* Proofs about the console's input ring and cursor (Console.tla), for any *)
(* size of the ring and of the screen, and any number of readers.          *)
(***************************************************************************)
EXTENDS Console, Remainders, WellFoundedInduction

-----------------------------------------------------------------------------
(* The inductive invariant. *)

Chars == Letters \cup Ends
Reading == [pc : {"read", "drowsy", "asleep"}, n : Nat \ {0}, target : Nat]

RingType == /\ ring \in [0..(INPUT_BUF - 1) -> Chars]
            /\ rd \in [Readers -> [pc : {"idle"}] \cup Reading]

\* The indices in order: what can be read, then what can be edited, in at most a ring.
IndexInv == /\ r \in 0..(UintMod - 1) /\ w \in 0..(UintMod - 1) /\ e \in 0..(UintMod - 1)
            /\ Minus(w, r) <= Minus(e, r) /\ Minus(e, r) <= INPUT_BUF

CursorInv == pos \in 0..((ROWS - 1) * COLS - 1)

\* A read has not got more than it asked for.
TargetInv == \A p \in Readers : rd[p].pc # "idle" => rd[p].n <= rd[p].target

\* A line that ends is given to the readers at once, so no end can be edited.
EditInv == \A k \in 1..Minus(e, w) : Between(w, e)[k] \notin Ends

ConInv == /\ RingType /\ IndexInv /\ CursorInv /\ TargetInv /\ EditInv /\ ReadersWoken
-----------------------------------------------------------------------------
(* Arithmetic of the indices, which wrap twice: at UintMod, and in the ring. *)

Index == 0..(UintMod - 1)

\* A sequence without its first items.
LEMMA RestOf ==
  ASSUME NEW S, NEW s \in Seq(S), NEW a \in Nat, NEW j \in Nat, Len(s) = a, j <= a
  PROVE  /\ SubSeq(s, j + 1, a) \in Seq(S) /\ Len(SubSeq(s, j + 1, a)) = a - j
         /\ \A n \in 1..(a - j) : SubSeq(s, j + 1, a)[n] = s[j + n]
  BY SMTT(30)

LEMMA PlusIs ==
  ASSUME NEW x \in Index, NEW k \in Index
  PROVE  Plus(x, k) \in Index /\ Plus(x, k) = IF x + k < UintMod THEN x + k ELSE x + k - UintMod
<1>1. x + k \in 0..(2 * UintMod - 1) /\ UintMod \in Nat /\ UintMod > 0
  BY ConsoleAssumption DEF Index
<1>2. QED
  BY <1>1, OnceRound DEF Plus, Index

LEMMA MinusIs ==
  ASSUME NEW x \in Index, NEW y \in Index
  PROVE  Minus(x, y) \in Index /\ Minus(x, y) = IF x >= y THEN x - y ELSE x - y + UintMod
<1>0. UintMod \in Nat /\ UintMod > 0 /\ x \in Int /\ y \in Int
  BY ConsoleAssumption DEF Index
<1>1. CASE x >= y
  <2>1. x - y \in 0..(UintMod - 1) /\ UintMod * 0 + (x - y) = x - y
    BY <1>0, <1>1 DEF Index
  <2>2. (UintMod * 0 + (x - y)) % UintMod = x - y
    BY <1>0, <2>1, RemainderUnique
  <2>3. QED
    BY Zenon, <1>1, <2>1, <2>2 DEF Minus, Index
<1>2. CASE x < y
  <2>1. x - y + UintMod \in 0..(UintMod - 1) /\ UintMod * (-1) + (x - y + UintMod) = x - y
    BY <1>0, <1>2 DEF Index
  <2>2. (UintMod * (-1) + (x - y + UintMod)) % UintMod = x - y + UintMod
    BY <1>0, <2>1, RemainderUnique
  <2>3. QED
    BY <1>0, <1>2, <2>1, <2>2 DEF Minus, Index
<1>3. QED
  BY <1>0, <1>1, <1>2

LEMMA SlotPlus ==
  ASSUME NEW x \in Index, NEW k \in Index
  PROVE  /\ Slot(Plus(x, k)) = (x + k) % INPUT_BUF
         /\ (x + k) % INPUT_BUF \in 0..(INPUT_BUF - 1)
<1>0. /\ UintMod \in Nat /\ UintMod > 0 /\ x \in Int /\ k \in Int
      /\ INPUT_BUF \in Nat /\ INPUT_BUF > 0 /\ x + k - UintMod \in Int
  BY ConsoleAssumption DEF Index
<1>1. PICK m \in Int : UintMod = INPUT_BUF * m
  <2>1. /\ UintMod \div INPUT_BUF \in Int
        /\ UintMod = INPUT_BUF * (UintMod \div INPUT_BUF) + (UintMod % INPUT_BUF)
    BY <1>0, Z3
  <2>2. QED
    BY <1>0, <2>1, ConsoleAssumption
<1>2. ((x + k - UintMod) + INPUT_BUF * m) % INPUT_BUF = (x + k - UintMod) % INPUT_BUF
  BY Zenon, <1>0, RemainderPlus
<1>3. (x + k - UintMod) + INPUT_BUF * m = x + k
  BY <1>0, <1>1
<1>4. (x + k) % INPUT_BUF \in 0..(INPUT_BUF - 1)
  BY <1>0, Z3
<1>5. QED
  BY Zenon, <1>2, <1>3, <1>4, PlusIs DEF Slot

\* Places at most a ring behind one another.
LEMMA Places ==
  ASSUME NEW x \in Index, NEW i \in 0..INPUT_BUF, NEW k \in 0..INPUT_BUF
  PROVE  /\ Plus(x, i) \in Index /\ Plus(x, 0) = x
         /\ i <= k => Minus(Plus(x, k), Plus(x, i)) = k - i
         /\ i <= k => Minus(Plus(x, k), i) = Plus(x, k - i)
         /\ Plus(Plus(x, i), k) = Plus(x, i + k)
         /\ Plus(x, i) = Plus(x, k) => i = k
<1>0. /\ UintMod \in Nat /\ INPUT_BUF \in Nat /\ UintMod > INPUT_BUF
      /\ x \in 0..(UintMod - 1) /\ i \in 0..(UintMod - 1) /\ k \in 0..(UintMod - 1)
      /\ i \in Index /\ k \in Index /\ 0 \in Index
  BY ConsoleAssumption DEF Index
<1>1. /\ Plus(x, i) = IF x + i < UintMod THEN x + i ELSE x + i - UintMod
      /\ Plus(x, k) = IF x + k < UintMod THEN x + k ELSE x + k - UintMod
      /\ Plus(x, 0) = IF x + 0 < UintMod THEN x + 0 ELSE x + 0 - UintMod
      /\ Plus(x, i) \in Index /\ Plus(x, k) \in Index
  BY Zenon, <1>0, PlusIs
<1>2. Plus(x, 0) = x /\ (Plus(x, i) = Plus(x, k) => i = k)
  BY <1>0, <1>1
<1>3. ASSUME i <= k
      PROVE  Minus(Plus(x, k), Plus(x, i)) = k - i /\ Minus(Plus(x, k), i) = Plus(x, k - i)
  <2>1. /\ Minus(Plus(x, k), Plus(x, i)) =
             IF Plus(x, k) >= Plus(x, i) THEN Plus(x, k) - Plus(x, i)
             ELSE Plus(x, k) - Plus(x, i) + UintMod
        /\ Minus(Plus(x, k), i) =
             IF Plus(x, k) >= i THEN Plus(x, k) - i ELSE Plus(x, k) - i + UintMod
    BY Zenon, <1>0, <1>1, MinusIs
  <2>2. k - i \in Index
    BY <1>0, <1>3 DEF Index
  <2>3. Plus(x, k - i) = IF x + (k - i) < UintMod THEN x + (k - i) ELSE x + (k - i) - UintMod
    BY Zenon, <2>2, PlusIs
  <2>4. QED
    BY <1>0, <1>1, <1>3, <2>1, <2>3
<1>4. Plus(Plus(x, i), k) = Plus(x, i + k)
  <2>1. Plus(Plus(x, i), k) = (Plus(x, i) + k) % UintMod /\ Plus(x, i + k) = (x + (i + k)) % UintMod
    BY Zenon DEF Plus
  <2>2. (Plus(x, i) + k + UintMod * 1) % UintMod = (Plus(x, i) + k) % UintMod
    BY <1>0, <1>1, RemainderPlus DEF Index
  <2>3. Plus(x, i) + k = x + (i + k) \/ Plus(x, i) + k + UintMod * 1 = x + (i + k)
    BY <1>0, <1>1
  <2>4. QED
    BY Zenon, <2>1, <2>2, <2>3
<1>5. QED
  BY Zenon, <1>1, <1>2, <1>3, <1>4

LEMMA PlaceIn ==
  ASSUME NEW x \in Index, NEW i \in 0..INPUT_BUF
  PROVE  Plus(x, i) \in Index
BY Zenon, Places

LEMMA PlaceDistance ==
  ASSUME NEW x \in Index, NEW i \in 0..INPUT_BUF, NEW k \in 0..INPUT_BUF, i <= k
  PROVE  Minus(Plus(x, k), Plus(x, i)) = k - i
BY Places

LEMMA PlaceBack ==
  ASSUME NEW x \in Index, NEW i \in 0..INPUT_BUF, NEW k \in 0..INPUT_BUF, i <= k
  PROVE  Minus(Plus(x, k), i) = Plus(x, k - i)
BY Places

LEMMA PlaceOn ==
  ASSUME NEW x \in Index, NEW i \in 0..INPUT_BUF, NEW k \in 0..INPUT_BUF
  PROVE  Plus(Plus(x, i), k) = Plus(x, i + k)
BY Places

LEMMA PlaceEqual ==
  ASSUME NEW x \in Index, NEW i \in 0..INPUT_BUF, NEW k \in 0..INPUT_BUF
  PROVE  Plus(x, i) = Plus(x, k) => i = k
BY Places

\* How the indices lie, with r as the origin.
LEMMA Shape ==
  ASSUME IndexInv
  PROVE  \E a, b \in 0..INPUT_BUF :
           /\ a <= b /\ a = Minus(w, r) /\ b = Minus(e, r) /\ b - a = Minus(e, w)
           /\ w = Plus(r, a) /\ e = Plus(r, b) /\ r = Plus(r, 0) /\ r \in Index
           /\ (r = w <=> a = 0) /\ (e = w <=> a = b)
<1>0. r \in Index /\ w \in Index /\ e \in Index
  BY Zenon DEF IndexInv, Index
<1>1. PICK a, b : a = Minus(w, r) /\ b = Minus(e, r)
  BY Zenon
<1>2. a \in 0..INPUT_BUF /\ b \in 0..INPUT_BUF /\ a <= b /\ a \in Index /\ b \in Index
  BY <1>0, <1>1, MinusIs, ConsoleAssumption DEF IndexInv, Index
<1>3. w = Plus(r, a) /\ e = Plus(r, b)
  <2>1. /\ a = IF w >= r THEN w - r ELSE w - r + UintMod
        /\ b = IF e >= r THEN e - r ELSE e - r + UintMod
    BY Zenon, <1>0, <1>1, MinusIs
  <2>2. /\ Plus(r, a) = IF r + a < UintMod THEN r + a ELSE r + a - UintMod
        /\ Plus(r, b) = IF r + b < UintMod THEN r + b ELSE r + b - UintMod
    BY Zenon, <1>0, <1>2, PlusIs
  <2>3. QED
    BY <1>0, <2>1, <2>2, ConsoleAssumption DEF Index
<1>4. 0 \in 0..INPUT_BUF
  BY ConsoleAssumption
<1>5. /\ b - a = Minus(e, w) /\ r = Plus(r, 0)
      /\ (r = w <=> a = 0) /\ (e = w <=> a = b)
  BY <1>0, <1>2, <1>3, <1>4, Places
<1>6. QED
  BY Zenon, <1>0, <1>1, <1>2, <1>3, <1>5

\* The indices after a step, given by their distances from r before it.
LEMMA ShapeNext ==
  ASSUME r \in Index, NEW i \in 0..INPUT_BUF, NEW j \in 0..INPUT_BUF, NEW k \in 0..INPUT_BUF,
         i <= j, j <= k, r' = Plus(r, i), w' = Plus(r, j), e' = Plus(r, k)
  PROVE  /\ IndexInv' /\ (r' = w' <=> i = j)
         /\ Minus(w, r)' = j - i /\ Minus(e, r)' = k - i /\ Minus(e, w)' = k - j
<1>1. /\ Minus(w', r') = j - i /\ Minus(e', r') = k - i /\ Minus(e', w') = k - j
      /\ r' \in Index /\ w' \in Index /\ e' \in Index /\ (r' = w' <=> i = j)
  BY Places
<1>2. i \in Int /\ j \in Int /\ k \in Int /\ k <= INPUT_BUF /\ i >= 0 /\ INPUT_BUF \in Nat
  BY ConsoleAssumption
<1>3. QED
  BY <1>1, <1>2 DEF IndexInv, Index, Minus

\* The place in the ring of the index i after x.
Cell(x, i) == (x + i) % INPUT_BUF

\* What is in the ring g from index x to index y.
Stretch(g, x, y) == [k \in 1..Minus(y, x) |-> g[Slot(Plus(x, k - 1))]]

LEMMA StretchIs ==
  ASSUME NEW g \in [0..(INPUT_BUF - 1) -> Chars], NEW x \in Index,
         NEW i \in 0..INPUT_BUF, NEW j \in 0..INPUT_BUF, i <= j
  PROVE  LET s == Stretch(g, Plus(x, i), Plus(x, j)) IN
         /\ s \in Seq(Chars) /\ Len(s) = j - i /\ DOMAIN s = 1..(j - i)
         /\ \A k \in 1..(j - i) : s[k] = g[Cell(x, i + k - 1)]
<1> DEFINE s == Stretch(g, Plus(x, i), Plus(x, j))
<1>1. i \in Int /\ j \in Int /\ j - i \in Nat /\ x \in Int
  BY ConsoleAssumption DEF Index
<1>2. Minus(Plus(x, j), Plus(x, i)) = j - i /\ Plus(x, i) \in Index
  BY Places
<1>3. ASSUME NEW k \in 1..(j - i)
      PROVE  /\ Slot(Plus(Plus(x, i), k - 1)) = Cell(x, i + k - 1)
             /\ Cell(x, i + k - 1) \in 0..(INPUT_BUF - 1)
  <2>1. k - 1 \in 0..INPUT_BUF /\ i + (k - 1) \in 0..INPUT_BUF
    BY <1>1, ConsoleAssumption
  <2>2. Plus(Plus(x, i), k - 1) = Plus(x, i + (k - 1))
    BY <2>1, Places
  <2>3. i + (k - 1) \in Index /\ i + (k - 1) = i + k - 1
    BY <1>1, <2>1, ConsoleAssumption DEF Index
  <2>4. QED
    BY Zenon, <2>2, <2>3, SlotPlus DEF Cell
<1>4. s = [k \in 1..(j - i) |-> g[Slot(Plus(Plus(x, i), k - 1))]]
  BY Zenon, <1>2 DEF Stretch
<1>5. \A k \in 1..(j - i) : s[k] = g[Cell(x, i + k - 1)] /\ s[k] \in Chars
  BY Zenon, <1>3, <1>4
<1>6. s \in [1..(j - i) -> Chars]
  BY Zenon, <1>4, <1>5
<1> HIDE DEF s
<1>7. s \in Seq(Chars) /\ Len(s) = j - i /\ DOMAIN s = 1..(j - i)
  BY <1>1, <1>6
<1>8. QED
  BY Zenon, <1>5, <1>7 DEF s

LEMMA BetweenIs ==
  /\ Between(r, w) = Stretch(ring, r, w) /\ Between(w, e) = Stretch(ring, w, e)
  /\ Between(r, w)' = Stretch(ring', r', w') /\ Between(w, e)' = Stretch(ring', w', e')
BY Zenon DEF Between, Stretch, Minus, Plus, Slot
-----------------------------------------------------------------------------
(* The least and the greatest of a set of numbers up to n. *)

LEMMA MinIs ==
  ASSUME NEW n \in Nat, NEW S \in SUBSET (0..n), S # {}
  PROVE  Min(S) \in S /\ \A k \in S : Min(S) <= k
<1>0. S \in SUBSET Nat
  OBVIOUS
<1>1. PICK x \in S : \A y \in S : ~(<<y, x>> \in OpToRel(<, Nat))
  BY <1>0, WFMin, NatLessThanWellFounded, Zenon
<1>2. ASSUME NEW y \in S PROVE x <= y
  <2>1. x \in Nat /\ y \in Nat
    BY Zenon, <1>0
  <2>2. ~(y < x)
    BY Zenon, <1>1, <2>1 DEF OpToRel
  <2>3. QED
    BY <2>1, <2>2
<1>3. QED
  BY Zenon, <1>2 DEF Min

LEMMA MaxIs ==
  ASSUME NEW n \in Nat, NEW S \in SUBSET (0..n), n \in S
  PROVE  Max(S) = n
<1>1. \A y \in S : y \in Nat /\ n >= y
  OBVIOUS
<1>2. Max(S) \in S /\ \A y \in S : Max(S) >= y
  BY <1>1, Zenon DEF Max
<1>3. PICK m : m = Max(S)
  BY Zenon
<1>4. m \in Nat /\ m >= n /\ n >= m
  BY <1>1, <1>2, <1>3, Zenon
<1>5. QED
  BY <1>3, <1>4
-----------------------------------------------------------------------------
(* The cursor. *)

\* cgaputc() keeps the cursor on the rows above the last.
LEMMA CursorStays ==
  ASSUME NEW q \in 0..((ROWS - 1) * COLS - 1), NEW c
  PROVE  cgaputc(q, c) \in 0..((ROWS - 1) * COLS - 1)
<1>0. /\ COLS \in Nat /\ COLS > 0 /\ ROWS \in Nat /\ ROWS >= 2 /\ q \in Nat
      /\ (ROWS - 1) * COLS \in Nat
  BY ConsoleAssumption
<1>1. q % COLS \in 0..(COLS - 1)
  BY <1>0, Z3
<1>2. PICK n \in Nat : /\ n <= q + COLS /\ cgaputc(q, c) = IF n \div COLS >= ROWS - 1 THEN n - COLS ELSE n
  <2> DEFINE n == IF c = NL THEN q + COLS - (q % COLS)
                  ELSE IF c = "backspace" THEN (IF q > 0 THEN q - 1 ELSE q)
                  ELSE q + 1
  <2>1. n \in Nat /\ n <= q + COLS
    BY <1>0, <1>1
  <2>2. cgaputc(q, c) = IF n \div COLS >= ROWS - 1 THEN n - COLS ELSE n
    BY Zenon DEF cgaputc
  <2>3. QED
    BY Zenon, <2>1, <2>2
<1>3. PICK d \in Int, s \in 0..(COLS - 1) : d = n \div COLS /\ n = COLS * d + s
  BY <1>0, Z3
<1>4. CASE d >= ROWS - 1
  <2>1. COLS * 1 <= COLS * d
    <3>1. COLS * (d - 1) >= 0
      BY <1>0, <1>4, Z3
    <3>2. QED
      BY <1>0, <3>1, Z3
  <2>2. n - COLS \in Nat
    BY <1>0, <1>3, <2>1
  <2>3. QED
    BY <1>0, <1>2, <1>3, <1>4, <2>2
<1>5. CASE d < ROWS - 1
  <2>1. COLS * d + COLS <= COLS * (ROWS - 1)
    BY <1>0, <1>5, Apart
  <2>2. COLS * (ROWS - 1) = (ROWS - 1) * COLS
    BY <1>0, Z3
  <2>3. n <= (ROWS - 1) * COLS - 1
    BY <1>0, <1>3, <2>1, <2>2
  <2>4. QED
    BY <1>0, <1>2, <1>3, <1>5, <2>3
<1>6. QED
  BY <1>0, <1>4, <1>5
-----------------------------------------------------------------------------
(* The steps: each keeps the invariant, and is a step of LineInput. *)

\* Sequences with the same elements are the same.
LEMMA SameSeq ==
  ASSUME NEW s \in Seq(Chars), NEW t \in Seq(Chars), Len(s) = Len(t),
         \A k \in 1..Len(s) : s[k] = t[k]
  PROVE  s = t
OBVIOUS

LEMMA Appended ==
  ASSUME NEW s \in Seq(Chars), NEW c \in Chars
  PROVE  /\ Append(s, c) \in Seq(Chars) /\ Len(Append(s, c)) = Len(s) + 1
         /\ \A k \in 1..Len(s) : Append(s, c)[k] = s[k]
         /\ Append(s, c)[Len(s) + 1] = c
OBVIOUS

LEMMA Joined ==
  ASSUME NEW s \in Seq(Chars), NEW t \in Seq(Chars)
  PROVE  /\ s \o t \in Seq(Chars) /\ Len(s \o t) = Len(s) + Len(t)
         /\ \A k \in 1..Len(s) : (s \o t)[k] = s[k]
         /\ \A k \in 1..Len(t) : (s \o t)[Len(s) + k] = t[k]
OBVIOUS

\* A character goes to the place of e, which no index from r to e has.
LEMMA TypedCell ==
  ASSUME RingType, r \in Index, NEW b \in 0..(INPUT_BUF - 1), NEW c \in Chars,
         ring' = [ring EXCEPT ![Slot(Plus(r, b))] = c]
  PROVE  /\ ring' \in [0..(INPUT_BUF - 1) -> Chars] /\ ring'[Cell(r, b)] = c
         /\ \A i \in 0..(b - 1) : ring'[Cell(r, i)] = ring[Cell(r, i)]
<1>0. /\ INPUT_BUF \in Nat /\ INPUT_BUF > 0 /\ UintMod \in Nat /\ UintMod > INPUT_BUF
      /\ r \in Int /\ b \in Int /\ b \in Index
  BY ConsoleAssumption DEF Index
<1>1. Slot(Plus(r, b)) = Cell(r, b) /\ Cell(r, b) \in 0..(INPUT_BUF - 1)
  BY Zenon, <1>0, SlotPlus DEF Cell
<1>2. ASSUME NEW i \in 0..(b - 1)
      PROVE  Cell(r, i) # Cell(r, b) /\ Cell(r, i) \in 0..(INPUT_BUF - 1)
  <2>1. r + i \in Int /\ r + b \in Int /\ r + i < r + b /\ r + b < r + i + INPUT_BUF
    BY <1>0
  <2>2. i \in Index
    BY <1>0 DEF Index
  <2>3. QED
    BY Zenon, <1>0, <2>1, <2>2, RemainderDistinct, SlotPlus DEF Cell
<1>3. QED
  BY Zenon, <1>1, <1>2 DEF RingType

\* The two parts of the ring, as sequences.
LEMMA Parts ==
  ASSUME RingType, NEW a \in 0..INPUT_BUF, NEW b \in 0..INPUT_BUF, a <= b, r \in Index,
         r = Plus(r, 0), w = Plus(r, a), e = Plus(r, b)
  PROVE  /\ Between(r, w) \in Seq(Chars) /\ Len(Between(r, w)) = a
         /\ \A k \in 1..a : Between(r, w)[k] = ring[Cell(r, k - 1)]
         /\ Between(w, e) \in Seq(Chars) /\ Len(Between(w, e)) = b - a
         /\ \A k \in 1..(b - a) : Between(w, e)[k] = ring[Cell(r, a + k - 1)]
<1>1. ring \in [0..(INPUT_BUF - 1) -> Chars] /\ 0 \in 0..INPUT_BUF /\ 0 <= a /\ a \in Int
  BY ConsoleAssumption DEF RingType
<1>2. LET s == Stretch(ring, Plus(r, 0), Plus(r, a)) IN
      /\ s \in Seq(Chars) /\ Len(s) = a - 0 /\ DOMAIN s = 1..(a - 0)
      /\ \A k \in 1..(a - 0) : s[k] = ring[Cell(r, 0 + k - 1)]
  BY <1>1, StretchIs, ZenonT(40)
<1>3. \A k \in 1..a : 0 + k - 1 = k - 1
  BY <1>1
<1>4. a - 0 = a
  BY <1>1
<1>5. LET s == Stretch(ring, Plus(r, a), Plus(r, b)) IN
      /\ s \in Seq(Chars) /\ Len(s) = b - a /\ DOMAIN s = 1..(b - a)
      /\ \A k \in 1..(b - a) : s[k] = ring[Cell(r, a + k - 1)]
  BY <1>1, StretchIs, ZenonT(40)
<1>6. QED
  BY Zenon, <1>2, <1>3, <1>4, <1>5, BetweenIs

\* ... and after a step, given by their distances from r before it.
LEMMA PartsNext ==
  ASSUME ring' \in [0..(INPUT_BUF - 1) -> Chars], r \in Index,
         NEW i \in 0..INPUT_BUF, NEW j \in 0..INPUT_BUF, NEW k \in 0..INPUT_BUF,
         i <= j, j <= k, r' = Plus(r, i), w' = Plus(r, j), e' = Plus(r, k)
  PROVE  /\ Between(r, w)' \in Seq(Chars) /\ Len(Between(r, w)') = j - i
         /\ \A n \in 1..(j - i) : Between(r, w)'[n] = ring'[Cell(r, i + n - 1)]
         /\ Between(w, e)' \in Seq(Chars) /\ Len(Between(w, e)') = k - j
         /\ \A n \in 1..(k - j) : Between(w, e)'[n] = ring'[Cell(r, j + n - 1)]
<1>1. LET s == Stretch(ring', Plus(r, i), Plus(r, j)) IN
      /\ s \in Seq(Chars) /\ Len(s) = j - i /\ DOMAIN s = 1..(j - i)
      /\ \A n \in 1..(j - i) : s[n] = ring'[Cell(r, i + n - 1)]
  BY StretchIs, ZenonT(40)
<1>2. LET s == Stretch(ring', Plus(r, j), Plus(r, k)) IN
      /\ s \in Seq(Chars) /\ Len(s) = k - j /\ DOMAIN s = 1..(k - j)
      /\ \A n \in 1..(k - j) : s[n] = ring'[Cell(r, j + n - 1)]
  BY StretchIs, ZenonT(40)
<1>3. QED
  BY Zenon, <1>1, <1>2, BetweenIs

LEMMA TypeStep ==
  ASSUME ConInv, NEW c \in Chars, consoleintr(c)
  PROVE  ConInv' /\ Lines!Type(c)
<1> USE DEF ConInv
<1>1. PICK a, b \in 0..INPUT_BUF :
        /\ a <= b /\ a = Minus(w, r) /\ b = Minus(e, r) /\ b - a = Minus(e, w)
        /\ w = Plus(r, a) /\ e = Plus(r, b) /\ r = Plus(r, 0) /\ r \in Index
        /\ (r = w <=> a = 0) /\ (e = w <=> a = b)
  BY Shape, Zenon
<1>2. /\ INPUT_BUF \in Nat /\ INPUT_BUF > 0 /\ 0 \in 0..INPUT_BUF /\ 1 \in 0..INPUT_BUF
      /\ INPUT_BUF \in 0..INPUT_BUF
      /\ a \in Nat /\ b \in Nat /\ a <= b /\ b <= INPUT_BUF /\ b - a \in Nat
  BY <1>1, ConsoleAssumption
<1>3. /\ Unlocked /\ b < INPUT_BUF /\ ring' = [ring EXCEPT ![Slot(Plus(r, b))] = c]
      /\ e' = Plus(Plus(r, b), 1) /\ pos' = cgaputc(pos, c) /\ r' = r /\ slain' = slain
      /\ IF c \in Ends \/ Plus(Plus(r, b), 1) = Plus(r, INPUT_BUF)
         THEN /\ w' = Plus(Plus(r, b), 1)
              /\ rd' = [p \in Readers |-> IF rd[p].pc = "asleep" THEN [rd[p] EXCEPT !.pc = "read"]
                                          ELSE rd[p]]
         ELSE w' = w /\ rd' = rd
  BY Zenon, <1>1 DEF consoleintr, input_char
<1>4. b \in 0..(INPUT_BUF - 1) /\ b + 1 \in 0..INPUT_BUF /\ b <= b + 1
  BY <1>2, <1>3
<1>5. Plus(Plus(r, b), 1) = Plus(r, b + 1)
  BY <1>1, <1>2, PlaceOn, Zenon
<1>6. Plus(r, b + 1) = Plus(r, INPUT_BUF) <=> b + 1 = INPUT_BUF
  BY <1>1, <1>2, <1>4, PlaceEqual, Zenon
<1>7. /\ ring' \in [0..(INPUT_BUF - 1) -> Chars] /\ ring'[Cell(r, b)] = c
      /\ \A i \in 0..(b - 1) : ring'[Cell(r, i)] = ring[Cell(r, i)]
  <2>1. /\ r \in Index /\ b \in 0..(INPUT_BUF - 1) /\ c \in Chars
        /\ ring' = [ring EXCEPT ![Slot(Plus(r, b))] = c]
    BY Zenon, <1>1, <1>3, <1>4
  <2>2. QED
    BY Zenon, <2>1, TypedCell
<1>8. CursorInv'
  BY Zenon, <1>3, CursorStays DEF CursorInv
<1>9. PICK lines, edit, lines1, edit1 : /\ lines = Between(r, w) /\ edit = Between(w, e)
                                        /\ lines1 = Between(r, w)' /\ edit1 = Between(w, e)'
  BY Zenon
<1>10. /\ lines \in Seq(Chars) /\ Len(lines) = a
       /\ \A k \in 1..a : lines[k] = ring[Cell(r, k - 1)]
       /\ edit \in Seq(Chars) /\ Len(edit) = b - a
       /\ \A k \in 1..(b - a) : edit[k] = ring[Cell(r, a + k - 1)]
  BY <1>1, <1>9, Parts, Zenon
<1>11. Len(lines) + Len(edit) < INPUT_BUF /\ Len(lines) + Len(edit) + 1 = b + 1
  BY <1>2, <1>3, <1>10
<1>12. CASE c \in Ends \/ b + 1 = INPUT_BUF
  <2>1. /\ w' = Plus(r, b + 1) /\ e' = Plus(r, b + 1) /\ r' = Plus(r, 0)
        /\ rd' = [p \in Readers |-> IF rd[p].pc = "asleep" THEN [rd[p] EXCEPT !.pc = "read"]
                                    ELSE rd[p]]
    BY Zenon, <1>1, <1>3, <1>5, <1>6, <1>12
  <2>2. /\ 0 <= b + 1 /\ b + 1 <= b + 1 /\ r \in Index
        /\ 0 \in 0..INPUT_BUF /\ b + 1 \in 0..INPUT_BUF
    BY <1>1, <1>2, <1>4
  <2>3. IndexInv' /\ Minus(e, w)' = (b + 1) - (b + 1)
    BY Zenon, <2>1, <2>2, ShapeNext
  <2>4. RingType' /\ TargetInv' /\ \A p \in Readers : rd'[p].pc \notin {"drowsy", "asleep"}
    BY ZenonT(40), <1>3, <1>7, <2>1 DEF RingType, Reading, TargetInv, Unlocked
  <2>5. /\ lines1 \in Seq(Chars) /\ Len(lines1) = (b + 1) - 0
        /\ \A n \in 1..((b + 1) - 0) : lines1[n] = ring'[Cell(r, 0 + n - 1)]
        /\ edit1 \in Seq(Chars) /\ Len(edit1) = (b + 1) - (b + 1)
    BY ZenonT(40), <1>7, <1>9, <2>1, <2>2, PartsNext
  <2>6. edit1 = <<>>
    BY <1>2, <2>5
  <2>7. lines1 = lines \o Append(edit, c)
    <3>1. /\ Append(edit, c) \in Seq(Chars) /\ Len(Append(edit, c)) = b + 1 - a
          /\ lines \o Append(edit, c) \in Seq(Chars)
          /\ Len(lines \o Append(edit, c)) = b + 1
          /\ \A k \in 1..a : (lines \o Append(edit, c))[k] = lines[k]
          /\ \A k \in 1..(b - a) : (lines \o Append(edit, c))[a + k] = edit[k]
          /\ (lines \o Append(edit, c))[b + 1] = c
      <4>1. /\ Append(edit, c) \in Seq(Chars) /\ Len(Append(edit, c)) = b + 1 - a
            /\ \A k \in 1..(b - a) : Append(edit, c)[k] = edit[k]
            /\ Append(edit, c)[b + 1 - a] = c
        <5>1. b + 1 - a = Len(edit) + 1 /\ 1..(b - a) = 1..Len(edit)
          BY <1>2, <1>10
        <5>2. /\ Append(edit, c) \in Seq(Chars) /\ Len(Append(edit, c)) = Len(edit) + 1
              /\ \A k \in 1..Len(edit) : Append(edit, c)[k] = edit[k]
              /\ Append(edit, c)[Len(edit) + 1] = c
          BY <1>10, Appended, Zenon
        <5>3. QED
          BY <5>1, <5>2, Zenon
      <4> PICK u : u = Append(edit, c)
        BY Zenon
      <4>2. /\ lines \o u \in Seq(Chars) /\ Len(lines \o u) = b + 1
            /\ \A k \in 1..a : (lines \o u)[k] = lines[k]
            /\ \A k \in 1..(b + 1 - a) : (lines \o u)[a + k] = u[k]
        <5>1. Len(lines) + Len(u) = b + 1
          BY <1>2, <1>10, <4>1
        <5>2. /\ lines \o u \in Seq(Chars) /\ Len(lines \o u) = Len(lines) + Len(u)
              /\ \A k \in 1..Len(lines) : (lines \o u)[k] = lines[k]
              /\ \A k \in 1..Len(u) : (lines \o u)[Len(lines) + k] = u[k]
          BY <1>10, <4>1, Joined, ZenonT(40)
        <5>3. QED
          BY <1>10, <4>1, <5>1, <5>2, Zenon
      <4>3. (lines \o u)[b + 1] = c
        <5>1. b + 1 - a \in 1..(b + 1 - a) /\ a + (b + 1 - a) = b + 1
          BY <1>2
        <5>2. QED
          BY Zenon, <4>1, <4>2, <5>1
      <4>4. \A k \in 1..(b - a) : k \in 1..(b + 1 - a)
        BY <1>2
      <4>5. QED
        BY Zenon, <4>1, <4>2, <4>3, <4>4
    <3> PICK t : t = lines \o Append(edit, c)
      BY Zenon
    <3>2. ASSUME NEW k \in 1..(b + 1) PROVE lines1[k] = t[k]
      <4>0. lines1[k] = ring'[Cell(r, k - 1)]
        <5>1. k \in 1..((b + 1) - 0) /\ 0 + k - 1 = k - 1
          BY <1>2
        <5>2. QED
          BY Zenon, <2>5, <5>1
      <4>1. CASE k <= a
        <5>1. k \in 1..a /\ k - 1 \in 0..(b - 1)
          BY <1>2, <4>1
        <5>2. QED
          BY Zenon, <1>7, <1>10, <3>1, <4>0, <5>1
      <4>2. CASE k > a /\ k <= b
        <5>1. PICK i \in 1..(b - a) : k = a + i
          <6>1. k - a \in 1..(b - a) /\ k = a + (k - a)
            BY <1>2, <4>2
          <6>2. QED
            BY Zenon, <6>1
        <5>2. k - 1 \in 0..(b - 1) /\ a + i - 1 = k - 1
          BY <1>2, <4>2, <5>1
        <5>3. t[k] = edit[i] /\ edit[i] = ring[Cell(r, k - 1)]
          BY Zenon, <1>10, <3>1, <5>1, <5>2
        <5>4. QED
          BY Zenon, <1>7, <4>0, <5>2, <5>3
      <4>3. CASE k = b + 1
        <5>1. k - 1 = b
          BY <1>2, <4>3
        <5>2. QED
          BY Zenon, <1>7, <3>1, <4>0, <4>3, <5>1
      <4>4. k <= a \/ (k > a /\ k <= b) \/ k = b + 1
        BY <1>2
      <4>5. QED
        BY Zenon, <4>1, <4>2, <4>3, <4>4
    <3>3. Len(lines1) = b + 1 /\ Len(t) = b + 1
      BY <1>2, <2>5, <3>1
    <3>4. QED
      BY Zenon, <2>5, <3>1, <3>2, <3>3, SameSeq
  <2>8. EditInv'
    BY <1>2, <2>3 DEF EditInv
  <2>9. ReadersWoken'
    BY Zenon, <2>1, <2>4 DEF ReadersWoken
  <2>10. Lines!Type(c)
    BY Zenon, <1>9, <1>11, <1>12, <2>6, <2>7 DEF Lines!Type
  <2>11. QED
    BY Zenon, <1>8, <2>3, <2>4, <2>8, <2>9, <2>10
<1>13. CASE ~(c \in Ends \/ b + 1 = INPUT_BUF)
  <2>1. w' = w /\ rd' = rd /\ w' = Plus(r, a) /\ e' = Plus(r, b + 1) /\ r' = Plus(r, 0)
    BY Zenon, <1>1, <1>3, <1>5, <1>6, <1>13
  <2>2. /\ 0 <= a /\ a <= b + 1 /\ r \in Index
        /\ 0 \in 0..INPUT_BUF /\ a \in 0..INPUT_BUF /\ b + 1 \in 0..INPUT_BUF
    BY <1>1, <1>2, <1>4
  <2>3. IndexInv' /\ Minus(e, w)' = (b + 1) - a /\ Minus(e, r)' = (b + 1) - 0
    BY Zenon, <2>1, <2>2, ShapeNext
  <2>4. RingType' /\ TargetInv'
    BY Zenon, <1>7, <2>1 DEF RingType, TargetInv
  <2>5. /\ lines1 \in Seq(Chars) /\ Len(lines1) = a - 0
        /\ \A n \in 1..(a - 0) : lines1[n] = ring'[Cell(r, 0 + n - 1)]
        /\ edit1 \in Seq(Chars) /\ Len(edit1) = (b + 1) - a
        /\ \A n \in 1..((b + 1) - a) : edit1[n] = ring'[Cell(r, a + n - 1)]
    BY SMTT(30), <1>7, <1>9, <2>1, <2>2, PartsNext
  <2>6. lines1 = lines
    <3>1. ASSUME NEW k \in 1..a PROVE lines1[k] = lines[k]
      <4>1. k \in 1..(a - 0) /\ 0 + k - 1 = k - 1 /\ k - 1 \in 0..(b - 1)
        BY <1>2
      <4>2. lines1[k] = ring'[Cell(r, k - 1)]
        BY Zenon, <2>5, <4>1
      <4>3. lines[k] = ring[Cell(r, k - 1)]
        BY Zenon, <1>10
      <4>4. QED
        BY Zenon, <1>7, <4>1, <4>2, <4>3
    <3>2. Len(lines1) = a
      BY <1>2, <2>5
    <3>3. QED
      BY Zenon, <1>10, <2>5, <3>1, <3>2, SameSeq
  <2>7. edit1 = Append(edit, c)
    <3>1. /\ Append(edit, c) \in Seq(Chars) /\ Len(Append(edit, c)) = (b + 1) - a
          /\ \A k \in 1..(b - a) : Append(edit, c)[k] = edit[k]
          /\ Append(edit, c)[(b + 1) - a] = c
      <4>1. (b + 1) - a = Len(edit) + 1 /\ 1..(b - a) = 1..Len(edit)
        BY <1>2, <1>10
      <4>2. /\ Append(edit, c) \in Seq(Chars) /\ Len(Append(edit, c)) = Len(edit) + 1
            /\ \A k \in 1..Len(edit) : Append(edit, c)[k] = edit[k]
            /\ Append(edit, c)[Len(edit) + 1] = c
        BY <1>10, Appended, Zenon
      <4>3. QED
        BY <4>1, <4>2, Zenon
    <3>2. ASSUME NEW k \in 1..((b + 1) - a) PROVE edit1[k] = Append(edit, c)[k]
      <4>1. CASE k <= b - a
        <5>1. k \in 1..(b - a) /\ a + k - 1 \in 0..(b - 1)
          BY <1>2, <4>1
        <5>2. QED
          BY Zenon, <1>7, <1>10, <2>5, <3>1, <5>1
      <4>2. CASE k = (b + 1) - a
        <5>1. a + k - 1 = b
          BY <1>2, <4>2
        <5>2. QED
          BY Zenon, <1>7, <2>5, <3>1, <4>2, <5>1
      <4>3. k <= b - a \/ k = (b + 1) - a
        BY <1>2
      <4>4. QED
        BY Zenon, <4>1, <4>2, <4>3
    <3>3. QED
      BY Zenon, <2>5, <3>1, <3>2, SameSeq
  <2>8. EditInv'
    <3>1. \A k \in 1..(b - a) : edit[k] \notin Ends
      BY Zenon, <1>1, <1>9 DEF EditInv
    <3>2. ASSUME NEW k \in 1..((b + 1) - a) PROVE Append(edit, c)[k] \notin Ends
      <4>1. k \in 1..(b - a) \/ k = Len(edit) + 1
        BY <1>2, <1>10
      <4>2. QED
        BY <1>10, <1>13, <3>1, <4>1
    <3>3. QED
      BY Zenon, <1>9, <2>3, <2>7, <3>2 DEF EditInv
  <2>9. ReadersWoken'
    <3>1. Minus(e, r)' # INPUT_BUF
      BY <1>2, <1>13, <2>3
    <3>2. QED
      BY Zenon, <1>3, <2>1, <3>1 DEF ReadersWoken
  <2>10. Lines!Type(c)
    BY Zenon, <1>9, <1>11, <1>13, <2>6, <2>7 DEF Lines!Type
  <2>11. QED
    BY Zenon, <1>8, <2>3, <2>4, <2>8, <2>9, <2>10
<1>14. QED
  BY Zenon, <1>12, <1>13

\* Erasing down to the index d after r.
LEMMA EraseTo ==
  ASSUME ConInv, NEW a \in 0..INPUT_BUF, NEW b \in 0..INPUT_BUF, a <= b, b = Minus(e, r),
         b - a = Minus(e, w), w = Plus(r, a), e = Plus(r, b), r = Plus(r, 0), r \in Index,
         (e = w <=> a = b),
         NEW d \in a..b, e' = Plus(r, d), UNCHANGED <<ring, r, w, rd, slain>>, CursorInv'
  PROVE  /\ ConInv' /\ Between(r, w)' = Between(r, w)
         /\ Between(w, e)' = SubSeq(Between(w, e), 1, d - a)
<1> USE DEF ConInv
<1>1. /\ d \in 0..INPUT_BUF /\ 0 \in 0..INPUT_BUF /\ 0 <= a /\ a <= d /\ a \in Nat /\ b \in Nat
      /\ d \in Nat /\ d <= b /\ b <= INPUT_BUF /\ INPUT_BUF \in Nat
      /\ ring' \in [0..(INPUT_BUF - 1) -> Chars] /\ r' = Plus(r, 0) /\ w' = Plus(r, a)
  BY ConsoleAssumption DEF RingType
<1>2. IndexInv' /\ Minus(e, w)' = d - a /\ Minus(e, r)' = d - 0
  BY Zenon, <1>1, ShapeNext
<1>3. PICK lines, edit, lines1, edit1 : /\ lines = Between(r, w) /\ edit = Between(w, e)
                                        /\ lines1 = Between(r, w)' /\ edit1 = Between(w, e)'
  BY Zenon
<1>4. /\ lines \in Seq(Chars) /\ Len(lines) = a
      /\ \A k \in 1..a : lines[k] = ring[Cell(r, k - 1)]
      /\ edit \in Seq(Chars) /\ Len(edit) = b - a
      /\ \A k \in 1..(b - a) : edit[k] = ring[Cell(r, a + k - 1)]
  BY <1>3, Parts, Zenon
<1>5. /\ edit1 \in Seq(Chars) /\ Len(edit1) = d - a
      /\ \A n \in 1..(d - a) : edit1[n] = ring'[Cell(r, a + n - 1)]
  <2>1. /\ Between(w, e)' \in Seq(Chars) /\ Len(Between(w, e)') = d - a
        /\ \A n \in 1..(d - a) : Between(w, e)'[n] = ring'[Cell(r, a + n - 1)]
    BY <1>1, PartsNext, ZenonT(30)
  <2>2. QED
    BY <1>3, <2>1, Zenon
<1>6. lines1 = lines
  BY Zenon, <1>3 DEF Between, Minus, Slot, Plus
<1>7. edit1 = SubSeq(edit, 1, d - a)
  <2>1. /\ SubSeq(edit, 1, d - a) \in Seq(Chars) /\ Len(SubSeq(edit, 1, d - a)) = d - a
        /\ \A k \in 1..(d - a) : SubSeq(edit, 1, d - a)[k] = edit[k]
    BY <1>1, <1>4
  <2>2. \A k \in 1..(d - a) : k \in 1..(b - a)
    BY <1>1
  <2>3. \A k \in 1..(d - a) : edit1[k] = SubSeq(edit, 1, d - a)[k]
    BY Zenon, <1>4, <1>5, <2>1, <2>2
  <2>4. QED
    BY Zenon, <1>5, <2>1, <2>3, SameSeq
<1>8. EditInv'
  <2>1. \A k \in 1..(b - a) : edit[k] \notin Ends
    BY Zenon, <1>3 DEF EditInv
  <2>2. \A k \in 1..(d - a) : k \in 1..(b - a) /\ edit1[k] = edit[k]
    BY <1>1, <1>4, <1>5, SMTT(30)
  <2>3. QED
    BY Zenon, <1>2, <1>3, <2>1, <2>2 DEF EditInv
<1>9. ReadersWoken'
  <2>1. d - 0 = INPUT_BUF => a = b /\ d = b
    BY <1>1 DEF ReadersWoken
  <2>2. QED
    BY Zenon, <1>1, <1>2, <2>1 DEF ReadersWoken
<1>10. RingType' /\ TargetInv'
  BY Zenon DEF RingType, TargetInv
<1>11. QED
  BY Zenon, <1>2, <1>3, <1>6, <1>7, <1>8, <1>9, <1>10

LEMMA ErasedCursor ==
  ASSUME CursorInv, NEW k \in Nat, Erased(k)
  PROVE  CursorInv'
BY ConsoleAssumption DEF CursorInv, Erased

LEMMA BackspaceStep == ConInv /\ consoleintr_backspace => ConInv' /\ Lines!Erase
<1> SUFFICES ASSUME ConInv, consoleintr_backspace PROVE ConInv' /\ Lines!Erase
  BY Zenon
<1>1. PICK a, b \in 0..INPUT_BUF :
        /\ a <= b /\ a = Minus(w, r) /\ b = Minus(e, r) /\ b - a = Minus(e, w)
        /\ w = Plus(r, a) /\ e = Plus(r, b) /\ r = Plus(r, 0) /\ r \in Index
        /\ (r = w <=> a = 0) /\ (e = w <=> a = b)
  BY Shape, Zenon DEF ConInv
<1>2. /\ a < b /\ 1 \in 0..INPUT_BUF /\ b - 1 \in a..b /\ a \in Nat /\ b \in Nat /\ 1 <= b
      /\ (b - 1) - a = b - a - 1 /\ b - a > 0
  BY <1>1, ConsoleAssumption DEF consoleintr_backspace
<1>3. e' = Plus(r, b - 1)
  BY <1>1, <1>2, PlaceBack DEF consoleintr_backspace
<1>4. CursorInv' /\ UNCHANGED <<ring, r, w, rd, slain>>
  BY Zenon, ErasedCursor DEF ConInv, consoleintr_backspace
<1>5. /\ ConInv' /\ Between(r, w)' = Between(r, w)
      /\ Between(w, e)' = SubSeq(Between(w, e), 1, (b - 1) - a)
  BY <1>1, <1>2, <1>3, <1>4, EraseTo, ZenonT(40)
<1>6. Len(Between(w, e)) = b - a /\ Between(w, e) \in Seq(Chars)
  BY <1>1, Parts, Zenon DEF ConInv
<1>7. Between(w, e) # <<>>
  BY <1>2, <1>6
<1>8. QED
  BY Zenon, <1>2, <1>5, <1>6, <1>7 DEF Lines!Erase

LEMMA KillStep == ConInv /\ consoleintr_kill => ConInv' /\ Lines!KillLine
<1> SUFFICES ASSUME ConInv, consoleintr_kill PROVE ConInv' /\ Lines!KillLine
  BY Zenon
<1>1. PICK a, b \in 0..INPUT_BUF :
        /\ a <= b /\ a = Minus(w, r) /\ b = Minus(e, r) /\ b - a = Minus(e, w)
        /\ w = Plus(r, a) /\ e = Plus(r, b) /\ r = Plus(r, 0) /\ r \in Index
        /\ (r = w <=> a = 0) /\ (e = w <=> a = b)
  BY Shape, Zenon DEF ConInv
<1>2. /\ a \in Nat /\ b \in Nat /\ b - a \in Nat /\ b <= INPUT_BUF /\ INPUT_BUF \in Nat
      /\ a \in a..b
  BY <1>1, ConsoleAssumption
<1> DEFINE erasable == {k \in 1..Minus(e, w) : \A j \in 1..k : ring[Slot(Minus(e, j))] # NL}
<1>3. PICK k : /\ k = IF erasable = {} THEN 0 ELSE Max(erasable)
               /\ k > 0 /\ e' = Minus(e, k) /\ Erased(k)
               /\ UNCHANGED <<ring, r, w, rd, slain>>
  BY Zenon DEF consoleintr_kill
<1>4. /\ Between(w, e) \in Seq(Chars) /\ Len(Between(w, e)) = b - a
      /\ \A i \in 1..(b - a) : Between(w, e)[i] = ring[Cell(r, a + i - 1)]
  BY <1>1, Parts, Zenon DEF ConInv
<1>5. ASSUME NEW j \in 1..(b - a) PROVE ring[Slot(Minus(e, j))] # NL
  <2>1. /\ j \in 0..INPUT_BUF /\ j <= b /\ b - j \in Index /\ b - a - j + 1 \in 1..(b - a)
        /\ a + (b - a - j + 1) - 1 = b - j
    BY <1>2, ConsoleAssumption DEF Index
  <2>2. Minus(e, j) = Plus(r, b - j)
    BY <1>1, <2>1, PlaceBack
  <2>3. Slot(Minus(e, j)) = Cell(r, b - j)
    BY Zenon, <1>1, <2>1, <2>2, SlotPlus DEF Cell
  <2>4. Between(w, e)[b - a - j + 1] = ring[Cell(r, b - j)]
    BY Zenon, <1>4, <2>1
  <2>5. Between(w, e)[b - a - j + 1] \notin Ends
    BY Zenon, <1>1, <2>1 DEF ConInv, EditInv
  <2>6. QED
    BY Zenon, <2>3, <2>4, <2>5 DEF Ends
<1>6. k = b - a
  <2>1. erasable # {}
    BY <1>3
  <2>2. b - a > 0
    BY <1>1, <1>2, <2>1
  <2>3. b - a \in erasable /\ erasable \in SUBSET (0..(b - a))
    BY <1>1, <1>2, <1>5, <2>2
  <2> HIDE DEF erasable
  <2>4. Max(erasable) = b - a
    BY Zenon, <1>2, <2>3, MaxIs
  <2>5. QED
    BY Zenon, <1>3, <2>1, <2>4
<1>7. b - a \in 0..INPUT_BUF /\ b - a <= b /\ b - (b - a) = a
  BY <1>2
<1>8. e' = Plus(r, a)
  <2>1. Minus(Plus(r, b), b - a) = Plus(r, b - (b - a))
    BY Zenon, <1>1, <1>7, PlaceBack
  <2>2. QED
    BY Zenon, <1>1, <1>3, <1>6, <1>7, <2>1
<1>9. CursorInv'
  BY Zenon, <1>2, <1>3, <1>6, ErasedCursor DEF ConInv
<1>10. /\ ConInv' /\ Between(r, w)' = Between(r, w)
       /\ Between(w, e)' = SubSeq(Between(w, e), 1, a - a)
  BY <1>1, <1>2, <1>3, <1>8, <1>9, EraseTo, Zenon
<1>11. SubSeq(Between(w, e), 1, a - a) = <<>>
  BY <1>2, <1>4
<1>12. QED
  BY Zenon, <1>10, <1>11 DEF Lines!KillLine

\* The loop of consoleread(): it looks at k characters and takes j of them, all but a
\* ctl-D that comes after others.
LEMMA ReadFacts ==
  ASSUME ConInv, NEW p \in Readers, consoleread_loop(p),
         NEW a \in 0..INPUT_BUF, a = Minus(w, r), w = Plus(r, a), r \in Index,
         r = w <=> a = 0
  PROVE  \E k \in 1..a, j \in 0..a :
           /\ k <= rd[p].n /\ \A i \in 1..(k - 1) : ring[Cell(r, i - 1)] \notin Ends
           /\ IF ring[Cell(r, k - 1)] = EOT /\ (k > 1 \/ rd[p].n < rd[p].target)
              THEN j = k - 1 ELSE j = k
           /\ ring[Cell(r, k - 1)] \notin Ends /\ k # rd[p].n => k = a
           /\ r' = Plus(r, j)
           /\ rd' = IF ring[Cell(r, k - 1)] \in Ends \/ k = rd[p].n \/ p \in slain THEN Idled(p)
                    ELSE [rd EXCEPT ![p].n = @ - k, ![p].pc = "drowsy"]
<1> DEFINE at(i) == ring[Slot(Plus(r, i - 1))]
           m == Min({rd[p].n, Minus(w, r)})
           stops == {i \in 1..m : at(i) \in Ends}
           k == IF stops = {} THEN m ELSE Min(stops)
           eof == at(k) = EOT
           kept == TRUE /\ eof /\ (k > 1 \/ rd[p].n < rd[p].target)
<1>1. /\ rd[p].pc = "read" /\ r # w /\ r' = Plus(r, IF kept THEN k - 1 ELSE k)
      /\ rd' = IF at(k) \in Ends \/ k = rd[p].n \/ p \in slain THEN Idled(p)
               ELSE [rd EXCEPT ![p].n = @ - k, ![p].pc = "drowsy"]
  BY Zenon DEF consoleread_loop, read_ring
<1>2. /\ rd[p].n \in Nat /\ rd[p].n > 0 /\ a \in Nat /\ a > 0 /\ a <= INPUT_BUF
      /\ INPUT_BUF \in Nat /\ UintMod \in Nat /\ UintMod > INPUT_BUF
  <2>1. rd[p] \in Reading
    BY Zenon, <1>1 DEF ConInv, RingType
  <2>2. rd[p].n \in Nat \ {0}
    BY Zenon, <2>1 DEF Reading
  <2>3. a \in Nat /\ a > 0 /\ a <= INPUT_BUF /\ INPUT_BUF \in Nat /\ UintMod \in Nat
    BY <1>1, ConsoleAssumption
  <2>4. QED
    BY SMTT(30), <2>2, <2>3, ConsoleAssumption
<1>3. m \in Nat /\ m > 0 /\ m <= a /\ m <= rd[p].n /\ (m = a \/ m = rd[p].n)
  <2>1. PICK n : n = rd[p].n
    BY Zenon
  <2>2. {n, a} \in SUBSET (0..(n + a)) /\ {n, a} # {} /\ n + a \in Nat
    BY <1>2, <2>1
  <2>3. Min({n, a}) \in {n, a} /\ \A i \in {n, a} : Min({n, a}) <= i
    BY Zenon, <2>2, MinIs
  <2>4. QED
    BY Zenon, <1>2, <2>1, <2>3
<1>4. ASSUME NEW i \in 1..a PROVE at(i) = ring[Cell(r, i - 1)]
  <2>1. i - 1 \in Index
    BY <1>2 DEF Index
  <2>2. QED
    BY Zenon, <2>1, SlotPlus DEF Cell
<1> HIDE DEF m
<1>5. stops # {} => Min(stops) \in stops /\ \A i \in stops : Min(stops) <= i
  <2>1. stops \in SUBSET (0..m)
    BY <1>3
  <2> HIDE DEF stops
  <2>2. QED
    BY Zenon, <1>3, <2>1, MinIs
<1> HIDE DEF at
<1>6. k \in Nat /\ k > 0 /\ k <= m /\ k \in 1..a /\ (k = m \/ at(k) \in Ends)
  <2>1. CASE stops = {}
    BY <1>2, <1>3, <2>1
  <2>2. CASE stops # {}
    <3>1. Min(stops) \in 1..m /\ at(Min(stops)) \in Ends
      BY Zenon, <1>5, <2>2
    <3>2. QED
      BY <1>2, <1>3, <2>2, <3>1
  <2>3. QED
    BY Zenon, <2>1, <2>2
<1>7. ASSUME NEW i \in 1..(k - 1) PROVE at(i) \notin Ends
  <2>1. i \in 1..m /\ i < k
    BY <1>3, <1>6
  <2>2. CASE stops = {}
    BY Zenon, <2>1, <2>2
  <2>3. CASE stops # {}
    <3>1. k \in Nat /\ \A l \in stops : k <= l
      BY Zenon, <1>5, <1>6, <2>3
    <3>2. i \notin stops
      BY <2>1, <3>1
    <3>3. QED
      BY Zenon, <2>1, <3>2
  <2>4. QED
    BY Zenon, <2>2, <2>3
<1> PICK k0 : k0 = k
  BY Zenon
<1> PICK j0 : j0 = IF kept THEN k - 1 ELSE k
  BY Zenon
<1>8. /\ r' = Plus(r, j0)
      /\ rd' = IF at(k0) \in Ends \/ k0 = rd[p].n \/ p \in slain THEN Idled(p)
               ELSE [rd EXCEPT ![p].n = @ - k0, ![p].pc = "drowsy"]
      /\ j0 = IF at(k0) = EOT /\ (k0 > 1 \/ rd[p].n < rd[p].target) THEN k0 - 1 ELSE k0
  BY Zenon, <1>1
<1>9. /\ k0 \in Nat /\ k0 > 0 /\ k0 <= m /\ k0 \in 1..a /\ (k0 = m \/ at(k0) \in Ends)
      /\ \A i \in 1..(k0 - 1) : at(i) \notin Ends
  BY Zenon, <1>6, <1>7
<1> HIDE DEF k, kept
<1>10. j0 \in 0..a /\ k0 <= rd[p].n
  BY <1>2, <1>3, <1>8, <1>9
<1>11. at(k0) = ring[Cell(r, k0 - 1)]
  BY Zenon, <1>4, <1>9
<1>12. \A i \in 1..(k0 - 1) : ring[Cell(r, i - 1)] \notin Ends
  <2>1. \A i \in 1..(k0 - 1) : i \in 1..a
    BY <1>2, <1>9
  <2>2. QED
    BY Zenon, <1>4, <1>9, <2>1
<1>13. at(k0) \notin Ends /\ k0 # rd[p].n => k0 = a
  BY Zenon, <1>3, <1>9
<1>14. QED
  BY <1>8, <1>9, <1>10, <1>11, <1>12, <1>13, ZenonT(40)

\* The step of EofAlone.
EofStep == \A p \in Readers :
             rd'[p] # rd[p] /\ r' # r /\ ring[Slot(Minus(r', 1))] = EOT =>
               rd[p].n = rd[p].target /\ r' = Plus(r, 1)

LEMMA ReadStep ==
  ASSUME ConInv, NEW p \in Readers, consoleread_loop(p)
  PROVE  ConInv' /\ [Lines!Read]_<<Between(r, w), Between(w, e)>> /\ EofStep
<1>1. PICK a, b \in 0..INPUT_BUF :
        /\ a <= b /\ a = Minus(w, r) /\ b = Minus(e, r) /\ b - a = Minus(e, w)
        /\ w = Plus(r, a) /\ e = Plus(r, b) /\ r = Plus(r, 0) /\ r \in Index
        /\ (r = w <=> a = 0) /\ (e = w <=> a = b)
  BY Shape, Zenon DEF ConInv
<1>2. PICK k \in 1..a, j \in 0..a :
        /\ k <= rd[p].n /\ \A i \in 1..(k - 1) : ring[Cell(r, i - 1)] \notin Ends
        /\ IF ring[Cell(r, k - 1)] = EOT /\ (k > 1 \/ rd[p].n < rd[p].target)
           THEN j = k - 1 ELSE j = k
        /\ ring[Cell(r, k - 1)] \notin Ends /\ k # rd[p].n => k = a
        /\ r' = Plus(r, j)
        /\ rd' = IF ring[Cell(r, k - 1)] \in Ends \/ k = rd[p].n \/ p \in slain THEN Idled(p)
                 ELSE [rd EXCEPT ![p].n = @ - k, ![p].pc = "drowsy"]
  BY <1>1, ReadFacts, Zenon
<1>3. /\ r # w /\ rd[p].pc = "read" /\ Unlocked /\ UNCHANGED <<ring, w, e, slain, pos>>
  BY Zenon DEF consoleread_loop, read_ring
<1>4. /\ RingType /\ TargetInv /\ EditInv /\ ReadersWoken /\ CursorInv
      /\ ring' \in [0..(INPUT_BUF - 1) -> Chars]
      /\ rd \in [Readers -> [pc : {"idle"}] \cup Reading]
      /\ rd[p] \in Reading /\ rd[p].n <= rd[p].target
  BY Zenon, <1>3 DEF ConInv, RingType, TargetInv
<1>5. /\ INPUT_BUF \in Nat /\ a \in Nat /\ b \in Nat /\ a > 0 /\ b <= INPUT_BUF /\ a <= b
      /\ k \in Nat /\ j \in Nat /\ j \in 0..INPUT_BUF /\ j <= a /\ a - j \in Nat /\ b - j \in Nat
      /\ rd[p].n \in Nat /\ rd[p].target \in Nat
  BY SMTT(30), <1>1, <1>3, <1>4, ConsoleAssumption DEF Reading
<1>6. w' = Plus(r, a) /\ e' = Plus(r, b) /\ r' = Plus(r, j)
  BY Zenon, <1>1, <1>2, <1>3
<1>7. /\ IndexInv' /\ (r' = w' <=> j = a)
      /\ Minus(w, r)' = a - j /\ Minus(e, r)' = b - j /\ Minus(e, w)' = b - a
  BY <1>1, <1>5, <1>6, ShapeNext
<1>8. PICK lines, edit, lines1, edit1 : /\ lines = Between(r, w) /\ edit = Between(w, e)
                                        /\ lines1 = Between(r, w)' /\ edit1 = Between(w, e)'
  BY Zenon
<1>9. /\ lines \in Seq(Chars) /\ Len(lines) = a
      /\ \A n \in 1..a : lines[n] = ring[Cell(r, n - 1)]
  BY <1>1, <1>4, <1>8, Parts, Zenon
<1>10. lines1 \in Seq(Chars) /\ Len(lines1) = a - j
  <2>1. Between(r, w)' \in Seq(Chars) /\ Len(Between(r, w)') = a - j
    BY Zenon, <1>1, <1>4, <1>5, <1>6, PartsNext
  <2>2. QED
    BY Zenon, <1>8, <2>1
<1>11. \A n \in 1..(a - j) : lines1[n] = ring[Cell(r, j + n - 1)]
  <2>1. \A n \in 1..(a - j) : Between(r, w)'[n] = ring'[Cell(r, j + n - 1)]
    BY Zenon, <1>1, <1>4, <1>5, <1>6, PartsNext
  <2>2. QED
    BY Zenon, <1>3, <1>8, <2>1
<1>12. edit1 = edit
  BY Zenon, <1>3, <1>8 DEF Between, Minus, Plus, Slot
<1>13. EditInv'
  BY Zenon, <1>1, <1>4, <1>7, <1>8, <1>12 DEF EditInv
<1>14. lines1 = SubSeq(lines, j + 1, Len(lines))
  <2>1. /\ SubSeq(lines, j + 1, a) \in Seq(Chars) /\ Len(SubSeq(lines, j + 1, a)) = a - j
        /\ \A n \in 1..(a - j) : SubSeq(lines, j + 1, a)[n] = lines[j + n]
    <3>1. lines \in Seq(Chars) /\ a \in Nat /\ j \in Nat /\ Len(lines) = a /\ j <= a
      BY Zenon, <1>5, <1>9
    <3>2. QED
      BY <3>1, RestOf
  <2>2. \A n \in 1..(a - j) : j + n \in 1..a
    BY <1>5
  <2>3. ASSUME NEW n \in 1..(a - j) PROVE lines1[n] = SubSeq(lines, j + 1, a)[n]
    <3>1. PICK i \in 1..a : i = j + n
      BY Zenon, <2>2
    <3>2. lines[i] = ring[Cell(r, i - 1)]
      BY Zenon, <1>9
    <3>3. lines1[n] = ring[Cell(r, i - 1)]
      BY <1>11, <3>1
    <3>4. SubSeq(lines, j + 1, a)[n] = lines[i]
      BY <2>1, <3>1, Zenon
    <3>5. QED
      BY Zenon, <3>2, <3>3, <3>4
  <2>4. QED
    BY Zenon, <1>9, <1>10, <2>1, <2>3, SameSeq
<1>15. [Lines!Read]_<<Between(r, w), Between(w, e)>>
  <2>1. CASE j = 0
    <3>1. SubSeq(lines, 1, Len(lines)) = lines
      BY <1>9
    <3>2. QED
      BY SMTT(30), <1>8, <1>12, <1>14, <2>1, <3>1
  <2>2. CASE j # 0
    <3>0. j <= k
      BY SMTT(30), <1>2, <1>5
    <3>1. j \in 1..Len(lines) /\ \A i \in 1..(j - 1) : i \in 1..(k - 1) /\ i \in 1..a
      BY SMTT(30), <1>5, <1>9, <2>2, <3>0
    <3>2. \A i \in 1..(j - 1) : lines[i] \notin Ends
      BY Zenon, <1>2, <1>9, <3>1
    <3>3. QED
      BY Zenon, <1>8, <1>12, <1>14, <3>1, <3>2 DEF Lines!Read
  <2>3. QED
    BY Zenon, <2>1, <2>2
<1>16. /\ \A q \in Readers \ {p} : rd'[q] = rd[q]
       /\ \/ rd'[p] = [pc |-> "idle"]
          \/ /\ rd'[p] = [rd[p] EXCEPT !.n = @ - k, !.pc = "drowsy"]
             /\ ring[Cell(r, k - 1)] \notin Ends /\ k # rd[p].n
       /\ DOMAIN rd' = Readers /\ rd' = [q \in Readers |-> rd'[q]]
  BY Zenon, <1>2, <1>4 DEF Idled
<1>17. /\ rd'[p] \in [pc : {"idle"}] \cup Reading
       /\ rd'[p].pc # "idle" => rd'[p].n <= rd'[p].target /\ j = a
  <2>1. CASE rd'[p] = [pc |-> "idle"]
    BY <2>1
  <2>2. CASE /\ rd'[p] = [rd[p] EXCEPT !.n = @ - k, !.pc = "drowsy"]
             /\ ring[Cell(r, k - 1)] \notin Ends /\ k # rd[p].n
    <3>1. j = a
      BY Zenon, <1>2, <2>2 DEF Ends
    <3>2. rd[p].n - k \in Nat \ {0} /\ rd[p].n - k <= rd[p].target
      <4>1. k <= rd[p].n /\ k # rd[p].n
        BY Zenon, <1>2, <2>2
      <4>2. PICK n, t : n = rd[p].n /\ t = rd[p].target
        BY Zenon
      <4>3. n \in Nat /\ t \in Nat /\ n <= t /\ k <= n /\ k # n
        BY Zenon, <1>4, <1>5, <4>1, <4>2
      <4>4. n - k \in Nat \ {0} /\ n - k <= t
        BY <1>5, <4>3
      <4>5. QED
        BY Zenon, <4>2, <4>4
    <3>3. QED
      BY Zenon, <1>4, <2>2, <3>1, <3>2 DEF Reading
  <2>3. QED
    BY Zenon, <1>16, <2>1, <2>2
<1>18. RingType' /\ TargetInv'
  <2>1. \A q \in Readers : /\ rd'[q] \in [pc : {"idle"}] \cup Reading
                           /\ rd'[q].pc # "idle" => rd'[q].n <= rd'[q].target
    BY ZenonT(40), <1>4, <1>16, <1>17 DEF TargetInv
  <2>2. QED
    BY Zenon, <1>4, <1>16, <2>1 DEF RingType, TargetInv
<1>19. ReadersWoken'
  <2>1. \A q \in Readers : rd'[q].pc \in {"drowsy", "asleep"} => r' = w'
    BY Zenon, <1>3, <1>4, <1>7, <1>16, <1>17 DEF ReadersWoken
  <2>2. b - j = INPUT_BUF => b = INPUT_BUF
    BY SMTT(30), <1>5
  <2>3. Minus(e, r)' = INPUT_BUF => w' = e'
    BY Zenon, <1>1, <1>3, <1>4, <1>7, <2>2 DEF ReadersWoken
  <2>4. QED
    BY Zenon, <2>1, <2>3 DEF ReadersWoken
<1>20. EofStep
  <2> SUFFICES ASSUME NEW q \in Readers, rd'[q] # rd[q], r' # r, ring[Slot(Minus(r', 1))] = EOT
               PROVE  rd[q].n = rd[q].target /\ r' = Plus(r, 1)
    BY Zenon DEF EofStep
  <2>1. q = p
    BY Zenon, <1>16
  <2>2. j > 0 /\ j - 1 \in Index /\ 1 \in 0..INPUT_BUF /\ 1 <= j
    BY SMTT(30), <1>1, <1>2, <1>5, ConsoleAssumption DEF Index
  <2>3. Minus(r', 1) = Plus(r, j - 1)
    BY Zenon, <1>1, <1>5, <1>6, <2>2, PlaceBack
  <2>4. ring[Cell(r, j - 1)] = EOT
    BY Zenon, <1>1, <2>2, <2>3, SlotPlus DEF Cell
  <2>5. j = k
    <3>1. j = k - 1 => j \in 1..(k - 1)
      BY <1>5, <2>2
    <3>2. QED
      BY Zenon, <1>2, <2>4, <3>1 DEF Ends
  <2>6. k = 1 /\ ~(rd[p].n < rd[p].target)
    BY SMTT(30), <1>2, <1>5, <2>2, <2>4, <2>5
  <2>7. r' = Plus(r, 1)
    BY Zenon, <1>6, <2>5, <2>6
  <2>8. rd[p].n = rd[p].target
    BY SMTT(30), <1>4, <1>5, <2>6
  <2>9. QED
    BY Zenon, <2>1, <2>7, <2>8
<1>21. CursorInv'
  BY Zenon, <1>3, <1>4 DEF CursorInv
<1>22. QED
  BY Zenon, <1>7, <1>13, <1>15, <1>18, <1>19, <1>20, <1>21 DEF ConInv

\* Steps that leave the ring alone.
LEMMA QuietStep ==
  ASSUME ConInv, UNCHANGED <<ring, r, w, e>>, CursorInv',
         rd' \in [Readers -> [pc : {"idle"}] \cup Reading], TargetInv',
         \A p \in Readers : rd'[p].pc \in {"drowsy", "asleep"} => r = w
  PROVE  ConInv' /\ UNCHANGED <<Between(r, w), Between(w, e)>>
<1>1. UNCHANGED <<Between(r, w), Between(w, e)>> /\ UNCHANGED Minus(e, w) /\ UNCHANGED Minus(e, r)
  BY Zenon DEF Between, Minus, Plus, Slot
<1>2. RingType' /\ IndexInv'
  BY Zenon DEF ConInv, RingType, IndexInv, Minus
<1>3. EditInv'
  BY Zenon, <1>1 DEF ConInv, EditInv
<1>4. ReadersWoken'
  BY Zenon, <1>1 DEF ConInv, ReadersWoken
<1>5. QED
  BY Zenon, <1>1, <1>2, <1>3, <1>4 DEF ConInv

LEMMA OtherSteps ==
  ASSUME ConInv, NEW p,
         \/ /\ p \in Readers
            /\ consoleread(p) \/ consoleread_empty(p) \/ consoleread_sleep(p) \/ kill_reader(p)
         \/ consolewrite \/ UNCHANGED convars
  PROVE  ConInv' /\ UNCHANGED <<Between(r, w), Between(w, e)>> /\ UNCHANGED r
<1>1. /\ rd \in [Readers -> [pc : {"idle"}] \cup Reading] /\ CursorInv /\ TargetInv
      /\ \A q \in Readers : rd[q].pc \in {"drowsy", "asleep"} => r = w
  BY Zenon DEF ConInv, RingType, ReadersWoken
<1>2. CASE p \in Readers /\ consoleread(p)
  <2>1. PICK n \in ReadLens : rd' = [rd EXCEPT ![p] = [pc |-> "read", n |-> n, target |-> n]]
    BY Zenon, <1>2 DEF consoleread
  <2>2. n \in Nat \ {0} /\ n <= n
    BY ConsoleAssumption
  <2>3. [pc |-> "read", n |-> n, target |-> n] \in Reading
    BY Zenon, <2>2 DEF Reading
  <2>4. rd' \in [Readers -> [pc : {"idle"}] \cup Reading]
    BY Zenon, <1>1, <1>2, <2>1, <2>3
  <2>5. TargetInv' /\ \A q \in Readers : rd'[q].pc \in {"drowsy", "asleep"} => r = w
    BY Zenon, <1>1, <1>2, <2>1, <2>2 DEF TargetInv
  <2>6. UNCHANGED <<ring, r, w, e>> /\ CursorInv'
    BY Zenon, <1>1, <1>2 DEF consoleread, CursorInv
  <2>7. QED
    BY Zenon, <2>4, <2>5, <2>6, QuietStep
<1>3. ASSUME NEW s \in {"read", "drowsy", "asleep"}, p \in Readers, rd[p].pc # "idle",
             rd' = [rd EXCEPT ![p].pc = s], s # "read" => r = w,
             UNCHANGED <<ring, r, w, e, pos>>
      PROVE  ConInv' /\ UNCHANGED <<Between(r, w), Between(w, e)>> /\ UNCHANGED r
  <2>1. rd[p] \in Reading
    BY Zenon, <1>1, <1>3
  <2>2. [rd[p] EXCEPT !.pc = s] \in Reading
    BY Zenon, <2>1 DEF Reading
  <2>3. rd' \in [Readers -> [pc : {"idle"}] \cup Reading]
    BY Zenon, <1>1, <1>3, <2>2
  <2>4. /\ rd'[p].pc = s /\ rd'[p].n = rd[p].n /\ rd'[p].target = rd[p].target
        /\ \A q \in Readers \ {p} : rd'[q] = rd[q]
    BY Zenon, <1>1, <1>3, <2>1 DEF Reading
  <2>5. TargetInv' /\ \A q \in Readers : rd'[q].pc \in {"drowsy", "asleep"} => r = w
    BY Zenon, <1>1, <1>3, <2>4 DEF TargetInv
  <2>6. CursorInv'
    BY Zenon, <1>1, <1>3 DEF CursorInv
  <2>7. QED
    BY Zenon, <1>3, <2>3, <2>5, <2>6, QuietStep
<1>4. CASE p \in Readers /\ consoleread_empty(p)
  <2>1. CASE p \in slain
    <3>1. rd' = [rd EXCEPT ![p] = [pc |-> "idle"]] /\ UNCHANGED <<ring, r, w, e, pos>>
      BY Zenon, <1>4, <2>1 DEF consoleread_empty, Idled
    <3>2. /\ rd' \in [Readers -> [pc : {"idle"}] \cup Reading] /\ TargetInv' /\ CursorInv'
          /\ \A q \in Readers : rd'[q].pc \in {"drowsy", "asleep"} => r = w
      BY Zenon, <1>1, <1>4, <3>1 DEF TargetInv, CursorInv
    <3>3. QED
      BY Zenon, <3>1, <3>2, QuietStep
  <2>2. CASE p \notin slain
    BY Zenon, <1>3, <1>4, <2>2 DEF consoleread_empty
  <2>3. QED
    BY Zenon, <2>1, <2>2
<1>5. CASE p \in Readers /\ consoleread_sleep(p)
  BY Zenon, <1>1, <1>3, <1>5 DEF consoleread_sleep
<1>6. ASSUME rd' = rd, UNCHANGED <<ring, r, w, e>>, CursorInv'
      PROVE  ConInv' /\ UNCHANGED <<Between(r, w), Between(w, e)>> /\ UNCHANGED r
  BY Zenon, <1>1, <1>6, QuietStep DEF TargetInv
<1>7. CASE p \in Readers /\ kill_reader(p)
  <2>1. CASE rd[p].pc = "asleep"
    BY Zenon, <1>3, <1>7, <2>1 DEF kill_reader
  <2>2. CASE rd[p].pc # "asleep"
    BY Zenon, <1>1, <1>6, <1>7, <2>2 DEF kill_reader, CursorInv
  <2>3. QED
    BY Zenon, <2>1, <2>2
<1>8. CASE consolewrite
  <2>1. CursorInv'
    BY Zenon, <1>1, <1>8, CursorStays DEF consolewrite, CursorInv
  <2>2. QED
    BY Zenon, <1>6, <1>8, <2>1 DEF consolewrite
<1>9. CASE UNCHANGED convars
  BY Zenon, <1>1, <1>6, <1>9 DEF convars, CursorInv
<1>10. QED
  BY Zenon, <1>2, <1>4, <1>5, <1>7, <1>8, <1>9

LEMMA NextStep ==
  ConInv /\ [ConsoleNext]_convars =>
    ConInv' /\ [Lines!Next]_<<Between(r, w), Between(w, e)>> /\ [EofStep]_convars
<1> SUFFICES ASSUME ConInv, [ConsoleNext]_convars
             PROVE  ConInv' /\ [Lines!Next]_<<Between(r, w), Between(w, e)>> /\ (EofStep \/ UNCHANGED convars)
  BY Zenon
<1>1. ASSUME NEW c \in Letters \cup Ends, consoleintr(c)
      PROVE  ConInv' /\ Lines!Next /\ EofStep
  <2>1. r' = r
    BY Zenon, <1>1 DEF consoleintr, input_char
  <2>2. ConInv' /\ Lines!Type(c)
    BY Zenon, <1>1, TypeStep DEF Chars
  <2>3. QED
    BY Zenon, <2>1, <2>2 DEF Lines!Next, EofStep
<1>2. CASE consoleintr_backspace \/ consoleintr_kill
  <2>1. r' = r
    BY Zenon, <1>2 DEF consoleintr_backspace, consoleintr_kill
  <2>2. ConInv' /\ (Lines!Erase \/ Lines!KillLine)
    BY Zenon, <1>2, BackspaceStep, KillStep
  <2>3. QED
    BY Zenon, <2>1, <2>2 DEF Lines!Next, EofStep
<1>3. CASE consolewrite \/ UNCHANGED convars
  BY Zenon, <1>3, OtherSteps DEF EofStep
<1>4. ASSUME NEW p \in Readers,
             consoleread(p) \/ consoleread_empty(p) \/ consoleread_sleep(p) \/ kill_reader(p)
      PROVE  ConInv' /\ UNCHANGED <<Between(r, w), Between(w, e)>> /\ EofStep
  BY Zenon, <1>4, OtherSteps DEF EofStep
<1>5. ASSUME NEW p \in Readers, consoleread_loop(p)
      PROVE  ConInv' /\ [Lines!Next]_<<Between(r, w), Between(w, e)>> /\ EofStep
  BY Zenon, <1>5, ReadStep DEF Lines!Next
<1>6. QED
  BY <1>1, <1>2, <1>3, <1>4, <1>5, Zenon DEF ConsoleNext

LEMMA InitStep == ConsoleInit => ConInv /\ Lines!Init
<1> SUFFICES ASSUME ConsoleInit PROVE ConInv /\ Lines!Init
  BY Zenon
<1>1. /\ 0 \in Index /\ Minus(0, 0) = 0 /\ INPUT_BUF \in Nat /\ INPUT_BUF > 0
  <2>1. 0 \in Index
    BY ConsoleAssumption DEF Index
  <2>2. QED
    BY <2>1, MinusIs, ConsoleAssumption
<1>2. r = 0 /\ w = 0 /\ e = 0 /\ pos = 0
  BY Zenon DEF ConsoleInit
<1>3. /\ Minus(w, r) = 0 /\ Minus(e, r) = 0 /\ Minus(e, w) = 0
  BY Zenon, <1>1, <1>2
<1>4. IndexInv /\ EditInv
  BY SMTT(30), <1>1, <1>2, <1>3 DEF IndexInv, EditInv, Index
<1>5. RingType /\ TargetInv /\ ReadersWoken
  BY Zenon, <1>1, <1>3 DEF ConsoleInit, RingType, TargetInv, ReadersWoken, Chars, Ends
<1>6. CursorInv
  <2>1. (ROWS - 1) * COLS >= 1 /\ (ROWS - 1) * COLS \in Nat
    <3>1. ROWS - 1 \in Nat /\ ROWS - 1 > 0 /\ COLS \in Nat /\ COLS > 0
      BY ConsoleAssumption
    <3>2. QED
      BY <3>1, Z3
  <2>2. QED
    BY <1>2, <2>1 DEF CursorInv
<1>7. Lines!Init
  BY <1>3 DEF Lines!Init, Between
<1>8. QED
  BY Zenon, <1>4, <1>5, <1>6, <1>7 DEF ConInv

\* The ring's indices stay in order and within one lap, the cursor on the screen, and a
\* sleeping reader of consoleread() has nothing to read, through every step of console.c.
THEOREM ConsoleInvariant == ConsoleSpec => []ConInv
<1>1. ConsoleInit => ConInv
  BY Zenon, InitStep
<1>2. ConInv /\ [ConsoleNext]_convars => ConInv'
  BY Zenon, NextStep
<1>3. QED
  BY <1>1, <1>2, PTL DEF ConsoleSpec

\* consoleintr() against consoleread(): whatever is typed and whoever reads, the indices
\* stay in order round both wraps, no reader sleeps with something to read, a full ring
\* can be read, and cgaputc() keeps the cursor on the screen.
THEOREM ConsoleIsSound == ConsoleSpec => []ConsoleSound
<1>1. ConInv => ConsoleSound
  BY Zenon DEF ConInv, IndexInv, CursorInv, ConsoleSound, ConsoleTypeOK
<1>2. QED
  BY <1>1, ConsoleInvariant, PTL

\* consoleread() returns a ctl-D to no reader that got other characters in the same read.
THEOREM EofIsAlone == ConsoleSpec => EofAlone
<1>1. ConInv /\ [ConsoleNext]_convars => [EofStep]_convars
  BY Zenon, NextStep
<1>2. QED
  BY <1>1, ConsoleInvariant, PTL DEF ConsoleSpec, EofAlone, EofStep

\* The ring with its wrapping indices implements a line editor (consoleintr(),
\* consoleread()): what is typed is read once and in order, a line at a time, and only
\* a line that is not finished can be erased.
THEOREM ConsoleIsLines == ConsoleSpec => ImplementsLines
<1>1. ConsoleInit => Lines!Init
  BY Zenon, InitStep
<1>2. ConInv /\ [ConsoleNext]_convars => [Lines!Next]_<<Between(r, w), Between(w, e)>>
  BY Zenon, NextStep
<1>3. QED
  BY <1>1, <1>2, ConsoleInvariant, PTL DEF ConsoleSpec, ImplementsLines, Lines!Spec
=============================================================================
