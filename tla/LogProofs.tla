------------------------------ MODULE LogProofs ------------------------------
(***************************************************************************)
(* Proofs about Log.tla: for any number of processes and blocks, the       *)
(* reservation of begin_op() bounds the log, commits are quiescent, and    *)
(* the log implements AtomicDisk.                                          *)
(***************************************************************************)
EXTENDS Log, FiniteSetTheorems, TLAPS

(***************************************************************************)
(* The inductive invariant.  ControlInv says who may be where and counts   *)
(* the reservations; DataInv relates cache, log blocks and home blocks in  *)
(* each phase of a commit and of recovery.                                 *)
(***************************************************************************)
Logged(h) == {h[i] : i \in 1 .. Len(h)}
Injective(h) == \A i, j \in 1 .. Len(h) : h[i] = h[j] => i = j

\* One token for each block that the calls in A may still add to the log.
TokensOf(A, w) == {t \in Procs \X (1 .. MAXOPBLOCKS) :
                      t[1] \in A /\ t[2] > Cardinality(w[t[1]])}
Reserved == Len(lh) + Cardinality(TokensOf(Active, wrote)) <= LOGSIZE

OpInv(p) == p \in Active =>
    /\ wrote[p] \subseteq Logged(lh)
    /\ Cardinality(wrote[p]) <= OpBlocks
    /\ pc[p] = "append" => /\ hold[p] \in Home
                           /\ Cardinality(wrote[p] \cup {hold[p]}) <= OpBlocks

PhaseInv(p) ==
    /\ pc[p] = "write_log"  => tail < Len(lh)
    /\ pc[p] = "write_head" => Len(lh) > 0
    /\ pc[p] = "install"    => tail < Len(lh) /\ dhead = lh
    /\ pc[p] = "erase"      => dhead = lh
    /\ pc[p] = "finish"     => lh = <<>>
    /\ pc[p] \in {"write_log", "write_head", "finish"} => dhead = <<>>

CommitInv == /\ committing = 1 => Active = {}
             /\ committing = 1 <=> Committers # {}
             /\ \A p, q \in Committers : p = q
             /\ mode # "run" => Active = {} /\ Committers = {}

HeadInv == /\ mode = "run" /\ Committers = {} => dhead = <<>>
           /\ mode = "install" => tail < Len(lh)
           /\ mode \in {"install", "erase"} => lh = dhead
           /\ Injective(lh) /\ Injective(dhead)

ControlInv == /\ TypeOK
              /\ outstanding = Cardinality(Active)
              /\ CommitInv
              /\ HeadInv
              /\ Reserved
              /\ \A p \in Procs : OpInv(p) /\ PhaseInv(p)
-----------------------------------------------------------------------------
(***************************************************************************)
(* Counting.                                                               *)
(***************************************************************************)
LEMMA HomeFinite == /\ IsFiniteSet(Home)
                    /\ \A S \in SUBSET Home : /\ IsFiniteSet(S)
                                              /\ Cardinality(S) \in Nat
<1>1. IsFiniteSet(Home)
  BY FS_Interval, LogAssumption DEF Home, size
<1>2. QED
  BY Zenon, <1>1, FS_Subset, FS_CardinalityType

LEMMA EmptyLog == /\ <<>> \in Seq(Home)
                  /\ Len(<<>>) = 0
                  /\ \A h \in Seq(Home) : Len(h) \in Nat /\ (Len(h) = 0 => h = <<>>)
OBVIOUS

LEMMA TokensFinite ==
    ASSUME NEW A \in SUBSET Procs, NEW w
    PROVE  /\ IsFiniteSet(A)
           /\ Cardinality(A) \in Nat
           /\ IsFiniteSet(TokensOf(A, w))
           /\ Cardinality(TokensOf(A, w)) \in Nat
           /\ Cardinality(TokensOf(A, w)) <= Cardinality(A) * MAXOPBLOCKS
<1>1. IsFiniteSet(A) /\ Cardinality(A) \in Nat
  BY Zenon, FS_Subset, FS_CardinalityType, LogAssumption
<1>2. IsFiniteSet(1 .. MAXOPBLOCKS) /\ Cardinality(1 .. MAXOPBLOCKS) = MAXOPBLOCKS
  BY FS_Interval, LogAssumption
<1>3. /\ IsFiniteSet(A \X (1 .. MAXOPBLOCKS))
      /\ Cardinality(A \X (1 .. MAXOPBLOCKS)) = Cardinality(A) * MAXOPBLOCKS
  BY <1>1, <1>2, FS_Product, Zenon
<1>4. TokensOf(A, w) \in SUBSET (A \X (1 .. MAXOPBLOCKS))
  BY Zenon DEF TokensOf
<1>5. QED
  BY Zenon, <1>1, <1>3, <1>4, FS_Subset, FS_CardinalityType

LEMMA TokensShrink ==
    ASSUME NEW A \in SUBSET Procs, NEW w, NEW B \in SUBSET Procs, NEW v,
           TokensOf(B, v) \subseteq TokensOf(A, w)
    PROVE  Cardinality(TokensOf(B, v)) <= Cardinality(TokensOf(A, w))
BY Zenon, TokensFinite, FS_Subset

LEMMA TokenSpent ==
    ASSUME NEW A \in SUBSET Procs, NEW w \in [Procs -> SUBSET Home],
           NEW p \in A, NEW b \in Home, b \notin w[p],
           Cardinality(w[p] \cup {b}) <= MAXOPBLOCKS
    PROVE  Cardinality(TokensOf(A, [w EXCEPT ![p] = @ \cup {b}]))
             <= Cardinality(TokensOf(A, w)) - 1
<1> DEFINE n == Cardinality(w[p])
           x == <<p, n + 1>>
           v == [w EXCEPT ![p] = @ \cup {b}]
<1>1. n \in Nat /\ Cardinality(w[p] \cup {b}) = n + 1
  BY Zenon, HomeFinite, FS_AddElement
<1>2. x \in TokensOf(A, w)
  BY <1>1, LogAssumption DEF TokensOf
<1>3. TokensOf(A, v) \subseteq TokensOf(A, w) \ {x}
  <2> SUFFICES ASSUME NEW t \in TokensOf(A, v)
               PROVE  t \in TokensOf(A, w) /\ t # x
    BY Zenon
  <2>1. /\ t \in Procs \X (1 .. MAXOPBLOCKS)
        /\ t[1] \in A /\ t[2] > Cardinality(v[t[1]])
    BY Zenon DEF TokensOf
  <2>2. CASE t[1] = p
    <3>1. t[2] > n + 1
      BY <2>1, <2>2, <1>1, Zenon
    <3>2. QED
      BY <2>1, <2>2, <3>1, <1>1 DEF TokensOf
  <2>3. CASE t[1] # p
    BY <2>1, <2>3 DEF TokensOf
  <2>4. QED
    BY Zenon, <2>2, <2>3
<1>4. IsFiniteSet(TokensOf(A, w)) /\ Cardinality(TokensOf(A, w)) \in Nat
  BY Zenon, TokensFinite
<1>5. /\ IsFiniteSet(TokensOf(A, w) \ {x})
      /\ Cardinality(TokensOf(A, w) \ {x}) = Cardinality(TokensOf(A, w)) - 1
  <2> DEFINE T == TokensOf(A, w)
  <2> HIDE DEF T, x
  <2>1. IsFiniteSet(T) /\ x \in T
    BY Zenon, <1>2, <1>4 DEF T
  <2>2. IsFiniteSet(T \ {x}) /\ Cardinality(T \ {x}) = Cardinality(T) - 1
    BY <2>1, FS_RemoveElement, Zenon
  <2>3. QED
    BY Zenon, <2>2 DEF T
<1>6. Cardinality(TokensOf(A, v)) <= Cardinality(TokensOf(A, w) \ {x})
  BY <1>3, <1>5, FS_Subset, Zenon
<1>7. QED
  BY Zenon, <1>5, <1>6
-----------------------------------------------------------------------------
(***************************************************************************)
(* ControlInv is inductive.                                                *)
(***************************************************************************)
LEMMA ControlInit == Init => ControlInv
<1> SUFFICES ASSUME Init PROVE ControlInv
  BY Zenon
<1>1. Active = {} /\ Committers = {}
  BY Zenon DEF Init, Active, Committers
<1>2. TypeOK
  <2>1. /\ lh \in Seq(Home) /\ Len(lh) <= LOGSIZE
        /\ dhead \in Seq(Home) /\ Len(dhead) <= LOGSIZE
    BY LogAssumption DEF Init
  <2>2. /\ pc \in [Procs -> PCs] /\ mode \in Modes
        /\ hold \in [Procs -> Home \cup {NoBuf}]
        /\ wrote \in [Procs -> SUBSET Home]
    BY Zenon DEF Init, PCs, Modes
  <2>3. QED
    BY <2>1, <2>2, LogAssumption DEF Init, TypeOK
<1>3. outstanding = Cardinality(Active)
  BY Zenon, <1>1, FS_EmptySet DEF Init
<1>4. Reserved
  <2>1. TokensOf(Active, wrote) = {}
    BY Zenon, <1>1 DEF TokensOf
  <2>2. Cardinality(TokensOf(Active, wrote)) = 0
    BY Zenon, <2>1, FS_EmptySet
  <2>3. Len(lh) = 0
    BY Zenon DEF Init
  <2>4. QED
    BY <2>2, <2>3, LogAssumption DEF Reserved
<1>5. QED
  BY <1>1, <1>2, <1>3, <1>4
     DEF Init, ControlInv, CommitInv, HeadInv, OpInv, PhaseInv, Injective

LEMMA BeginControl ==
    ASSUME ControlInv, NEW p \in Procs, begin_op(p)
    PROVE  ControlInv'
<1> DEFINE wait == committing = 1
                   \/ Len(lh) + (outstanding + 1) * MAXOPBLOCKS > LOGSIZE
<1> USE DEF begin_op, begin_op_or_sleep, bufvars
<1>1. Committers' = Committers /\ p \notin Active
  BY Zenon DEF ControlInv, TypeOK, Committers, Active
<1>2. TypeOK'
  <2>1. /\ pc' \in [Procs -> PCs]
        /\ outstanding' \in Nat
        /\ wrote' \in [Procs -> SUBSET Home]
    BY DEF ControlInv, TypeOK, PCs
  <2>2. QED
    BY Zenon, <2>1 DEF ControlInv, TypeOK
<1>3. CASE wait
  <2>1. Active' = Active
    BY Zenon, <1>3 DEF ControlInv, TypeOK, Active
  <2>2. QED
    BY <1>1, <1>2, <1>3, <2>1, ZenonT(40)
       DEF ControlInv, TypeOK, CommitInv, HeadInv, Reserved, OpInv, PhaseInv
<1>4. CASE ~wait
  <2>1. Active' = Active \cup {p}
    BY Zenon, <1>4 DEF ControlInv, TypeOK, Active
  <2>2. /\ outstanding' = Cardinality(Active')
        /\ outstanding' = outstanding + 1
    <3>1. Active \in SUBSET Procs
      BY Zenon DEF Active
    <3>2. IsFiniteSet(Active)
      BY Zenon, <3>1, TokensFinite
    <3>3. Cardinality(Active \cup {p}) = Cardinality(Active) + 1
      BY <1>1, <3>2, FS_AddElement, Zenon
    <3>4. QED
      BY Zenon, <1>4, <2>1, <3>3 DEF ControlInv
  <2>3. Reserved'
    <3>1. Active' \in SUBSET Procs
      BY Zenon, <2>1 DEF Active
    <3>2. /\ Cardinality(TokensOf(Active', wrote')) \in Nat
          /\ Cardinality(TokensOf(Active', wrote')) <= Cardinality(Active') * MAXOPBLOCKS
      BY <3>1, TokensFinite, Zenon
    <3>3. Len(lh) + (outstanding + 1) * MAXOPBLOCKS <= LOGSIZE
      BY <1>4, LogAssumption DEF ControlInv, TypeOK
    <3>4. Len(lh) + Cardinality(Active') * MAXOPBLOCKS <= LOGSIZE
      BY Zenon, <3>3, <2>2
    <3>5. Len(lh') + Cardinality(TokensOf(Active', wrote')) <= LOGSIZE
      <4> DEFINE c == Cardinality(TokensOf(Active', wrote'))
                 d == Cardinality(Active') * MAXOPBLOCKS
      <4>1. d \in Nat /\ Len(lh) \in Nat /\ lh' = lh
        BY <2>2, LogAssumption, <1>2 DEF ControlInv, TypeOK
      <4> HIDE DEF c, d
      <4>2. QED
        BY <3>2, <3>4, <4>1, LogAssumption DEF c, d
    <3>6. QED
      BY Zenon, <3>5 DEF Reserved, TokensOf
  <2>4. ASSUME NEW q \in Procs PROVE OpInv(q)' /\ PhaseInv(q)'
    <3>1. CASE q = p
      <4>1. wrote'[q] = {} /\ pc'[q] = "op"
        BY Zenon, <1>4, <3>1 DEF ControlInv, TypeOK
      <4>2. Cardinality(wrote'[q]) <= OpBlocks
        BY <4>1, FS_EmptySet, LogAssumption
      <4>3. QED
        BY Zenon, <4>1, <4>2 DEF OpInv, PhaseInv
    <3>2. CASE q # p
      BY <1>4, <2>1, <3>2, Zenon DEF ControlInv, TypeOK, OpInv, PhaseInv
    <3>3. QED
      BY Zenon, <3>1, <3>2
  <2>5. CommitInv' /\ HeadInv'
    BY Zenon, <1>1, <1>4, <2>1 DEF ControlInv, CommitInv, HeadInv
  <2>6. QED
    BY Zenon, <1>2, <2>2, <2>3, <2>4, <2>5 DEF ControlInv
<1>5. QED
  BY Zenon, <1>3, <1>4

LEMMA LogWriteCheckControl ==
    ASSUME ControlInv, NEW p \in Procs, NEW b \in Home, log_write_check(p, b)
    PROVE  ControlInv'
<1> USE DEF log_write_check, bufvars, logvars
<1>1. Active' = Active /\ Committers' = Committers
  BY Zenon DEF ControlInv, TypeOK, Committers, Active
<1>2. TypeOK'
  <2>1. pc' \in [Procs -> PCs] /\ hold' \in [Procs -> Home \cup {NoBuf}]
    BY Zenon DEF ControlInv, TypeOK, PCs
  <2>2. QED
    BY Zenon, <2>1 DEF ControlInv, TypeOK
<1>3. ASSUME NEW q \in Procs PROVE OpInv(q)' /\ PhaseInv(q)'
  <2>1. CASE q = p
    BY <1>1, <2>1, Zenon DEF ControlInv, TypeOK, OpInv, PhaseInv
  <2>2. CASE q # p
    BY <1>1, <2>2, Zenon DEF ControlInv, TypeOK, OpInv, PhaseInv
  <2>3. QED
    BY Zenon, <2>1, <2>2
<1>4. QED
  BY Zenon, <1>1, <1>2, <1>3 DEF ControlInv, CommitInv, HeadInv, Reserved

\* What log_write() does to log.lh: append or absorb.
LEMMA AppendFacts ==
    ASSUME NEW h \in Seq(Home), NEW b \in Home, b \notin Logged(h), Injective(h)
    PROVE  /\ Append(h, b) \in Seq(Home)
           /\ Len(Append(h, b)) = Len(h) + 1
           /\ Injective(Append(h, b))
           /\ Logged(Append(h, b)) = Logged(h) \cup {b}
<1>1. Append(h, b) \in Seq(Home) /\ Len(Append(h, b)) = Len(h) + 1
  OBVIOUS
<1>2. /\ \A i \in 1 .. Len(h) : Append(h, b)[i] = h[i]
      /\ Append(h, b)[Len(h) + 1] = b
  OBVIOUS
<1>3. \A i \in 1 .. Len(Append(h, b)) : i \in 1 .. Len(h) \/ i = Len(h) + 1
  BY <1>1
<1>4. Injective(Append(h, b))
  BY Zenon, <1>1, <1>2, <1>3 DEF Injective, Logged
<1>5. Logged(Append(h, b)) = Logged(h) \cup {b}
  BY <1>1, <1>2, <1>3 DEF Logged
<1>6. QED
  BY Zenon, <1>1, <1>4, <1>5

LEMMA LogWriteAppendControl ==
    ASSUME ControlInv, NEW p \in Procs, NEW v \in Val, log_write_append(p, v)
    PROVE  /\ ControlInv'
           /\ OpBlocks < MAXOPBLOCKS /\ LogFits => LogFits'
<1> DEFINE b == hold[p]
<1> USE DEF log_write_append
<1>1. /\ Active' = Active /\ p \in Active
      /\ Committers' = Committers
      /\ Active \in SUBSET Procs
  BY Zenon DEF ControlInv, TypeOK, Committers, Active
<1>2. /\ b \in Home
      /\ Cardinality(wrote[p] \cup {b}) <= OpBlocks
      /\ wrote[p] \subseteq Logged(lh)
      /\ lh \in Seq(Home)
      /\ Injective(lh)
  BY <1>1, Zenon DEF ControlInv, TypeOK, OpInv, HeadInv
<1>3. wrote' = [wrote EXCEPT ![p] = @ \cup {b}]
  BY Zenon
<1>4. Committers = {} /\ mode = "run" /\ dhead = <<>> /\ committing = 0
  BY Zenon, <1>1 DEF ControlInv, TypeOK, CommitInv, HeadInv
<1>5. /\ lh' \in Seq(Home)
      /\ Injective(lh')
      /\ Logged(lh') = Logged(lh) \cup {b}
      /\ Reserved'
  <2>1. CASE b \in Logged(lh)
    <3>1. lh' = lh
      BY Zenon, <2>1 DEF Logged
    <3>2. TokensOf(Active, wrote') \subseteq TokensOf(Active, wrote)
      <4> SUFFICES ASSUME NEW t \in TokensOf(Active, wrote')
                   PROVE  t \in TokensOf(Active, wrote)
        BY Zenon
      <4>1. /\ t \in Procs \X (1 .. MAXOPBLOCKS)
            /\ t[1] \in Active /\ t[2] > Cardinality(wrote'[t[1]])
        BY Zenon DEF TokensOf
      <4>2. Cardinality(wrote[p]) <= Cardinality(wrote[p] \cup {b})
        <5>1. wrote[p] \in SUBSET Home /\ wrote[p] \cup {b} \in SUBSET Home
          BY Zenon, <1>2 DEF ControlInv, TypeOK
        <5>2. QED
          BY Zenon, <5>1, HomeFinite, FS_Subset
      <4>3. /\ Cardinality(wrote[p]) \in Nat
            /\ Cardinality(wrote[p] \cup {b}) \in Nat
        BY Zenon, <1>2, HomeFinite DEF ControlInv, TypeOK
      <4>4. CASE t[1] = p
        <5>1. wrote'[p] = wrote[p] \cup {b}
          BY Zenon, <1>3 DEF ControlInv, TypeOK
        <5>2. t[2] > Cardinality(wrote[p])
          <6> DEFINE c == Cardinality(wrote[p])
                     d == Cardinality(wrote[p] \cup {b})
          <6> HIDE DEF log_write_append, b
          <6>0. wrote'[t[1]] = wrote[p] \cup {b}
            BY Zenon, <4>4, <5>1
          <6>1. t[2] > d /\ t[2] \in Int
            BY <4>1, <6>0, LogAssumption
          <6>2. c \in Nat /\ d \in Nat /\ c <= d
            BY Zenon, <4>2, <4>3
          <6> HIDE DEF c, d
          <6>3. t[2] > c
            BY <6>1, <6>2
          <6>4. QED
            BY Zenon, <6>3 DEF c
        <5>3. QED
          BY Zenon, <4>1, <4>4, <5>2 DEF TokensOf
      <4>5. CASE t[1] # p
        BY Zenon, <4>1, <4>5, <1>3 DEF TokensOf, ControlInv, TypeOK
      <4>6. QED
        BY Zenon, <4>4, <4>5
    <3>3. /\ Cardinality(TokensOf(Active, wrote')) <= Cardinality(TokensOf(Active, wrote))
          /\ Cardinality(TokensOf(Active, wrote')) \in Nat
          /\ Cardinality(TokensOf(Active, wrote)) \in Nat
      BY <1>1, <3>2, TokensShrink, TokensFinite, Zenon
    <3>4. Len(lh') + Cardinality(TokensOf(Active', wrote')) <= LOGSIZE
      BY <1>1, <1>2, <3>1, <3>3, LogAssumption DEF ControlInv, Reserved
    <3>5. Reserved'
      BY Zenon, <3>4 DEF Reserved, TokensOf
    <3>6. QED
      BY Zenon, <1>2, <2>1, <3>1, <3>5
  <2>2. CASE b \notin Logged(lh)
    <3>1. lh' = Append(lh, b)
      BY Zenon, <2>2 DEF Logged
    <3>2. /\ Append(lh, b) \in Seq(Home)
          /\ Len(Append(lh, b)) = Len(lh) + 1
          /\ Injective(Append(lh, b))
          /\ Logged(Append(lh, b)) = Logged(lh) \cup {b}
      BY Zenon, <1>2, <2>2, AppendFacts
    <3>3. /\ wrote \in [Procs -> SUBSET Home]
          /\ b \notin wrote[p]
          /\ Cardinality(wrote[p] \cup {b}) <= MAXOPBLOCKS
      <4>1. Cardinality(wrote[p] \cup {b}) \in Nat
        BY Zenon, <1>2, HomeFinite DEF ControlInv, TypeOK
      <4>2. QED
        BY <4>1, <1>2, <2>2, LogAssumption DEF ControlInv, TypeOK
    <3>4. Cardinality(TokensOf(Active, wrote')) <= Cardinality(TokensOf(Active, wrote)) - 1
      BY <1>1, <1>2, <1>3, <3>3, TokenSpent, Zenon
    <3>5. /\ Cardinality(TokensOf(Active, wrote')) \in Nat
          /\ Cardinality(TokensOf(Active, wrote)) \in Nat
      BY <1>1, TokensFinite, Zenon
    <3>6. Len(lh') + Cardinality(TokensOf(Active', wrote')) <= LOGSIZE
      BY <1>1, <1>2, <3>1, <3>2, <3>4, <3>5, LogAssumption DEF ControlInv, Reserved
    <3>7. Reserved'
      BY Zenon, <3>6 DEF Reserved, TokensOf
    <3>8. QED
      BY Zenon, <3>1, <3>2, <3>7
  <2>3. QED
    BY Zenon, <2>1, <2>2
<1>6. /\ Cardinality(TokensOf(Active', wrote')) \in Nat
      /\ Len(lh') \in Nat
      /\ Len(lh') + Cardinality(TokensOf(Active', wrote')) <= LOGSIZE
  <2>1. Cardinality(TokensOf(Active', wrote')) \in Nat
    BY <1>1, TokensFinite, Zenon
  <2>2. QED
    BY <1>5, <2>1 DEF Reserved, TokensOf
<1>7. TypeOK'
  <2>1. /\ lh' \in Seq(Home) /\ Len(lh') <= LOGSIZE
    BY <1>5, <1>6, LogAssumption
  <2>2. /\ cache' \in [Addr -> Val]
        /\ dirty' \in SUBSET Home
    BY <1>2, LogAssumption, Zenon DEF ControlInv, TypeOK
  <2>3. /\ pc' \in [Procs -> PCs]
        /\ hold' \in [Procs -> Home \cup {NoBuf}]
        /\ wrote' \in [Procs -> SUBSET Home]
    BY Zenon, <1>2 DEF ControlInv, TypeOK, PCs
  <2>4. QED
    BY Zenon, <2>1, <2>2, <2>3 DEF ControlInv, TypeOK
<1>8. ASSUME NEW q \in Procs PROVE OpInv(q)' /\ PhaseInv(q)'
  <2>1. CASE q = p
    <3>1. wrote'[q] = wrote[p] \cup {b} /\ pc'[q] = "op"
      BY Zenon, <2>1 DEF ControlInv, TypeOK
    <3>2. QED
      BY <1>2, <1>5, <2>1, <3>1, Zenon DEF OpInv, PhaseInv
  <2>2. CASE q # p
    <3>1. /\ wrote'[q] = wrote[q] /\ pc'[q] = pc[q] /\ hold'[q] = hold[q]
      BY Zenon, <2>2 DEF ControlInv, TypeOK
    <3>2. OpInv(q)'
      BY <1>1, <1>5, <3>1, Zenon DEF OpInv, ControlInv
    <3>3. PhaseInv(q)'
      BY Zenon, <1>4, <3>1 DEF PhaseInv, Committers
    <3>4. QED
      BY Zenon, <3>2, <3>3
  <2>3. QED
    BY Zenon, <2>1, <2>2
<1>9. HeadInv'
  BY Zenon, <1>1, <1>4, <1>5 DEF HeadInv, ControlInv
<1>10. ControlInv'
  BY Zenon, <1>1, <1>5, <1>7, <1>8, <1>9 DEF ControlInv, CommitInv
<1>11. OpBlocks < MAXOPBLOCKS => Len(lh') <= LOGSIZE - 1
  <2> HAVE OpBlocks < MAXOPBLOCKS
  <2>1. wrote'[p] = wrote[p] \cup {b}
    BY Zenon DEF ControlInv, TypeOK
  <2>2. Cardinality(wrote'[p]) \in Nat /\ Cardinality(wrote'[p]) < MAXOPBLOCKS
    BY <1>2, <2>1, HomeFinite, LogAssumption DEF ControlInv, TypeOK
  <2>3. <<p, MAXOPBLOCKS>> \in TokensOf(Active', wrote')
    <3>1. p \in Active' /\ MAXOPBLOCKS \in 1 .. MAXOPBLOCKS
      BY <1>1, LogAssumption
    <3>2. MAXOPBLOCKS > Cardinality(wrote'[p])
      BY Zenon, <2>2, LogAssumption
    <3> HIDE DEF log_write_append
    <3>3. QED
      BY Zenon, <3>1, <3>2 DEF TokensOf
  <2>4. Cardinality(TokensOf(Active', wrote')) # 0
    <3>1. IsFiniteSet(TokensOf(Active', wrote'))
      BY <1>1, TokensFinite, Zenon
    <3>2. QED
      BY Zenon, <2>3, <3>1, FS_EmptySet
  <2>5. QED
    BY <1>6, <2>4, LogAssumption
<1>12. QED
  BY Zenon, <1>10, <1>11 DEF LogFits, size

\* Leaving Active gives tokens back.
LEMMA TokensLeave ==
    ASSUME NEW A \in SUBSET Procs, NEW p \in A, NEW w
    PROVE  /\ Cardinality(TokensOf(A \ {p}, w)) <= Cardinality(TokensOf(A, w))
           /\ Cardinality(TokensOf(A \ {p}, w)) \in Nat
           /\ Cardinality(TokensOf(A, w)) \in Nat
           /\ Cardinality(A \ {p}) = Cardinality(A) - 1
<1>1. TokensOf(A \ {p}, w) \subseteq TokensOf(A, w) /\ A \ {p} \in SUBSET Procs
  BY Zenon DEF TokensOf
<1>2. IsFiniteSet(A)
  BY Zenon, TokensFinite
<1>3. Cardinality(A \ {p}) = Cardinality(A) - 1
  BY Zenon, <1>2, FS_RemoveElement
<1>4. QED
  BY <1>1, <1>3, TokensShrink, TokensFinite, Zenon

LEMMA EndControl ==
    ASSUME ControlInv, NEW p \in Procs, end_op(p)
    PROVE  ControlInv'
<1> USE DEF end_op, bufvars
<1>1. p \in Active /\ Active \in SUBSET Procs
  BY Zenon DEF ControlInv, TypeOK, Active
<1>2. /\ committing = 0 /\ Committers = {} /\ mode = "run" /\ dhead = <<>>
  BY Zenon, <1>1 DEF ControlInv, TypeOK, CommitInv, HeadInv
<1>3. Active' = Active \ {p}
  BY <1>2 DEF ControlInv, TypeOK, Active, wakeup
<1>4. outstanding' = Cardinality(Active')
  BY <1>1, <1>3, TokensLeave, Zenon DEF ControlInv
<1>5. Reserved'
  <2>1. /\ Cardinality(TokensOf(Active', wrote)) <= Cardinality(TokensOf(Active, wrote))
        /\ Cardinality(TokensOf(Active', wrote)) \in Nat
        /\ Cardinality(TokensOf(Active, wrote)) \in Nat
    BY <1>1, <1>3, TokensLeave, Zenon
  <2>2. Len(lh) + Cardinality(TokensOf(Active', wrote)) <= LOGSIZE
    BY <2>1, LogAssumption DEF ControlInv, TypeOK, Reserved
  <2>3. QED
    BY Zenon, <2>2 DEF Reserved, TokensOf
<1>6. /\ outstanding' \in Nat
      /\ outstanding = 1 <=> Active' = {}
  <2>1. IsFiniteSet(Active') /\ Cardinality(Active') \in Nat
    <3>1. Active' \in SUBSET Procs
      BY Zenon, <1>1, <1>3
    <3>2. QED
      BY <3>1, TokensFinite, Zenon
  <2>2. outstanding' = 0 <=> Active' = {}
    BY <1>4, <2>1, FS_EmptySet, Zenon
  <2>3. QED
    BY <1>4, <2>1, <2>2 DEF ControlInv, TypeOK
<1>7. CASE outstanding = 1
  <2>1. /\ committing' = 1 /\ tail' = 0
        /\ pc' = [pc EXCEPT ![p] = IF Len(lh) > 0 THEN "write_log" ELSE "finish"]
    BY <1>2, <1>7
  <2>2. Committers' = {p}
    BY Zenon, <1>2, <2>1 DEF ControlInv, TypeOK, Committers
  <2>3. TypeOK'
    <3>1. pc' \in [Procs -> PCs]
      BY Zenon, <2>1 DEF ControlInv, TypeOK, PCs
    <3>2. tail' \in 0 .. LOGSIZE
      BY <2>1, LogAssumption
    <3>3. QED
      BY Zenon, <1>6, <2>1, <3>1, <3>2 DEF ControlInv, TypeOK
  <2>4. ASSUME NEW q \in Procs PROVE OpInv(q)' /\ PhaseInv(q)'
    <3>1. OpInv(q)'
      BY Zenon, <1>6, <1>7 DEF OpInv
    <3>2. PhaseInv(q)'
      <4>1. CASE q = p
        BY <1>2, <2>1, <4>1, EmptyLog DEF PhaseInv, ControlInv, TypeOK
      <4>2. CASE q # p
        BY Zenon, <1>2, <2>1, <4>2 DEF PhaseInv, ControlInv, TypeOK, Committers
      <4>3. QED
        BY Zenon, <4>1, <4>2
    <3>3. QED
      BY Zenon, <3>1, <3>2
  <2>5. CommitInv' /\ HeadInv'
    BY Zenon, <1>2, <1>6, <1>7, <2>1, <2>2 DEF ControlInv, CommitInv, HeadInv
  <2>6. QED
    BY Zenon, <1>4, <1>5, <2>3, <2>4, <2>5 DEF ControlInv
<1>8. CASE outstanding # 1
  <2>1. /\ committing' = 0 /\ tail' = tail
        /\ pc' = [q \in Procs |-> IF q = p THEN "idle"
                                  ELSE IF pc[q] = "sleep" THEN "begin" ELSE pc[q]]
    BY <1>2, <1>8 DEF wakeup
  <2>2. Committers' = {}
    BY Zenon, <1>2, <2>1 DEF ControlInv, TypeOK, Committers
  <2>3. TypeOK'
    <3>1. pc' \in [Procs -> PCs]
      BY Zenon, <2>1 DEF ControlInv, TypeOK, PCs
    <3>2. QED
      BY Zenon, <1>6, <2>1, <3>1 DEF ControlInv, TypeOK
  <2>4. ASSUME NEW q \in Procs PROVE OpInv(q)' /\ PhaseInv(q)'
    <3>1. OpInv(q)'
      BY <1>3, <2>1, Zenon DEF OpInv, ControlInv, TypeOK
    <3>2. PhaseInv(q)'
      BY Zenon, <2>1, <2>2 DEF PhaseInv, Committers
    <3>3. QED
      BY Zenon, <3>1, <3>2
  <2>5. CommitInv' /\ HeadInv'
    BY Zenon, <1>2, <2>1, <2>2 DEF ControlInv, CommitInv, HeadInv
  <2>6. QED
    BY Zenon, <1>4, <1>5, <2>3, <2>4, <2>5 DEF ControlInv
<1>9. QED
  BY Zenon, <1>7, <1>8

\* The committer moves on inside commit(): nobody else is in an operation.
LEMMA CommitterAlone ==
    ASSUME ControlInv, NEW p \in Committers
    PROVE  /\ mode = "run" /\ committing = 1
           /\ Active = {} /\ Committers = {p} /\ p \in Procs
BY Zenon DEF ControlInv, CommitInv, Committers

LEMMA CommitStepControl ==
    ASSUME ControlInv, NEW p \in Procs, commit_step(p)
    PROVE  ControlInv'
<1> USE DEF bufvars
<1>0. p \in Committers
  BY Zenon DEF commit_step, write_log, write_head, install_trans, erase, finish, Committers
<1>1. /\ mode = "run" /\ committing = 1 /\ Active = {} /\ Committers = {p}
  BY Zenon, <1>0, CommitterAlone
<1>2. /\ \A q \in Procs \ {p} : q \notin Committers /\ q \notin Active
  BY Zenon, <1>1
<1>3. CASE write_log(p) \/ write_head(p) \/ install_trans(p) \/ erase(p)
  <2>1. /\ \/ pc' = pc
           \/ \E s \in {"write_head", "install", "erase", "finish"} :
                 pc' = [pc EXCEPT ![p] = s]
        /\ UNCHANGED <<mode, committing, outstanding, hold, wrote>>
    BY Zenon, <1>3 DEF write_log, write_head, install_trans, erase
  <2>2. Active' = {} /\ Committers' = {p} /\ pc' \in [Procs -> PCs]
    BY ZenonT(40), <1>0, <1>1, <2>1 DEF Active, Committers, ControlInv, TypeOK, PCs
  <2>3. \A q \in Procs \ {p} : pc'[q] = pc[q] /\ PhaseInv(q)'
    BY Zenon, <1>2, <2>1 DEF PhaseInv, Committers, ControlInv, TypeOK
  <2>4. /\ lh' \in {lh, <<>>}
        /\ dhead' \in {dhead, lh, <<>>}
    BY Zenon, <1>3 DEF write_log, write_head, install_trans, erase
  <2>5. tail' \in 0 .. LOGSIZE /\ PhaseInv(p)'
    <3>1. PhaseInv(p) /\ p \in Procs /\ Len(lh) <= LOGSIZE /\ Len(lh) \in Nat
      BY DEF ControlInv, TypeOK
    <3>2. CASE write_log(p)
      BY <3>1, <3>2, LogAssumption DEF write_log, PhaseInv, ControlInv, TypeOK
    <3>3. CASE write_head(p)
      BY <3>1, <3>3, LogAssumption DEF write_head, PhaseInv, ControlInv, TypeOK
    <3>4. CASE install_trans(p)
      BY <3>1, <3>4, LogAssumption
         DEF install_trans, install_block, PhaseInv, ControlInv, TypeOK
    <3>5. CASE erase(p)
      BY Zenon, <3>1, <3>5 DEF erase, PhaseInv, ControlInv, TypeOK
    <3>6. QED
      BY Zenon, <1>3, <3>2, <3>3, <3>4, <3>5
  <2>6. /\ disk' \in [Addr -> Val] /\ cache' \in [Addr -> Val]
        /\ dirty' \in SUBSET Home
    <3>1. ASSUME NEW a \in Int, NEW c \in Int, \E v \in bread(a) : bwrite(c, v),
                 a \in Addr
          PROVE  /\ disk' \in [Addr -> Val] /\ cache' \in [Addr -> Val]
                 /\ dirty' \in SUBSET Home
      BY <3>1, Zenon DEF bread, bwrite, ControlInv, TypeOK
    <3>2. tail < Len(lh) => tail + 1 \in Addr /\ lh[tail + 1] \in Addr
      BY LogAssumption, SMTT(30) DEF ControlInv, TypeOK, Addr, Home, size
    <3>3. CASE write_log(p)
      <4>1. tail < Len(lh)
        BY Zenon, <3>3 DEF write_log, ControlInv, PhaseInv
      <4>2. QED
        BY <3>1, <3>2, <3>3, <4>1 DEF write_log, Addr
    <3>4. CASE install_trans(p)
      <4>1. tail < Len(lh)
        BY Zenon, <3>4 DEF install_trans, ControlInv, PhaseInv
      <4>2. QED
        BY <3>1, <3>2, <3>4, <4>1 DEF install_trans, install_block, Addr
    <3>5. CASE write_head(p) \/ erase(p)
      BY Zenon, <3>5 DEF write_head, erase, ControlInv, TypeOK
    <3>6. QED
      BY Zenon, <1>3, <3>3, <3>4, <3>5
  <2>7. TypeOK' /\ Injective(lh') /\ Injective(dhead')
    <3>1. /\ lh' \in Seq(Home) /\ Len(lh') <= LOGSIZE /\ Injective(lh')
          /\ dhead' \in Seq(Home) /\ Len(dhead') <= LOGSIZE /\ Injective(dhead')
      <4>1. Injective(<<>>) /\ Injective(lh) /\ Injective(dhead)
        BY DEF Injective, ControlInv, HeadInv
      <4>2. Len(<<>>) <= LOGSIZE /\ <<>> \in Seq(Home)
        BY LogAssumption
      <4>3. QED
        BY <2>4, <4>1, <4>2, Zenon DEF ControlInv, TypeOK
    <3>2. QED
      BY Zenon, <2>1, <2>2, <2>5, <2>6, <3>1 DEF ControlInv, TypeOK
  <2>8. Reserved'
    <3>1. TokensOf(Active', wrote') = {} /\ Len(lh') <= LOGSIZE /\ Len(lh') \in Nat
      BY <2>2, <2>7 DEF TokensOf, TypeOK
    <3>2. Len(lh') + Cardinality(TokensOf(Active', wrote')) <= LOGSIZE
      BY <3>1, FS_EmptySet, LogAssumption, SMTT(30)
    <3>3. QED
      BY Zenon, <3>2 DEF Reserved, TokensOf
  <2>9. CommitInv' /\ HeadInv' /\ \A q \in Procs : OpInv(q)' /\ PhaseInv(q)'
    BY Zenon, <1>1, <2>1, <2>2, <2>3, <2>5, <2>7 DEF CommitInv, HeadInv, OpInv
  <2>10. QED
    BY Zenon, <1>1, <2>1, <2>2, <2>7, <2>8, <2>9 DEF ControlInv
<1>4. CASE finish(p)
  <2>1. /\ Active' = {} /\ Committers' = {} /\ pc' \in [Procs -> PCs]
    BY Zenon, <1>1, <1>4 DEF finish, wakeup, Active, Committers, ControlInv, TypeOK, PCs
  <2>2. TypeOK'
    BY Zenon, <1>4, <2>1 DEF finish, ControlInv, TypeOK
  <2>3. dhead = <<>>
    BY Zenon, <1>4 DEF finish, ControlInv, PhaseInv
  <2>4. Reserved'
    BY Zenon, <1>1, <1>4, <2>1 DEF finish, Reserved, TokensOf, ControlInv
  <2>5. \A q \in Procs : OpInv(q)' /\ PhaseInv(q)'
    BY Zenon, <2>1 DEF OpInv, PhaseInv, Committers
  <2>6. CommitInv' /\ HeadInv'
    BY <1>1, <1>4, <2>1, <2>3, SMTT(60) DEF finish, CommitInv, HeadInv, ControlInv
  <2>7. QED
    BY Zenon, <1>1, <1>4, <2>1, <2>2, <2>4, <2>5, <2>6 DEF finish, ControlInv
<1>5. QED
  BY Zenon, <1>3, <1>4 DEF commit_step

LEMMA CrashControl == ControlInv /\ crash => ControlInv'
<1> SUFFICES ASSUME ControlInv, crash PROVE ControlInv'
  BY Zenon
<1> USE DEF crash
<1>1. Active' = {} /\ Committers' = {}
  BY Zenon DEF Active, Committers
<1>2. TypeOK'
  <2>1. lh' \in Seq(Home) /\ Len(lh') <= LOGSIZE /\ tail' \in 0 .. LOGSIZE
    BY LogAssumption
  <2>2. /\ pc' \in [Procs -> PCs] /\ hold' \in [Procs -> Home \cup {NoBuf}]
        /\ wrote' \in [Procs -> SUBSET Home] /\ mode' \in Modes
    BY Zenon DEF PCs, Modes
  <2>3. QED
    BY Zenon, <2>1, <2>2 DEF ControlInv, TypeOK
<1>3. outstanding' = Cardinality(Active')
  BY Zenon, <1>1, FS_EmptySet
<1>4. Reserved'
  <2>1. TokensOf(Active', wrote') = {}
    BY Zenon, <1>1 DEF TokensOf
  <2>2. Len(lh') = 0 /\ Cardinality(TokensOf(Active', wrote')) = 0
    BY <2>1, EmptyLog, FS_EmptySet, Zenon
  <2> HIDE DEF crash
  <2>3. Len(lh') + Cardinality(TokensOf(Active', wrote')) <= LOGSIZE
    BY <2>2, LogAssumption
  <2>4. QED
    BY Zenon, <2>3 DEF Reserved, TokensOf
<1>5. Injective(lh') /\ Injective(dhead')
  BY DEF Injective, ControlInv, HeadInv
<1>6. QED
  BY <1>1, <1>2, <1>3, <1>4, <1>5
     DEF ControlInv, CommitInv, HeadInv, OpInv, PhaseInv

LEMMA RecoverControl == ControlInv /\ recover_step => ControlInv'
<1> SUFFICES ASSUME ControlInv, recover_step PROVE ControlInv'
  BY Zenon
<1> USE DEF bufvars, procvars
<1>0. mode # "run" /\ Active = {} /\ Committers = {}
  BY Zenon DEF recover_step, read_head, recover_install, recover_erase, ControlInv, CommitInv
<1>1. /\ UNCHANGED <<outstanding, committing, pc, hold, wrote>>
      /\ lh' \in {lh, dhead, <<>>} /\ dhead' \in {dhead, <<>>}
  BY Zenon DEF recover_step, read_head, recover_install, recover_erase
<1>2. Active' = {} /\ Committers' = {}
  BY Zenon, <1>0, <1>1 DEF Active, Committers
<1>3. /\ lh' \in Seq(Home) /\ Len(lh') <= LOGSIZE /\ Injective(lh')
      /\ dhead' \in Seq(Home) /\ Len(dhead') <= LOGSIZE /\ Injective(dhead')
  <2>1. Injective(<<>>) /\ Injective(lh) /\ Injective(dhead)
    BY DEF Injective, ControlInv, HeadInv
  <2>2. Len(<<>>) <= LOGSIZE /\ <<>> \in Seq(Home)
    BY LogAssumption
  <2>3. QED
    BY <1>1, <2>1, <2>2, Zenon DEF ControlInv, TypeOK
<1>4. /\ disk' \in [Addr -> Val] /\ cache' \in [Addr -> Val]
      /\ dirty' \in SUBSET Home
      /\ tail' \in 0 .. LOGSIZE
      /\ mode' \in Modes
  <2>1. CASE recover_install
    <3>1. tail < Len(lh) /\ mode' \in Modes
      BY Zenon, <2>1 DEF recover_install, ControlInv, HeadInv, Modes
    <3>2. tail + 1 \in Addr /\ lh[tail + 1] \in Addr
      BY <3>1, LogAssumption, SMTT(30) DEF ControlInv, TypeOK, Addr, Home, size
    <3>3. /\ disk' \in [Addr -> Val] /\ cache' \in [Addr -> Val]
          /\ dirty' \in SUBSET Home
      BY Zenon, <2>1, <3>2
         DEF recover_install, install_block, bread, bwrite, ControlInv, TypeOK
    <3>4. QED
      BY <2>1, <3>1, <3>3, LogAssumption
         DEF recover_install, install_block, ControlInv, TypeOK
  <2>2. CASE read_head
    BY <2>2, LogAssumption, SMTT(30) DEF read_head, ControlInv, TypeOK, Modes
  <2>3. CASE recover_erase
    BY Zenon, <2>3 DEF recover_erase, ControlInv, TypeOK, Modes
  <2>4. QED
    BY Zenon, <2>1, <2>2, <2>3 DEF recover_step
<1>5. TypeOK'
  BY Zenon, <1>1, <1>3, <1>4 DEF ControlInv, TypeOK
<1>6. HeadInv'
  <2>1. CASE read_head
    BY Zenon, <1>3, <2>1 DEF read_head, HeadInv, ControlInv, TypeOK
  <2>2. CASE recover_install
    <3>1. tail < Len(lh) /\ lh = dhead /\ tail' = tail + 1
      BY Zenon, <2>2 DEF recover_install, install_block, HeadInv, ControlInv
    <3>2. Len(lh) \in Nat /\ tail \in Nat
      BY LogAssumption DEF ControlInv, TypeOK
    <3>3. QED
      BY <1>3, <2>2, <3>1, <3>2 DEF recover_install, HeadInv
  <2>3. CASE recover_erase
    BY Zenon, <1>3, <2>3 DEF recover_erase, HeadInv
  <2>4. QED
    BY Zenon, <2>1, <2>2, <2>3 DEF recover_step
<1>7. Reserved'
  <2>1. TokensOf(Active', wrote') = {}
    BY Zenon, <1>2 DEF TokensOf
  <2>2. Len(lh') + Cardinality(TokensOf(Active', wrote')) <= LOGSIZE
    BY <2>1, <1>3, FS_EmptySet, LogAssumption, SMTT(30)
  <2>3. QED
    BY Zenon, <2>2 DEF Reserved, TokensOf
<1>8. \A q \in Procs : OpInv(q)' /\ PhaseInv(q)'
  BY Zenon, <1>2 DEF OpInv, PhaseInv, Committers
<1>9. CommitInv' /\ outstanding' = Cardinality(Active')
  BY Zenon, <1>0, <1>1, <1>2 DEF CommitInv, ControlInv
<1>10. QED
  BY Zenon, <1>5, <1>6, <1>7, <1>8, <1>9 DEF ControlInv

LEMMA StutterControl == ControlInv /\ UNCHANGED vars => ControlInv'
<1> SUFFICES ASSUME ControlInv, UNCHANGED vars PROVE ControlInv'
  BY Zenon
<1> USE DEF vars
<1>1. Active' = Active /\ Committers' = Committers
  BY Zenon DEF Active, Committers
<1>2. Reserved'
  BY Zenon, <1>1 DEF ControlInv, Reserved, TokensOf
<1>3. TypeOK'
  BY Zenon DEF ControlInv, TypeOK
<1>4. CommitInv' /\ HeadInv' /\ outstanding' = Cardinality(Active')
  BY Zenon, <1>1 DEF ControlInv, CommitInv, HeadInv, Injective
<1>5. \A p \in Procs : OpInv(p)' /\ PhaseInv(p)'
  BY <1>1 DEF ControlInv, OpInv, PhaseInv, Logged
<1>6. QED
  BY Zenon, <1>2, <1>3, <1>4, <1>5 DEF ControlInv

LEMMA ControlStep == ControlInv /\ [Next]_vars => ControlInv'
<1> SUFFICES ASSUME ControlInv, [Next]_vars PROVE ControlInv'
  BY Zenon
<1>1. ASSUME NEW p \in Procs, begin_op(p) PROVE ControlInv'
  BY Zenon, <1>1, BeginControl
<1>2. ASSUME NEW p \in Procs, NEW b \in Home, log_write_check(p, b) PROVE ControlInv'
  BY <1>2, LogWriteCheckControl, ZenonT(40)
<1>3. ASSUME NEW p \in Procs, NEW v \in Val, log_write_append(p, v) PROVE ControlInv'
  BY <1>3, LogWriteAppendControl, ZenonT(40)
<1>4. ASSUME NEW p \in Procs, end_op(p) PROVE ControlInv'
  BY <1>4, EndControl, ZenonT(40)
<1>5. ASSUME NEW p \in Procs, commit_step(p) PROVE ControlInv'
  BY <1>5, CommitStepControl, ZenonT(40)
<1>6. CASE recover_step
  BY <1>6, RecoverControl, ZenonT(40)
<1>7. CASE crash
  BY Zenon, <1>7, CrashControl
<1>8. CASE UNCHANGED vars
  BY Zenon, <1>8, StutterControl
<1>9. QED
  BY Zenon, <1>1, <1>2, <1>3, <1>4, <1>5, <1>6, <1>7, <1>8 DEF Next

\* The state of log.c always has its type: in particular the in-memory header
\* never holds more than LOGSIZE block numbers, whatever the calls write up to
\* MAXOPBLOCKS blocks each.
THEOREM TypeCorrect == Spec => []TypeOK
<1>1. ControlInv => TypeOK
  BY Zenon DEF ControlInv
<1>2. QED
  BY ControlInit, ControlStep, <1>1, PTL DEF Spec

\* end_op() never finds log.committing set: commit() runs only while no file
\* system call is active (log.c, lines 11 to 15).
THEOREM CommitsAreQuiescent == Spec => []CommitQuiescent
<1>1. ControlInv => CommitQuiescent
  BY Zenon DEF ControlInv, CommitInv, CommitQuiescent
<1>2. QED
  BY ControlInit, ControlStep, <1>1, PTL DEF Spec
-----------------------------------------------------------------------------
(***************************************************************************)
(* The log area.  When no call uses up its whole reservation the log stays *)
(* between the header and the first home block, which is what the rest of  *)
(* the argument needs: log blocks and home blocks are then different.      *)
(***************************************************************************)
FitsInv == LogFits /\ Len(dhead) <= size - 1

LEMMA FitsInit == Init => FitsInv
BY EmptyLog, LogAssumption DEF Init, FitsInv, LogFits, size

LEMMA FitsStep ==
    ASSUME OpBlocks < MAXOPBLOCKS, ControlInv, FitsInv, [Next]_vars
    PROVE  FitsInv'
<1> USE DEF FitsInv, LogFits, size, bufvars, logvars, procvars
<1>0. Len(<<>>) <= size - 1
  BY EmptyLog, LogAssumption
<1>1. ASSUME NEW p \in Procs, begin_op(p) PROVE FitsInv'
  BY Zenon, <1>1 DEF begin_op, begin_op_or_sleep
<1>2. ASSUME NEW p \in Procs, NEW b \in Home, log_write_check(p, b) PROVE FitsInv'
  BY Zenon, <1>2 DEF log_write_check
<1>3. ASSUME NEW p \in Procs, NEW v \in Val, log_write_append(p, v) PROVE FitsInv'
  BY <1>3, LogWriteAppendControl, Zenon DEF log_write_append
<1>4. ASSUME NEW p \in Procs, end_op(p) PROVE FitsInv'
  BY Zenon, <1>4 DEF end_op
<1>5. ASSUME NEW p \in Procs, commit_step(p) PROVE FitsInv'
  BY Zenon, <1>0, <1>5 DEF commit_step, write_log, write_head, install_trans, erase, finish
<1>6. CASE recover_step
  BY Zenon, <1>0, <1>6 DEF recover_step, read_head, recover_install, recover_erase
<1>7. CASE crash
  BY Zenon, <1>0, <1>7 DEF crash
<1>8. CASE UNCHANGED vars
  BY Zenon, <1>8 DEF vars
<1>9. QED
  BY Zenon, <1>1, <1>2, <1>3, <1>4, <1>5, <1>6, <1>7, <1>8 DEF Next

\* As long as every call leaves at least one block of its reservation unused,
\* the lock-free check of log_write() is enough: a transaction never needs
\* more blocks than the on-disk log has.
THEOREM LogAlwaysFits ==
    ASSUME OpBlocks < MAXOPBLOCKS
    PROVE  Spec => []LogFits
<1>1. Init => ControlInv /\ FitsInv
  BY Zenon, ControlInit, FitsInit
<1>2. ControlInv /\ FitsInv /\ [Next]_vars => ControlInv' /\ FitsInv'
  BY Zenon, ControlStep, FitsStep
<1>3. FitsInv => LogFits
  BY Zenon DEF FitsInv
<1>4. QED
  BY <1>1, <1>2, <1>3, PTL DEF Spec
-----------------------------------------------------------------------------
(***************************************************************************)
(* The data: which copies of a block agree in each phase.                  *)
(***************************************************************************)
Copied(d, c, h, n) == \A i \in 1 .. n : d[i] = c[h[i]]
Installed(d, h, n) == \A i \in 1 .. n : d[h[i]] = d[i]

CacheInv ==
    /\ \A a \in Addr \ dirty : cache[a] = disk[a]
    /\ dirty \subseteq Logged(lh)
    /\ mode # "run" => dirty = {}
    /\ (mode = "run" /\ ~\E p \in Procs : pc[p] \in {"install", "erase"})
          => dirty = Logged(lh)

RecoveryInv == /\ mode = "install" => Installed(disk, lh, tail)
               /\ mode = "erase" => Installed(disk, lh, Len(lh))

CommitDataInv(p) ==
    /\ pc[p] = "write_log" => Copied(disk, cache, lh, tail)
    /\ pc[p] \in {"write_head", "install", "erase"} => Copied(disk, cache, lh, Len(lh))
    /\ pc[p] = "install" => /\ Installed(disk, lh, tail)
                            /\ dirty = {lh[i] : i \in tail + 1 .. Len(lh)}
    /\ pc[p] = "erase" => Installed(disk, lh, Len(lh)) /\ dirty = {}

DataInv == CacheInv /\ RecoveryInv /\ \A p \in Procs : CommitDataInv(p)

LEMMA LogAddresses ==
    ASSUME ControlInv, FitsInv
    PROVE  /\ Home \subseteq Addr
           /\ Len(lh) \in Nat /\ Len(dhead) \in Nat
           /\ \A i \in 1 .. Len(lh) : i \in Addr /\ i \notin Home /\ lh[i] \in Home
           /\ \A i \in 1 .. Len(dhead) : i \in Addr /\ i \notin Home /\ dhead[i] \in Home
BY LogAssumption, SMTT(60) DEF ControlInv, TypeOK, FitsInv, LogFits, Addr, Home, size

LEMMA ReadsAgree ==
    ASSUME ControlInv, DataInv, NEW a \in Addr
    PROVE  bread(a) = {cache[a]} /\ cache[a] \in Val
BY Zenon DEF ControlInv, TypeOK, DataInv, CacheInv, bread

LEMMA DataInit == Init => DataInv
BY Zenon, EmptyLog DEF Init, DataInv, CacheInv, RecoveryInv, CommitDataInv, Installed, Logged

\* A step that touches no block and moves no committer.
LEMMA DataFrame ==
    ASSUME DataInv, UNCHANGED <<disk, cache, dirty, lh, tail, mode>>,
           \A q \in Procs : \/ pc'[q] = pc[q]
                            \/ /\ pc[q] \notin {"install", "erase"}
                               /\ pc'[q] \notin {"write_log", "write_head",
                                                 "install", "erase"}
    PROVE  DataInv'
<1>1. CacheInv'
  BY Zenon DEF DataInv, CacheInv, Logged
<1>2. RecoveryInv'
  BY Zenon DEF DataInv, RecoveryInv, Installed
<1>3. \A q \in Procs : CommitDataInv(q)'
  BY SMTT(60) DEF DataInv, CommitDataInv, Installed, Copied
<1>4. QED
  BY Zenon, <1>1, <1>2, <1>3 DEF DataInv

LEMMA AppendData ==
    ASSUME ControlInv, DataInv, NEW p \in Procs, NEW v \in Val, log_write_append(p, v)
    PROVE  DataInv'
<1> DEFINE b == hold[p]
<1> USE DEF log_write_append
<1>1. Committers = {} /\ b \in Home
  BY ZenonT(40) DEF ControlInv, CommitInv, OpInv, Active, TypeOK
<1>2. pc \in [Procs -> PCs] /\ lh \in Seq(Home) /\ cache \in [Addr -> Val]
  BY ZenonT(40) DEF ControlInv, TypeOK
<1>3. \A q \in Procs : pc'[q] \notin {"write_log", "write_head", "install", "erase", "finish"}
  BY Zenon, <1>1, <1>2 DEF Committers
<1>4. Logged(lh') = Logged(lh) \cup {b}
  <2>1. CASE \E i \in 1 .. Len(lh) : lh[i] = b
    BY Zenon, <2>1 DEF Logged
  <2>2. CASE ~\E i \in 1 .. Len(lh) : lh[i] = b
    BY <1>1, <1>2, <2>2, AppendFacts, SMTT(30) DEF Logged
  <2>3. QED
    BY Zenon, <2>1, <2>2
<1>5. dirty = Logged(lh)
  BY Zenon, <1>1 DEF DataInv, CacheInv, Committers
<1>6. \A a \in Addr \ dirty' : cache'[a] = disk'[a]
  BY Zenon, <1>1, <1>2 DEF DataInv, CacheInv
<1>7. CacheInv'
  BY Zenon, <1>4, <1>5, <1>6 DEF CacheInv
<1>8. mode' = "run"
  BY ZenonT(40)
<1>9. RecoveryInv'
  BY <1>8, Zenon DEF RecoveryInv
<1>10. \A q \in Procs : CommitDataInv(q)'
  BY <1>3, Zenon DEF CommitDataInv
<1>11. QED
  BY <1>7, <1>9, <1>10, Zenon DEF DataInv

LEMMA WriteLogData ==
    ASSUME ControlInv, FitsInv, DataInv, NEW p \in Procs, write_log(p)
    PROVE  DataInv'
<1> USE DEF write_log
<1>1. \A q \in Procs \ {p} : q \notin Committers
  BY Zenon, CommitterAlone DEF Committers
<1>2. /\ tail \in Nat /\ tail < Len(lh) /\ Len(lh) \in Nat
      /\ disk \in [Addr -> Val] /\ cache \in [Addr -> Val] /\ pc \in [Procs -> PCs]
      /\ dirty \subseteq Home
  BY LogAssumption DEF ControlInv, TypeOK, PhaseInv
<1> DEFINE n == tail + 1
           b == lh[n]
<1>3. n \in 1 .. Len(lh) /\ n \in Addr /\ n \notin Home /\ b \in Home /\ b \in Addr
  BY <1>2, LogAddresses, SMTT(30)
<1>4. /\ disk' = [disk EXCEPT ![n] = cache[b]]
      /\ cache' = [cache EXCEPT ![n] = cache[b]]
      /\ dirty' = dirty
  <2>1. bread(b) = {cache[b]}
    BY Zenon, <1>3, ReadsAgree
  <2>2. bwrite(n, cache[b])
    BY Zenon, <2>1
  <2>3. QED
    BY <1>2, <1>3, <2>2, ZenonT(40) DEF bwrite
<1>5. \A i \in 1 .. Len(lh) : lh[i] \in Addr /\ lh[i] # n
  BY Zenon, <1>3, LogAddresses
<1>6. Copied(disk, cache, lh, tail)
  BY Zenon DEF DataInv, CommitDataInv
<1>7. Copied(disk', cache', lh', n)
  <2> SUFFICES ASSUME NEW i \in 1 .. n PROVE disk'[i] = cache'[lh[i]]
    BY Zenon DEF Copied
  <2>1. i \in 1 .. Len(lh) /\ i \in Addr /\ lh[i] \in Addr /\ lh[i] # n
    BY <1>2, <1>5, LogAddresses
  <2>2. cache'[lh[i]] = cache[lh[i]]
    BY Zenon, <1>2, <1>4, <2>1
  <2>3. CASE i = n
    BY Zenon, <1>2, <1>3, <1>4, <2>2, <2>3
  <2>4. CASE i # n
    BY <1>2, <1>4, <1>6, <2>1, <2>2, <2>4, SMTT(30) DEF Copied
  <2>5. QED
    BY Zenon, <2>3, <2>4
<1>8. CacheInv'
  <2>1. \A a \in Addr \ dirty' : cache'[a] = disk'[a]
    BY Zenon, <1>2, <1>4 DEF DataInv, CacheInv
  <2>2. dirty = Logged(lh)
    BY Zenon, <1>1 DEF DataInv, CacheInv, Committers
  <2>3. QED
    BY Zenon, <1>4, <2>1, <2>2 DEF CacheInv, Logged
<1>9. CommitDataInv(p)'
  <2>1. tail' = n /\ lh' = lh
    BY Zenon
  <2>2. pc'[p] = "write_log" \/ (pc'[p] = "write_head" /\ n = Len(lh))
    BY <1>2, ZenonT(40)
  <2> HIDE DEF write_log, n
  <2>3. Copied(disk', cache', lh', tail')
    BY <1>7, <2>1, Zenon
  <2>4. n = Len(lh) => Copied(disk', cache', lh', Len(lh'))
    BY <1>7, <2>1, Zenon
  <2>5. QED
    BY <2>2, <2>3, <2>4, Zenon DEF CommitDataInv
<1>10. \A q \in Procs \ {p} : CommitDataInv(q)'
  <2>1. \A q \in Procs \ {p} : pc'[q] = pc[q]
    BY <1>2, ZenonT(40)
  <2> HIDE DEF write_log
  <2>2. \A q \in Procs \ {p} : pc'[q] \notin {"write_log", "write_head", "install", "erase"}
    BY Zenon, <1>1, <2>1 DEF Committers
  <2>3. QED
    BY <2>2, Zenon DEF CommitDataInv
<1>11. QED
  BY Zenon, <1>8, <1>9, <1>10 DEF DataInv, RecoveryInv

\* install_trans() and recovery: block lh[tail] gets its logged contents.
LEMMA InstallFacts ==
    ASSUME ControlInv, FitsInv, DataInv, tail < Len(lh), install_block, lh' = lh,
           Installed(disk, lh, tail)
    PROVE  /\ \A a \in Addr \ dirty' : cache'[a] = disk'[a]
           /\ dirty' = dirty \ {lh[tail + 1]}
           /\ \A i \in 1 .. Len(lh) : disk'[i] = disk[i]
           /\ \A a \in Addr : a # lh[tail + 1] => disk'[a] = disk[a] /\ cache'[a] = cache[a]
           /\ cache'[lh[tail + 1]] = disk[tail + 1]
           /\ Installed(disk', lh', tail + 1)
           /\ Copied(disk, cache, lh, Len(lh)) => Copied(disk', cache', lh', Len(lh))
<1> DEFINE n == tail + 1
           b == lh[n]
<1>1. /\ tail \in Nat /\ Len(lh) \in Nat
      /\ disk \in [Addr -> Val] /\ cache \in [Addr -> Val] /\ dirty \subseteq Home
  BY LogAssumption DEF ControlInv, TypeOK
<1>2. n \in 1 .. Len(lh) /\ n \in Addr /\ n \notin Home /\ b \in Home /\ b \in Addr
  BY <1>1, LogAddresses
<1>3. cache[n] = disk[n]
  BY Zenon, <1>1, <1>2 DEF DataInv, CacheInv
<1>4. /\ disk' = [disk EXCEPT ![b] = disk[n]]
      /\ cache' = [cache EXCEPT ![b] = disk[n]]
      /\ dirty' = dirty \ {b}
  <2>1. bread(n) = {cache[n]}
    BY Zenon, <1>2, ReadsAgree
  <2>2. bwrite(b, cache[n])
    BY Zenon, <2>1 DEF install_block
  <2>3. QED
    BY Zenon, <1>3, <2>2 DEF bwrite
<1>5. \A i \in 1 .. Len(lh) : /\ i \in Addr /\ i # b /\ lh[i] \in Addr
                              /\ i # n => lh[i] # b
  BY ZenonT(40), <1>2, LogAddresses DEF ControlInv, HeadInv, Injective
<1>6. \A a \in Addr \ dirty' : cache'[a] = disk'[a]
  BY Zenon, <1>1, <1>4 DEF DataInv, CacheInv
<1>7. \A i \in 1 .. Len(lh) : disk'[i] = disk[i]
  BY Zenon, <1>1, <1>4, <1>5
<1>8. \A a \in Addr : a # b => disk'[a] = disk[a] /\ cache'[a] = cache[a]
  BY Zenon, <1>1, <1>4
<1>9. cache'[b] = disk[n] /\ disk'[b] = disk[n]
  BY Zenon, <1>1, <1>2, <1>4
<1>10. Installed(disk', lh', n)
  <2> SUFFICES ASSUME NEW i \in 1 .. n PROVE disk'[lh[i]] = disk'[i]
    BY Zenon DEF Installed
  <2>1. i \in 1 .. Len(lh)
    BY <1>1
  <2>2. CASE i = n
    BY Zenon, <1>7, <1>9, <2>1, <2>2
  <2>3. CASE i # n
    BY <1>1, <1>5, <1>7, <1>8, <2>1, <2>3 DEF Installed
  <2>4. QED
    BY Zenon, <2>2, <2>3
<1>11. ASSUME Copied(disk, cache, lh, Len(lh)) PROVE Copied(disk', cache', lh', Len(lh))
  <2> SUFFICES ASSUME NEW i \in 1 .. Len(lh) PROVE disk'[i] = cache'[lh[i]]
    BY Zenon DEF Copied
  <2>1. CASE i = n
    BY Zenon, <1>7, <1>9, <2>1
  <2>2. CASE i # n
    BY Zenon, <1>5, <1>7, <1>8, <1>11, <2>2 DEF Copied
  <2>3. QED
    BY Zenon, <2>1, <2>2
<1>12. QED
  BY Zenon, <1>4, <1>6, <1>7, <1>8, <1>9, <1>10, <1>11

LEMMA InstallTransData ==
    ASSUME ControlInv, FitsInv, DataInv, NEW p \in Procs, install_trans(p)
    PROVE  DataInv'
<1> USE DEF install_trans
<1>1. \A q \in Procs \ {p} : q \notin Committers
  BY Zenon, CommitterAlone DEF Committers
<1>2. /\ tail \in Nat /\ tail < Len(lh) /\ Len(lh) \in Nat /\ pc \in [Procs -> PCs]
      /\ lh' = lh /\ tail' = tail + 1
  BY LogAssumption, SMTT(60) DEF ControlInv, TypeOK, PhaseInv, install_block
<1>3. /\ Installed(disk, lh, tail) /\ Copied(disk, cache, lh, Len(lh))
      /\ dirty = {lh[i] : i \in tail + 1 .. Len(lh)}
  BY Zenon DEF DataInv, CommitDataInv
<1>4. /\ \A a \in Addr \ dirty' : cache'[a] = disk'[a]
      /\ dirty' = dirty \ {lh[tail + 1]}
      /\ Installed(disk', lh', tail')
      /\ Copied(disk', cache', lh', Len(lh'))
  <2>1. install_block
    BY Zenon
  <2> HIDE DEF install_trans
  <2>2. /\ \A a \in Addr \ dirty' : cache'[a] = disk'[a]
        /\ dirty' = dirty \ {lh[tail + 1]}
        /\ Installed(disk', lh', tail + 1)
        /\ Copied(disk', cache', lh', Len(lh))
    BY <1>2, <1>3, <2>1, InstallFacts, Zenon
  <2>3. QED
    BY <1>2, <2>2, Zenon
<1>5. dirty' = {lh[i] : i \in tail' + 1 .. Len(lh)}
  <2>1. \A i, j \in 1 .. Len(lh) : lh[i] = lh[j] => i = j
    BY Zenon DEF ControlInv, HeadInv, Injective
  <2>2. tail + 1 \in 1 .. Len(lh) /\ tail' + 1 = tail + 2
    BY <1>2
  <2>3. \A i \in tail + 1 .. Len(lh) : i \in 1 .. Len(lh)
                                       /\ (i = tail + 1 \/ i \in tail + 2 .. Len(lh))
    BY <1>2
  <2>4. \A i \in tail + 2 .. Len(lh) : i \in tail + 1 .. Len(lh) /\ i # tail + 1
    BY <1>2, SMTT(30)
  <2>5. QED
    <3> HIDE DEF install_trans
    <3> DEFINE D == {lh[i] : i \in tail + 2 .. Len(lh)}
    <3>1. ASSUME NEW b \in dirty' PROVE b \in D
      BY <1>3, <1>4, <2>3, <3>1, Zenon
    <3>2. ASSUME NEW b \in D PROVE b \in dirty'
      <4>1. PICK i \in tail + 2 .. Len(lh) : b = lh[i]
        BY <3>2, Zenon
      <4>2. i \in tail + 1 .. Len(lh) /\ i \in 1 .. Len(lh) /\ i # tail + 1
        BY <2>3, <2>4, Zenon
      <4>3. b # lh[tail + 1]
        BY <2>1, <2>2, <4>1, <4>2, Zenon
      <4>4. QED
        BY <1>3, <1>4, <4>1, <4>2, <4>3, Zenon
    <3>3. dirty' = D
      BY <3>1, <3>2, Zenon
    <3>4. QED
      BY <2>2, <3>3, Zenon
<1>6. CacheInv'
  <2>1. dirty' \subseteq Logged(lh')
    BY <1>2, <1>5 DEF Logged
  <2>2. pc'[p] \in {"install", "erase"}
    BY Zenon, <1>2
  <2>3. QED
    BY Zenon, <1>4, <2>1, <2>2 DEF CacheInv
<1>7. CommitDataInv(p)'
  <2>1. CASE tail + 1 = Len(lh)
    <3>1. pc'[p] = "erase" /\ tail' = Len(lh')
      BY Zenon, <1>2, <2>1
    <3>2. dirty' = {}
      BY <1>2, <1>5, <2>1, SMTT(30)
    <3>3. QED
      BY Zenon, <1>4, <3>1, <3>2 DEF CommitDataInv
  <2>2. CASE tail + 1 # Len(lh)
    BY <1>2, <1>4, <1>5, <2>2, SMTT(60) DEF CommitDataInv
  <2>3. QED
    BY Zenon, <2>1, <2>2
<1>8. \A q \in Procs \ {p} : CommitDataInv(q)'
  BY Zenon, <1>1, <1>2 DEF CommitDataInv, Committers
<1>9. QED
  BY Zenon, <1>6, <1>7, <1>8 DEF DataInv, RecoveryInv

LEMMA CommitData ==
    ASSUME ControlInv, FitsInv, DataInv, NEW p \in Procs, commit_step(p)
    PROVE  DataInv'
<1> USE DEF bufvars
<1>0. p \in Committers
  BY Zenon DEF commit_step, write_log, write_head, install_trans, erase, finish, Committers
<1>1. \A q \in Procs \ {p} : pc[q] \notin {"write_log", "write_head", "install", "erase"}
  BY Zenon, <1>0, CommitterAlone DEF Committers
<1>2. pc \in [Procs -> PCs] /\ lh \in Seq(Home) /\ Len(lh) \in Nat
  BY DEF ControlInv, TypeOK
<1>3. CASE write_log(p)
  BY Zenon, <1>3, WriteLogData
<1>4. CASE write_head(p)
  <2> USE <1>4 DEF write_head
  <2>1. dirty = Logged(lh) /\ Copied(disk, cache, lh, Len(lh))
    BY Zenon, <1>1 DEF DataInv, CacheInv, CommitDataInv
  <2>2. pc'[p] = "install" /\ \A q \in Procs \ {p} : pc'[q] = pc[q]
    BY Zenon, <1>2
  <2>3. CacheInv'
    BY Zenon, <2>2 DEF DataInv, CacheInv, Logged
  <2>4. dirty' = {lh'[i] : i \in tail' + 1 .. Len(lh')}
    BY <2>1, SMTT(30) DEF Logged
  <2>5. CommitDataInv(p)'
    <3>1. disk' = disk /\ cache' = cache /\ lh' = lh /\ tail' = 0
      BY ZenonT(40)
    <3> HIDE DEF write_head
    <3>2. Copied(disk', cache', lh', Len(lh'))
      BY <2>1, <3>1, Zenon
    <3>3. Installed(disk', lh', tail')
      BY <3>1 DEF Installed
    <3>4. QED
      BY <2>2, <2>4, <3>2, <3>3, Zenon DEF CommitDataInv
  <2>6. \A q \in Procs \ {p} : CommitDataInv(q)'
    BY <1>1, <2>2, Zenon DEF CommitDataInv
  <2>7. QED
    BY Zenon, <2>3, <2>5, <2>6 DEF DataInv, RecoveryInv
<1>5. CASE install_trans(p)
  BY Zenon, <1>5, InstallTransData
<1>6. CASE erase(p)
  <2> USE <1>6 DEF erase
  <2>1. dirty = {} /\ Logged(lh') = {}
    <3>1. dirty = {}
      BY Zenon DEF DataInv, CommitDataInv
    <3>2. lh' = <<>>
      BY Zenon
    <3> HIDE DEF erase
    <3>3. QED
      BY <3>1, <3>2, EmptyLog DEF Logged
  <2>2. \A q \in Procs : pc'[q] \notin {"write_log", "write_head", "install", "erase"}
    BY Zenon, <1>1, <1>2
  <2>3. CacheInv'
    BY <2>1, <2>2, Zenon DEF DataInv, CacheInv
  <2>4. QED
    BY Zenon, <2>2, <2>3 DEF DataInv, RecoveryInv, CommitDataInv
<1>7. CASE finish(p)
  <2>1. \A q \in Procs : \/ pc'[q] = pc[q]
                         \/ /\ pc[q] \notin {"install", "erase"}
                            /\ pc'[q] \notin {"write_log", "write_head", "install", "erase"}
    BY Zenon, <1>2, <1>7 DEF finish, wakeup
  <2>2. QED
    BY <1>7, <2>1, DataFrame, Zenon DEF finish
<1>8. QED
  BY Zenon, <1>3, <1>4, <1>5, <1>6, <1>7 DEF commit_step

LEMMA RecoverData ==
    ASSUME ControlInv, FitsInv, DataInv, recover_step
    PROVE  DataInv'
<1> USE DEF bufvars, procvars
<1>0. mode # "run" /\ dirty = {} /\ pc' = pc
  BY Zenon DEF recover_step, read_head, recover_install, recover_erase, DataInv, CacheInv
<1>1. \A q \in Procs : pc'[q] \notin {"write_log", "write_head", "install", "erase"}
  BY Zenon, <1>0 DEF ControlInv, CommitInv, Committers
<1>2. tail \in Nat /\ Len(lh) \in Nat /\ Len(dhead) \in Nat /\ dhead \in Seq(Home)
  BY LogAssumption, SMTT(60) DEF ControlInv, TypeOK
<1>3. CASE read_head
  <2> USE <1>3 DEF read_head
  <2>1. CacheInv'
    BY Zenon, <1>0 DEF DataInv, CacheInv
  <2>2. RecoveryInv'
    BY <1>2, SMTT(60) DEF RecoveryInv, Installed
  <2>3. QED
    <3>1. \A q \in Procs : CommitDataInv(q)'
      BY <1>1, Zenon DEF CommitDataInv
    <3>2. QED
      BY <2>1, <2>2, <3>1, Zenon DEF DataInv
<1>4. CASE recover_install
  <2> USE <1>4 DEF recover_install
  <2>1. tail < Len(lh) /\ lh' = lh /\ tail' = tail + 1 /\ Installed(disk, lh, tail)
    BY Zenon DEF ControlInv, HeadInv, DataInv, RecoveryInv, install_block
  <2>2. /\ \A a \in Addr \ dirty' : cache'[a] = disk'[a]
        /\ dirty' = {}
        /\ Installed(disk', lh', tail')
    <3>1. install_block
      BY Zenon
    <3> HIDE DEF recover_install
    <3>2. /\ \A a \in Addr \ dirty' : cache'[a] = disk'[a]
          /\ dirty' = dirty \ {lh[tail + 1]}
          /\ Installed(disk', lh', tail + 1)
      BY <2>1, <3>1, InstallFacts, Zenon
    <3>3. QED
      BY <1>0, <2>1, <3>2, Zenon
  <2>3. CacheInv'
    BY Zenon, <2>2 DEF CacheInv
  <2>4. RecoveryInv'
    BY Zenon, <2>1, <2>2 DEF RecoveryInv
  <2>5. QED
    <3>1. \A q \in Procs : CommitDataInv(q)'
      BY <1>1, Zenon DEF CommitDataInv
    <3>2. QED
      BY <2>3, <2>4, <3>1, Zenon DEF DataInv
<1>5. CASE recover_erase
  <2> USE <1>5 DEF recover_erase
  <2>1. Logged(lh') = {}
    BY EmptyLog, SMTT(30) DEF Logged
  <2>2. CacheInv'
    BY Zenon, <1>0, <2>1 DEF DataInv, CacheInv
  <2>3. QED
    BY Zenon, <1>1, <2>2 DEF DataInv, RecoveryInv, CommitDataInv
<1>6. QED
  BY Zenon, <1>3, <1>4, <1>5 DEF recover_step

LEMMA EndData ==
    ASSUME ControlInv, DataInv, NEW p \in Procs, end_op(p)
    PROVE  DataInv'
<1> USE DEF end_op, bufvars
<1>1. committing = 0 /\ Committers = {}
  BY Zenon DEF ControlInv, CommitInv, Active, TypeOK
<1>2. pc \in [Procs -> PCs] /\ \A q \in Procs : q \notin Committers
  BY Zenon, <1>1 DEF ControlInv, TypeOK
<1>3. CASE outstanding = 1
  <2>1. /\ pc'[p] \in {"write_log", "finish"} /\ tail' = 0
        /\ \A q \in Procs \ {p} : pc'[q] = pc[q]
    BY <1>1, <1>2, <1>3, SMTT(60)
  <2>2. CacheInv'
    <3>1. dirty = Logged(lh)
      BY Zenon, <1>2 DEF DataInv, CacheInv, Committers
    <3>2. QED
      BY Zenon, <3>1 DEF DataInv, CacheInv, Logged
  <2>3. CommitDataInv(p)'
    <3> HIDE DEF end_op
    <3>1. pc'[p] \notin {"write_head", "install", "erase"}
      BY Zenon, <2>1
    <3>2. Copied(disk', cache', lh', tail')
      BY <2>1 DEF Copied
    <3>3. QED
      BY <3>1, <3>2, Zenon DEF CommitDataInv
  <2>4. \A q \in Procs \ {p} : CommitDataInv(q)'
    <3> HIDE DEF end_op
    <3>1. \A q \in Procs \ {p} : pc'[q] \notin {"write_log", "write_head", "install", "erase"}
      BY Zenon, <1>2, <2>1 DEF Committers
    <3>2. QED
      BY <3>1, Zenon DEF CommitDataInv
  <2>5. QED
    BY Zenon, <2>2, <2>3, <2>4 DEF DataInv, RecoveryInv
<1>4. CASE outstanding # 1
  <2>1. \A q \in Procs : \/ pc'[q] = pc[q]
                         \/ /\ pc[q] \notin {"install", "erase"}
                            /\ pc'[q] \notin {"write_log", "write_head", "install", "erase"}
    BY Zenon, <1>1, <1>2, <1>4 DEF wakeup
  <2>2. QED
    BY Zenon, <1>1, <1>4, <2>1, DataFrame
<1>5. QED
  BY Zenon, <1>3, <1>4

LEMMA DataStep ==
    ASSUME ControlInv, FitsInv, DataInv, [Next]_vars
    PROVE  DataInv'
<1> USE DEF bufvars, logvars, procvars
<1>0. pc \in [Procs -> PCs]
  BY Zenon DEF ControlInv, TypeOK
<1>1. ASSUME NEW p \in Procs, begin_op(p) PROVE DataInv'
  <2>1. \A q \in Procs : \/ pc'[q] = pc[q]
                         \/ /\ pc[q] \notin {"install", "erase"}
                            /\ pc'[q] \notin {"write_log", "write_head", "install", "erase"}
    BY Zenon, <1>0, <1>1 DEF begin_op, begin_op_or_sleep
  <2>2. QED
    BY Zenon, <1>1, <2>1, DataFrame DEF begin_op, begin_op_or_sleep
<1>2. ASSUME NEW p \in Procs, NEW b \in Home, log_write_check(p, b) PROVE DataInv'
  <2>1. \A q \in Procs : \/ pc'[q] = pc[q]
                         \/ /\ pc[q] \notin {"install", "erase"}
                            /\ pc'[q] \notin {"write_log", "write_head", "install", "erase"}
    BY Zenon, <1>0, <1>2 DEF log_write_check
  <2>2. QED
    BY Zenon, <1>2, <2>1, DataFrame DEF log_write_check
<1>3. ASSUME NEW p \in Procs, NEW v \in Val, log_write_append(p, v) PROVE DataInv'
  BY Zenon, <1>3, AppendData
<1>4. ASSUME NEW p \in Procs, end_op(p) PROVE DataInv'
  BY Zenon, <1>4, EndData
<1>5. ASSUME NEW p \in Procs, commit_step(p) PROVE DataInv'
  BY Zenon, <1>5, CommitData
<1>6. CASE recover_step
  BY Zenon, <1>6, RecoverData
<1>7. CASE crash
  BY Zenon, <1>7 DEF crash, DataInv, CacheInv, RecoveryInv, CommitDataInv
<1>8. CASE UNCHANGED vars
  BY Zenon, <1>8, DataFrame DEF vars
<1>9. QED
  BY Zenon, <1>1, <1>2, <1>3, <1>4, <1>5, <1>6, <1>7, <1>8 DEF Next

\* The whole inductive invariant.
LogInv == ControlInv /\ FitsInv /\ DataInv

LEMMA LogInvariant ==
    ASSUME OpBlocks < MAXOPBLOCKS
    PROVE  Spec => []LogInv
<1>1. Init => LogInv
  BY Zenon, ControlInit, FitsInit, DataInit DEF LogInv
<1>2. LogInv /\ [Next]_vars => LogInv'
  BY Zenon, ControlStep, FitsStep, DataStep DEF LogInv
<1>3. QED
  BY <1>1, <1>2, PTL DEF Spec

\* When commit() has returned to end_op(), the disk holds what the buffer cache
\* holds: the finished calls survive a crash.
THEOREM CommittedUpdatesSurvive ==
    ASSUME OpBlocks < MAXOPBLOCKS
    PROVE  Spec => []CommittedIsDurable
<1>1. LogInv => CommittedIsDurable
  <2> SUFFICES ASSUME LogInv, NEW p \in Procs, pc[p] = "finish"
               PROVE  Stable = [b \in Home |-> cache[b]]
    BY Zenon DEF CommittedIsDurable
  <2>1. lh = <<>> /\ dhead = <<>>
    BY Zenon DEF LogInv, ControlInv, PhaseInv
  <2>2. dirty = {} /\ Home \subseteq Addr
    BY <2>1, EmptyLog, LogAddresses, SMTT(30) DEF LogInv, DataInv, CacheInv, Logged
  <2>3. \A b \in Home : cache[b] = disk[b]
    BY Zenon, <2>2 DEF LogInv, DataInv, CacheInv
  <2>4. Stable = [b \in Home |-> disk[b]]
    BY <2>1, EmptyLog, SMTT(30) DEF Stable, Overlay
  <2>5. QED
    BY Zenon, <2>3, <2>4
<1>2. QED
  BY <1>1, LogInvariant, PTL
-----------------------------------------------------------------------------
(***************************************************************************)
(* Refinement.                                                             *)
(***************************************************************************)
LEMMA OverlayFacts ==
    ASSUME NEW d, NEW h \in Seq(Home), Injective(h)
    PROVE  /\ \A i \in 1 .. Len(h) : Overlay(d, h)[h[i]] = d[i]
           /\ \A b \in Home : b \notin Logged(h) => Overlay(d, h)[b] = d[b]
<1>1. ASSUME NEW i \in 1 .. Len(h) PROVE Overlay(d, h)[h[i]] = d[i]
  <2>1. h[i] \in Home
    OBVIOUS
  <2>2. (CHOOSE j \in 1 .. Len(h) : h[j] = h[i]) = i
    BY Zenon DEF Injective
  <2>3. Overlay(d, h)[h[i]] = d[CHOOSE j \in 1 .. Len(h) : h[j] = h[i]]
    BY <2>1, Zenon DEF Overlay
  <2>4. QED
    BY <2>2, <2>3, Zenon
<1>2. ASSUME NEW b \in Home, b \notin Logged(h) PROVE Overlay(d, h)[b] = d[b]
  BY Zenon, <1>2 DEF Overlay, Logged
<1>3. QED
  BY Zenon, <1>1, <1>2

\* Two headers and disks give the same stable contents when they do so block
\* by block.
LEMMA OverlayEqual ==
    ASSUME NEW d, NEW h \in Seq(Home), Injective(h), NEW f,
           \A i \in 1 .. Len(h) : f[h[i]] = d[i],
           \A b \in Home : b \notin Logged(h) => f[b] = d[b]
    PROVE  Overlay(d, h) = [b \in Home |-> f[b]]
<1>1. \A b \in Home : Overlay(d, h)[b] = f[b]
  BY OverlayFacts DEF Logged
<1>2. Overlay(d, h) = [b \in Home |-> Overlay(d, h)[b]]
  BY Zenon DEF Overlay
<1>3. QED
  BY Zenon, <1>1, <1>2

LEMMA EmptyOverlay == \A d : Overlay(d, <<>>) = [b \in Home |-> d[b]]
BY EmptyLog DEF Overlay

LEMMA DiskInit == Init => Disk!Init
<1> SUFFICES ASSUME Init PROVE Disk!Init
  BY Zenon
<1>1. Active = {}
  BY Zenon DEF Init, Active
<1>2. Stable = [b \in Home |-> disk[b]] /\ Current = Stable
  BY Zenon, EmptyOverlay DEF Init, Stable, Current
<1>3. [b \in Home |-> disk[b]] \in [Home -> Val]
  BY LogAssumption DEF Init, Home, Addr, size
<1>4. QED
  BY Zenon, <1>1, <1>2, <1>3 DEF Disk!Init

\* No step of a commit but write_head() changes what is stable, and write_head()
\* makes everything stable that the cache holds.
LEMMA CommitRefines ==
    ASSUME LogInv, NEW p \in Procs, commit_step(p)
    PROVE  Disk!Commit \/ UNCHANGED Disk!vars
<1> USE DEF bufvars
<1>0. /\ ControlInv /\ FitsInv /\ DataInv /\ CommitDataInv(p) /\ PhaseInv(p)
      /\ mode = "run" /\ mode' = mode /\ Active = {}
      /\ pc \in [Procs -> PCs] /\ lh \in Seq(Home) /\ Injective(lh) /\ Injective(dhead)
      /\ disk \in [Addr -> Val] /\ cache \in [Addr -> Val]
      /\ tail \in Nat /\ Len(lh) \in Nat
  <2>1. p \in Committers /\ mode' = mode
    BY Zenon DEF commit_step, write_log, write_head, install_trans, erase, finish, Committers
  <2>2. mode = "run" /\ Active = {}
    BY Zenon, <2>1, CommitterAlone DEF LogInv
  <2>3. QED
    BY <2>1, <2>2, LogAssumption, SMTT(30) DEF LogInv, DataInv, ControlInv, TypeOK, HeadInv
<1>1. Active' = {}
  BY Zenon, <1>0 DEF commit_step, write_log, write_head, install_trans, erase, finish, Active,
              wakeup
<1>2. Current = [b \in Home |-> cache[b]] /\ Current' = [b \in Home |-> cache'[b]]
  BY Zenon, <1>0 DEF Current
<1>3. \A b \in Home : b \notin Logged(lh) => cache[b] = disk[b]
  BY Zenon, <1>0, LogAddresses DEF DataInv, CacheInv
<1>4. CASE write_log(p)
  <2> USE <1>4 DEF write_log
  <2>1. tail + 1 \in Addr /\ tail + 1 \notin Home
    BY <1>0, LogAddresses DEF PhaseInv
  <2>2. dhead = <<>> /\ dhead' = <<>>
    BY Zenon, <1>0 DEF PhaseInv
  <2>3. \A b \in Home : disk'[b] = disk[b] /\ cache'[b] = cache[b]
    BY ZenonT(40), <1>0, <2>1, LogAddresses DEF bwrite
  <2>4. Stable' = Stable /\ Current' = Current
    BY Zenon, <1>2, <2>2, <2>3, EmptyOverlay DEF Stable
  <2>5. QED
    BY Zenon, <1>0, <1>1, <2>4 DEF Disk!vars
<1>5. CASE write_head(p)
  <2> USE <1>5 DEF write_head
  <2>1. \A i \in 1 .. Len(lh) : cache[lh[i]] = disk[i]
    BY Zenon, <1>0 DEF CommitDataInv, Copied
  <2>2. Stable' = Overlay(disk, lh)
    BY Zenon DEF Stable
  <2>3. Stable' = Current
    BY <1>0, <1>2, <1>3, <2>1, <2>2, OverlayEqual, SMTT(30)
  <2>4. QED
    BY Zenon, <1>0, <1>1, <1>2, <2>3 DEF Disk!Commit
<1>6. CASE install_trans(p)
  <2> USE <1>6 DEF install_trans
  <2>1. tail < Len(lh) /\ dhead = lh /\ Installed(disk, lh, tail)
        /\ Copied(disk, cache, lh, Len(lh))
    BY Zenon, <1>0 DEF PhaseInv, CommitDataInv
  <2>2. /\ \A i \in 1 .. Len(lh) : disk'[i] = disk[i]
        /\ \A a \in Addr : a # lh[tail + 1] => disk'[a] = disk[a] /\ cache'[a] = cache[a]
        /\ cache'[lh[tail + 1]] = disk[tail + 1]
    BY <1>0, <2>1, InstallFacts, Zenon
  <2>3. cache[lh[tail + 1]] = disk[tail + 1] /\ lh[tail + 1] \in Logged(lh)
    <3> HIDE DEF install_trans
    <3>1. tail + 1 \in 1 .. Len(lh)
      BY <1>0, <2>1, SMTT(60)
    <3>2. QED
      BY Zenon, <2>1, <3>1 DEF Copied, Logged
  <2>4. \A b \in Home : cache'[b] = cache[b]
    <3> HIDE DEF install_trans
    <3> SUFFICES ASSUME NEW b \in Home PROVE cache'[b] = cache[b]
      BY Zenon
    <3>1. b \in Addr
      BY <1>0, LogAddresses, ZenonT(40)
    <3>2. QED
      BY <2>2, <2>3, <3>1, Zenon
  <2>5. \A b \in Home : b \notin Logged(lh) => disk'[b] = disk[b]
    BY Zenon, <2>2, <2>3, <1>0, LogAddresses
  <2>6. Stable = Overlay(disk, lh) /\ Stable' = Overlay(disk', lh)
    BY Zenon, <2>1 DEF Stable
  <2>7. Overlay(disk, lh) = [b \in Home |-> cache[b]]
    BY <1>0, <1>3, <2>1, OverlayEqual, SMTT(60) DEF Copied
  <2>8. Overlay(disk', lh) = [b \in Home |-> cache[b]]
    <3> HIDE DEF install_trans
    <3>1. \A i \in 1 .. Len(lh) : cache[lh[i]] = disk'[i]
      BY <2>1, <2>2, ZenonT(40) DEF Copied
    <3>2. \A b \in Home : b \notin Logged(lh) => cache[b] = disk'[b]
      BY Zenon, <1>3, <2>5
    <3>3. QED
      <4>1. ASSUME NEW d, \A i \in 1 .. Len(lh) : cache[lh[i]] = d[i],
                   \A b \in Home : b \notin Logged(lh) => cache[b] = d[b]
            PROVE  Overlay(d, lh) = [b \in Home |-> cache[b]]
        <5>1. lh \in Seq(Home) /\ Injective(lh)
          BY Zenon, <1>0
        <5>2. QED
          BY <4>1, <5>1, OverlayEqual
      <4>2. QED
        BY <3>1, <3>2, <4>1, ZenonT(40)
  <2>9. Current' = Current
    BY Zenon, <1>2, <2>4
  <2>10. QED
    BY Zenon, <1>0, <1>1, <2>6, <2>7, <2>8, <2>9 DEF Disk!vars
<1>7. CASE erase(p)
  <2> USE <1>7 DEF erase
  <2>1. dhead = lh /\ Installed(disk, lh, Len(lh))
    BY Zenon, <1>0 DEF PhaseInv, CommitDataInv
  <2>2. Overlay(disk, lh) = [b \in Home |-> disk[b]]
    BY <1>0, <2>1, OverlayEqual DEF Installed
  <2>3. Stable' = Stable
    BY Zenon, <2>1, <2>2, EmptyOverlay DEF Stable
  <2>4. QED
    BY Zenon, <1>0, <1>1, <1>2, <2>3 DEF Disk!vars
<1>8. CASE finish(p)
  BY Zenon, <1>0, <1>1, <1>2, <1>8 DEF finish, Stable, Disk!vars
<1>9. QED
  BY Zenon, <1>4, <1>5, <1>6, <1>7, <1>8 DEF commit_step

\* Recovery changes neither: it replays what is stable already.
LEMMA RecoverRefines ==
    ASSUME LogInv, recover_step
    PROVE  UNCHANGED Disk!vars
<1> USE DEF bufvars, procvars
<1>0. /\ ControlInv /\ FitsInv /\ DataInv
      /\ Active = {} /\ mode # "run" /\ dirty = {}
      /\ lh \in Seq(Home) /\ dhead \in Seq(Home) /\ Injective(lh) /\ Injective(dhead)
      /\ tail \in Nat /\ Len(lh) \in Nat
      /\ disk \in [Addr -> Val] /\ cache \in [Addr -> Val]
  <2>1. mode # "run"
    BY Zenon DEF recover_step, read_head, recover_install, recover_erase
  <2>2. QED
    <3>1. ControlInv /\ FitsInv /\ DataInv
      BY ZenonT(40) DEF LogInv
    <3>2. Active = {} /\ dirty = {}
      BY Zenon, <2>1, <3>1 DEF DataInv, CacheInv, ControlInv, CommitInv
    <3>3. QED
      BY <2>1, <3>1, <3>2, LogAssumption DEF ControlInv, TypeOK, HeadInv
<1>1. Active' = {}
  BY Zenon, <1>0 DEF recover_step, read_head, recover_install, recover_erase, Active
<1>2. Current = Stable
  BY Zenon, <1>0 DEF Current
<1>3. CASE read_head
  <2>1. Stable' = Stable /\ mode' # "run"
    BY Zenon, <1>3 DEF read_head, Stable
  <2>2. Current' = Stable'
    BY Zenon, <2>1 DEF Current
  <2>3. QED
    BY Zenon, <1>0, <1>1, <1>2, <2>1, <2>2 DEF Disk!vars
<1>4. CASE recover_install
  <2> USE <1>4 DEF recover_install
  <2>1. tail < Len(lh) /\ dhead = lh /\ Installed(disk, lh, tail) /\ lh' = lh
    BY Zenon, <1>0 DEF HeadInv, ControlInv, DataInv, RecoveryInv
  <2>2. /\ \A i \in 1 .. Len(lh) : disk'[i] = disk[i]
        /\ \A a \in Addr : a # lh[tail + 1] => disk'[a] = disk[a]
    BY <1>0, <2>1, InstallFacts, Zenon
  <2>3. lh[tail + 1] \in Logged(lh)
    <3> HIDE DEF recover_install
    <3>1. tail + 1 \in 1 .. Len(lh)
      BY SMTT(30), <1>0, <2>1
    <3>2. QED
      BY Zenon, <3>1 DEF Logged
  <2>4. \A b \in Home : b \notin Logged(lh) => disk'[b] = disk[b]
    BY Zenon, <2>2, <2>3, <1>0, LogAddresses
  <2> DEFINE f == Overlay(disk, lh)
  <2>5. /\ \A i \in 1 .. Len(lh) : f[lh[i]] = disk[i]
        /\ \A b \in Home : b \notin Logged(lh) => f[b] = disk[b]
    BY <1>0, OverlayFacts, Zenon
  <2>6. f = [b \in Home |-> f[b]]
    BY Zenon DEF Overlay
  <2> HIDE DEF f
  <2>7. Overlay(disk', lh) = f
    <3>1. \A i \in 1 .. Len(lh) : f[lh[i]] = disk'[i]
      BY <2>2, <2>5, Zenon
    <3>2. \A b \in Home : b \notin Logged(lh) => f[b] = disk'[b]
      BY <2>4, <2>5, Zenon
    <3>3. Overlay(disk', lh) = [b \in Home |-> f[b]]
      <4> HIDE DEF recover_install
      <4>1. ASSUME NEW d, \A i \in 1 .. Len(lh) : f[lh[i]] = d[i],
                   \A b \in Home : b \notin Logged(lh) => f[b] = d[b]
            PROVE  Overlay(d, lh) = [b \in Home |-> f[b]]
        <5>1. lh \in Seq(Home) /\ Injective(lh)
          BY Zenon, <1>0
        <5>2. QED
          BY <4>1, <5>1, OverlayEqual
      <4>2. QED
        BY <3>1, <3>2, <4>1, ZenonT(40)
    <3>4. QED
      BY Zenon, <2>6, <3>3
  <2>8. Stable' = Stable
    BY Zenon, <2>1, <2>7 DEF Stable, f
  <2>9. Current' = Stable'
    BY Zenon, <1>0 DEF Current
  <2>10. QED
    BY Zenon, <1>0, <1>1, <1>2, <2>8, <2>9 DEF Disk!vars
<1>5. CASE recover_erase
  <2> USE <1>5 DEF recover_erase
  <2>1. dhead = lh /\ Installed(disk, lh, Len(lh))
    BY Zenon, <1>0 DEF HeadInv, ControlInv, DataInv, RecoveryInv
  <2>2. Overlay(disk, lh) = [b \in Home |-> disk[b]]
    BY <1>0, <2>1, OverlayEqual DEF Installed
  <2>3. Stable' = Stable /\ Stable = [b \in Home |-> disk[b]]
    BY Zenon, <2>1, <2>2, EmptyOverlay DEF Stable
  <2>4. \A b \in Home : cache[b] = disk[b]
    BY Zenon, <1>0, LogAddresses DEF DataInv, CacheInv
  <2>5. Current' = Stable
    BY Zenon, <2>3, <2>4 DEF Current
  <2>6. QED
    BY Zenon, <1>0, <1>1, <1>2, <2>3, <2>5 DEF Disk!vars
<1>6. QED
  BY Zenon, <1>3, <1>4, <1>5 DEF recover_step

LEMMA DiskStep ==
    ASSUME LogInv, [Next]_vars
    PROVE  [Disk!Next]_(Disk!vars)
<1> USE DEF bufvars, logvars, procvars
<1>0. /\ pc \in [Procs -> PCs] /\ cache \in [Addr -> Val] /\ Home \subseteq Addr
  BY Zenon, LogAddresses DEF LogInv, ControlInv, TypeOK
<1>1. ASSUME NEW p \in Procs, begin_op(p) PROVE Disk!Begin(p) \/ UNCHANGED Disk!vars
  <2> USE <1>1 DEF begin_op, begin_op_or_sleep
  <2>1. Stable' = Stable /\ Current' = Current
    BY Zenon DEF Stable, Current
  <2>2. p \notin Active /\ Active' \in {Active, Active \cup {p}}
    BY Zenon, <1>0 DEF Active
  <2>3. QED
    BY Zenon, <2>1, <2>2 DEF Disk!Begin, Disk!vars
<1>2. ASSUME NEW p \in Procs, NEW b \in Home, log_write_check(p, b)
      PROVE  UNCHANGED Disk!vars
  <2> USE <1>2 DEF log_write_check
  <2>1. Stable' = Stable /\ Current' = Current
    <3>1. disk' = disk /\ dhead' = dhead /\ cache' = cache /\ mode' = mode
      BY ZenonT(40)
    <3> HIDE DEF log_write_check
    <3>2. Stable' = Stable
      BY <3>1, Zenon DEF Stable, Overlay
    <3>3. QED
      BY <3>1, <3>2, Zenon DEF Current
  <2>2. Active' = Active
    BY Zenon, <1>0 DEF Active
  <2>3. QED
    BY Zenon, <2>1, <2>2 DEF Disk!vars
<1>3. ASSUME NEW p \in Procs, NEW v \in Val, log_write_append(p, v)
      PROVE  \E b \in Home : Disk!Write(p, b, v)
  <2> USE <1>3 DEF log_write_append
  <2>1. p \in Active /\ hold[p] \in Home
    BY ZenonT(40) DEF LogInv, ControlInv, OpInv, Active
  <2>2. Active' = Active
    <3>1. \A q \in Procs \ {p} : pc'[q] = pc[q]
      BY <1>0, ZenonT(40)
    <3>2. pc[p] \in {"op", "append", "panic"} /\ pc'[p] \in {"op", "append", "panic"}
      BY <1>0, ZenonT(40)
    <3> HIDE DEF log_write_append
    <3>3. QED
      BY <3>1, <3>2, Zenon DEF Active
  <2>3. Stable' = Stable
    <3>1. disk' = disk /\ dhead' = dhead
      BY ZenonT(40)
    <3> HIDE DEF log_write_append
    <3>2. QED
      BY <3>1, Zenon DEF Stable, Overlay
  <2>4. Current = [b \in Home |-> cache[b]] /\ Current' = [b \in Home |-> cache'[b]]
    <3>1. mode = "run" /\ mode' = "run"
      BY ZenonT(40)
    <3> HIDE DEF log_write_append
    <3>2. QED
      BY <3>1, Zenon DEF Current
  <2>5. Current' = [Current EXCEPT ![hold[p]] = v]
    BY Zenon, <1>0, <2>1, <2>4
  <2>6. QED
    BY <2>1, <2>2, <2>3, <2>5, Zenon DEF Disk!Write
<1>4. ASSUME NEW p \in Procs, end_op(p) PROVE Disk!End(p)
  <2> USE <1>4 DEF end_op
  <2>1. Stable' = Stable /\ Current' = Current
    BY Zenon DEF Stable, Current
  <2>2. p \in Active /\ committing = 0
    BY Zenon DEF LogInv, ControlInv, CommitInv, Active, TypeOK
  <2>3. /\ pc'[p] \notin {"op", "append", "panic"}
        /\ \A q \in Procs \ {p} : pc'[q] \in {"op", "append", "panic"}
                                  <=> pc[q] \in {"op", "append", "panic"}
    BY <1>0, <2>2 DEF wakeup
  <2>4. Active' = Active \ {p}
    BY Zenon, <2>3 DEF Active
  <2>5. QED
    BY Zenon, <2>1, <2>2, <2>4 DEF Disk!End
<1>5. ASSUME NEW p \in Procs, commit_step(p) PROVE Disk!Commit \/ UNCHANGED Disk!vars
  BY Zenon, <1>5, CommitRefines
<1>6. CASE recover_step
  BY Zenon, <1>6, RecoverRefines
<1>7. CASE crash
  <2>1. Active' = {} /\ Stable' = Stable /\ Current' = Stable'
    BY Zenon, <1>7 DEF crash, Active, Stable, Current
  <2>2. QED
    BY Zenon, <2>1 DEF Disk!Crash, Disk!Next
<1>8. CASE UNCHANGED vars
  BY Zenon, <1>8 DEF vars, Disk!vars, Active, Stable, Current
<1>9. QED
  BY Zenon, <1>1, <1>2, <1>3, <1>4, <1>5, <1>6, <1>7, <1>8 DEF Next, Disk!Next

\* log.c implements the atomic disk, for every number of processes, blocks and
\* crashes: begin_op, log_write and end_op are its operations, the first
\* write_head() of commit() is its commit, and recovery after a crash shows
\* exactly the committed contents.
THEOREM LogImplementsDisk ==
    ASSUME OpBlocks < MAXOPBLOCKS
    PROVE  Spec => ImplementsAtomicDisk
<1>1. LogInv /\ [Next]_vars => [Disk!Next]_(Disk!vars)
  BY Zenon, DiskStep
<1>2. QED
  BY <1>1, DiskInit, LogInvariant, PTL DEF Spec, ImplementsAtomicDisk, Disk!Spec
=============================================================================
