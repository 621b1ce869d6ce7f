------------------------------ MODULE BioProofs ------------------------------
(***************************************************************************)
(* Proofs about the buffer cache and the disk driver (Bio.tla), for any    *)
(* number of buffers, blocks, processes and failures.                      *)
(***************************************************************************)
EXTENDS Bio, FiniteSetTheorems, WellFoundedInduction, TLAPS

-----------------------------------------------------------------------------
(* The inductive invariant. *)

\* Where a process has a reference to its buffer.
Holding == Locking \cup {"acquiresleep", "locksleep", "brelse"}
Holders(b) == {p \in Procs : buf[p] = b /\ pc[p] \in Holding}

OneBuffer == \A b, c \in Bufs : blockno[b] = blockno[c] /\ blockno[b] # 0 => b = c
CountInv == \A b \in Bufs : refcnt[b] = Cardinality(Holders(b))

\* A process with a reference has a buffer, and the buffer has a block.
HoldInv == \A p \in Procs : pc[p] \in Holding => buf[p] \in Bufs /\ blockno[buf[p]] # 0

\* A sleep-lock is held by the process that is between acquiresleep() and
\* releasesleep() with the buffer.
LockInv == /\ \A p \in Procs : pc[p] \in Locking => locked[buf[p]] = p
           /\ \A b \in Bufs : locked[b] # 0 => pc[locked[b]] \in Locking /\ buf[locked[b]] = b

\* No buffer is in the list of bcache.head twice.
ListInv == \A i, j \in Places : mru[i] = mru[j] => i = j

\* The flags of a buffer, and what its user knows of them.
FlagInv ==
    /\ \A b \in Bufs : (blockno[b] = 0 => valid[b] = 0) /\ (valid[b] = 0 => dirty[b] = 0)
    /\ \A p \in Procs :
           /\ pc[p] = "using" => valid[buf[p]] = 1
           /\ pc[p] \in {"iderw", "iosleep"} => valid[buf[p]] = 0 \/ dirty[buf[p]] = 1

\* What the device has of the request at the head of the queue.
DeviceInv ==
    LET b == idequeue[1] IN
    /\ device = "busy" /\ dirty[b] = 1 => latch = data[b]
    /\ device = "done" /\ dirty[b] = 1 => disk[blockno[b]] = data[b]
    /\ device = "failed" => blockno[b] \in bad

PinInv == Cardinality(pinned) <= MaxPinned

ControlInv == TypeOK /\ HoldInv /\ LockInv /\ CountInv /\ NoLostRelease
CacheInv == OneBuffer /\ ListInv /\ FlagInv
DiskInv == QueueMatchesSleepers /\ DeviceInv /\ CleanMatchesDisk
BioInv == ControlInv /\ CacheInv /\ DiskInv /\ PinInv
-----------------------------------------------------------------------------
(* Facts about the counts and the list. *)

LEMMA Counts == NBUF \in Nat /\ Cardinality(Procs) \in Nat
BY Zenon, BioAssumption, FS_CardinalityType DEF NBUF

\* A set of places that is not empty has a last one.
LEMMA LastPlace ==
    ASSUME NEW J \in SUBSET Places, J # {}
    PROVE  Last(J) \in J
<1> DEFINE T == {NBUF - j : j \in J}
<1>1. NBUF \in Nat /\ \A j \in J : j \in Nat /\ NBUF - j \in Nat
  BY Counts DEF Places
<1>2. T \subseteq Nat /\ T # {}
  BY Zenon, <1>1
<1>3. PICK x \in T : \A y \in T : ~(<<y, x>> \in OpToRel(<, Nat))
  BY <1>2, WFMin, NatLessThanWellFounded, Zenon
<1>4. PICK j \in J : x = NBUF - j
  BY Zenon, <1>3
<1>5. ASSUME NEW k \in J PROVE k <= j
  <2>1. ~(<<NBUF - k, NBUF - j>> \in OpToRel(<, Nat))
    BY Zenon, <1>3, <1>4
  <2>2. ~(NBUF - k < NBUF - j)
    BY Zenon, <1>1, <2>1 DEF OpToRel
  <2>3. QED
    BY <1>1, <2>2
<1>6. QED
  BY Zenon, <1>5 DEF Last

\* The processes with a reference to a buffer are finitely many, and a buffer
\* without references has none.
LEMMA HoldersCounted ==
    ASSUME NEW b
    PROVE  /\ IsFiniteSet(Holders(b))
           /\ Cardinality(Holders(b)) \in 0 .. Cardinality(Procs)
           /\ Cardinality(Holders(b)) = 0 <=> Holders(b) = {}
BY SMTT(30), BioAssumption, FS_Subset, FS_CardinalityType, FS_EmptySet DEF Holders

LEMMA CountType ==
    ASSUME CountInv', NEW b \in Bufs
    PROVE  refcnt'[b] \in 0 .. Cardinality(Procs)
<1>1. Holders(b)' \in SUBSET Procs
  BY Zenon DEF Holders
<1>2. Cardinality(Holders(b)') \in 0 .. Cardinality(Procs)
  BY <1>1, BioAssumption, FS_Subset, FS_CardinalityType
<1>3. QED
  BY Zenon, <1>2 DEF CountInv

\* The counts stay exact when nobody takes or drops a reference.
LEMMA CountFrame ==
    ASSUME CountInv, refcnt' = refcnt,
           \A q \in Procs : /\ buf'[q] = buf[q]
                            /\ pc'[q] \in Holding <=> pc[q] \in Holding
    PROVE  CountInv'
<1>1. \A b : Holders(b)' = Holders(b)
  BY Zenon DEF Holders
<1>2. QED
  BY Zenon, <1>1 DEF CountInv

LEMMA PinnedFinite == IsFiniteSet(pinned) /\ Cardinality(pinned) \in Nat
BY Zenon, BioAssumption, FS_Subset, FS_CardinalityType DEF pinned

\* Fewer pinned buffers are not too many.
LEMMA PinFrame ==
    ASSUME PinInv, pinned' \subseteq pinned
    PROVE  PinInv'
<1>1. Cardinality(pinned') <= Cardinality(pinned) /\ Cardinality(pinned') \in Nat
  BY Zenon, PinnedFinite, FS_Subset, FS_CardinalityType
<1>2. QED
  BY <1>1, PinnedFinite, BioAssumption DEF PinInv

\* Nobody begins or ends to wait in iderw() ...
LEMMA WaitingSame ==
    ASSUME \A q \in Procs : /\ pc'[q] = "iosleep" <=> pc[q] = "iosleep"
                            /\ pc'[q] = "iotest" <=> pc[q] = "iotest"
                            /\ pc[q] \in {"iosleep", "iotest"} =>
                                  /\ buf'[q] = buf[q]
                                  /\ valid'[buf[q]] = valid[buf[q]]
                                  /\ dirty'[buf[q]] = dirty[buf[q]]
    PROVE  Waiting' = Waiting /\ \A q \in Waiting : buf'[q] = buf[q]
<1>1. \A q \in Waiting : buf'[q] = buf[q]
  BY Zenon DEF Waiting
<1>2. ASSUME NEW q \in Procs PROVE q \in Waiting' <=> q \in Waiting
  BY Zenon DEF Waiting
<1>3. Waiting \subseteq Procs /\ Waiting' \subseteq Procs
  BY Zenon DEF Waiting
<1>4. QED
  BY Zenon, <1>1, <1>2, <1>3

\* ... and the queue keeps matching when no transfer begins or ends.
LEMMA QueueFrame ==
    ASSUME QueueMatchesSleepers, TypeOK, UNCHANGED idequeue,
           device = "idle" <=> device' = "idle",
           Waiting' = Waiting, \A q \in Waiting : buf'[q] = buf[q],
           \A j \in DOMAIN idequeue : locked'[idequeue[j]] = locked[idequeue[j]]
    PROVE  QueueMatchesSleepers'
<1>1. device' = "idle" <=> idequeue' = <<>>
  BY Zenon DEF QueueMatchesSleepers
<1>2. ASSUME NEW q \in Waiting'
      PROVE  \E j \in DOMAIN idequeue' : idequeue'[j] = buf'[q]
  BY <1>2 DEF QueueMatchesSleepers
<1>3. ASSUME NEW j \in DOMAIN idequeue', NEW b, b = idequeue'[j]
      PROVE  locked'[b] \in Waiting' /\ buf'[locked'[b]] = b
  <2>1. j \in DOMAIN idequeue /\ b = idequeue[j] /\ b \in Bufs
    BY <1>3 DEF TypeOK
  <2>2. locked[b] \in Waiting /\ buf[locked[b]] = b
    BY <2>1, Zenon DEF QueueMatchesSleepers
  <2>3. locked'[b] = locked[b]
    BY Zenon, <2>1
  <2>4. QED
    BY Zenon, <2>2, <2>3
<1>4. \A i, j \in DOMAIN idequeue' : idequeue'[i] = idequeue'[j] => i = j
  BY Zenon DEF QueueMatchesSleepers
<1>5. QED
  BY <1>1, <1>2, <1>3, <1>4, ZenonT(30) DEF QueueMatchesSleepers

\* A buffer in the queue is locked.
LEMMA QueueLocked ==
    ASSUME QueueMatchesSleepers
    PROVE  \A j \in DOMAIN idequeue : locked[idequeue[j]] \in Procs /\ locked[idequeue[j]] # 0
<1>1. \A j \in DOMAIN idequeue : locked[idequeue[j]] \in Waiting
  BY Zenon DEF QueueMatchesSleepers
<1>2. Waiting \subseteq Procs
  BY Zenon DEF Waiting
<1>3. QED
  BY Zenon, <1>1, <1>2, BioAssumption

LEMMA InitInv == Init => BioInv
<1> SUFFICES ASSUME Init PROVE BioInv
  BY Zenon
<1> USE DEF Init
<1>1. \A b : Holders(b) = {}
  BY Zenon DEF Holders, Holding, Locking
<1>2. CountInv
  BY Zenon, <1>1, FS_EmptySet DEF CountInv
<1>3. (CHOOSE v \in Vals : TRUE) \in Vals
  BY Zenon, BioAssumption
<1>4. TypeOK
  BY <1>3, Counts DEF TypeOK, PCs, Places
<1>5. HoldInv /\ LockInv /\ NoLostRelease
  BY Zenon DEF HoldInv, LockInv, NoLostRelease, Holding, Locking
<1>6. CacheInv
  BY Zenon DEF CacheInv, OneBuffer, ListInv, FlagInv
<1>7. DiskInv
  <2>1. Waiting = {}
    BY Zenon DEF Waiting
  <2>2. QED
    BY <2>1 DEF DiskInv, QueueMatchesSleepers, DeviceInv, CleanMatchesDisk
<1>8. pinned = {}
  BY DEF pinned
<1>9. PinInv
  BY <1>8, FS_EmptySet, BioAssumption DEF PinInv
<1>10. QED
  BY Zenon, <1>2, <1>4, <1>5, <1>6, <1>7, <1>9 DEF BioInv, ControlInv
-----------------------------------------------------------------------------
(* The steps of bget() and brelse(). *)

LEMMA BgetCachedInv ==
    ASSUME BioInv, NEW p \in Procs, NEW k \in Blocks, bget_cached(p, k)
    PROVE  BioInv'
<1> USE DEF BioInv, ControlInv, CacheInv, DiskInv, cache, ide
<1>1. PICK b \in Bufs : /\ blockno[b] = k
                        /\ refcnt' = [refcnt EXCEPT ![b] = @ + 1]
                        /\ buf' = [buf EXCEPT ![p] = b]
  BY Zenon DEF bget_cached
<1>2. /\ pc[p] = "idle" /\ pc' = [pc EXCEPT ![p] = "acquiresleep"]
      /\ UNCHANGED <<blockno, mru, valid, dirty, data, locked, idequeue, device, latch, disk, bad>>
  BY Zenon DEF bget_cached, Goto
<1>3. /\ pc'[p] = "acquiresleep" /\ buf'[p] = b
      /\ \A q \in Procs \ {p} : pc'[q] = pc[q] /\ buf'[q] = buf[q]
  BY Zenon, <1>1, <1>2 DEF TypeOK
<1>4. \A c : p \notin Holders(c)
  BY Zenon, <1>2 DEF Holders, Holding, Locking
<1>5. CountInv'
  <2>1. Holders(b)' = Holders(b) \cup {p}
    BY Zenon, <1>3, <1>4 DEF Holders, Holding
  <2>2. \A c \in Bufs \ {b} : Holders(c)' = Holders(c)
    BY Zenon, <1>3, <1>4 DEF Holders, Holding
  <2>3. Cardinality(Holders(b)') = Cardinality(Holders(b)) + 1
    BY Zenon, <1>4, <2>1, FS_AddElement, HoldersCounted
  <2>4. QED
    BY Zenon, <1>1, <2>2, <2>3 DEF CountInv, TypeOK
<1>6. TypeOK'
  <2>1. refcnt' \in [Bufs -> 0 .. Cardinality(Procs)]
    BY Zenon, <1>1, <1>5, CountType DEF TypeOK
  <2>2. QED
    BY Zenon, <1>1, <1>2, <2>1 DEF TypeOK, PCs
<1>7. HoldInv'
  BY <1>1, <1>2, <1>3, BioAssumption DEF HoldInv
<1>8. LockInv' /\ NoLostRelease'
  BY <1>2, <1>3 DEF LockInv, NoLostRelease, Locking, TypeOK
<1>9. CacheInv'
  BY ZenonT(40), <1>2, <1>3 DEF OneBuffer, ListInv, FlagInv
<1>10. DiskInv'
  <2>1. QueueMatchesSleepers'
    BY Zenon, <1>2, <1>3, WaitingSame, QueueFrame
  <2>2. DeviceInv' /\ CleanMatchesDisk'
    BY Zenon, <1>2 DEF DeviceInv, CleanMatchesDisk
  <2>3. QED
    BY Zenon, <2>1, <2>2
<1>11. pinned' = pinned
  BY Zenon, <1>2, <1>3 DEF pinned
<1>12. QED
  BY Zenon, <1>5, <1>6, <1>7, <1>8, <1>9, <1>10, <1>11, PinFrame

\* What bget() recycles is in nobody's hands.
LEMMA UnusedBuffer ==
    ASSUME BioInv, unused # {}, NEW b, b = mru[Last(unused)]
    PROVE  /\ b \in Bufs /\ refcnt[b] = 0 /\ dirty[b] = 0 /\ locked[b] = 0
           /\ \A q \in Procs : pc[q] \in Holding => buf[q] # b
           /\ \A j \in DOMAIN idequeue : idequeue[j] # b
<1> USE DEF BioInv, ControlInv, DiskInv
<1>1. Last(unused) \in unused
  BY Zenon, LastPlace DEF unused
<1>2. b \in Bufs /\ refcnt[b] = 0 /\ dirty[b] = 0
  BY Zenon, <1>1 DEF unused, TypeOK
<1>3. Holders(b) = {}
  BY Zenon, <1>2, HoldersCounted DEF CountInv
<1>4. \A q \in Procs : pc[q] \in Holding => buf[q] # b
  BY Zenon, <1>3 DEF Holders
<1>5. locked[b] = 0
  BY <1>2, <1>4 DEF LockInv, Holding, TypeOK
<1>6. \A j \in DOMAIN idequeue : idequeue[j] # b
  BY Zenon, <1>5, QueueLocked
<1>7. QED
  BY Zenon, <1>2, <1>4, <1>5, <1>6

LEMMA BgetPanicInv ==
    ASSUME BioInv, NEW p \in Procs, pc[p] = "idle", pc' = [pc EXCEPT ![p] = "panic"],
           UNCHANGED <<cache, valid, dirty, data, locked, ide, buf>>
    PROVE  BioInv'
<1> USE DEF BioInv, ControlInv, CacheInv, DiskInv, cache, ide
<1>1. pc'[p] = "panic" /\ \A q \in Procs \ {p} : pc'[q] = pc[q]
  BY Zenon DEF TypeOK
<1>2. CountInv'
  BY Zenon, <1>1, CountFrame DEF Holding, Locking
<1>3. TypeOK'
  BY Zenon DEF TypeOK, PCs
<1>4. HoldInv' /\ LockInv' /\ NoLostRelease'
  BY <1>1 DEF HoldInv, LockInv, NoLostRelease, Holding, Locking, TypeOK
<1>5. CacheInv'
  BY Zenon, <1>1 DEF OneBuffer, ListInv, FlagInv
<1>6. DiskInv'
  BY Zenon, <1>1, WaitingSame, QueueFrame DEF DeviceInv, CleanMatchesDisk
<1>7. pinned' = pinned
  BY Zenon, <1>1 DEF pinned
<1>8. QED
  BY Zenon, <1>2, <1>3, <1>4, <1>5, <1>6, <1>7, PinFrame

LEMMA BgetRecycleInv ==
    ASSUME BioInv, NEW p \in Procs, NEW k \in Blocks, bget_recycle(p, k)
    PROVE  BioInv'
<1> USE DEF cache, ide
<1>1. CASE unused = {}
  BY Zenon, <1>1, BgetPanicInv DEF bget_recycle, Goto
<1>2. CASE unused # {}
  <2> PICK b : b = mru[Last(unused)]
    BY Zenon
  <2> USE DEF BioInv, ControlInv, CacheInv, DiskInv
  <2>1. /\ b \in Bufs /\ refcnt[b] = 0 /\ dirty[b] = 0 /\ locked[b] = 0
        /\ \A q \in Procs : pc[q] \in Holding => buf[q] # b
        /\ \A j \in DOMAIN idequeue : idequeue[j] # b
    BY Zenon, <1>2, UnusedBuffer
  <2>2. /\ pc[p] = "idle" /\ pc' = [pc EXCEPT ![p] = "acquiresleep"]
        /\ \A c \in Bufs : blockno[c] # k
        /\ blockno' = [blockno EXCEPT ![b] = k]
        /\ valid' = [valid EXCEPT ![b] = 0]
        /\ refcnt' = [refcnt EXCEPT ![b] = 1]
        /\ buf' = [buf EXCEPT ![p] = b]
        /\ UNCHANGED <<mru, dirty, data, locked, idequeue, device, latch, disk, bad>>
    BY Zenon, <1>2 DEF bget_recycle, Goto
  <2>3. /\ pc'[p] = "acquiresleep" /\ buf'[p] = b
        /\ \A q \in Procs \ {p} : pc'[q] = pc[q] /\ buf'[q] = buf[q]
        /\ blockno'[b] = k /\ valid'[b] = 0
        /\ \A c \in Bufs \ {b} : blockno'[c] = blockno[c] /\ valid'[c] = valid[c]
    BY Zenon, <2>1, <2>2 DEF TypeOK
  <2>4. CountInv'
    <3>1. Holders(b)' = {p}
      BY <2>1, <2>2, <2>3 DEF Holders, Holding
    <3>2. \A c \in Bufs \ {b} : Holders(c)' = Holders(c)
      BY ZenonT(40), <2>2, <2>3 DEF Holders, Holding, Locking
    <3>3. Cardinality({p}) = 1
      BY Zenon, FS_Singleton
    <3>4. refcnt'[b] = 1 /\ \A c \in Bufs \ {b} : refcnt'[c] = refcnt[c]
      BY Zenon, <2>1, <2>2 DEF TypeOK
    <3>5. ASSUME NEW c \in Bufs PROVE refcnt'[c] = Cardinality(Holders(c)')
      <4>1. CASE c = b
        BY Zenon, <3>1, <3>3, <3>4, <4>1
      <4>2. CASE c # b
        BY Zenon, <3>2, <3>4, <4>2 DEF CountInv
      <4>3. QED
        BY Zenon, <4>1, <4>2
    <3>6. QED
      BY <3>5, Zenon DEF CountInv
  <2>5. TypeOK'
    <3>1. refcnt' \in [Bufs -> 0 .. Cardinality(Procs)]
      BY Zenon, <2>2, <2>4, CountType DEF TypeOK
    <3>2. QED
      BY Zenon, <2>1, <2>2, <3>1 DEF TypeOK, PCs
  <2>6. HoldInv'
    BY <2>1, <2>3, BioAssumption DEF HoldInv
  <2>7. LockInv' /\ NoLostRelease'
    BY <2>2, <2>3 DEF LockInv, NoLostRelease, Locking, TypeOK
  <2>8. OneBuffer' /\ ListInv'
    BY <2>2, <2>3 DEF OneBuffer, ListInv
  <2>9. FlagInv'
    BY <2>1, <2>2, <2>3, BioAssumption DEF FlagInv, HoldInv, Holding, Locking
  <2>10. QueueMatchesSleepers'
    <3>1. \A q \in Procs : pc[q] \in {"iosleep", "iotest"} => buf[q] \in Bufs \ {b} /\ q # p
      BY Zenon, <2>1, <2>2 DEF HoldInv, Holding, Locking
    <3>2. Waiting' = Waiting /\ \A q \in Waiting : buf'[q] = buf[q]
      BY Zenon, <2>2, <2>3, <3>1, WaitingSame
    <3>3. QED
      BY Zenon, <2>2, <3>2, QueueFrame
  <2>11. CleanMatchesDisk'
    BY SMTT(30), <2>2, <2>3 DEF CleanMatchesDisk
  <2>12. DeviceInv'
    BY <2>1, <2>2, <2>3 DEF DeviceInv, QueueMatchesSleepers, TypeOK
  <2>13. pinned' = pinned
    <3>1. ASSUME NEW q \in Procs, NEW c \in Bufs
          PROVE  buf'[q] = c /\ pc'[q] \in {"iderw", "iosleep", "iotest"} <=>
                     buf[q] = c /\ pc[q] \in {"iderw", "iosleep", "iotest"}
      <4>1. CASE q = p
        BY Zenon, <2>2, <2>3, <4>1
      <4>2. CASE q # p
        BY Zenon, <2>3, <4>2
      <4>3. QED
        BY Zenon, <4>1, <4>2
    <3>2. dirty' = dirty
      BY Zenon, <2>2
    <3>3. QED
      BY <3>1, <3>2, Zenon DEF pinned
  <2>14. QED
    BY Zenon, <2>4, <2>5, <2>6, <2>7, <2>8, <2>9, <2>10, <2>11, <2>12, <2>13, PinFrame
<1>3. QED
  BY Zenon, <1>1, <1>2

\* Who has locked a buffer has it alone, and it is not in the disk's queue
\* unless its user waits in iderw().
LEMMA LockedAlone ==
    ASSUME BioInv, NEW p \in Procs, pc[p] \in Locking, NEW b, b = buf[p]
    PROVE  /\ b \in Bufs /\ blockno[b] # 0 /\ blockno[b] \in Blocks /\ locked[b] = p /\ p # 0
           /\ \A q \in Procs \ {p} : pc[q] \in Locking => buf[q] # b
           /\ p \notin Waiting => \A j \in DOMAIN idequeue : idequeue[j] # b
<1> USE DEF BioInv, ControlInv, DiskInv
<1>1. b \in Bufs /\ blockno[b] # 0 /\ blockno[b] \in Blocks /\ locked[b] = p /\ p # 0
  BY BioAssumption DEF HoldInv, LockInv, Holding, TypeOK
<1>2. \A q \in Procs \ {p} : pc[q] \in Locking => buf[q] # b
  BY Zenon, <1>1 DEF LockInv
<1>3. p \notin Waiting => \A j \in DOMAIN idequeue : idequeue[j] # b
  BY <1>1 DEF QueueMatchesSleepers
<1>4. QED
  BY Zenon, <1>1, <1>2, <1>3

LEMMA AcquiresleepInv ==
    ASSUME BioInv, NEW p \in Procs, acquiresleep(p)
    PROVE  BioInv'
<1> USE DEF BioInv, ControlInv, CacheInv, DiskInv, cache, ide
<1> PICK b : b = buf[p]
  BY Zenon
<1>1. /\ pc[p] = "acquiresleep"
      /\ UNCHANGED <<blockno, refcnt, mru, valid, dirty, data, idequeue, device, latch, disk, bad, buf>>
  BY Zenon DEF acquiresleep
<1>2. b \in Bufs
  BY Zenon, <1>1 DEF HoldInv, Holding
<1>3. PICK l \in {"locksleep", "using", "iderw"} :
         /\ pc' = [pc EXCEPT ![p] = l]
         /\ \/ l = "locksleep" /\ locked[b] # 0 /\ locked' = locked
            \/ /\ l # "locksleep" /\ locked[b] = 0 /\ locked' = [locked EXCEPT ![b] = p]
               /\ l = IF valid[b] = 1 THEN "using" ELSE "iderw"
  BY Zenon DEF acquiresleep, Goto, bread
<1>4. /\ pc'[p] = l /\ \A q \in Procs \ {p} : pc'[q] = pc[q]
      /\ \A c \in Bufs \ {b} : locked'[c] = locked[c]
      /\ l = "locksleep" \/ locked'[b] = p
  BY <1>2, <1>3 DEF TypeOK
<1>5. CountInv'
  BY Zenon, <1>1, <1>4, CountFrame DEF Holding, Locking
<1>6. TypeOK'
  <2>1. pc' \in [Procs -> PCs]
    BY Zenon, <1>3 DEF TypeOK, PCs
  <2>2. locked' \in [Bufs -> Procs \cup {0}]
    BY Zenon, <1>3 DEF TypeOK
  <2>3. QED
    BY Zenon, <1>1, <2>1, <2>2 DEF TypeOK
<1>7. HoldInv'
  BY Zenon, <1>1, <1>4 DEF HoldInv, Holding, Locking
<1>8. LockInv'
  <2>1. ASSUME NEW q \in Procs, pc'[q] \in Locking PROVE locked'[buf'[q]] = q
    <3>1. CASE q = p
      BY Zenon, <1>1, <1>4, <2>1, <3>1 DEF Locking
    <3>2. CASE q # p
      <4>1. pc[q] \in Locking /\ locked[buf[q]] = q /\ buf[q] \in Bufs /\ q # 0
        BY Zenon, <1>4, <2>1, <3>2, BioAssumption DEF LockInv, HoldInv, Holding
      <4>2. buf[q] # b \/ l = "locksleep"
        BY Zenon, <1>3, <4>1
      <4>3. QED
        BY Zenon, <1>1, <1>3, <1>4, <4>1, <4>2
    <3>3. QED
      BY Zenon, <3>1, <3>2
  <2>2. ASSUME NEW c \in Bufs, locked'[c] # 0
        PROVE  pc'[locked'[c]] \in Locking /\ buf'[locked'[c]] = c
    <3>1. CASE c = b /\ l # "locksleep"
      BY Zenon, <1>1, <1>3, <1>4, <3>1 DEF Locking
    <3>2. CASE ~(c = b /\ l # "locksleep")
      <4>1. locked'[c] = locked[c] /\ locked[c] \in Procs
        BY SMTT(30), <1>3, <1>4, <2>2, <3>2 DEF TypeOK
      <4>2. pc[locked[c]] \in Locking /\ buf[locked[c]] = c /\ locked[c] # p
        BY Zenon, <1>1, <2>2, <4>1 DEF LockInv, Locking
      <4>3. QED
        BY Zenon, <1>1, <1>4, <4>1, <4>2
    <3>3. QED
      BY Zenon, <3>1, <3>2
  <2>3. QED
    BY Zenon, <2>1, <2>2 DEF LockInv
<1>9. NoLostRelease'
  BY <1>1, <1>3, <1>4, BioAssumption DEF NoLostRelease, HoldInv, Holding, TypeOK
<1>10. CacheInv'
  <2>1. OneBuffer' /\ ListInv'
    BY Zenon, <1>1 DEF OneBuffer, ListInv
  <2>2. valid[b] \in {0, 1}
    BY Zenon, <1>2 DEF TypeOK
  <2>3. FlagInv'
    BY <1>1, <1>3, <1>4, <2>2 DEF FlagInv
  <2>4. QED
    BY Zenon, <2>1, <2>3
<1>11. DiskInv'
  <2>1. \A j \in DOMAIN idequeue : locked'[idequeue[j]] = locked[idequeue[j]]
    <3>1. \A j \in DOMAIN idequeue : idequeue[j] \in Bufs
      BY DEF TypeOK
    <3>2. \A j \in DOMAIN idequeue : locked[idequeue[j]] # 0
      BY Zenon, QueueLocked
    <3>3. QED
      BY Zenon, <1>3, <1>4, <3>1, <3>2
  <2>2. QueueMatchesSleepers'
    BY Zenon, <1>1, <1>3, <1>4, <2>1, WaitingSame, QueueFrame
  <2>3. DeviceInv' /\ CleanMatchesDisk'
    BY Zenon, <1>1 DEF DeviceInv, CleanMatchesDisk
  <2>4. QED
    BY Zenon, <2>2, <2>3
<1>12. pinned' \subseteq pinned
  BY Zenon, <1>1, <1>4 DEF pinned
<1>13. QED
  BY Zenon, <1>5, <1>6, <1>7, <1>8, <1>9, <1>10, <1>11, <1>12, PinFrame

\* bwrite() and log_write() change a buffer that is locked.
LEMMA ChangedInv ==
    ASSUME BioInv, NEW p \in Procs, NEW v \in Vals, pc[p] = "using",
           data' = [data EXCEPT ![buf[p]] = v],
           dirty' = [dirty EXCEPT ![buf[p]] = 1],
           NEW l \in {"using", "iderw"}, pc' = [pc EXCEPT ![p] = l],
           UNCHANGED <<cache, valid, locked, ide, buf>>
    PROVE  ControlInv' /\ CacheInv' /\ DiskInv'
<1> USE DEF BioInv, ControlInv, CacheInv, DiskInv, cache, ide
<1> PICK b : b = buf[p]
  BY Zenon
<1>1. /\ b \in Bufs /\ blockno[b] # 0 /\ locked[b] = p
      /\ \A q \in Procs \ {p} : pc[q] \in Locking => buf[q] # b
      /\ \A j \in DOMAIN idequeue : idequeue[j] # b
  BY ZenonT(40), LockedAlone DEF Locking, Waiting
<1>2. /\ pc'[p] = l /\ \A q \in Procs \ {p} : pc'[q] = pc[q]
      /\ data'[b] = v /\ dirty'[b] = 1
      /\ \A c \in Bufs \ {b} : data'[c] = data[c] /\ dirty'[c] = dirty[c]
  BY Zenon, <1>1 DEF TypeOK
<1>3. CountInv'
  BY Zenon, <1>2, CountFrame DEF Holding, Locking
<1>4. TypeOK'
  <2>1. pc' \in [Procs -> PCs]
    BY Zenon DEF TypeOK, PCs
  <2>2. data' \in [Bufs -> Vals] /\ dirty' \in [Bufs -> {0, 1}]
    BY Zenon DEF TypeOK
  <2>3. QED
    BY Zenon, <2>1, <2>2 DEF TypeOK
<1>5. HoldInv' /\ NoLostRelease'
  BY Zenon, <1>2 DEF HoldInv, NoLostRelease, Holding, Locking
<1>6. LockInv'
  <2>1. \A q \in Procs : pc'[q] \in Locking <=> pc[q] \in Locking
    BY Zenon, <1>2 DEF Locking
  <2>2. QED
    BY <2>1 DEF LockInv, TypeOK
<1>7. OneBuffer' /\ ListInv'
  BY Zenon DEF OneBuffer, ListInv
<1>8. FlagInv'
  <2>1. \A c \in Bufs : (blockno'[c] = 0 => valid'[c] = 0) /\ (valid'[c] = 0 => dirty'[c] = 0)
    BY Zenon, <1>2 DEF FlagInv
  <2>2. valid'[b] = 1 /\ buf'[p] = b
    BY Zenon DEF FlagInv
  <2>3. ASSUME NEW q \in Procs \ {p}, pc'[q] \in {"using", "iotest", "iderw", "iosleep"}
        PROVE  pc'[q] = pc[q] /\ buf'[q] = buf[q] /\ valid'[buf[q]] = valid[buf[q]]
               /\ dirty'[buf[q]] = dirty[buf[q]]
    BY Zenon, <1>1, <1>2, <2>3 DEF HoldInv, Holding, Locking
  <2>4. ASSUME NEW q \in Procs
        PROVE  /\ pc'[q] = "using" => valid'[buf'[q]] = 1
               /\ pc'[q] \in {"iderw", "iosleep"} => valid'[buf'[q]] = 0 \/ dirty'[buf'[q]] = 1
    <3>1. CASE q = p
      BY Zenon, <1>2, <2>2, <3>1
    <3>2. CASE q # p
      BY ZenonT(40), <2>3, <3>2 DEF FlagInv
    <3>3. QED
      BY Zenon, <3>1, <3>2
  <2>5. QED
    BY Zenon, <2>1, <2>4 DEF FlagInv
<1>9. QueueMatchesSleepers'
  <2>1. \A q \in Procs : pc[q] \in {"iosleep", "iotest"} => buf[q] \in Bufs \ {b} /\ q # p
    BY Zenon, <1>1 DEF HoldInv, Holding, Locking
  <2>2. Waiting' = Waiting /\ \A q \in Waiting : buf'[q] = buf[q]
    BY Zenon, <1>2, <2>1, WaitingSame
  <2>3. QED
    BY Zenon, <1>2, <2>2, QueueFrame
<1>10. CleanMatchesDisk'
  <2>1. ASSUME NEW c \in Bufs, valid'[c] = 1, dirty'[c] = 0
        PROVE  data'[c] = disk'[blockno'[c]] \/ blockno'[c] \in bad'
    <3>1. c # b
      BY <1>2, <2>1
    <3>2. dirty[c] = 0 /\ data'[c] = data[c] /\ valid[c] = 1
      BY Zenon, <1>2, <2>1, <3>1
    <3>3. data[c] = disk[blockno[c]] \/ blockno[c] \in bad
      BY Zenon, <3>2 DEF CleanMatchesDisk
    <3>4. QED
      BY Zenon, <3>2, <3>3
  <2>2. QED
    BY <2>1, Zenon DEF CleanMatchesDisk
<1>11. DeviceInv'
  <2>1. device # "idle" => idequeue[1] \in Bufs /\ idequeue[1] # b
    BY <1>1 DEF QueueMatchesSleepers, TypeOK
  <2>2. QED
    BY <1>2, <2>1 DEF DeviceInv
<1>12. QED
  BY Zenon, <1>3, <1>4, <1>5, <1>6, <1>7, <1>8, <1>9, <1>10, <1>11

LEMMA BwriteInv ==
    ASSUME BioInv, NEW p \in Procs, NEW v \in Vals, bwrite(p, v)
    PROVE  BioInv'
<1> USE DEF bwrite, Goto
<1>1. ControlInv' /\ CacheInv' /\ DiskInv'
  BY Zenon, ChangedInv
<1>2. pinned' \subseteq pinned
  <2>1. buf[p] \in Bufs
    BY Zenon, LockedAlone DEF Locking
  <2>2. pc'[p] = "iderw" /\ \A q \in Procs \ {p} : pc'[q] = pc[q]
    BY Zenon DEF BioInv, ControlInv, TypeOK
  <2>3. \A c \in Bufs : c # buf[p] => dirty'[c] = dirty[c]
    BY Zenon, <2>1 DEF BioInv, ControlInv, TypeOK
  <2>4. QED
    BY Zenon, <2>1, <2>2, <2>3 DEF pinned
<1>3. QED
  BY Zenon, <1>1, <1>2, PinFrame DEF BioInv

LEMMA LogWriteInv ==
    ASSUME BioInv, NEW p \in Procs, NEW v \in Vals, log_write(p, v)
    PROVE  BioInv'
<1> USE DEF log_write
<1>1. ControlInv' /\ CacheInv' /\ DiskInv'
  <2>1. pc' = [pc EXCEPT ![p] = "using"]
    BY Zenon DEF BioInv, ControlInv, TypeOK
  <2>2. QED
    BY Zenon, <2>1, ChangedInv
<1>2. pinned' \subseteq pinned \cup {buf[p]}
  BY LockedAlone DEF pinned, Locking, BioInv, ControlInv, TypeOK
<1>3. IsFiniteSet(pinned \cup {buf[p]})
  BY PinnedFinite, FS_AddElement
<1>4. PinInv'
  <2>1. Cardinality(pinned') <= Cardinality(pinned \cup {buf[p]})
    BY Zenon, <1>2, <1>3, FS_Subset
  <2>2. Cardinality(pinned') \in Nat /\ Cardinality(pinned \cup {buf[p]}) \in Nat
    BY Zenon, <1>2, <1>3, FS_Subset, FS_CardinalityType
  <2>3. QED
    BY <2>1, <2>2, BioAssumption DEF PinInv
<1>5. QED
  BY Zenon, <1>1, <1>4 DEF BioInv

LEMMA ReleasesleepInv ==
    ASSUME BioInv, NEW p \in Procs, releasesleep(p)
    PROVE  BioInv'
<1> USE DEF BioInv, ControlInv, CacheInv, DiskInv, cache, ide
<1> PICK b : b = buf[p]
  BY Zenon
<1>1. /\ pc[p] = "using" /\ locked' = [locked EXCEPT ![b] = 0]
      /\ UNCHANGED <<blockno, refcnt, mru, valid, dirty, data, idequeue, device, latch, disk, bad, buf>>
  BY Zenon DEF releasesleep
<1>2. /\ b \in Bufs /\ locked[b] = p
      /\ \A q \in Procs \ {p} : pc[q] \in Locking => buf[q] # b
      /\ \A j \in DOMAIN idequeue : idequeue[j] # b
  BY <1>1, LockedAlone DEF Locking, Waiting
<1>3. /\ pc' \in [Procs -> PCs] /\ pc'[p] = "brelse"
      /\ \A q \in Procs \ {p} :
             pc'[q] = IF pc[q] = "locksleep" /\ buf[q] = b THEN "acquiresleep" ELSE pc[q]
      /\ locked'[b] = 0 /\ \A c \in Bufs \ {b} : locked'[c] = locked[c]
  BY SMTT(30), <1>1, <1>2 DEF releasesleep, wakeup, TypeOK, PCs
<1>4. CountInv'
  BY Zenon, <1>1, <1>3, CountFrame DEF Holding, Locking
<1>5. TypeOK'
  <2>1. locked' \in [Bufs -> Procs \cup {0}]
    BY Zenon, <1>1 DEF TypeOK
  <2>2. QED
    BY Zenon, <1>1, <1>3, <2>1 DEF TypeOK
<1>6. HoldInv'
  BY Zenon, <1>1, <1>3 DEF HoldInv, Holding, Locking
<1>7. LockInv'
  <2>1. ASSUME NEW q \in Procs, pc'[q] \in Locking PROVE locked'[buf'[q]] = q
    <3>1. q # p /\ pc[q] \in Locking
      BY Zenon, <1>3, <2>1 DEF Locking
    <3>2. QED
      BY Zenon, <1>1, <1>2, <1>3, <3>1 DEF LockInv, HoldInv, Holding
  <2>2. ASSUME NEW c \in Bufs, locked'[c] # 0
        PROVE  pc'[locked'[c]] \in Locking /\ buf'[locked'[c]] = c
    <3>1. c # b /\ locked'[c] = locked[c] /\ locked[c] \in Procs
      BY ZenonT(40), <1>3, <2>2 DEF TypeOK
    <3>2. pc[locked[c]] \in Locking /\ buf[locked[c]] = c /\ locked[c] # p
      BY Zenon, <2>2, <3>1 DEF LockInv
    <3>3. QED
      BY Zenon, <1>1, <1>3, <3>1, <3>2 DEF Locking
  <2>3. QED
    BY Zenon, <2>1, <2>2 DEF LockInv
<1>8. NoLostRelease'
  <2>1. ASSUME NEW q \in Procs, pc'[q] = "locksleep" PROVE locked'[buf'[q]] # 0
    <3>1. q # p /\ pc[q] = "locksleep" /\ buf[q] # b
      BY Zenon, <1>3, <2>1
    <3>2. buf[q] \in Bufs /\ locked[buf[q]] # 0
      BY Zenon, <3>1 DEF HoldInv, NoLostRelease, Holding
    <3>3. QED
      BY Zenon, <1>1, <1>3, <3>1, <3>2
  <2>2. QED
    BY <2>1, Zenon DEF NoLostRelease
<1>9. CacheInv'
  <2>1. OneBuffer' /\ ListInv'
    BY Zenon, <1>1 DEF OneBuffer, ListInv
  <2>2. FlagInv'
    BY Zenon, <1>1, <1>3 DEF FlagInv
  <2>3. QED
    BY Zenon, <2>1, <2>2
<1>10. DiskInv'
  <2>1. \A j \in DOMAIN idequeue : locked'[idequeue[j]] = locked[idequeue[j]]
    BY SMTT(30), <1>2, <1>3 DEF TypeOK
  <2>2. QueueMatchesSleepers'
    BY Zenon, <1>1, <1>3, <2>1, WaitingSame, QueueFrame
  <2>3. DeviceInv' /\ CleanMatchesDisk'
    BY Zenon, <1>1 DEF DeviceInv, CleanMatchesDisk
  <2>4. QED
    BY Zenon, <2>2, <2>3
<1>11. pinned' \subseteq pinned
  BY Zenon, <1>1, <1>3 DEF pinned
<1>12. QED
  BY Zenon, <1>4, <1>5, <1>6, <1>7, <1>8, <1>9, <1>10, <1>11, PinFrame

\* Every buffer is in the list.
LEMMA ListOnto ==
    ASSUME TypeOK, ListInv, NEW b \in Bufs
    PROVE  \E i \in Places : mru[i] = b
<1>1. IsFiniteSet(Places) /\ Cardinality(Places) = Cardinality(Bufs)
  BY Counts, FS_Interval DEF Places, NBUF
<1>2. mru \in Injection(Places, Bufs)
  BY Zenon DEF TypeOK, ListInv, Injection, IsInjective
<1>3. mru \in Surjection(Places, Bufs)
  BY Zenon, <1>1, <1>2, FS_Injection, BioAssumption
<1>4. QED
  BY Zenon, <1>3 DEF Surjection

\* Moving a buffer to the front keeps the list a list of all buffers.
LEMMA ToFront ==
    ASSUME TypeOK, ListInv, NEW b \in Bufs, mru' = to_front(b)
    PROVE  mru' \in [Places -> Bufs] /\ ListInv'
<1> DEFINE i == CHOOSE j \in Places : mru[j] = b
<1>1. i \in Places /\ mru[i] = b
  BY Zenon, ListOnto
<1>2. mru' = [j \in Places |-> IF j = 1 THEN b ELSE IF j <= i THEN mru[j - 1] ELSE mru[j]]
  BY Zenon DEF to_front
<1> HIDE DEF i
<1>3. \A j \in Places : j # 1 => j - 1 \in Places
  BY Counts DEF Places
<1>4. mru' \in [Places -> Bufs]
  BY <1>2, <1>3 DEF TypeOK
<1>5. ASSUME NEW j \in Places, NEW k \in Places, mru'[j] = mru'[k] PROVE j = k
  <2> DEFINE at(x) == IF x = 1 THEN i ELSE IF x <= i THEN x - 1 ELSE x
  <2>1. \A x \in Places : at(x) \in Places /\ mru'[x] = mru[at(x)]
    BY Zenon, <1>1, <1>2, <1>3
  <2>2. at(j) = at(k)
    BY <1>5, <2>1 DEF ListInv
  <2>3. i \in Nat /\ i >= 1 /\ j \in Nat /\ j >= 1 /\ k \in Nat /\ k >= 1
    BY <1>1, Counts DEF Places
  <2>4. QED
    BY <2>2, <2>3
<1>6. QED
  BY Zenon, <1>4, <1>5 DEF ListInv

LEMMA BrelseInv ==
    ASSUME BioInv, NEW p \in Procs, brelse(p)
    PROVE  BioInv'
<1> USE DEF BioInv, ControlInv, CacheInv, DiskInv, cache, ide
<1> PICK b : b = buf[p]
  BY Zenon
<1>1. /\ pc[p] = "brelse" /\ refcnt' = [refcnt EXCEPT ![b] = @ - 1]
      /\ mru' = mru \/ mru' = to_front(b)
      /\ pc' = [pc EXCEPT ![p] = "idle"] /\ buf' = [buf EXCEPT ![p] = 0]
      /\ UNCHANGED <<blockno, valid, dirty, data, locked, idequeue, device, latch, disk, bad>>
  BY Zenon DEF brelse, Goto
<1>2. b \in Bufs
  BY Zenon, <1>1 DEF HoldInv, Holding
<1>3. /\ pc'[p] = "idle" /\ buf'[p] = 0
      /\ \A q \in Procs \ {p} : pc'[q] = pc[q] /\ buf'[q] = buf[q]
  BY Zenon, <1>1 DEF TypeOK
<1>4. CountInv'
  <2>1. p \in Holders(b) /\ \A c \in Bufs \ {b} : p \notin Holders(c)
    BY Zenon, <1>1 DEF Holders, Holding
  <2>2. Holders(b)' = Holders(b) \ {p}
    BY Zenon, <1>3 DEF Holders, Holding, Locking
  <2>3. \A c \in Bufs \ {b} : Holders(c)' = Holders(c)
    BY Zenon, <1>3, <2>1 DEF Holders, Holding, Locking
  <2>4. Cardinality(Holders(b)') = Cardinality(Holders(b)) - 1
    BY Zenon, <2>1, <2>2, FS_RemoveElement, HoldersCounted
  <2>5. QED
    BY Zenon, <1>1, <1>2, <2>3, <2>4 DEF CountInv, TypeOK
<1>5. mru' \in [Places -> Bufs] /\ ListInv'
  BY Zenon, <1>1, <1>2, ToFront DEF TypeOK, ListInv
<1>6. TypeOK'
  <2>1. refcnt' \in [Bufs -> 0 .. Cardinality(Procs)]
    BY Zenon, <1>1, <1>4, CountType DEF TypeOK
  <2>2. pc' \in [Procs -> PCs] /\ buf' \in [Procs -> Bufs \cup {0}]
    BY Zenon, <1>1 DEF TypeOK, PCs
  <2>3. QED
    BY Zenon, <1>1, <1>5, <2>1, <2>2 DEF TypeOK
<1>7. HoldInv' /\ NoLostRelease'
  BY Zenon, <1>1, <1>3 DEF HoldInv, NoLostRelease, Holding, Locking
<1>8. LockInv'
  BY <1>1, <1>3 DEF LockInv, Locking, TypeOK
<1>9. OneBuffer' /\ FlagInv'
  BY SMTT(30), <1>1, <1>3 DEF OneBuffer, FlagInv
<1>10. QueueMatchesSleepers'
  BY Zenon, <1>1, <1>3, WaitingSame, QueueFrame
<1>11. DeviceInv' /\ CleanMatchesDisk'
  BY Zenon, <1>1 DEF DeviceInv, CleanMatchesDisk
<1>12. pinned' \subseteq pinned
  BY Zenon, <1>1, <1>3 DEF pinned
<1>13. QED
  BY Zenon, <1>4, <1>5, <1>6, <1>7, <1>8, <1>9, <1>10, <1>11, <1>12, PinFrame
-----------------------------------------------------------------------------
(* The steps of the disk driver and of the device. *)

LEMMA IderwInv ==
    ASSUME BioInv, NEW p \in Procs, iderw(p)
    PROVE  BioInv'
<1> USE DEF BioInv, ControlInv, CacheInv, DiskInv, cache
<1> PICK b : b = buf[p]
  BY Zenon
<1>1. /\ pc[p] = "iderw" /\ pc' = [pc EXCEPT ![p] = "iosleep"]
      /\ idequeue' = Append(idequeue, b)
      /\ UNCHANGED <<blockno, refcnt, mru, valid, dirty, data, locked, disk, bad, buf>>
  BY Zenon DEF iderw, Goto
<1>2. /\ b \in Bufs /\ locked[b] = p /\ p # 0
      /\ \A q \in Procs \ {p} : pc[q] \in Locking => buf[q] # b
      /\ \A j \in DOMAIN idequeue : idequeue[j] # b
  BY <1>1, LockedAlone DEF Locking, Waiting
<1>3. pc'[p] = "iosleep" /\ \A q \in Procs \ {p} : pc'[q] = pc[q]
  BY Zenon, <1>1 DEF TypeOK
<1>4. /\ idequeue \in Seq(Bufs) /\ idequeue' \in Seq(Bufs)
      /\ Len(idequeue) \in Nat /\ Len(idequeue') = Len(idequeue) + 1
      /\ DOMAIN idequeue = 1 .. Len(idequeue) /\ DOMAIN idequeue' = 1 .. Len(idequeue) + 1
      /\ \A j \in DOMAIN idequeue : idequeue'[j] = idequeue[j]
      /\ idequeue'[Len(idequeue) + 1] = b
      /\ idequeue' # <<>>
  BY SMTT(30), <1>1, <1>2 DEF TypeOK
<1>5. \/ /\ idequeue = <<>> /\ device' = "busy" /\ idequeue'[1] = b
         /\ latch' = IF dirty[b] = 1 THEN data[b] ELSE None
      \/ /\ idequeue # <<>> /\ device' = device /\ latch' = latch /\ idequeue'[1] = idequeue[1]
         /\ device # "idle"
  <2>1. CASE idequeue = <<>>
    <3>1. Head(idequeue') = b /\ idequeue'[1] = b
      BY SMTT(30), <1>1, <1>2, <2>1
    <3>2. QED
      BY Zenon, <2>1, <3>1 DEF iderw, idestart
  <2>2. CASE idequeue # <<>>
    <3>1. idequeue'[1] = idequeue[1]
      BY <1>4, <2>2
    <3>2. QED
      BY Zenon, <2>2, <3>1 DEF iderw, QueueMatchesSleepers
  <2>3. QED
    BY Zenon, <2>1, <2>2
<1>6. CountInv'
  BY Zenon, <1>1, <1>3, CountFrame DEF Holding, Locking
<1>7. TypeOK'
  <2>1. pc' \in [Procs -> PCs]
    BY Zenon, <1>1 DEF TypeOK, PCs
  <2>2. device' \in {"idle", "busy", "done", "failed"} /\ latch' \in Vals \cup {None}
    BY <1>2, <1>5 DEF TypeOK
  <2>3. QED
    BY Zenon, <1>1, <1>4, <2>1, <2>2 DEF TypeOK
<1>8. HoldInv' /\ NoLostRelease'
  BY Zenon, <1>1, <1>3 DEF HoldInv, NoLostRelease, Holding, Locking
<1>9. LockInv'
  <2>1. \A q \in Procs : pc'[q] \in Locking <=> pc[q] \in Locking
    BY Zenon, <1>1, <1>3 DEF Locking
  <2>2. QED
    BY <1>1, <2>1 DEF LockInv, TypeOK
<1>10. OneBuffer' /\ ListInv' /\ FlagInv'
  BY Zenon, <1>1, <1>3 DEF OneBuffer, ListInv, FlagInv
<1>11. QueueMatchesSleepers'
    <2>1. Waiting' = Waiting \cup {p} /\ p \notin Waiting
    BY Zenon, <1>1, <1>3 DEF Waiting
  <2>2. device' = "idle" <=> idequeue' = <<>>
    BY Zenon, <1>4, <1>5
  <2>3. ASSUME NEW q \in Waiting'
        PROVE  \E j \in DOMAIN idequeue' : idequeue'[j] = buf'[q]
    <3>1. CASE q = p
      BY <1>1, <1>4, <3>1
    <3>2. CASE q # p
      <4>1. PICK j \in DOMAIN idequeue : idequeue[j] = buf[q]
        BY Zenon, <2>3, <2>1, <3>2 DEF QueueMatchesSleepers
      <4>2. j \in DOMAIN idequeue' /\ idequeue'[j] = buf'[q]
        BY SMTT(30), <1>1, <1>4, <4>1
      <4>3. QED
        BY Zenon, <4>2
    <3>3. QED
      BY Zenon, <3>1, <3>2
  <2>4. ASSUME NEW j \in DOMAIN idequeue', NEW c, c = idequeue'[j]
        PROVE  locked'[c] \in Waiting' /\ buf'[locked'[c]] = c
    <3>1. CASE j = Len(idequeue) + 1
      BY ZenonT(40), <1>1, <1>2, <1>4, <2>4, <2>1, <3>1
    <3>2. CASE j # Len(idequeue) + 1
      <4>1. j \in DOMAIN idequeue /\ c = idequeue[j] /\ c \in Bufs
        BY <1>4, <2>4, <3>2
      <4>2. locked[c] \in Waiting /\ buf[locked[c]] = c
        BY <4>1, ZenonT(40) DEF QueueMatchesSleepers
      <4>3. QED
        BY Zenon, <1>1, <2>1, <4>2
    <3>3. QED
      BY Zenon, <3>1, <3>2
  <2>5. ASSUME NEW i \in DOMAIN idequeue', NEW j \in DOMAIN idequeue', idequeue'[i] = idequeue'[j]
        PROVE  i = j
    <3>1. \A m \in DOMAIN idequeue' : m \in DOMAIN idequeue \/ m = Len(idequeue) + 1
      BY <1>4
    <3>2. \A m, n \in DOMAIN idequeue : idequeue[m] = idequeue[n] => m = n
      BY Zenon DEF QueueMatchesSleepers
    <3>3. QED
      BY ZenonT(40), <1>2, <1>4, <2>5, <3>1, <3>2
  <2>6. QED
    BY <2>2, <2>3, <2>4, <2>5, ZenonT(40) DEF QueueMatchesSleepers
<1>12. CleanMatchesDisk'
  BY Zenon, <1>1 DEF CleanMatchesDisk
<1>13. DeviceInv'
  BY Zenon, <1>1, <1>5 DEF DeviceInv
<1>14. pinned' \subseteq pinned
  BY Zenon, <1>1, <1>3 DEF pinned
<1>15. QED
  BY Zenon, <1>6, <1>7, <1>8, <1>9, <1>10, <1>11, <1>12, <1>13, <1>14, PinFrame

\* A process that tests the condition of iderw()'s loop, or is made to test it.
LEMMA LoopInv ==
    ASSUME BioInv, NEW p \in Procs, NEW l \in PCs, pc' = [pc EXCEPT ![p] = l],
           pc[p] \in Locking /\ l \in Locking,
           l = "using" => valid[buf[p]] = 1 /\ dirty[buf[p]] = 0,
           l = "iosleep" => valid[buf[p]] = 0 \/ dirty[buf[p]] = 1,
           l # "iderw", Waiting' = Waiting,
           UNCHANGED <<cache, valid, dirty, data, locked, ide, buf>>
    PROVE  BioInv'
<1> USE DEF BioInv, ControlInv, CacheInv, DiskInv, cache, ide
<1>1. pc'[p] = l /\ \A q \in Procs \ {p} : pc'[q] = pc[q]
  BY Zenon DEF TypeOK
<1>2. \A q \in Procs : /\ pc'[q] \in Locking <=> pc[q] \in Locking
                       /\ pc'[q] \in Holding <=> pc[q] \in Holding
                       /\ pc'[q] = "locksleep" <=> pc[q] = "locksleep"
  BY Zenon, <1>1 DEF Holding, Locking
<1>3. CountInv'
  BY Zenon, <1>2, CountFrame
<1>4. TypeOK'
  <2>1. pc' \in [Procs -> PCs]
    BY Zenon DEF TypeOK
  <2>2. QED
    BY Zenon, <2>1 DEF TypeOK
<1>5. HoldInv' /\ NoLostRelease'
  BY Zenon, <1>2 DEF HoldInv, NoLostRelease
<1>6. LockInv'
  BY <1>2 DEF LockInv, TypeOK
<1>7. OneBuffer' /\ ListInv' /\ FlagInv'
  BY Zenon, <1>1 DEF OneBuffer, ListInv, FlagInv
<1>8. QueueMatchesSleepers'
  BY Zenon, QueueFrame
<1>9. DeviceInv' /\ CleanMatchesDisk'
  BY Zenon DEF DeviceInv, CleanMatchesDisk
<1>10. PinInv'
  <2>1. ASSUME NEW b \in pinned' PROVE b \in pinned
    <3>1. b \in Bufs /\ dirty[b] = 1
      BY Zenon, <2>1 DEF pinned
    <3>2. ASSUME NEW q \in Procs, buf[q] = b PROVE pc[q] \notin {"iderw", "iosleep", "iotest"}
      <4>1. pc'[q] \notin {"iderw", "iosleep", "iotest"}
        BY Zenon, <2>1, <3>2 DEF pinned
      <4>2. CASE q # p
        BY Zenon, <1>1, <4>1, <4>2
      <4>3. CASE q = p
        <5>1. l = "using"
          BY Zenon, <1>1, <4>1, <4>3 DEF Locking
        <5>2. QED
          BY <3>1, <3>2, <4>3, <5>1
      <4>4. QED
        BY Zenon, <4>2, <4>3
    <3>3. QED
      BY Zenon, <3>1, <3>2 DEF pinned
  <2>2. QED
    BY Zenon, <2>1, PinFrame
<1>11. QED
  BY Zenon, <1>3, <1>4, <1>5, <1>6, <1>7, <1>8, <1>9, <1>10

LEMMA IderwTestInv ==
    ASSUME BioInv, NEW p \in Procs, iderw_test(p)
    PROVE  BioInv'
<1> DEFINE done == valid[buf[p]] = 1 /\ dirty[buf[p]] = 0
<1>1. /\ pc[p] = "iotest" /\ pc' = [pc EXCEPT ![p] = IF done THEN "using" ELSE "iosleep"]
      /\ UNCHANGED <<cache, valid, dirty, data, locked, ide, buf>>
  BY Zenon DEF iderw_test, Goto
<1>2. /\ valid[buf[p]] \in {0, 1} /\ dirty[buf[p]] \in {0, 1} /\ pc \in [Procs -> PCs]
  BY Zenon, <1>1 DEF BioInv, ControlInv, HoldInv, Holding, Locking, TypeOK
<1>3. ASSUME NEW q \in Procs PROVE q \in Waiting' <=> q \in Waiting
  <2>1. CASE q = p
    BY <1>1, <1>2, <2>1 DEF Waiting
  <2>2. CASE q # p
    BY Zenon, <1>1, <1>2, <2>2 DEF Waiting
  <2>3. QED
    BY Zenon, <2>1, <2>2
<1>4. Waiting' = Waiting
  BY <1>3 DEF Waiting
<1>5. CASE done
  BY Zenon, <1>1, <1>4, <1>5, LoopInv DEF PCs, Locking
<1>6. CASE ~done
  <2>1. valid[buf[p]] = 0 \/ dirty[buf[p]] = 1
    BY <1>2, <1>6
  <2>2. QED
    BY Zenon, <1>1, <1>4, <1>6, <2>1, LoopInv DEF PCs, Locking
<1>7. QED
  BY Zenon, <1>5, <1>6

LEMMA KillInv ==
    ASSUME BioInv, NEW p \in Procs, kill(p)
    PROVE  BioInv'
<1>1. pc \in [Procs -> PCs] /\ UNCHANGED <<cache, valid, dirty, data, locked, ide, buf>>
  BY Zenon DEF kill, BioInv, ControlInv, TypeOK
<1>2. CASE pc[p] = "iosleep"
  <2>1. pc' = [pc EXCEPT ![p] = "iotest"]
    BY Zenon, <1>2 DEF kill, Goto
  <2>2. valid[buf[p]] = 0 \/ dirty[buf[p]] = 1
    BY Zenon, <1>2 DEF BioInv, CacheInv, FlagInv
  <2>3. ASSUME NEW q \in Procs PROVE q \in Waiting' <=> q \in Waiting
    <3>1. CASE q = p
      BY Zenon, <1>1, <1>2, <2>1, <2>2, <3>1 DEF Waiting
    <3>2. CASE q # p
      BY Zenon, <1>1, <2>1, <3>2 DEF Waiting
    <3>3. QED
      BY Zenon, <3>1, <3>2
  <2>4. Waiting' = Waiting
    BY <2>3 DEF Waiting
  <2>5. QED
    BY Zenon, <1>1, <1>2, <2>1, <2>4, LoopInv DEF PCs, Locking
<1>3. CASE pc[p] = "locksleep"
  <2> USE DEF BioInv, ControlInv, CacheInv, DiskInv, cache, ide
  <2>1. pc' = [pc EXCEPT ![p] = "acquiresleep"]
    BY Zenon, <1>3 DEF kill, Goto
  <2>2. pc'[p] = "acquiresleep" /\ \A q \in Procs \ {p} : pc'[q] = pc[q]
    BY Zenon, <1>1, <2>1
  <2>3. CountInv'
    BY Zenon, <1>1, <1>3, <2>2, CountFrame DEF Holding, Locking
  <2>4. TypeOK'
    BY Zenon, <1>1, <2>1 DEF TypeOK, PCs
  <2>5. HoldInv' /\ NoLostRelease'
    BY Zenon, <1>1, <1>3, <2>2 DEF HoldInv, NoLostRelease, Holding, Locking
  <2>6. LockInv'
    <3>1. \A q \in Procs : pc'[q] \in Locking <=> pc[q] \in Locking
      BY Zenon, <1>3, <2>2 DEF Locking
    <3>2. QED
      BY <1>1, <3>1 DEF LockInv, TypeOK
  <2>7. OneBuffer' /\ ListInv' /\ FlagInv'
    BY Zenon, <1>1, <2>2 DEF OneBuffer, ListInv, FlagInv
  <2>8. QueueMatchesSleepers'
    BY Zenon, <1>1, <1>3, <2>2, WaitingSame, QueueFrame
  <2>9. DeviceInv' /\ CleanMatchesDisk'
    BY Zenon, <1>1 DEF DeviceInv, CleanMatchesDisk
  <2>10. pinned' = pinned
    BY Zenon, <1>1, <1>3, <2>2 DEF pinned
  <2>11. QED
    BY Zenon, <2>3, <2>4, <2>5, <2>6, <2>7, <2>8, <2>9, <2>10, PinFrame
<1>4. QED
  BY Zenon, <1>2, <1>3 DEF kill

LEMMA HeadFirst ==
    ASSUME NEW s \in Seq(Bufs), s # <<>>
    PROVE  1 \in DOMAIN s /\ Head(s) = s[1] /\ s[1] \in Bufs
OBVIOUS

\* The buffer at the head of the queue: its process waits in iderw(), and no
\* other buffer has its block.
LEMMA HeadOfQueue ==
    ASSUME BioInv, device # "idle", NEW b, b = Head(idequeue)
    PROVE  /\ idequeue # <<>> /\ 1 \in DOMAIN idequeue /\ b = idequeue[1]
           /\ b \in Bufs /\ blockno[b] \in Blocks /\ blockno[b] # 0
           /\ locked[b] \in Procs /\ locked[b] \in Waiting /\ buf[locked[b]] = b
           /\ pc[locked[b]] \in {"iosleep", "iotest"}
           /\ \A q \in Procs : pc[q] \in {"iosleep", "iotest"} /\ buf[q] = b => q = locked[b]
           /\ \A c \in Bufs \ {b} : blockno[c] # blockno[b]
           /\ valid[b] = 0 \/ dirty[b] = 1
<1> USE DEF BioInv, ControlInv, CacheInv, DiskInv
<1>1. idequeue # <<>> /\ idequeue \in Seq(Bufs)
  BY Zenon DEF QueueMatchesSleepers, TypeOK
<1>2. 1 \in DOMAIN idequeue /\ b = idequeue[1] /\ b \in Bufs
  BY <1>1
<1>3. locked[b] \in Waiting /\ buf[locked[b]] = b
  BY <1>2, ZenonT(30) DEF QueueMatchesSleepers
<1>4. locked[b] \in Procs /\ pc[locked[b]] \in {"iosleep", "iotest"}
  BY Zenon, <1>3 DEF Waiting
<1>5. \A q \in Procs : pc[q] \in {"iosleep", "iotest"} /\ buf[q] = b => q = locked[b]
  BY Zenon DEF LockInv, Locking
<1>6. blockno[b] # 0 /\ blockno[b] \in Blocks
  BY Zenon, <1>2, <1>3, <1>4 DEF HoldInv, Holding, Locking, TypeOK
<1>7. \A c \in Bufs \ {b} : blockno[c] # blockno[b]
  BY Zenon, <1>2, <1>6 DEF OneBuffer
<1>8. valid[b] = 0 \/ dirty[b] = 1
  BY Zenon, <1>3, <1>4 DEF FlagInv, Waiting
<1>9. QED
  BY Zenon, <1>1, <1>2, <1>3, <1>4, <1>5, <1>6, <1>7, <1>8

\* The device changes what is on the disk, and nothing in memory.
LEMMA DeviceStep ==
    ASSUME BioInv, device = "busy", device' \in {"done", "failed"}, TypeOK',
           UNCHANGED <<cache, valid, dirty, data, locked, idequeue, pc, buf>>
    PROVE  ControlInv' /\ CacheInv' /\ QueueMatchesSleepers' /\ PinInv'
<1> USE DEF BioInv, ControlInv, CacheInv, DiskInv, cache
<1>1. CountInv'
  BY Zenon, CountFrame
<1>2. HoldInv' /\ NoLostRelease' /\ LockInv'
  BY Zenon DEF HoldInv, NoLostRelease, LockInv
<1>3. OneBuffer' /\ ListInv' /\ FlagInv'
  BY Zenon DEF OneBuffer, ListInv, FlagInv
<1>4. QueueMatchesSleepers'
  BY Zenon, WaitingSame, QueueFrame
<1>5. pinned' \subseteq pinned
  BY Zenon DEF pinned
<1>6. QED
  BY Zenon, <1>1, <1>2, <1>3, <1>4, <1>5, PinFrame

LEMMA DeviceDoneInv == BioInv /\ device_done => BioInv'
<1> SUFFICES ASSUME BioInv, device_done PROVE BioInv'
  BY Zenon
<1> USE DEF BioInv, DiskInv
<1> PICK b : b = Head(idequeue)
  BY Zenon
<1>1. /\ device = "busy" /\ device' = "done"
      /\ disk' = IF dirty[b] = 1 THEN [disk EXCEPT ![blockno[b]] = latch] ELSE disk
      /\ UNCHANGED <<blockno, refcnt, mru, valid, dirty, data, locked, idequeue, latch, bad, pc, buf>>
  BY Zenon DEF device_done, cache
<1>2. /\ b = idequeue[1] /\ b \in Bufs /\ blockno[b] \in Blocks
      /\ \A c \in Bufs \ {b} : blockno[c] # blockno[b]
  BY Zenon, <1>1, HeadOfQueue
<1>3. dirty[b] = 1 => latch = data[b]
  BY Zenon, <1>1, <1>2 DEF DeviceInv
<1>4. TypeOK'
  <2>1. disk' \in [Blocks -> Vals]
    BY Zenon, <1>1, <1>2, <1>3 DEF ControlInv, TypeOK
  <2>2. QED
    BY Zenon, <1>1, <2>1 DEF ControlInv, TypeOK
<1>5. ControlInv' /\ CacheInv' /\ QueueMatchesSleepers' /\ PinInv'
  BY ZenonT(40), <1>1, <1>4, DeviceStep DEF cache
<1>6. DeviceInv'
  BY Zenon, <1>1, <1>2, <1>3 DEF DeviceInv, ControlInv, TypeOK
<1>7. CleanMatchesDisk'
  <2> SUFFICES ASSUME NEW c \in Bufs, valid'[c] = 1, dirty'[c] = 0
               PROVE  data'[c] = disk'[blockno'[c]] \/ blockno'[c] \in bad'
    BY Zenon DEF CleanMatchesDisk
  <2>1. data[c] = disk[blockno[c]] \/ blockno[c] \in bad
    BY Zenon, <1>1 DEF CleanMatchesDisk
  <2>2. dirty[b] = 1 => c # b /\ blockno[c] # blockno[b]
    BY SMTT(30), <1>1, <1>2
  <2>3. blockno[c] \in Blocks
    BY <1>1, <1>2 DEF ControlInv, CacheInv, TypeOK, FlagInv
  <2>4. QED
    BY Zenon, <1>1, <2>1, <2>2, <2>3 DEF ControlInv, TypeOK
<1>8. QED
  BY Zenon, <1>5, <1>6, <1>7

LEMMA DeviceFailsInv == BioInv /\ device_fails => BioInv'
<1> SUFFICES ASSUME BioInv, device_fails PROVE BioInv'
  BY Zenon
<1> USE DEF BioInv, DiskInv
<1> PICK b : b = Head(idequeue)
  BY Zenon
<1>1. /\ device = "busy" /\ device' = "failed" /\ bad' = bad \cup {blockno[b]}
      /\ UNCHANGED <<blockno, refcnt, mru, valid, dirty, data, locked, idequeue, latch, disk, pc, buf>>
  BY Zenon DEF device_fails, cache
<1>2. b = idequeue[1] /\ blockno[b] \in Blocks
  BY Zenon, <1>1, HeadOfQueue
<1>3. TypeOK'
  BY Zenon, <1>1, <1>2 DEF ControlInv, TypeOK
<1>4. ControlInv' /\ CacheInv' /\ QueueMatchesSleepers' /\ PinInv'
  BY Zenon, <1>1, <1>3, DeviceStep DEF cache
<1>5. DeviceInv' /\ CleanMatchesDisk'
  BY Zenon, <1>1, <1>2 DEF DeviceInv, CleanMatchesDisk
<1>6. QED
  BY Zenon, <1>4, <1>5

LEMMA IdeintrInv == BioInv /\ ideintr => BioInv'
<1> SUFFICES ASSUME BioInv, ideintr PROVE BioInv'
  BY Zenon
<1> USE DEF BioInv, ControlInv, CacheInv, DiskInv, cache
<1> PICK b : b = Head(idequeue)
  BY Zenon
<1> PICK p : p = locked[b]
  BY Zenon
<1>1. /\ device \in {"done", "failed"} /\ idequeue' = Tail(idequeue)
      /\ data' = IF dirty[b] = 1 \/ device = "failed" THEN data
                 ELSE [data EXCEPT ![b] = disk[blockno[b]]]
      /\ valid' = [valid EXCEPT ![b] = 1] /\ dirty' = [dirty EXCEPT ![b] = 0]
      /\ pc' = wakeup(b, "iosleep", "iotest")
      /\ UNCHANGED <<blockno, refcnt, mru, locked, disk, bad, buf>>
  BY ZenonT(40) DEF ideintr
<1>2. /\ idequeue # <<>> /\ 1 \in DOMAIN idequeue /\ b = idequeue[1]
      /\ b \in Bufs /\ blockno[b] \in Blocks /\ blockno[b] # 0
      /\ p \in Procs /\ p \in Waiting /\ pc[p] \in {"iosleep", "iotest"} /\ buf[p] = b
      /\ \A q \in Procs : pc[q] \in {"iosleep", "iotest"} /\ buf[q] = b => q = p
      /\ valid[b] = 0 \/ dirty[b] = 1
  BY Zenon, <1>1, HeadOfQueue
<1>3. /\ idequeue \in Seq(Bufs) /\ idequeue' \in Seq(Bufs)
      /\ Len(idequeue) \in Nat /\ Len(idequeue) > 0
      /\ DOMAIN idequeue = 1 .. Len(idequeue) /\ DOMAIN idequeue' = 1 .. Len(idequeue) - 1
      /\ \A j \in DOMAIN idequeue' : idequeue'[j] = idequeue[j + 1] /\ j + 1 \in DOMAIN idequeue
  BY <1>1, <1>2 DEF TypeOK
<1>4. \A j, k \in DOMAIN idequeue : idequeue[j] = idequeue[k] => j = k
  BY Zenon DEF QueueMatchesSleepers
<1>5. \A j \in DOMAIN idequeue' : idequeue'[j] # b
  BY SMTT(30), <1>2, <1>3, <1>4
<1>6. /\ pc' \in [Procs -> PCs] /\ pc'[p] = "iotest"
      /\ \A q \in Procs \ {p} : pc'[q] = pc[q]
      /\ valid'[b] = 1 /\ dirty'[b] = 0
      /\ \A c \in Bufs \ {b} : valid'[c] = valid[c] /\ dirty'[c] = dirty[c] /\ data'[c] = data[c]
  <2>1. pc \in [Procs -> PCs] /\ valid \in [Bufs -> {0, 1}] /\ dirty \in [Bufs -> {0, 1}]
    BY Zenon DEF TypeOK
  <2>2. pc' = [q \in Procs |-> IF pc[q] = "iosleep" /\ buf[q] = b THEN "iotest" ELSE pc[q]]
    BY Zenon, <1>1 DEF wakeup
  <2>3. pc' \in [Procs -> PCs]
    BY Zenon, <2>1, <2>2 DEF PCs
  <2>4. pc'[p] = "iotest" /\ \A q \in Procs \ {p} : pc'[q] = pc[q]
    BY Zenon, <1>2, <2>2
  <2>5. /\ valid'[b] = 1 /\ dirty'[b] = 0
        /\ \A c \in Bufs \ {b} : valid'[c] = valid[c] /\ dirty'[c] = dirty[c] /\ data'[c] = data[c]
    BY Zenon, <1>1, <1>2, <2>1 DEF TypeOK
  <2>6. QED
    BY Zenon, <2>3, <2>4, <2>5
<1>7. \/ device' = "idle" /\ latch' = None /\ idequeue' = <<>>
      \/ /\ device' = "busy" /\ idequeue' # <<>> /\ 1 \in DOMAIN idequeue'
         /\ idequeue'[1] \in Bufs \ {b}
         /\ latch' = IF dirty[idequeue'[1]] = 1 THEN data[idequeue'[1]] ELSE None
  <2>1. CASE Tail(idequeue) = <<>>
    BY Zenon, <1>1, <2>1 DEF ideintr
  <2>2. CASE Tail(idequeue) # <<>>
    <3>1. 1 \in DOMAIN idequeue' /\ Head(idequeue') = idequeue'[1] /\ idequeue'[1] \in Bufs
      <4>1. idequeue' \in Seq(Bufs) /\ idequeue' # <<>>
        BY Zenon, <1>1, <1>3, <2>2
      <4>2. QED
        BY Zenon, <4>1, HeadFirst
    <3>2. QED
      BY Zenon, <1>1, <1>5, <2>2, <3>1 DEF ideintr, idestart
  <2>3. QED
    BY Zenon, <2>1, <2>2
<1>8. CountInv'
  BY ZenonT(40), <1>1, <1>2, <1>6, CountFrame DEF Holding, Locking
<1>9. TypeOK'
  <2>1. data' \in [Bufs -> Vals] /\ valid' \in [Bufs -> {0, 1}] /\ dirty' \in [Bufs -> {0, 1}]
    BY Zenon, <1>1, <1>2 DEF TypeOK
  <2>2. device' \in {"idle", "busy", "done", "failed"} /\ latch' \in Vals \cup {None}
    BY SMTT(30), <1>7 DEF TypeOK
  <2>3. QED
    BY ZenonT(40), <1>1, <1>3, <1>6, <2>1, <2>2 DEF TypeOK
<1>10. HoldInv' /\ NoLostRelease'
  <2>1. \A q \in Procs : /\ pc'[q] \in Holding <=> pc[q] \in Holding
                         /\ pc'[q] = "locksleep" <=> pc[q] = "locksleep"
    BY Zenon, <1>2, <1>6 DEF Holding, Locking
  <2>2. UNCHANGED <<buf, blockno, locked>>
    BY Zenon, <1>1
  <2>3. QED
    BY Zenon, <2>1, <2>2 DEF HoldInv, NoLostRelease
<1>11. LockInv'
  <2>1. \A q \in Procs : pc'[q] \in Locking <=> pc[q] \in Locking
    BY ZenonT(40), <1>2, <1>6 DEF Locking
  <2>2. QED
    BY SMTT(30), <1>1, <2>1 DEF LockInv, TypeOK
<1>12. OneBuffer' /\ ListInv'
  BY ZenonT(40), <1>1 DEF OneBuffer, ListInv
<1>13. FlagInv'
  <2>1. ASSUME NEW c \in Bufs
        PROVE  (blockno'[c] = 0 => valid'[c] = 0) /\ (valid'[c] = 0 => dirty'[c] = 0)
    <3>1. blockno' = blockno
      BY Zenon, <1>1
    <3>2. CASE c = b
      BY Zenon, <1>2, <1>6, <3>1, <3>2
    <3>3. CASE c # b
      BY SMTT(30), <1>6, <3>1, <3>3 DEF FlagInv
    <3>4. QED
      BY Zenon, <3>2, <3>3
  <2>2. \A q \in Procs \ {p} : pc[q] \in Locking => buf[q] # b /\ buf[q] \in Bufs
    BY Zenon, <1>2 DEF LockInv, HoldInv, Holding
  <2>3. ASSUME NEW q \in Procs
        PROVE  /\ pc'[q] = "using" => valid'[buf'[q]] = 1
               /\ pc'[q] \in {"iderw", "iosleep"} => valid'[buf'[q]] = 0 \/ dirty'[buf'[q]] = 1
    <3>1. CASE q = p
      BY SMTT(30), <1>1, <1>2, <1>6, <3>1
    <3>2. CASE q # p
      <4>1. pc'[q] = pc[q] /\ buf'[q] = buf[q]
        BY ZenonT(40), <1>1, <1>6, <3>2
      <4>2. CASE pc[q] \in Locking
        <5>1. valid'[buf[q]] = valid[buf[q]] /\ dirty'[buf[q]] = dirty[buf[q]]
          BY ZenonT(40), <1>6, <2>2, <3>2, <4>2
        <5>2. QED
          BY ZenonT(40), <4>1, <5>1 DEF FlagInv
      <4>3. CASE pc[q] \notin Locking
        BY Zenon, <4>1, <4>3 DEF Locking
      <4>4. QED
        BY ZenonT(40), <4>2, <4>3
    <3>3. QED
      BY Zenon, <3>1, <3>2
  <2>4. QED
    BY Zenon, <2>1, <2>3 DEF FlagInv
<1>14. QueueMatchesSleepers'
  <2>1. p \notin Waiting'
    BY <1>1, <1>2, <1>6 DEF Waiting
  <2>2. ASSUME NEW q \in Procs, q # p PROVE q \in Waiting' <=> q \in Waiting
    <3>1. pc'[q] = pc[q] /\ buf'[q] = buf[q]
      BY Zenon, <1>1, <1>6, <2>2
    <3>2. CASE pc[q] = "iotest"
      <4>1. buf[q] \in Bufs \ {b}
        BY Zenon, <1>2, <2>2, <3>2 DEF HoldInv, Holding, Locking
      <4>2. valid'[buf[q]] = valid[buf[q]] /\ dirty'[buf[q]] = dirty[buf[q]]
        BY Zenon, <1>6, <4>1
      <4>3. QED
        BY Zenon, <3>1, <4>2 DEF Waiting
    <3>3. CASE pc[q] # "iotest"
      BY Zenon, <3>1, <3>3 DEF Waiting
    <3>4. QED
      BY Zenon, <3>2, <3>3
  <2>3. device' = "idle" <=> idequeue' = <<>>
    BY Zenon, <1>7
  <2>4. ASSUME NEW q \in Waiting'
        PROVE  \E j \in DOMAIN idequeue' : idequeue'[j] = buf'[q]
    <3>1. q # p /\ q \in Waiting /\ buf[q] # b
      BY Zenon, <1>2, <2>4, <2>1, <2>2 DEF Waiting
    <3>2. PICK j \in DOMAIN idequeue : idequeue[j] = buf[q]
      BY Zenon, <3>1 DEF QueueMatchesSleepers
    <3>3. j # 1 /\ j - 1 \in DOMAIN idequeue'
      BY SMTT(30), <1>2, <1>3, <3>1, <3>2
    <3>4. idequeue'[j - 1] = buf'[q]
      <4>1. buf' = buf
        BY <1>1, Zenon
      <4>2. j \in Int
        BY SMTT(30), <1>3, <3>2
      <4>3. QED
        BY <1>3, <3>2, <3>3, <4>1, <4>2
    <3>5. QED
      BY Zenon, <3>3, <3>4
  <2>5. ASSUME NEW j \in DOMAIN idequeue', NEW c, c = idequeue'[j]
        PROVE  locked'[c] \in Waiting' /\ buf'[locked'[c]] = c
    <3>1. c = idequeue[j + 1] /\ j + 1 \in DOMAIN idequeue /\ c # b /\ c \in Bufs
      BY <1>3, <1>5, <2>5
    <3>2. locked[c] \in Waiting /\ buf[locked[c]] = c
      BY <3>1, Zenon DEF QueueMatchesSleepers
    <3>3. locked[c] \in Procs /\ locked[c] # p
      BY Zenon, <1>2, <3>1, <3>2 DEF Waiting
    <3>4. QED
      BY Zenon, <1>1, <2>2, <3>2, <3>3
  <2>6. ASSUME NEW i \in DOMAIN idequeue', NEW j \in DOMAIN idequeue', idequeue'[i] = idequeue'[j]
        PROVE  i = j
    <3>1. i + 1 = j + 1
      BY Zenon, <1>3, <1>4, <2>6
    <3>2. i \in Int /\ j \in Int
      BY SMTT(30), <1>3
    <3>3. QED
      BY <3>1, <3>2
  <2>7. QED
    BY <2>3, <2>4, <2>5, <2>6, Zenon DEF QueueMatchesSleepers
<1>15. CleanMatchesDisk'
  <2>1. data'[b] = disk[blockno[b]] \/ blockno[b] \in bad
    BY Zenon, <1>1, <1>2 DEF DeviceInv, TypeOK
  <2>2. QED
    BY SMTT(30), <1>1, <1>6, <2>1 DEF CleanMatchesDisk
<1>16. DeviceInv'
  BY Zenon, <1>1, <1>6, <1>7 DEF DeviceInv
<1>17. pinned' \subseteq pinned
  BY <1>1, <1>2, <1>6 DEF pinned
<1>18. QED
  BY Zenon, <1>8, <1>9, <1>10, <1>11, <1>12, <1>13, <1>14, <1>15, <1>16, <1>17, PinFrame

LEMMA NextInv == BioInv /\ [Next]_vars => BioInv'
<1> SUFFICES ASSUME BioInv, [Next]_vars PROVE BioInv'
  BY Zenon
<1>1. ASSUME NEW p \in Procs, NEW k \in Blocks, bget_cached(p, k) \/ bget_recycle(p, k)
      PROVE  BioInv'
  BY Zenon, <1>1, BgetCachedInv, BgetRecycleInv
<1>2. ASSUME NEW p \in Procs, step(p) \/ kill(p) PROVE BioInv'
  BY Zenon, <1>2, AcquiresleepInv, ReleasesleepInv, BrelseInv, IderwInv, IderwTestInv, KillInv
     DEF step
<1>3. ASSUME NEW p \in Procs, NEW v \in Vals, bwrite(p, v) \/ log_write(p, v)
      PROVE  BioInv'
  BY Zenon, <1>3, BwriteInv, LogWriteInv
<1>4. CASE device_done \/ device_fails \/ ideintr
  BY Zenon, <1>4, DeviceDoneInv, DeviceFailsInv, IdeintrInv
<1>5. CASE UNCHANGED vars
  <2> USE <1>5 DEF vars, cache, ide
  <2>1. TypeOK' /\ HoldInv' /\ LockInv' /\ NoLostRelease'
    BY Zenon DEF BioInv, ControlInv, TypeOK, HoldInv, LockInv, NoLostRelease
  <2>2. CountInv'
    BY ZenonT(40), CountFrame DEF BioInv, ControlInv
  <2>3. OneBuffer' /\ ListInv' /\ FlagInv'
    BY Zenon DEF BioInv, CacheInv, OneBuffer, ListInv, FlagInv
  <2>4. QueueMatchesSleepers' /\ DeviceInv' /\ CleanMatchesDisk'
    BY Zenon, WaitingSame, QueueFrame
       DEF BioInv, ControlInv, DiskInv, DeviceInv, CleanMatchesDisk
  <2>5. pinned' = pinned
    BY Zenon DEF pinned
  <2>6. QED
    BY Zenon, <2>1, <2>2, <2>3, <2>4, <2>5 DEF BioInv, ControlInv, CacheInv, DiskInv, PinInv
<1>6. QED
  BY <1>1, <1>2, <1>3, <1>4, <1>5, Zenon DEF Next

\* The reference counts, sleep-locks, flags and the disk queue stay consistent with one
\* another and with what every process is doing, through every step of bio.c and ide.c.
THEOREM Invariance == Spec => []BioInv
<1>1. Init => BioInv
  BY Zenon, InitInv
<1>2. BioInv /\ [Next]_vars => BioInv'
  BY Zenon, NextInv
<1>3. QED
  BY <1>1, <1>2, PTL DEF Spec

\* The buffer cache never has two buffers for a block, never recycles a buffer that a
\* process has or waits for, and a clean buffer agrees with the disk (bget(), brelse(),
\* ideintr()), however uses, evictions and failed transfers interleave.
THEOREM CacheIsSound == Spec => []CacheSound
<1>1. BioInv => CacheSound
  <2>1. OneBuffer /\ CountInv => OneBufferPerBlock
    BY Zenon DEF OneBuffer, CountInv, OneBufferPerBlock, Holders, Holding
  <2>2. QED
    BY Zenon, <2>1 DEF BioInv, ControlInv, CacheInv, DiskInv, CacheSound
<1>2. QED
  BY <1>1, Invariance, PTL

\* Nobody sleeps in iderw() without a buffer in idequeue that the disk works towards,
\* or in acquiresleep() for a sleep-lock that is free.
THEOREM SleepersAreWoken == Spec => []SleepersHaveWakers
<1>1. BioInv => SleepersHaveWakers
  BY Zenon DEF BioInv, ControlInv, DiskInv, SleepersHaveWakers
<1>2. QED
  BY <1>1, Invariance, PTL
-----------------------------------------------------------------------------
(* bget() runs out of buffers only when all of them are in use. *)

\* A buffer that bget() cannot recycle is in somebody's hands or kept by the log.
LEMMA NoneLost ==
    ASSUME BioInv, unused = {}
    PROVE  Bufs = pinned \cup InHands
<1> USE DEF BioInv, ControlInv, CacheInv
<1>1. ASSUME NEW b \in Bufs PROVE b \in pinned \cup InHands
  <2>1. CASE refcnt[b] = 0
    <3>1. PICK j \in Places : mru[j] = b
      BY Zenon, ListOnto
    <3>2. dirty[b] = 1
      BY Zenon, <2>1, <3>1 DEF unused, TypeOK
    <3>3. Holders(b) = {}
      BY Zenon, <2>1, HoldersCounted DEF CountInv
    <3>4. QED
      BY Zenon, <3>2, <3>3 DEF pinned, Holders, Holding, Locking
  <2>2. CASE refcnt[b] # 0
    <3>1. PICK q : q \in Holders(b)
      BY Zenon, <2>2, HoldersCounted DEF CountInv
    <3>2. q \in Procs /\ buf[q] = b
      BY Zenon, <3>1 DEF Holders
    <3>3. QED
      BY Zenon, <3>2 DEF InHands
  <2>3. QED
    BY Zenon, <2>1, <2>2
<1>2. pinned \cup InHands \subseteq Bufs
  BY Zenon DEF pinned, InHands
<1>3. QED
  BY Zenon, <1>1, <1>2

\* Only bget() without a buffer to recycle panics.
LEMMA PanicMeansFull ==
    ASSUME BioInv, [Next]_vars, NEW q \in Procs, pc[q] # "panic", pc'[q] = "panic"
    PROVE  unused = {}
<1>1. pc \in [Procs -> PCs]
  BY Zenon DEF BioInv, ControlInv, TypeOK
<1>2. ASSUME NEW p \in Procs, NEW k \in Blocks, bget_cached(p, k) PROVE FALSE
  BY Zenon, <1>1, <1>2 DEF bget_cached, Goto
<1>3. ASSUME NEW p \in Procs, NEW k \in Blocks, bget_recycle(p, k), unused # {} PROVE FALSE
  <2>1. pc' = [pc EXCEPT ![p] = "acquiresleep"]
    BY <1>3, ZenonT(40) DEF bget_recycle, Goto
  <2>2. QED
    BY Zenon, <1>1, <2>1
<1>4. ASSUME NEW p \in Procs, step(p) \/ kill(p) PROVE FALSE
  BY Zenon, <1>1, <1>4 DEF step, acquiresleep, bread, releasesleep, brelse, iderw, iderw_test,
                    kill, Goto, wakeup
<1>5. ASSUME NEW p \in Procs, NEW v \in Vals, bwrite(p, v) \/ log_write(p, v) PROVE FALSE
  BY Zenon, <1>1, <1>5 DEF bwrite, log_write, Goto
<1>6. CASE device_done \/ device_fails \/ ideintr
  BY Zenon, <1>1, <1>6 DEF device_done, device_fails, ideintr, wakeup
<1>7. CASE UNCHANGED vars
  BY Zenon, <1>1, <1>7 DEF vars
<1>8. QED
  BY <1>2, <1>3, <1>4, <1>5, <1>6, <1>7, ZenonT(40) DEF Next

\* However many buffers there are, bget() panics only when the processes and the log have
\* all of them at that moment, the log no more than its limit: brelse() and ideintr() leave
\* no reference and no dirty mark behind.  iderw() is never called with nothing to do.
THEOREM OnlyFullCachePanics == Spec => PanicsOnlyWhenFull
<1>1. BioInv /\ [Next]_vars =>
        [\A p \in Procs :
           /\ pc[p] # "panic" /\ pc'[p] = "panic"
                  => Bufs = pinned \cup InHands /\ Cardinality(pinned) <= MaxPinned
           /\ pc[p] = "iderw" => valid[buf[p]] = 0 \/ dirty[buf[p]] = 1]_vars
  <2> SUFFICES ASSUME BioInv, [Next]_vars, NEW p \in Procs
               PROVE  /\ pc[p] # "panic" /\ pc'[p] = "panic"
                             => Bufs = pinned \cup InHands /\ Cardinality(pinned) <= MaxPinned
                      /\ pc[p] = "iderw" => valid[buf[p]] = 0 \/ dirty[buf[p]] = 1
    BY Zenon
  <2>1. pc[p] # "panic" /\ pc'[p] = "panic" => Bufs = pinned \cup InHands
    BY Zenon, PanicMeansFull, NoneLost
  <2>2. QED
    BY Zenon, <2>1 DEF BioInv, CacheInv, FlagInv, PinInv
<1>2. QED
  BY <1>1, Invariance, PTL DEF Spec, PanicsOnlyWhenFull
-----------------------------------------------------------------------------
(* The cache implements a store of blocks. *)

\* What Users and Current choose is unique.
Uses(p, k) == pc[p] \in Locking /\ blockno[buf[p]] = k
Cached(b, k) == blockno[b] = k /\ valid[b] = 1

LEMMA UserIs ==
    ASSUME BioInv, NEW k \in Blocks
    PROVE  /\ \A p \in Procs : Uses(p, k) => Users[k] = p
           /\ (\A p \in Procs : ~Uses(p, k)) => Users[k] = 0
<1>1. ASSUME NEW p \in Procs, NEW q \in Procs, Uses(p, k), Uses(q, k) PROVE p = q
  <2>1. buf[p] = buf[q]
    BY <1>1, BioAssumption, ZenonT(40)
       DEF BioInv, ControlInv, CacheInv, HoldInv, OneBuffer, Uses, Holding
  <2>2. QED
    BY <1>1, <2>1 DEF BioInv, ControlInv, LockInv, Uses
<1>2. Users[k] = IF \E p \in Procs : Uses(p, k) THEN CHOOSE p \in Procs : Uses(p, k) ELSE 0
  BY Zenon DEF Users, Uses
<1> QED
  BY Zenon, <1>1, <1>2

LEMMA UserIsNext ==
    ASSUME BioInv', NEW k \in Blocks
    PROVE  /\ \A p \in Procs : Uses(p, k)' => Users'[k] = p
           /\ (\A p \in Procs : ~Uses(p, k)') => Users'[k] = 0
<1>1. ASSUME NEW p \in Procs, NEW q \in Procs, Uses(p, k)', Uses(q, k)' PROVE p = q
  <2>1. buf'[p] = buf'[q]
    BY <1>1, BioAssumption, Zenon
       DEF BioInv, ControlInv, CacheInv, HoldInv, OneBuffer, Uses, Holding
  <2>2. QED
    BY <1>1, <2>1, SMTT(30) DEF BioInv, ControlInv, LockInv, Uses
<1>2. Users'[k] = IF \E p \in Procs : Uses(p, k)' THEN CHOOSE p \in Procs : Uses(p, k)' ELSE 0
  BY Zenon DEF Users, Uses
<1> QED
  BY Zenon, <1>1, <1>2

LEMMA CurrentIs ==
    ASSUME BioInv, NEW k \in Blocks
    PROVE  /\ \A b \in Bufs : Cached(b, k) => Current[k] = data[b]
           /\ (\A b \in Bufs : ~Cached(b, k)) => Current[k] = disk[k]
<1>1. ASSUME NEW b \in Bufs, NEW c \in Bufs, Cached(b, k), Cached(c, k) PROVE b = c
  BY Zenon, <1>1, BioAssumption DEF BioInv, CacheInv, OneBuffer, Cached
<1>2. Current[k] = IF \E b \in Bufs : Cached(b, k)
                   THEN data[CHOOSE b \in Bufs : Cached(b, k)] ELSE disk[k]
  BY Zenon DEF Current, Cached
<1> QED
  BY Zenon, <1>1, <1>2

LEMMA CurrentIsNext ==
    ASSUME BioInv', NEW k \in Blocks
    PROVE  /\ \A b \in Bufs : Cached(b, k)' => Current'[k] = data'[b]
           /\ (\A b \in Bufs : ~Cached(b, k)') => Current'[k] = disk'[k]
<1>1. ASSUME NEW b \in Bufs, NEW c \in Bufs, Cached(b, k)', Cached(c, k)' PROVE b = c
  BY Zenon, <1>1, BioAssumption DEF BioInv, CacheInv, OneBuffer, Cached
<1>2. Current'[k] = IF \E b \in Bufs : Cached(b, k)'
                    THEN data'[CHOOSE b \in Bufs : Cached(b, k)'] ELSE disk'[k]
  BY Zenon DEF Current, Cached
<1> QED
  BY Zenon, <1>1, <1>2

LEMMA StoreFunctions ==
    /\ Users = [k \in Blocks |-> Users[k]] /\ Users' = [k \in Blocks |-> Users'[k]]
    /\ Current = [k \in Blocks |-> Current[k]] /\ Current' = [k \in Blocks |-> Current'[k]]
BY Zenon DEF Users, Current

LEMMA CurrentType == BioInv => Current \in [Blocks -> Vals]
<1> SUFFICES ASSUME BioInv PROVE Current \in [Blocks -> Vals]
  BY Zenon
<1>1. data \in [Bufs -> Vals] /\ disk \in [Blocks -> Vals]
  BY Zenon DEF BioInv, ControlInv, TypeOK
<1>2. \A k \in Blocks : Current[k] \in Vals
  BY Zenon, <1>1, CurrentIs
<1>3. QED
  BY Zenon, <1>2, StoreFunctions

LEMMA UsersSame ==
    ASSUME BioInv, BioInv', \A p \in Procs : \A k \in Blocks : Uses(p, k)' <=> Uses(p, k)
    PROVE  Users' = Users
<1>1. ASSUME NEW k \in Blocks PROVE Users'[k] = Users[k]
  <2>1. CASE \E p \in Procs : Uses(p, k)
    BY Zenon, <2>1, UserIs, UserIsNext
  <2>2. CASE \A p \in Procs : ~Uses(p, k)
    BY Zenon, <2>2, UserIs, UserIsNext
  <2>3. QED
    BY Zenon, <2>1, <2>2
<1>2. QED
  BY Zenon, <1>1, StoreFunctions

LEMMA CurrentSame ==
    ASSUME BioInv, BioInv', UNCHANGED <<blockno, valid, data, disk>>
    PROVE  Current' = Current
<1>1. \A b \in Bufs : \A k \in Blocks : Cached(b, k)' <=> Cached(b, k)
  BY Zenon DEF Cached
<1>2. ASSUME NEW k \in Blocks PROVE Current'[k] = Current[k]
  <2>1. CASE \E b \in Bufs : Cached(b, k)
    <3> PICK b \in Bufs : Cached(b, k)
      BY Zenon, <2>1
    <3>1. Cached(b, k)' /\ data'[b] = data[b]
      BY Zenon, <1>1
    <3>2. Current[k] = data[b]
      BY Zenon, CurrentIs
    <3>3. Current'[k] = data'[b]
      BY Zenon, <3>1, CurrentIsNext
    <3>4. QED
      BY Zenon, <3>1, <3>2, <3>3
  <2>2. CASE \A b \in Bufs : ~Cached(b, k)
    BY Zenon, <1>1, <2>2, CurrentIs, CurrentIsNext
  <2>3. QED
    BY Zenon, <2>1, <2>2
<1>3. QED
  BY Zenon, <1>2, StoreFunctions

LEMMA RecycleStore ==
    ASSUME BioInv, BioInv', NEW p \in Procs, NEW k \in Blocks, bget_recycle(p, k)
    PROVE  [Abstract!Use]_<<Current, Users, bad>>
<1> USE DEF cache, ide
<1> PICK b : b = mru[Last(unused)]
  BY Zenon
<1>1. /\ pc[p] = "idle" /\ (\A c \in Bufs : blockno[c] # k)
      /\ UNCHANGED <<data, disk, bad>>
  BY Zenon DEF bget_recycle
<1>2. pc \in [Procs -> PCs] /\ disk \in [Blocks -> Vals]
  BY Zenon DEF BioInv, ControlInv, TypeOK
<1>3. CASE unused = {}
  <2>1. UNCHANGED <<blockno, valid, buf>> /\ pc' = [pc EXCEPT ![p] = "panic"]
    BY <1>3, ZenonT(40) DEF bget_recycle, Goto
  <2>2. Users' = Users
    BY Zenon, <1>1, <1>2, <2>1, UsersSame DEF Uses, Locking
  <2>3. QED
    BY Zenon, <1>1, <2>1, <2>2, CurrentSame
<1>4. CASE unused # {}
  <2>1. /\ blockno' = [blockno EXCEPT ![b] = k] /\ valid' = [valid EXCEPT ![b] = 0]
        /\ buf' = [buf EXCEPT ![p] = b] /\ pc' = [pc EXCEPT ![p] = "acquiresleep"]
    BY <1>4, ZenonT(40) DEF bget_recycle, Goto
  <2>2. /\ b \in Bufs /\ dirty[b] = 0
        /\ \A q \in Procs : pc[q] \in Holding => buf[q] # b
    BY Zenon, <1>4, UnusedBuffer
  <2>3. /\ blockno \in [Bufs -> Blocks \cup {0}] /\ valid \in [Bufs -> {0, 1}]
        /\ buf \in [Procs -> Bufs \cup {0}]
        /\ \A q \in Procs : pc[q] \in Holding => buf[q] \in Bufs
    BY Zenon DEF BioInv, ControlInv, TypeOK, HoldInv
  <2>4. ASSUME NEW q \in Procs, NEW j \in Blocks PROVE Uses(q, j)' <=> Uses(q, j)
    BY Zenon, <1>1, <1>2, <2>1, <2>2, <2>3 DEF Uses, Holding, Locking
  <2>5. Users' = Users
    BY Zenon, <2>4, UsersSame
  <2>6. \A c \in Bufs \ {b} : \A j \in Blocks : Cached(c, j)' <=> Cached(c, j)
    BY Zenon, <2>1, <2>2, <2>3 DEF Cached
  <2>7. \A j \in Blocks : ~Cached(b, j)'
    BY SMTT(30), <2>1, <2>2, <2>3 DEF Cached
  <2>8. ASSUME NEW j \in Blocks, ~Cached(b, j) PROVE Current'[j] = Current[j]
    <3>1. CASE \E c \in Bufs : Cached(c, j)
      <4> PICK c \in Bufs : Cached(c, j)
        BY Zenon, <3>1
      <4>1. Cached(c, j)' /\ data'[c] = data[c]
        BY ZenonT(40), <1>1, <2>6, <2>8
      <4>2. Current[j] = data[c]
        BY Zenon, CurrentIs
      <4>3. Current'[j] = data'[c]
        BY Zenon, <4>1, CurrentIsNext
      <4>4. QED
        BY Zenon, <4>1, <4>2, <4>3
    <3>2. CASE \A c \in Bufs : ~Cached(c, j)
      BY Zenon, <1>1, <2>6, <2>7, <3>2, CurrentIs, CurrentIsNext
    <3>3. QED
      BY ZenonT(40), <3>1, <3>2
  <2>9. CASE \A j \in Blocks : ~Cached(b, j)
    BY Zenon, <1>1, <2>5, <2>8, <2>9, StoreFunctions
  <2>10. ASSUME NEW j \in Blocks, Cached(b, j) PROVE [Abstract!Use]_<<Current, Users, bad>>
    <3>1. \A c \in Bufs : ~Cached(c, j)'
      BY <2>2, <2>6, <2>7, <2>10, BioAssumption, SMTT(30) DEF BioInv, CacheInv, OneBuffer, Cached
    <3>2. Current'[j] = disk[j] /\ Current[j] = data[b]
      BY ZenonT(40), <1>1, <2>2, <2>10, <3>1, CurrentIs, CurrentIsNext
    <3>3. \A i \in Blocks \ {j} : Current'[i] = Current[i]
      BY Zenon, <2>8, <2>10 DEF Cached
    <3>4. CASE data[b] = disk[j]
      BY <1>1, <2>5, <3>2, <3>3, <3>4, StoreFunctions
    <3>5. CASE j \in bad
      <4>1. Current' = [Current EXCEPT ![j] = disk[j]]
        BY Zenon, <3>2, <3>3, StoreFunctions
      <4>2. bad' = bad \cup {j} /\ disk[j] \in Vals
        BY Zenon, <1>1, <1>2, <3>5
      <4>3. QED
        BY <2>5, <4>1, <4>2, Zenon DEF Abstract!Use, Abstract!Spoil
    <3>6. data[b] = disk[j] \/ j \in bad
      BY Zenon, <2>2, <2>10 DEF BioInv, DiskInv, CleanMatchesDisk, Cached
    <3>7. QED
      BY Zenon, <3>4, <3>5, <3>6
  <2>11. QED
    BY Zenon, <2>9, <2>10
<1>5. QED
  BY Zenon, <1>3, <1>4

LEMMA AcquireStore ==
    ASSUME BioInv, BioInv', NEW p \in Procs, acquiresleep(p)
    PROVE  [Abstract!Use]_<<Current, Users, bad>>
<1> PICK b : b = buf[p]
  BY Zenon
<1>1. /\ pc[p] = "acquiresleep" /\ UNCHANGED <<blockno, valid, data, disk, bad, buf>>
      /\ \/ locked[b] # 0 /\ pc' = [pc EXCEPT ![p] = "locksleep"]
         \/ locked[b] = 0 /\ pc' = [pc EXCEPT ![p] = bread(b)]
  BY Zenon DEF acquiresleep, cache, ide, Goto
<1>2. pc \in [Procs -> PCs] /\ b \in Bufs /\ blockno[b] # 0 /\ blockno[b] \in Blocks
  BY Zenon, <1>1 DEF BioInv, ControlInv, TypeOK, HoldInv, Holding
<1>3. Current' = Current
  BY Zenon, <1>1, CurrentSame
<1>4. CASE pc' = [pc EXCEPT ![p] = "locksleep"]
  <2>1. Users' = Users
    BY ZenonT(40), <1>1, <1>2, <1>4, UsersSame DEF Uses, Locking
  <2>2. QED
    BY Zenon, <1>1, <1>3, <2>1
<1>5. CASE locked[b] = 0 /\ pc' = [pc EXCEPT ![p] = bread(b)]
  <2> PICK k \in Blocks : k = blockno[b]
    BY Zenon, <1>2
  <2>1. \A q \in Procs : ~Uses(q, k)
    <3> SUFFICES ASSUME NEW q \in Procs, Uses(q, k) PROVE FALSE
      BY Zenon
    <3>1. buf[q] = b
      BY Zenon, <1>2 DEF Uses, BioInv, ControlInv, CacheInv, HoldInv, OneBuffer, Holding
    <3>2. locked[b] = q /\ q # 0
      BY Zenon, <3>1, BioAssumption DEF Uses, BioInv, ControlInv, LockInv
    <3>3. QED
      BY Zenon, <1>5, <3>2
  <2>2. Uses(p, k)'
    BY Zenon, <1>1, <1>2, <1>5 DEF Uses, Locking, bread
  <2>3. ASSUME NEW q \in Procs, NEW j \in Blocks, j # k PROVE Uses(q, j)' <=> Uses(q, j)
    BY Zenon, <1>1, <1>2, <1>5, <2>3 DEF Uses, Locking
  <2>4. Users[k] = 0 /\ Users'[k] = p
    BY ZenonT(40), <2>1, <2>2, UserIs, UserIsNext
  <2>5. ASSUME NEW j \in Blocks, j # k PROVE Users'[j] = Users[j]
    <3>1. CASE \E q \in Procs : Uses(q, j)
      BY Zenon, <2>3, <2>5, <3>1, UserIs, UserIsNext
    <3>2. CASE \A q \in Procs : ~Uses(q, j)
      BY Zenon, <2>3, <2>5, <3>2, UserIs, UserIsNext
    <3>3. QED
      BY Zenon, <3>1, <3>2
  <2>6. Users' = [Users EXCEPT ![k] = p]
    BY Zenon, <2>4, <2>5, StoreFunctions
  <2>7. Abstract!Take(p, k)
    BY Zenon, <1>1, <1>3, <2>4, <2>6 DEF Abstract!Take
  <2>8. QED
    BY ZenonT(40), <2>7 DEF Abstract!Use
<1>6. QED
  BY Zenon, <1>1, <1>4, <1>5

LEMMA ReleaseStore ==
    ASSUME BioInv, BioInv', NEW p \in Procs, releasesleep(p)
    PROVE  [Abstract!Use]_<<Current, Users, bad>>
<1> PICK b : b = buf[p]
  BY Zenon
<1>1. /\ pc[p] = "using" /\ UNCHANGED <<blockno, valid, data, disk, bad, buf>>
      /\ pc' = [wakeup(buf[p], "locksleep", "acquiresleep") EXCEPT ![p] = "brelse"]
  BY Zenon DEF releasesleep, cache, ide
<1>2. /\ b \in Bufs /\ blockno[b] \in Blocks
      /\ \A q \in Procs \ {p} : pc[q] \in Locking => buf[q] # b
  <2>1. pc[p] \in Locking
    BY Zenon, <1>1 DEF Locking
  <2>2. QED
    BY Zenon, <2>1, LockedAlone
<1>3. PICK k \in Blocks : k = blockno[b]
  BY Zenon, <1>2
<1>4. /\ pc'[p] = "brelse"
      /\ \A q \in Procs \ {p} : pc'[q] \in Locking <=> pc[q] \in Locking
  BY Zenon, <1>1 DEF wakeup, Locking
<1>5. Uses(p, k)
  BY Zenon, <1>1, <1>3 DEF Uses, Locking
<1>6. ASSUME NEW q \in Procs PROVE ~Uses(q, k)'
  <2>1. CASE q = p
    BY Zenon, <1>4, <2>1 DEF Uses, Locking
  <2>2. CASE q # p
    <3>1. ~Uses(q, k)
      BY Zenon, <1>5, <2>2, UserIs
    <3>2. QED
      BY Zenon, <1>1, <1>4, <2>2, <3>1 DEF Uses
  <2>3. QED
    BY Zenon, <2>1, <2>2
<1>7. ASSUME NEW q \in Procs, NEW j \in Blocks, j # k PROVE Uses(q, j)' <=> Uses(q, j)
  BY Zenon, <1>1, <1>3, <1>4, <1>7 DEF Uses, Locking
<1>8. Users[k] = p /\ Users'[k] = 0
  BY Zenon, <1>5, <1>6, UserIs, UserIsNext
<1>9. ASSUME NEW j \in Blocks, j # k PROVE Users'[j] = Users[j]
  <2>1. CASE \E q \in Procs : Uses(q, j)
    BY Zenon, <1>7, <1>9, <2>1, UserIs, UserIsNext
  <2>2. CASE \A q \in Procs : ~Uses(q, j)
    BY Zenon, <1>7, <1>9, <2>2, UserIs, UserIsNext
  <2>3. QED
    BY Zenon, <2>1, <2>2
<1>10. Users' = [Users EXCEPT ![k] = 0]
  BY Zenon, <1>8, <1>9, StoreFunctions
<1>11. Abstract!Give(p, k)
  BY Zenon, <1>1, <1>8, <1>10, CurrentSame DEF Abstract!Give
<1>12. QED
  BY Zenon, <1>11 DEF Abstract!Use

\* bwrite() and log_write().
LEMMA UpdateStore ==
    ASSUME BioInv, BioInv', NEW p \in Procs, NEW v \in Vals, bwrite(p, v) \/ log_write(p, v)
    PROVE  [Abstract!Use]_<<Current, Users, bad>>
<1> PICK b : b = buf[p]
  BY Zenon
<1>1. /\ pc[p] = "using" /\ data' = [data EXCEPT ![b] = v]
      /\ UNCHANGED <<blockno, valid, disk, bad, buf>>
      /\ pc' = pc \/ pc' = [pc EXCEPT ![p] = "iderw"]
  BY Zenon DEF bwrite, log_write, cache, ide, Goto
<1>2. /\ b \in Bufs /\ blockno[b] \in Blocks /\ valid[b] = 1
      /\ pc \in [Procs -> PCs] /\ data \in [Bufs -> Vals]
  BY ZenonT(40), <1>1, LockedAlone DEF Locking, BioInv, ControlInv, CacheInv, FlagInv, TypeOK
<1>3. PICK k \in Blocks : k = blockno[b]
  BY Zenon, <1>2
<1>4. Users' = Users
  BY ZenonT(40), <1>1, <1>2, UsersSame DEF Uses, Locking
<1>5. Users[k] = p
  BY ZenonT(40), <1>1, <1>3, UserIs DEF Uses, Locking
<1>6. \A c \in Bufs : \A j \in Blocks : Cached(c, j)' <=> Cached(c, j)
  BY SMTT(30), <1>1 DEF Cached
<1>7. Cached(b, k)
  BY Zenon, <1>2, <1>3 DEF Cached
<1>8. Current'[k] = v
  BY ZenonT(40), <1>1, <1>2, <1>6, <1>7, CurrentIsNext
<1>9. ASSUME NEW j \in Blocks, j # k PROVE Current'[j] = Current[j]
  <2>1. ~Cached(b, j)
    BY SMTT(30), <1>3, <1>9 DEF Cached
  <2>2. CASE \E c \in Bufs : Cached(c, j)
    <3> PICK c \in Bufs : Cached(c, j)
      BY Zenon, <2>2
    <3>1. Cached(c, j)' /\ data'[c] = data[c]
      BY ZenonT(40), <1>1, <1>2, <1>6, <2>1
    <3>2. Current[j] = data[c]
      BY Zenon, CurrentIs
    <3>3. Current'[j] = data'[c]
      BY ZenonT(40), <3>1, CurrentIsNext
    <3>4. QED
      BY <3>1, <3>2, <3>3
  <2>3. CASE \A c \in Bufs : ~Cached(c, j)
    BY Zenon, <1>1, <1>6, <2>3, CurrentIs, CurrentIsNext
  <2>4. QED
    BY Zenon, <2>2, <2>3
<1>10. Current' = [Current EXCEPT ![k] = v]
  BY Zenon, <1>8, <1>9, StoreFunctions
<1>11. Abstract!Update(p, k)
  BY <1>1, <1>4, <1>5, <1>10, ZenonT(40) DEF Abstract!Update
<1>12. QED
  BY Zenon, <1>11 DEF Abstract!Use

\* The steps of a process that neither take nor give back nor change a block.
LEMMA QuietStore ==
    ASSUME BioInv, BioInv', NEW p \in Procs,
           brelse(p) \/ iderw(p) \/ iderw_test(p) \/ kill(p) \/ (\E k \in Blocks : bget_cached(p, k))
    PROVE  UNCHANGED <<Current, Users, bad>>
<1>1. /\ UNCHANGED <<blockno, valid, data, disk, bad>>
      /\ \A q \in Procs \ {p} : pc'[q] = pc[q] /\ buf'[q] = buf[q]
      /\ \/ pc[p] \notin Locking /\ pc'[p] \notin Locking
         \/ pc[p] \in Locking /\ pc'[p] \in Locking /\ buf' = buf
  <2>1. pc \in [Procs -> PCs] /\ buf \in [Procs -> Bufs \cup {0}]
    BY Zenon DEF BioInv, ControlInv, TypeOK
  <2>2. CASE brelse(p)
    BY Zenon, <2>1, <2>2 DEF brelse, Goto, Locking, ide
  <2>3. CASE iderw(p)
    BY Zenon, <2>1, <2>3 DEF iderw, Goto, Locking, cache
  <2>4. CASE iderw_test(p)
    BY Zenon, <2>1, <2>4 DEF iderw_test, Goto, Locking, cache, ide
  <2>5. CASE \E k \in Blocks : bget_cached(p, k)
    BY Zenon, <2>1, <2>5 DEF bget_cached, Goto, Locking, ide
  <2>6. CASE kill(p)
    BY Zenon, <2>1, <2>6 DEF kill, Goto, Locking, cache, ide
  <2>7. QED
    BY ZenonT(40), <2>2, <2>3, <2>4, <2>5, <2>6
<1>2. ASSUME NEW q \in Procs, NEW k \in Blocks PROVE Uses(q, k)' <=> Uses(q, k)
  BY Zenon, <1>1 DEF Uses
<1>3. Users' = Users
  BY Zenon, <1>2, UsersSame
<1>4. QED
  BY ZenonT(40), <1>1, <1>3, CurrentSame

LEMMA DeviceDoneStore ==
    ASSUME BioInv, BioInv', device_done
    PROVE  UNCHANGED <<Current, Users, bad>>
<1> PICK b : b = Head(idequeue)
  BY Zenon
<1>1. /\ device # "idle" /\ UNCHANGED <<blockno, valid, dirty, data, bad, pc, buf>>
      /\ disk' = IF dirty[b] = 1 THEN [disk EXCEPT ![blockno[b]] = latch] ELSE disk
  BY SMTT(30) DEF device_done, cache
<1>2. b \in Bufs /\ blockno[b] \in Blocks
  BY Zenon, <1>1, HeadOfQueue
<1>3. Users' = Users
  BY Zenon, <1>1, UsersSame DEF Uses
<1>4. \A c \in Bufs : \A j \in Blocks : Cached(c, j)' <=> Cached(c, j)
  BY Zenon, <1>1 DEF Cached
<1>5. dirty[b] = 1 => Cached(b, blockno[b])
  <2>1. valid[b] \in {0, 1} /\ (valid[b] = 0 => dirty[b] = 0)
    BY Zenon, <1>2 DEF BioInv, ControlInv, TypeOK, CacheInv, FlagInv
  <2>2. QED
    BY Zenon, <2>1 DEF Cached
<1>6. ASSUME NEW j \in Blocks PROVE Current'[j] = Current[j]
  <2>1. CASE \E c \in Bufs : Cached(c, j)
    <3> PICK c \in Bufs : Cached(c, j)
      BY Zenon, <2>1
    <3>1. Cached(c, j)' /\ data'[c] = data[c]
      BY SMTT(30), <1>1, <1>4
    <3>2. Current[j] = data[c]
      BY Zenon, CurrentIs
    <3>3. Current'[j] = data'[c]
      BY Zenon, <3>1, CurrentIsNext
    <3>4. QED
      BY Zenon, <3>1, <3>2, <3>3
  <2>2. CASE \A c \in Bufs : ~Cached(c, j)
    <3>1. disk'[j] = disk[j]
      BY ZenonT(40), <1>1, <1>2, <1>5, <2>2 DEF BioInv, ControlInv, TypeOK
    <3>2. QED
      BY ZenonT(40), <1>4, <2>2, <3>1, CurrentIs, CurrentIsNext
  <2>3. QED
    BY Zenon, <2>1, <2>2
<1>7. QED
  BY Zenon, <1>1, <1>3, <1>6, StoreFunctions

LEMMA DeviceFailsStore ==
    ASSUME BioInv, BioInv', device_fails
    PROVE  [Abstract!Use]_<<Current, Users, bad>>
<1>1. /\ device # "idle" /\ UNCHANGED <<blockno, valid, data, disk, pc, buf>>
      /\ bad' = bad \cup {blockno[Head(idequeue)]}
  BY Zenon DEF device_fails, cache
<1>2. PICK k \in Blocks : k = blockno[Head(idequeue)]
  BY <1>1, HeadOfQueue
<1>3. Users' = Users
  BY Zenon, <1>1, UsersSame DEF Uses
<1>4. Current' = [Current EXCEPT ![k] = Current[k]] /\ Current[k] \in Vals
  BY Zenon, <1>1, CurrentSame, CurrentType
<1>5. Abstract!Spoil(k)
  BY <1>1, <1>2, <1>3, <1>4, Zenon DEF Abstract!Spoil
<1>6. QED
  BY Zenon, <1>5 DEF Abstract!Use

LEMMA IdeintrStore ==
    ASSUME BioInv, BioInv', ideintr
    PROVE  [Abstract!Use]_<<Current, Users, bad>>
<1> PICK b : b = Head(idequeue)
  BY Zenon
<1>1. /\ device \in {"done", "failed"}
      /\ data' = IF dirty[b] = 1 \/ device = "failed" THEN data
                 ELSE [data EXCEPT ![b] = disk[blockno[b]]]
      /\ valid' = [valid EXCEPT ![b] = 1]
      /\ pc' = wakeup(b, "iosleep", "iotest")
      /\ UNCHANGED <<blockno, disk, bad, buf>>
  BY ZenonT(40) DEF ideintr, cache
<1>2. /\ b = idequeue[1] /\ b \in Bufs /\ blockno[b] \in Blocks
      /\ valid[b] = 0 \/ dirty[b] = 1
  BY Zenon, <1>1, HeadOfQueue
<1>3. /\ valid \in [Bufs -> {0, 1}] /\ data \in [Bufs -> Vals] /\ pc \in [Procs -> PCs]
      /\ valid[b] = 0 => dirty[b] = 0
  BY Zenon, <1>2 DEF BioInv, ControlInv, TypeOK, CacheInv, FlagInv
<1>4. PICK k \in Blocks : k = blockno[b]
  BY Zenon, <1>2
<1>5. Users' = Users
  <2>1. \A q \in Procs : pc'[q] \in Locking <=> pc[q] \in Locking
    BY Zenon, <1>1, <1>3 DEF wakeup, Locking
  <2>2. QED
    BY Zenon, <1>1, <2>1, UsersSame DEF Uses
<1>6. /\ Cached(b, k)'
      /\ \A c \in Bufs \ {b} : \A j \in Blocks : Cached(c, j)' <=> Cached(c, j)
      /\ \A c \in Bufs \ {b} : data'[c] = data[c]
  BY Zenon, <1>1, <1>2, <1>3, <1>4 DEF Cached
<1>7. ASSUME NEW j \in Blocks, j # k PROVE Current'[j] = Current[j]
  <2>1. ~Cached(b, j) /\ ~Cached(b, j)'
    BY SMTT(30), <1>1, <1>4, <1>7 DEF Cached
  <2>2. CASE \E c \in Bufs : Cached(c, j)
    <3> PICK c \in Bufs : Cached(c, j)
      BY Zenon, <2>2
    <3>1. Cached(c, j)' /\ data'[c] = data[c]
      BY Zenon, <1>6, <2>1
    <3>2. Current[j] = data[c]
      BY Zenon, CurrentIs
    <3>3. Current'[j] = data'[c]
      BY Zenon, <3>1, CurrentIsNext
    <3>4. QED
      BY Zenon, <3>1, <3>2, <3>3
  <2>3. CASE \A c \in Bufs : ~Cached(c, j)
    BY ZenonT(40), <1>1, <1>6, <2>1, <2>3, CurrentIs, CurrentIsNext
  <2>4. QED
    BY Zenon, <2>2, <2>3
<1>8. Current'[k] = data'[b]
  BY ZenonT(40), <1>2, <1>6, CurrentIsNext
<1>9. CASE valid[b] = 1
  <2>1. Current[k] = data[b] /\ data' = data
    BY ZenonT(40), <1>1, <1>2, <1>3, <1>4, <1>9, CurrentIs DEF Cached
  <2>2. QED
    BY Zenon, <1>1, <1>5, <1>7, <1>8, <2>1, StoreFunctions
<1>10. CASE valid[b] = 0
  <2>1. \A c \in Bufs : ~Cached(c, k)
    BY SMTT(30), <1>2, <1>4, <1>10, BioAssumption DEF BioInv, CacheInv, OneBuffer, Cached
  <2>2. Current[k] = disk[k]
    BY Zenon, <2>1, CurrentIs
  <2>3. CASE device = "done"
    <3>1. data'[b] = disk[k]
      <4>1. data' = [data EXCEPT ![b] = disk[blockno[b]]]
        <5>1. dirty[b] # 1 /\ device # "failed"
          BY SMTT(30), <1>3, <1>10, <2>3
        <5>2. data' = IF dirty[b] = 1 \/ device = "failed" THEN data
                      ELSE [data EXCEPT ![b] = disk[blockno[b]]]
          BY Zenon, <1>1
        <5>3. QED
          BY Zenon, <5>1, <5>2
      <4>2. QED
        BY Zenon, <1>2, <1>3, <1>4, <4>1
    <3>2. QED
      BY SMTT(30), <1>1, <1>5, <1>7, <1>8, <2>2, <3>1, StoreFunctions
  <2>4. CASE device = "failed"
    <3>1. data'[b] = data[b] /\ data[b] \in Vals
      BY Zenon, <1>1, <1>2, <1>3, <2>4
    <3>2. Current' = [Current EXCEPT ![k] = data[b]]
      BY Zenon, <1>7, <1>8, <3>1, StoreFunctions
    <3>3. bad' = bad \cup {k}
      BY Zenon, <1>1, <1>2, <1>4, <2>4 DEF BioInv, DiskInv, DeviceInv
    <3>4. Abstract!Spoil(k)
      BY <1>5, <3>1, <3>2, <3>3, Zenon DEF Abstract!Spoil
    <3>5. QED
      BY Zenon, <3>4 DEF Abstract!Use
  <2>5. QED
    BY Zenon, <1>1, <2>3, <2>4
<1>11. QED
  BY Zenon, <1>3, <1>2, <1>9, <1>10

LEMMA NextStore == BioInv /\ [Next]_vars => [Abstract!Use]_<<Current, Users, bad>>
<1> SUFFICES ASSUME BioInv, BioInv', [Next]_vars
             PROVE  [Abstract!Use]_<<Current, Users, bad>>
  BY Zenon, NextInv
<1>1. ASSUME NEW p \in Procs, NEW k \in Blocks, bget_cached(p, k) \/ bget_recycle(p, k)
      PROVE  [Abstract!Use]_<<Current, Users, bad>>
  BY Zenon, <1>1, QuietStore, RecycleStore
<1>2. ASSUME NEW p \in Procs, step(p) \/ kill(p)
      PROVE  [Abstract!Use]_<<Current, Users, bad>>
  BY Zenon, <1>2, AcquireStore, ReleaseStore, QuietStore DEF step
<1>3. ASSUME NEW p \in Procs, NEW v \in Vals, bwrite(p, v) \/ log_write(p, v)
      PROVE  [Abstract!Use]_<<Current, Users, bad>>
  BY Zenon, <1>3, UpdateStore
<1>4. CASE device_done \/ device_fails \/ ideintr
  BY Zenon, <1>4, DeviceDoneStore, DeviceFailsStore, IdeintrStore
<1>5. CASE UNCHANGED vars
  <2>1. UNCHANGED <<blockno, valid, data, disk, bad, pc, buf>>
    BY Zenon, <1>5 DEF vars, cache, ide
  <2>2. Users' = Users
    BY Zenon, <2>1, UsersSame DEF Uses
  <2>3. QED
    BY Zenon, <2>1, <2>2, CurrentSame
<1>6. QED
  BY <1>1, <1>2, <1>3, <1>4, <1>5, Zenon DEF Next

LEMMA InitStore == Init => Abstract!Fresh
<1> SUFFICES ASSUME Init PROVE Abstract!Fresh
  BY Zenon
<1>1. BioInv
  BY Zenon, InitInv
<1>2. \A p \in Procs : \A k \in Blocks : ~Uses(p, k)
  BY Zenon DEF Init, Uses, Locking
<1>3. \A k \in Blocks : Users[k] = 0
  BY Zenon, <1>1, <1>2, UserIs
<1>4. Users = [k \in Blocks |-> 0]
  BY Zenon, <1>3, StoreFunctions
<1>5. Current \in [Blocks -> Vals] /\ bad = {}
  BY Zenon, <1>1, CurrentType DEF Init
<1>6. QED
  BY Zenon, <1>4, <1>5 DEF Abstract!Fresh

\* The buffer cache and the disk driver implement a store of blocks: bread() gives a
\* block to one process at a time, and with what the last one left in it, although
\* bget() recycles buffers and ideintr() fills and cleans them; only a block that the
\* disk has failed on may change by itself.
THEOREM CacheIsStore == Spec => ImplementsStore
<1>1. Init => Abstract!Fresh
  BY Zenon, InitStore
<1>2. BioInv /\ [Next]_vars => [Abstract!Use]_<<Current, Users, bad>>
  BY Zenon, NextStore
<1>3. QED
  BY <1>1, <1>2, Invariance, PTL DEF Spec, ImplementsStore, Abstract!Store, Abstract!storevars
=============================================================================
