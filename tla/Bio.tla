-------------------------------- MODULE Bio ---------------------------------
(***************************************************************************)
(* The buffer cache (bio.c), the sleep-locks of its buffers (sleeplock.c)  *)
(* and the disk driver under it (ide.c).                                   *)
(*                                                                         *)
(* A critical section of bcache.lock, idelock or the spinlock inside a     *)
(* sleep-lock is one step; sleep() is part of the section that calls it    *)
(* (Proc.tla shows why that is sound).  Buffer contents are opaque.  The   *)
(* disk is a device that works on one request at a time and interrupts     *)
(* when it has finished; it may fail MaxFails requests.                    *)
(*                                                                         *)
(* A member of Procs is one use of a buffer at a time, from bread() to     *)
(* brelse(): a process that holds two buffers at once is two of them.      *)
(***************************************************************************)
EXTENDS Integers, Sequences, FiniteSets

CONSTANTS Bufs,     \* buffers of bcache
          MaxPinned,  \* blocks that the log may keep dirty in the cache
          Procs, Blocks, Vals,
          None,     \* no value
          MaxFails  \* transfers that the disk may fail

ASSUME BioAssumption == /\ IsFiniteSet(Bufs)
                        /\ 0 \notin Bufs
                        /\ 0 \notin Blocks
                        /\ 0 \notin Procs
                        /\ None \notin Vals
                        /\ Vals # {}
                        /\ IsFiniteSet(Procs)
                        /\ MaxPinned \in Nat
                        /\ MaxFails \in Nat

NBUF == Cardinality(Bufs)
Places == 1 .. NBUF

VARIABLES
    blockno, valid, dirty, refcnt, data,  \* struct buf; block 0 is no block
    locked,    \* the process that holds the buffer's sleep-lock, or 0
    mru,       \* the list of bcache.head, most recently used first
    idequeue,
    device,    \* "idle", "busy" with the head of idequeue, "done" with it or "failed"
    latch,     \* what idestart() gave to the device: a value to write, or None
    disk,
    bad,       \* blocks with a transfer that failed
    pc, buf    \* of each process: where it is, and its buffer or 0

cache == <<blockno, refcnt, mru>>
ide == <<idequeue, device, latch, disk, bad>>
vars == <<cache, valid, dirty, data, locked, ide, pc, buf>>

Init == /\ blockno = [b \in Bufs |-> 0]
        /\ valid = [b \in Bufs |-> 0]
        /\ dirty = [b \in Bufs |-> 0]
        /\ refcnt = [b \in Bufs |-> 0]
        /\ data \in [Bufs -> {CHOOSE v \in Vals : TRUE}]
        /\ locked = [b \in Bufs |-> 0]
        /\ mru \in [Places -> Bufs] /\ \A i, j \in Places : mru[i] = mru[j] => i = j
        /\ idequeue = <<>>
        /\ device = "idle"
        /\ latch = None
        /\ disk \in [Blocks -> Vals]
        /\ bad = {}
        /\ pc = [p \in Procs |-> "idle"]
        /\ buf = [p \in Procs |-> 0]

Goto(p, l) == pc' = [pc EXCEPT ![p] = l]
\* Processes asleep at a on the buffer b go on at l.
wakeup(b, a, l) == [p \in Procs |-> IF pc[p] = a /\ buf[p] = b THEN l ELSE pc[p]]
-----------------------------------------------------------------------------
\* bget(): the buffers it may recycle, as positions in the list.
unused_maybe_dirty == {j \in Places : refcnt[mru[j]] = 0}
unused == {j \in Places : refcnt[mru[j]] = 0 /\ dirty[mru[j]] = 0}
Last(J) == CHOOSE j \in J : \A k \in J : k <= j

\* bget(): the block is in the cache.
bget_cached(p, k) ==
    /\ pc[p] = "idle"
    /\ \E b \in Bufs : /\ blockno[b] = k
                       /\ refcnt' = [refcnt EXCEPT ![b] = @ + 1]
                       /\ buf' = [buf EXCEPT ![p] = b]
    /\ Goto(p, "acquiresleep")
    /\ UNCHANGED <<blockno, mru, valid, dirty, data, locked, ide>>

\* bget(): recycle the least recently used buffer, or panic.
bget_recycle_unchecked(p, k) ==
    LET b == mru[Last(unused)] IN
    /\ pc[p] = "idle" /\ unused # {}
    /\ blockno' = [blockno EXCEPT ![b] = k]
    /\ valid' = [valid EXCEPT ![b] = 0]
    /\ refcnt' = [refcnt EXCEPT ![b] = 1]
    /\ buf' = [buf EXCEPT ![p] = b]
    /\ Goto(p, "acquiresleep")
    /\ UNCHANGED <<mru, dirty, data, locked, ide>>
bget_recycle(p, k) ==
    LET b == mru[Last(unused)] IN
    /\ pc[p] = "idle"
    /\ \A c \in Bufs : blockno[c] # k
    /\ IF unused = {}
       THEN Goto(p, "panic") /\ UNCHANGED <<blockno, refcnt, valid, buf>>
       ELSE /\ blockno' = [blockno EXCEPT ![b] = k]
            /\ valid' = [valid EXCEPT ![b] = 0]
            /\ refcnt' = [refcnt EXCEPT ![b] = 1]
            /\ buf' = [buf EXCEPT ![p] = b]
            /\ Goto(p, "acquiresleep")
    /\ UNCHANGED <<mru, dirty, data, locked, ide>>

bread(b) == IF valid[b] = 1 THEN "using" ELSE "iderw"

\* acquiresleep(): one round of its loop; bread() then reads the buffer from
\* the disk unless it is valid, which nobody can change while it is locked.
acquiresleep(p) ==
    LET b == buf[p] IN
    /\ pc[p] = "acquiresleep"
    /\ IF locked[b] # 0
       THEN Goto(p, "locksleep") /\ UNCHANGED locked
       ELSE locked' = [locked EXCEPT ![b] = p] /\ Goto(p, bread(b))
    /\ UNCHANGED <<cache, valid, dirty, data, ide, buf>>

\* Buffers that are dirty and not on their way to the disk: the log's.
pinned == {b \in Bufs : dirty[b] = 1 /\ \A p \in Procs :
                           ~(buf[p] = b /\ pc[p] \in {"iderw", "iosleep", "iotest"})}

\* The user of a locked buffer changes it and calls bwrite() ...
bwrite(p, v) ==
    /\ pc[p] = "using"
    /\ data' = [data EXCEPT ![buf[p]] = v]
    /\ dirty' = [dirty EXCEPT ![buf[p]] = 1]
    /\ Goto(p, "iderw")
    /\ UNCHANGED <<cache, valid, locked, ide, buf>>

\* ... or log_write() (log.c), which leaves it dirty in the cache.
log_write(p, v) ==
    /\ pc[p] = "using"
    /\ Cardinality(pinned \cup {buf[p]}) <= MaxPinned
    /\ data' = [data EXCEPT ![buf[p]] = v]
    /\ dirty' = [dirty EXCEPT ![buf[p]] = 1]
    /\ UNCHANGED <<cache, valid, locked, ide, pc, buf>>

\* brelse(): releasesleep(), which wakes those who wait for the buffer ...
releasesleep_quiet(p) ==
    /\ pc[p] = "using"
    /\ locked' = [locked EXCEPT ![buf[p]] = 0]
    /\ Goto(p, "brelse")
    /\ UNCHANGED <<cache, valid, dirty, data, ide, buf>>
releasesleep(p) ==
    /\ pc[p] = "using"
    /\ locked' = [locked EXCEPT ![buf[p]] = 0]
    /\ pc' = [wakeup(buf[p], "locksleep", "acquiresleep") EXCEPT ![p] = "brelse"]
    /\ UNCHANGED <<cache, valid, dirty, data, ide, buf>>

\* The list with b moved from its place to the front.
to_front(b) == LET i == CHOOSE j \in Places : mru[j] = b
               IN  [j \in Places |-> IF j = 1 THEN b ELSE IF j <= i THEN mru[j - 1] ELSE mru[j]]

\* ... then drop the reference; a buffer without any moves to the front.
brelse_keeping(p) ==
    /\ pc[p] = "brelse"
    /\ Goto(p, "idle")
    /\ buf' = [buf EXCEPT ![p] = 0]
    /\ UNCHANGED <<blockno, refcnt, mru, valid, dirty, data, locked, ide>>
brelse(p) ==
    LET b == buf[p] IN
    /\ pc[p] = "brelse"
    /\ refcnt' = [refcnt EXCEPT ![b] = @ - 1]
    /\ mru' = IF refcnt[b] = 1 THEN to_front(b) ELSE mru
    /\ Goto(p, "idle")
    /\ buf' = [buf EXCEPT ![p] = 0]
    /\ UNCHANGED <<blockno, valid, dirty, data, locked, ide>>
-----------------------------------------------------------------------------
\* idestart(): a write hands its data to the device at once.
idestart(q) == /\ device' = "busy"
               /\ latch' = IF dirty[Head(q)] = 1 THEN data[Head(q)] ELSE None

\* iderw(): append the buffer, start the disk if it was idle, and sleep.
iderw(p) ==
    /\ pc[p] = "iderw"
    /\ idequeue' = Append(idequeue, buf[p])
    /\ IF idequeue = <<>> THEN idestart(idequeue') ELSE UNCHANGED <<device, latch>>
    /\ Goto(p, "iosleep")
    /\ UNCHANGED <<cache, valid, dirty, data, locked, disk, bad, buf>>

\* kill() of a process that sleeps makes it test its condition again.
kill(p) ==
    /\ pc[p] \in {"locksleep", "iosleep"}
    /\ Goto(p, IF pc[p] = "locksleep" THEN "acquiresleep" ELSE "iotest")
    /\ UNCHANGED <<cache, valid, dirty, data, locked, ide, buf>>

\* iderw(): the test of its loop, after a wakeup.
iderw_test(p) ==
    LET b == buf[p] IN
    /\ pc[p] = "iotest"
    /\ Goto(p, IF valid[b] = 1 /\ dirty[b] = 0 THEN "using" ELSE "iosleep")
    /\ UNCHANGED <<cache, valid, dirty, data, locked, ide, buf>>

\* The device carries out the request.
device_done ==
    /\ device = "busy"
    /\ device' = "done"
    /\ disk' = IF dirty[Head(idequeue)] = 1
               THEN [disk EXCEPT ![blockno[Head(idequeue)]] = latch] ELSE disk
    /\ UNCHANGED <<cache, valid, dirty, data, locked, idequeue, latch, bad, pc, buf>>

\* Or it reports an error.
device_fails ==
    /\ Cardinality(bad) < MaxFails
    /\ device = "busy"
    /\ device' = "failed"
    /\ bad' = bad \cup {blockno[Head(idequeue)]}
    /\ UNCHANGED <<cache, valid, dirty, data, locked, idequeue, latch, disk, pc, buf>>

\* ideintr(): finish the head of the queue, wake its process, start the next.
ideintr ==
    LET b == Head(idequeue) IN
    /\ device \in {"done", "failed"}
    /\ idequeue' = Tail(idequeue)
    /\ data' = IF dirty[b] = 1 \/ device = "failed" THEN data ELSE [data EXCEPT ![b] = disk[blockno[b]]]
    /\ valid' = [valid EXCEPT ![b] = 1]
    /\ dirty' = [dirty EXCEPT ![b] = 0]
    /\ pc' = wakeup(b, "iosleep", "iotest")
    /\ IF Tail(idequeue) = <<>> THEN device' = "idle" /\ latch' = None
                                ELSE idestart(Tail(idequeue))
    /\ UNCHANGED <<cache, locked, disk, bad, buf>>

step(p) == \/ acquiresleep(p) \/ releasesleep(p) \/ brelse(p)
           \/ iderw(p) \/ iderw_test(p)

Next == \/ \E p \in Procs : \/ \E k \in Blocks : bget_cached(p, k) \/ bget_recycle(p, k)
                            \/ step(p) \/ kill(p)
                            \/ \E v \in Vals : bwrite(p, v) \/ log_write(p, v)
        \/ device_done \/ device_fails \/ ideintr

Spec == Init /\ [][Next]_vars
-----------------------------------------------------------------------------
PCs == {"idle", "acquiresleep", "locksleep", "using", "brelse",
        "iderw", "iosleep", "iotest", "panic"}
\* Where a process has its buffer locked.
Locking == {"using", "iderw", "iosleep", "iotest"}

TypeOK == /\ blockno \in [Bufs -> Blocks \cup {0}]
          /\ valid \in [Bufs -> {0, 1}]
          /\ dirty \in [Bufs -> {0, 1}]
          /\ refcnt \in [Bufs -> 0 .. Cardinality(Procs)]
          /\ data \in [Bufs -> Vals]
          /\ locked \in [Bufs -> Procs \cup {0}]
          /\ mru \in [Places -> Bufs]
          /\ idequeue \in Seq(Bufs)
          /\ device \in {"idle", "busy", "done", "failed"}
          /\ latch \in Vals \cup {None}
          /\ disk \in [Blocks -> Vals]
          /\ bad \in SUBSET Blocks
          /\ pc \in [Procs -> PCs]
          /\ buf \in [Procs -> Bufs \cup {0}]

\* At most one buffer holds a block, and it is not recycled while a process has
\* it or waits for it.
OneBufferPerBlock ==
    /\ \A b, c \in Bufs : blockno[b] = blockno[c] /\ blockno[b] # 0 => b = c
    /\ \A b \in Bufs : refcnt[b] = Cardinality({p \in Procs :
                           buf[p] = b /\ pc[p] \in Locking \cup {"acquiresleep",
                                                   "locksleep", "brelse"}})

\* The cache is a store of blocks: users exclude each other and find what the
\* last one left, although buffers are recycled, read and written behind their
\* backs.
Users == [k \in Blocks |->
             IF \E p \in Procs : pc[p] \in Locking /\ blockno[buf[p]] = k
             THEN CHOOSE p \in Procs : pc[p] \in Locking /\ blockno[buf[p]] = k
             ELSE 0]
Current == [k \in Blocks |->
               IF \E b \in Bufs : blockno[b] = k /\ valid[b] = 1
               THEN data[CHOOSE b \in Bufs : blockno[b] = k /\ valid[b] = 1]
               ELSE disk[k]]
Abstract == INSTANCE BlockStore
                WITH Nobody <- 0, contents <- Current, user <- Users
ImplementsStore == Abstract!Store

\* A buffer that is valid and not dirty has the contents of the disk, unless
\* the disk failed: recycling it loses nothing.
CleanMatchesDisk ==
    \A b \in Bufs :
        valid[b] = 1 /\ dirty[b] = 0
            => data[b] = disk[blockno[b]] \/ blockno[b] \in bad

\* The processes in iderw() that the disk has to serve, asleep or woken by kill().
Waiting == {p \in Procs : \/ pc[p] = "iosleep"
                          \/ pc[p] = "iotest" /\ (valid[buf[p]] = 0 \/ dirty[buf[p]] = 1)}

\* The disk works on the head of the queue; every buffer in it has one process,
\* which waits for it in iderw(), and the buffer of every such process is in it.
QueueMatchesSleepers ==
    /\ device = "idle" <=> idequeue = <<>>
    /\ \A p \in Waiting : \E j \in DOMAIN idequeue : idequeue[j] = buf[p]
    /\ \A j \in DOMAIN idequeue : LET b == idequeue[j] IN
           locked[b] \in Waiting /\ buf[locked[b]] = b
    /\ \A j, k \in DOMAIN idequeue : idequeue[j] = idequeue[k] => j = k

\* No process waits for a sleep-lock that is free.
NoLostRelease == \A p \in Procs : pc[p] = "locksleep" => locked[buf[p]] # 0

\* bget() panics for lack of buffers only at a moment when each of them is in the
\* hands of a process or is one of the blocks, MaxPinned at most, that the log keeps:
\* no reference and no dirty mark stays behind.  iderw() is only asked for transfers
\* that are needed, so that it never panics.
InHands == {b \in Bufs : \E p \in Procs : buf[p] = b}
PanicsOnlyWhenFull ==
    [][\A p \in Procs :
           /\ pc[p] # "panic" /\ pc'[p] = "panic"
                  => Bufs = pinned \cup InHands /\ Cardinality(pinned) <= MaxPinned
           /\ pc[p] = "iderw" => valid[buf[p]] = 0 \/ dirty[buf[p]] = 1]_vars

\* What log.c and fs.c rely on in bread() and bwrite(): one buffer per block, which
\* is not recycled in use, and which agrees with the disk when it is clean.
CacheSound == TypeOK /\ OneBufferPerBlock /\ CleanMatchesDisk

\* Nobody sleeps in iderw() or acquiresleep() without somebody to wake them: the
\* disk for a transfer, the holder of the lock for a buffer.
SleepersHaveWakers == QueueMatchesSleepers /\ NoLostRelease
=============================================================================
