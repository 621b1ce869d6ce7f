-------------------------------- MODULE Log ---------------------------------
(***************************************************************************)
(* The physical redo log of the xv6 kernel (log.c), with the parts of      *)
(* bio.c that it relies on: bread() returns the cached block if there is   *)
(* one and reads the disk otherwise, bwrite() is synchronous, and a buffer *)
(* marked B_DIRTY is never evicted.                                        *)
(*                                                                         *)
(* Addresses are relative to log.start: the header is kept apart in dhead, *)
(* log block number tail is address tail+1, and the blocks right after the *)
(* log (the first inode block and so on) are the Home blocks.  A crash may *)
(* happen between any two block writes.                                    *)
(***************************************************************************)
EXTENDS Integers, Sequences, FiniteSets

CONSTANTS Procs,        \* processes that make file system calls
          Val,          \* contents of a block
          MAXOPBLOCKS,  \* param.h: max # of blocks any FS op writes
          LOGSIZE,      \* param.h: capacity of log.lh.block[]
          OpBlocks,     \* distinct blocks that a call really writes
          NHome         \* blocks after the log

ASSUME LogAssumption == /\ MAXOPBLOCKS \in Nat \ {0}
                        /\ LOGSIZE \in Nat
                        /\ LOGSIZE >= MAXOPBLOCKS
                        /\ LOGSIZE >= 2
                        /\ OpBlocks \in 0 .. MAXOPBLOCKS
                        /\ NHome \in Nat \ {0}
                        /\ IsFiniteSet(Procs)

\* sb.nlog, read into log.size: mkfs gives the log LOGSIZE blocks, one of
\* which is the header.
size == LOGSIZE

Addr == 1 .. (size - 1 + NHome)
Home == size .. (size - 1 + NHome)
NoBuf == 0

VARIABLES
    disk,         \* Addr -> Val: the log blocks and the home blocks
    dhead,        \* the header block: the block numbers lh->block[0..n-1]
    cache,        \* Addr -> Val: buffer contents
    dirty,        \* blocks whose buffer has B_DIRTY
    lh,           \* log.lh, as the sequence block[0..n-1]
    outstanding,  \* log.outstanding
    committing,   \* log.committing
    tail,         \* loop index of write_log() and install_trans()
    mode,         \* where the machine is: running or recovering
    pc,           \* where each process is in its file system call
    hold,         \* the locked buffer that a process has modified
    wrote         \* the blocks a call has passed to log_write()

logvars == <<lh, outstanding, committing, tail>>
procvars == <<pc, hold, wrote>>
bufvars == <<disk, cache, dirty>>
vars == <<disk, dhead, cache, dirty, lh, outstanding, committing, tail, mode,
          pc, hold, wrote>>

PCs == {"idle", "begin", "sleep", "op", "append", "panic",
        "write_log", "write_head", "install", "erase", "finish"}
Modes == {"run", "boot", "install", "erase"}

\* Calls between begin_op() and end_op(), one of them perhaps stopped in
\* panic(), and the process that is inside commit() or about to leave it.
Active == {p \in Procs : pc[p] \in {"op", "append", "panic"}}
Committers == {p \in Procs : pc[p] \in {"write_log", "write_head", "install",
                                        "erase", "finish"}}
-----------------------------------------------------------------------------
\* The operators named after a mistake (a dropped guard, a missing wakeup and
\* the like) are mutants: they take the place of the definition below them to
\* show that a property would notice.
\* bread(): a buffer that is not dirty may have been recycled by bget(), and
\* is then read again from the disk.
bread(a) == IF a \in dirty THEN {cache[a]} ELSE {cache[a], disk[a]}

\* bwrite(): the write reaches the disk before it returns; ideintr() then
\* clears B_DIRTY.
bwrite(a, v) == /\ disk' = [disk EXCEPT ![a] = v]
                /\ cache' = [cache EXCEPT ![a] = v]
                /\ dirty' = dirty \ {a}

wakeup_nobody(p, pcp) == pc' = [pc EXCEPT ![p] = pcp]

\* wakeup(&log) by process p, which itself goes on at pcp.
wakeup(p, pcp) == pc' = [q \in Procs |-> IF q = p THEN pcp
                                         ELSE IF pc[q] = "sleep" THEN "begin"
                                         ELSE pc[q]]

Init == /\ disk \in [Addr -> Val]
        /\ dhead = <<>>
        /\ cache = disk
        /\ dirty = {}
        /\ lh = <<>>
        /\ outstanding = 0
        /\ committing = 0
        /\ tail = 0
        /\ mode = "boot"
        /\ pc = [p \in Procs |-> "idle"]
        /\ hold = [p \in Procs |-> NoBuf]
        /\ wrote = [p \in Procs |-> {}]

\* A file system call enters begin_op(), or runs its loop again once woken;
\* it sleeps on &log when wait holds.
begin_op_or_sleep(p, wait) ==
    /\ mode = "run"
    /\ pc[p] \in {"idle", "begin"}
    /\ IF wait
       THEN /\ pc' = [pc EXCEPT ![p] = "sleep"]
            /\ UNCHANGED <<outstanding, wrote>>
       ELSE /\ pc' = [pc EXCEPT ![p] = "op"]
            /\ outstanding' = outstanding + 1
            /\ wrote' = [wrote EXCEPT ![p] = {}]
    /\ UNCHANGED <<bufvars, dhead, lh, committing, tail, mode, hold>>

begin_op_off_by_one(p) ==
    begin_op_or_sleep(p, committing = 1
                         \/ Len(lh) + outstanding * MAXOPBLOCKS > LOGSIZE)

begin_op(p) ==
    begin_op_or_sleep(p, committing = 1
                         \/ Len(lh) + (outstanding + 1) * MAXOPBLOCKS > LOGSIZE)

\* The caller has locked and modified the buffer of b.  The two panics of
\* log_write() are decided from log.lh.n and log.outstanding as they are
\* before log.lock is acquired.
log_write_check(p, b) ==
    /\ mode = "run"
    /\ pc[p] = "op"
    /\ \A q \in Procs : hold[q] # b
    /\ Cardinality(wrote[p] \cup {b}) <= OpBlocks
    /\ pc' = [pc EXCEPT ![p] = IF \/ Len(lh) >= LOGSIZE
                                  \/ Len(lh) >= size - 1
                                  \/ outstanding < 1
                               THEN "panic" ELSE "append"]
    /\ hold' = [hold EXCEPT ![p] = b]
    /\ UNCHANGED <<bufvars, dhead, logvars, mode, wrote>>

\* The rest of log_write(), under log.lock, and brelse() of the buffer.
log_write_append(p, v) ==
    LET b == hold[p] IN
    /\ mode = "run"
    /\ pc[p] = "append"
    /\ lh' = IF \E i \in 1 .. Len(lh) : lh[i] = b THEN lh ELSE Append(lh, b)
    /\ cache' = [cache EXCEPT ![b] = v]
    /\ dirty' = dirty \cup {b}
    /\ wrote' = [wrote EXCEPT ![p] = @ \cup {b}]
    /\ hold' = [hold EXCEPT ![p] = NoBuf]
    /\ pc' = [pc EXCEPT ![p] = "op"]
    /\ UNCHANGED <<disk, dhead, outstanding, committing, tail, mode>>

\* end_op() up to the release of log.lock, and the test of commit().
end_op(p) ==
    /\ mode = "run"
    /\ pc[p] = "op"
    /\ outstanding' = outstanding - 1
    /\ IF committing = 1
       THEN pc' = [pc EXCEPT ![p] = "panic"] /\ UNCHANGED <<committing, tail>>
       ELSE IF outstanding = 1
       THEN /\ committing' = 1
            /\ tail' = 0
            /\ pc' = [pc EXCEPT ![p] = IF Len(lh) > 0 THEN "write_log"
                                                      ELSE "finish"]
       ELSE wakeup(p, "idle") /\ UNCHANGED <<committing, tail>>
    /\ UNCHANGED <<bufvars, dhead, lh, mode, hold, wrote>>

\* One iteration of write_log(): copy a cached block to its log block.
write_log(p) ==
    /\ mode = "run"
    /\ pc[p] = "write_log"
    /\ \E v \in bread(lh[tail + 1]) : bwrite(tail + 1, v)
    /\ tail' = tail + 1
    /\ pc' = IF tail + 1 = Len(lh) THEN [pc EXCEPT ![p] = "write_head"] ELSE pc
    /\ UNCHANGED <<dhead, lh, outstanding, committing, mode, hold, wrote>>

\* write_head() with n > 0: the commit point.
write_head(p) ==
    /\ mode = "run"
    /\ pc[p] = "write_head"
    /\ dhead' = lh
    /\ tail' = 0
    /\ pc' = [pc EXCEPT ![p] = "install"]
    /\ UNCHANGED <<bufvars, lh, outstanding, committing, mode, hold, wrote>>

\* One iteration of the loop of install_trans().
install_block == /\ \E v \in bread(tail + 1) : bwrite(lh[tail + 1], v)
                 /\ tail' = tail + 1

install_trans_skips_last(p) ==
    /\ mode = "run"
    /\ pc[p] = "install"
    /\ install_block
    /\ pc' = IF tail + 2 >= Len(lh) THEN [pc EXCEPT ![p] = "erase"] ELSE pc
    /\ UNCHANGED <<dhead, lh, outstanding, committing, mode, hold, wrote>>

install_trans(p) ==
    /\ mode = "run"
    /\ pc[p] = "install"
    /\ install_block
    /\ pc' = IF tail + 1 = Len(lh) THEN [pc EXCEPT ![p] = "erase"] ELSE pc
    /\ UNCHANGED <<dhead, lh, outstanding, committing, mode, hold, wrote>>

\* log.lh.n = 0 and the second write_head() of commit().
erase(p) ==
    /\ mode = "run"
    /\ pc[p] = "erase"
    /\ lh' = <<>>
    /\ dhead' = <<>>
    /\ pc' = [pc EXCEPT ![p] = "finish"]
    /\ UNCHANGED <<bufvars, outstanding, committing, tail, mode, hold, wrote>>

\* The last lines of end_op(), after commit().
finish(p) ==
    /\ mode = "run"
    /\ pc[p] = "finish"
    /\ committing' = 0
    /\ wakeup(p, "idle")
    /\ UNCHANGED <<bufvars, dhead, lh, outstanding, tail, mode, hold, wrote>>

\* Power failure: what is in memory is lost.
crash ==
    /\ mode' = "boot"
    /\ cache' = disk
    /\ dirty' = {}
    /\ lh' = <<>>
    /\ outstanding' = 0
    /\ committing' = 0
    /\ tail' = 0
    /\ pc' = [p \in Procs |-> "idle"]
    /\ hold' = [p \in Procs |-> NoBuf]
    /\ wrote' = [p \in Procs |-> {}]
    /\ UNCHANGED <<disk, dhead>>

read_head_no_install ==
    /\ mode = "boot"
    /\ lh' = dhead
    /\ tail' = 0
    /\ mode' = "erase"
    /\ UNCHANGED <<bufvars, dhead, outstanding, committing, procvars>>

\* initlog() runs recover_from_log() before any file system call.
read_head ==
    /\ mode = "boot"
    /\ lh' = dhead
    /\ tail' = 0
    /\ mode' = IF Len(dhead) > 0 THEN "install" ELSE "erase"
    /\ UNCHANGED <<bufvars, dhead, outstanding, committing, procvars>>

recover_install ==
    /\ mode = "install"
    /\ install_block
    /\ mode' = IF tail + 1 = Len(lh) THEN "erase" ELSE mode
    /\ UNCHANGED <<dhead, lh, outstanding, committing, procvars>>

recover_erase ==
    /\ mode = "erase"
    /\ lh' = <<>>
    /\ dhead' = <<>>
    /\ mode' = "run"
    /\ UNCHANGED <<bufvars, outstanding, committing, tail, procvars>>

commit_step(p) == write_log(p) \/ write_head(p) \/ install_trans(p) \/ erase(p)
                  \/ finish(p)
recover_step == read_head \/ recover_install \/ recover_erase

Next == \/ \E p \in Procs : begin_op(p)
        \/ \E p \in Procs, b \in Home : log_write_check(p, b)
        \/ \E p \in Procs, v \in Val : log_write_append(p, v)
        \/ \E p \in Procs : end_op(p)
        \/ \E p \in Procs : commit_step(p)
        \/ recover_step
        \/ crash

Spec == Init /\ [][Next]_vars

\* The steps the kernel owes its callers: a call makes finitely many
\* log_write()s and then ends its operation (hence strong fairness), and the
\* committer runs on.  Calls need not start, and a crash need not happen.
Fairness == /\ \A p \in Procs : /\ SF_vars(end_op(p))
                                /\ WF_vars(\E v \in Val : log_write_append(p, v))
                                /\ WF_vars(commit_step(p))
            /\ WF_vars(recover_step)

FairSpec == Spec /\ Fairness
-----------------------------------------------------------------------------
TypeOK == /\ disk \in [Addr -> Val]
          /\ dhead \in Seq(Home)
          /\ Len(dhead) <= LOGSIZE
          /\ cache \in [Addr -> Val]
          /\ dirty \in SUBSET Home
          /\ lh \in Seq(Home)
          /\ Len(lh) <= LOGSIZE
          /\ outstanding \in Nat
          /\ committing \in {0, 1}
          /\ tail \in 0 .. LOGSIZE
          /\ mode \in Modes
          /\ pc \in [Procs -> PCs]
          /\ hold \in [Procs -> Home \cup {NoBuf}]
          /\ wrote \in [Procs -> SUBSET Home]

\* "The logging system only commits when there are no FS system calls active":
\* while log.committing is 1 no call is between begin_op() and end_op(), so
\* end_op() never reaches panic("log.committing").
CommitQuiescent == committing = 1 => Active = {}

\* log_write() never lets a transaction outgrow the blocks of the on-disk log:
\* write_log() stays between the header and the first block after the log.
LogFits == Len(lh) <= size - 1

\* What recovery would leave on the disk if the machine stopped now: the home
\* blocks, overlaid with the logged blocks that the header names.
Overlay(d, h) == [b \in Home |-> IF \E i \in 1 .. Len(h) : h[i] = b
                                 THEN d[CHOOSE i \in 1 .. Len(h) : h[i] = b]
                                 ELSE d[b]]
Stable == Overlay(disk, dhead)
Current == IF mode = "run" THEN [b \in Home |-> cache[b]] ELSE Stable

\* When the last end_op() has run commit() its updates, and those of all calls
\* it committed for, survive a crash.
CommittedIsDurable ==
    \A p \in Procs : pc[p] = "finish" => Stable = [b \in Home |-> cache[b]]

\* Updates become stable all together, between operations, and a crash loses
\* exactly the uncommitted ones; recovery itself may crash and is then redone.
Disk == INSTANCE AtomicDisk
            WITH Block <- Home, active <- Active, current <- Current,
                 stable <- Stable
ImplementsAtomicDisk == Disk!Spec

\* A process that sleeps in begin_op() is woken: every end_op() that can make
\* room does wakeup(&log) after the change it announces.
SleepersWake ==
    \A p \in Procs : pc[p] = "sleep" ~>
                        (pc[p] # "sleep" \/ \E q \in Procs : pc[q] = "panic")
=============================================================================
