-------------------------------- MODULE Pipe --------------------------------
(***************************************************************************)
(* A pipe of the xv6 kernel (pipe.c) and the part of file.c that closes    *)
(* its ends.  Processes that hold one or both ends read, write and close;  *)
(* any of them may be killed at any time.                                  *)
(*                                                                         *)
(* The pipe's lock is explicit.  A process that holds it moves one byte a  *)
(* step.  sleep() gives up the lock and sleeps in one step and wakeup()    *)
(* is one step, as ptable.lock makes them (Proc.tla); kill() takes only    *)
(* ptable.lock, so it comes between any two steps.                         *)
(***************************************************************************)
EXTENDS Integers, Sequences, FiniteSets

CONSTANTS PIPESIZE,   \* bytes of the ring
          UintMod,    \* the unsigned counters count modulo this
          Procs,
          Holds,      \* the ends each process has open at first
          Bytes,
          Counts,     \* the numbers of bytes that calls ask for
          Killable    \* the processes that may be killed

ASSUME PipeAssumption ==
    /\ PIPESIZE \in Nat \ {0}
    /\ UintMod \in Nat /\ UintMod > PIPESIZE /\ UintMod % PIPESIZE = 0
    /\ 0 \notin Procs
    /\ Holds \in [Procs -> SUBSET {"r", "w"}]
    /\ Counts \subseteq Nat
    /\ Killable \subseteq Procs

VARIABLES
    data, nread, nwrite, readopen, writeopen,  \* struct pipe
    freed,     \* kfree() has been called on the pipe
    lock,      \* the process that holds p->lock, or 0
    fds,       \* the ends a process has open
    pc,        \* where each process is; "r..." in piperead(), "w..." in pipewrite()
    left,      \* n - i: the bytes the call has still to move
    killed,
    unwoken    \* history: readers that a killed writer left asleep, until a wakeup()

ring == <<data, nread, nwrite>>
ends == <<readopen, writeopen, freed, fds>>
vars == <<ring, ends, lock, pc, left, killed, unwoken>>

Init == /\ data \in [0 .. PIPESIZE - 1 -> Bytes]
        /\ nread = 0 /\ nwrite = 0
        /\ readopen = 1 /\ writeopen = 1
        /\ freed = 0
        /\ lock = 0
        /\ fds = Holds
        /\ pc = [p \in Procs |-> "user"]
        /\ left = [p \in Procs |-> 0]
        /\ killed = [p \in Procs |-> 0]
        /\ unwoken = {}

Empty == nread = nwrite
Full == nwrite = (nread + PIPESIZE) % UintMod

\* wakeup(): a process asleep at a goes on to reacquire the lock at b.
wakeup_nobody(a, b) == pc
wakeup(a, b) == [p \in Procs |-> IF pc[p] = a THEN b ELSE pc[p]]
wakeup_readers == wakeup("rasleep", "racquire")
wakeup_writers == wakeup("wasleep", "wacquire")
-----------------------------------------------------------------------------
\* A process in user space calls read() or write(); trap() lets no killed
\* process begin a call.
call(p, k) ==
    /\ pc[p] = "user" /\ killed[p] = 0
    /\ \/ "r" \in fds[p] /\ pc' = [pc EXCEPT ![p] = "racquire"]
       \/ "w" \in fds[p] /\ pc' = [pc EXCEPT ![p] = "wacquire"]
    /\ left' = [left EXCEPT ![p] = k]
    /\ UNCHANGED <<ring, ends, lock, killed, unwoken>>

\* acquire(&p->lock), at the beginning of a call and at the end of sleep().
acquire(p) ==
    /\ lock = 0
    /\ \/ pc[p] = "racquire" /\ pc' = [pc EXCEPT ![p] = "rtest"]
       \/ pc[p] = "wacquire" /\ pc' = [pc EXCEPT ![p] = "wloop"]
    /\ lock' = p
    /\ UNCHANGED <<ring, ends, left, killed, unwoken>>

\* Release the lock and return, the other processes being where at says.
return(p, at) == /\ pc' = [at EXCEPT ![p] = "user"]
                 /\ lock' = 0
                 /\ left' = [left EXCEPT ![p] = 0]

\* piperead(): the test of its loop.
piperead_test(p) ==
    /\ pc[p] = "rtest"
    /\ IF Empty /\ writeopen = 1
       THEN IF killed[p] = 1
            THEN return(p, pc)
            ELSE pc' = [pc EXCEPT ![p] = "rsleep"] /\ UNCHANGED <<lock, left>>
       ELSE pc' = [pc EXCEPT ![p] = "rcopy"] /\ UNCHANGED <<lock, left>>
    /\ UNCHANGED <<ring, ends, killed, unwoken>>

\* piperead(): one byte, if there is one and the caller has room for it.
piperead_copy(p) ==
    /\ pc[p] = "rcopy" /\ left[p] > 0 /\ ~Empty
    /\ nread' = (nread + 1) % UintMod
    /\ left' = [left EXCEPT ![p] = @ - 1]
    /\ UNCHANGED <<data, nwrite, ends, lock, pc, killed, unwoken>>

\* piperead(): the end of the call.
piperead_return(p) ==
    /\ pc[p] = "rcopy" /\ (left[p] = 0 \/ Empty)
    /\ return(p, wakeup_writers)
    /\ UNCHANGED <<ring, ends, killed, unwoken>>

pipewrite_overruns(p, b) ==
    /\ pc[p] = "wloop" /\ left[p] > 0
    /\ data' = [data EXCEPT ![nwrite % PIPESIZE] = b]
    /\ nwrite' = (nwrite + 1) % UintMod
    /\ left' = [left EXCEPT ![p] = @ - 1]
    /\ UNCHANGED <<nread, ends, lock, pc, killed, unwoken>>

\* pipewrite(): one byte of the caller's buffer.
pipewrite_copy(p, b) ==
    /\ pc[p] = "wloop" /\ left[p] > 0 /\ ~Full
    /\ data' = [data EXCEPT ![nwrite % PIPESIZE] = b]
    /\ nwrite' = (nwrite + 1) % UintMod
    /\ left' = [left EXCEPT ![p] = @ - 1]
    /\ UNCHANGED <<nread, ends, lock, pc, killed, unwoken>>

\* pipewrite(): the ring is full.  Give up, or wake the readers and sleep.
pipewrite_full(p) ==
    /\ pc[p] = "wloop" /\ left[p] > 0 /\ Full
    /\ IF readopen = 0 \/ killed[p] = 1
       THEN return(p, pc) /\ unwoken' = {q \in Procs : pc[q] = "rasleep"}
       ELSE /\ pc' = [wakeup_readers EXCEPT ![p] = "wsleep"]
            /\ unwoken' = {}
            /\ UNCHANGED <<lock, left>>
    /\ UNCHANGED <<ring, ends, killed>>

pipewrite_quiet(p) ==
    /\ pc[p] = "wloop" /\ left[p] = 0
    /\ return(p, pc)
    /\ UNCHANGED <<ring, ends, killed, unwoken>>

\* pipewrite(): the end of the call.
pipewrite_return(p) ==
    /\ pc[p] = "wloop" /\ left[p] = 0
    /\ return(p, wakeup_readers)
    /\ unwoken' = {}
    /\ UNCHANGED <<ring, ends, killed>>

\* sleep(&p->nread, &p->lock) and sleep(&p->nwrite, &p->lock).
sleep(p) ==
    /\ \/ pc[p] = "rsleep" /\ pc' = [pc EXCEPT ![p] = "rasleep"]
       \/ pc[p] = "wsleep" /\ pc' = [pc EXCEPT ![p] = "wasleep"]
    /\ lock' = 0
    /\ UNCHANGED <<ring, ends, left, killed, unwoken>>
-----------------------------------------------------------------------------
fileclose_early(p, e) ==
    /\ pc[p] = "user" /\ e \in fds[p]
    /\ fds' = [fds EXCEPT ![p] = @ \ {e}]
    /\ pc' = [pc EXCEPT ![p] = IF e = "r" THEN "close r" ELSE "close w"]
    /\ UNCHANGED <<ring, readopen, writeopen, freed, lock, left, killed, unwoken>>

\* close(), or exit() of a killed process: fileclose() drops a reference to
\* the file of one end, and the last one goes on to pipeclose().
fileclose(p, e) ==
    /\ pc[p] = "user" /\ e \in fds[p]
    /\ fds' = [fds EXCEPT ![p] = @ \ {e}]
    /\ IF \E q \in Procs \ {p} : e \in fds[q]
       THEN UNCHANGED pc
       ELSE pc' = [pc EXCEPT ![p] = IF e = "r" THEN "close r" ELSE "close w"]
    /\ UNCHANGED <<ring, readopen, writeopen, freed, lock, left, killed, unwoken>>

\* pipeclose(): the second of the two ends frees the pipe, after the release.
pipeclose(p) ==
    /\ lock = 0
    /\ \/ /\ pc[p] = "close r"
          /\ readopen' = 0
          /\ pc' = [wakeup_writers EXCEPT ![p] = IF writeopen = 0 THEN "free" ELSE "user"]
          /\ UNCHANGED <<writeopen, unwoken>>
       \/ /\ pc[p] = "close w"
          /\ writeopen' = 0
          /\ pc' = [wakeup_readers EXCEPT ![p] = IF readopen = 0 THEN "free" ELSE "user"]
          /\ unwoken' = {}
          /\ UNCHANGED readopen
    /\ UNCHANGED <<ring, freed, fds, lock, left, killed>>

pipeclose_kfree(p) ==
    /\ pc[p] = "free"
    /\ freed' = freed + 1
    /\ pc' = [pc EXCEPT ![p] = "user"]
    /\ UNCHANGED <<ring, readopen, writeopen, fds, lock, left, killed, unwoken>>

\* kill(): mark the process, and wake it if it sleeps.
kill(p) ==
    /\ killed[p] = 0
    /\ killed' = [killed EXCEPT ![p] = 1]
    /\ pc' = [pc EXCEPT ![p] = CASE @ = "rasleep" -> "racquire"
                                 [] @ = "wasleep" -> "wacquire"
                                 [] OTHER -> @]
    /\ unwoken' = unwoken \ {p}
    /\ UNCHANGED <<ring, ends, lock, left>>

\* A process in the kernel goes on; one in user space need not call.
step(p) == \/ acquire(p) \/ piperead_test(p) \/ piperead_copy(p) \/ piperead_return(p)
           \/ \E b \in Bytes : pipewrite_copy(p, b)
           \/ pipewrite_full(p) \/ pipewrite_return(p) \/ sleep(p)
           \/ pipeclose(p) \/ pipeclose_kfree(p)

Next == \/ \E p \in Procs : \/ step(p)
                            \/ \E k \in Counts : call(p, k)
                            \/ \E e \in {"r", "w"} : fileclose(p, e)
        \/ \E p \in Killable : kill(p)

Spec == Init /\ [][Next]_vars

\* The scheduler runs every process, and a lock that is free again and again is
\* at last acquired.
FairSpec == Spec /\ \A p \in Procs : SF_vars(step(p))
-----------------------------------------------------------------------------
PCs == {"user", "racquire", "rtest", "rsleep", "rasleep", "rcopy",
        "wacquire", "wloop", "wsleep", "wasleep", "close r", "close w", "free"}

TypeOK == /\ data \in [0 .. PIPESIZE - 1 -> Bytes]
          /\ nread \in 0 .. UintMod - 1
          /\ nwrite \in 0 .. UintMod - 1
          /\ readopen \in {0, 1}
          /\ writeopen \in {0, 1}
          /\ freed \in {0, 1}
          /\ lock \in Procs \cup {0}
          /\ fds \in [Procs -> SUBSET {"r", "w"}]
          /\ pc \in [Procs -> PCs]
          /\ left \in [Procs -> Nat]
          /\ killed \in [Procs -> {0, 1}]
          /\ unwoken \in SUBSET Procs

\* Number and contents of the bytes in the ring.
Count == (nwrite - nread) % UintMod
Contents == [k \in 1 .. Count |-> data[(nread + (k - 1)) % PIPESIZE]]

\* The pipe is a bounded FIFO of bytes: nothing is lost, doubled or reordered
\* when the ring or the counters wrap, nor when writers or readers sleep in the
\* middle of a call.
ByteStream == INSTANCE ByteChannel
                  WITH Size <- PIPESIZE, queue <- Contents,
                       readable <- readopen, writable <- writeopen
ImplementsChannel == ByteStream!Channel

\* pipeclose() frees the pipe once, and only when no process is in a call on it
\* or about to close an end.
FreedUnused ==
    /\ freed <= 1
    /\ freed = 1 \/ (\E p \in Procs : pc[p] = "free")
           => /\ lock = 0 /\ readopen = 0 /\ writeopen = 0
              /\ \A p \in Procs : pc[p] \in {"user", "free"} /\ fds[p] = {}
              /\ freed + Cardinality({p \in Procs : pc[p] = "free"}) = 1

\* A reader sleeps on only while there is nothing to read and a writer may still
\* come, or the writer that wrote holds the lock and has not called wakeup() yet;
\* and the same for a writer.  pipewrite() has one exit without a wakeup(), taken by
\* a killed writer at a full ring: the readers asleep at that moment, and no others,
\* sleep on beside a ring with bytes, until the next writer or the last close of
\* the write end wakes them.
NoLostWakeup ==
    /\ \A p \in Procs : pc[p] = "rasleep"
          => \/ Empty /\ writeopen = 1
             \/ lock # 0 /\ pc[lock] = "wloop"
             \/ p \in unwoken /\ writeopen = 1
    /\ (\E p \in Procs : pc[p] = "wasleep")
          => \/ Full /\ readopen = 1
             \/ lock # 0 /\ pc[lock] = "rcopy"

\* A process is in a call on a pipe whose other end is closed.
Abandoned(p) == \/ pc[p] \in {"racquire", "rtest", "rasleep", "rcopy"} /\ writeopen = 0
                \/ pc[p] \in {"wacquire", "wloop", "wasleep"} /\ readopen = 0

\* Every call returns once the other end is closed: piperead() and pipewrite() do not
\* sleep for a process that can no longer come.
CallsReturn == \A p \in Procs : Abandoned(p) ~> pc[p] = "user"
=============================================================================
