-------------------------------- MODULE Proc --------------------------------
(***************************************************************************)
(* Processes of the xv6 kernel (proc.c), the part of trap.c that preempts  *)
(* and kills them, and sys_sleep() as the user of sleep() with a lock of   *)
(* its own.  Several CPUs run at once.                                     *)
(*                                                                         *)
(* ptable.lock is explicit because it is handed over: scheduler() acquires *)
(* it, the process it switches to releases it, and sched() goes back with  *)
(* the lock held.  A critical section that does not switch is one step,    *)
(* taken when the lock is free; what the code does outside the lock (the   *)
(* failure paths of allocproc() and fork(), the tests of killed) is a step *)
(* of its own.  A timer interrupt may come wherever interrupts are on.     *)
(***************************************************************************)
EXTENDS Integers, FiniteSets

\* The operators named after a mistake (an early release, a missing wakeup and
\* the like) are mutants of the definition below them.
CONSTANTS NPROC,     \* slots of ptable.proc[]
          NCPU,      \* CPUs, the first of which counts the ticks
          MaxPid,    \* bound on nextpid: fork() is not called beyond it
          KillPids,  \* arguments that processes pass to kill()
          MaxSleep   \* bound on the argument of sleep()

ASSUME ProcAssumption == /\ NPROC \in Nat \ {0}
                         /\ NCPU \in Nat \ {0}
                         /\ MaxPid \in Nat
                         /\ KillPids \subseteq Nat
                         /\ MaxSleep \in Nat

Slots == 1 .. NPROC
CPUs == 1 .. NCPU
initproc == 1
Ticks == NPROC + 1    \* the channel &ticks; the other channels are slots

VARIABLES
    state, pid, parent, killed, chan,  \* the fields of struct proc
    kstack,   \* 1 while the slot owns a kernel stack
    nextpid,
    lock,     \* the CPU that holds ptable.lock, or 0
    tlock,    \* the CPU that holds tickslock, or 0
    cproc,    \* cpu->proc, or 0 in scheduler()
    pos,      \* scheduler(): the next slot of the scan, 0 between two scans
    intr,     \* where a CPU is in the timer interrupt
    pc,       \* where each process is, or will go on when it is switched to
    back,     \* where a process that yields was interrupted
    np,       \* fork(): the slot of the child
    left      \* sys_sleep(): n - (ticks - ticks0)

table == <<state, pid, parent, killed, chan, kstack, nextpid>>
cpuvars == <<cproc, pos, intr>>
vars == <<table, lock, tlock, cpuvars, pc, back, np, left>>

\* Process p executes on CPU c, outside the timer interrupt.
Runs(c, p) == cproc[c] = p /\ state[p] = "RUNNING" /\ intr[c] = "no"
First(S) == CHOOSE s \in S : \A t \in S : s <= t

Init == /\ state = [s \in Slots |-> IF s = initproc THEN "RUNNABLE" ELSE "UNUSED"]
        /\ pid = [s \in Slots |-> IF s = initproc THEN 1 ELSE 0]
        /\ parent = [s \in Slots |-> 0]
        /\ killed = [s \in Slots |-> 0]
        /\ chan = [s \in Slots |-> 0]
        /\ kstack = [s \in Slots |-> IF s = initproc THEN 1 ELSE 0]
        /\ nextpid = 2
        /\ lock = 0
        /\ tlock = 0
        /\ cproc = [c \in CPUs |-> 0]
        /\ pos = [c \in CPUs |-> 0]
        /\ intr = [c \in CPUs |-> "no"]
        /\ pc = [s \in Slots |-> "forkret"]
        /\ back = [s \in Slots |-> "user"]
        /\ np = [s \in Slots |-> 0]
        /\ left = [s \in Slots |-> 0]
-----------------------------------------------------------------------------
(***************************************************************************)
(* The scheduler.                                                          *)
(***************************************************************************)
\* scheduler(): acquire ptable.lock and start a scan.
scheduler_acquire(c) ==
    /\ cproc[c] = 0 /\ pos[c] = 0 /\ intr[c] = "no"
    /\ lock = 0
    /\ lock' = c
    /\ pos' = [pos EXCEPT ![c] = 1]
    /\ UNCHANGED <<table, tlock, cproc, intr, pc, back, np, left>>

\* scheduler(): switch to the next RUNNABLE process, the lock still held, or
\* end the scan.
scheduler_pick(c) ==
    LET ready == {s \in Slots : s >= pos[c] /\ state[s] = "RUNNABLE"} IN
    /\ cproc[c] = 0 /\ pos[c] > 0
    /\ IF ready = {}
       THEN /\ lock' = 0
            /\ pos' = [pos EXCEPT ![c] = 0]
            /\ UNCHANGED <<state, cproc>>
       ELSE /\ cproc' = [cproc EXCEPT ![c] = First(ready)]
            /\ state' = [state EXCEPT ![First(ready)] = "RUNNING"]
            /\ UNCHANGED <<lock, pos>>
    /\ UNCHANGED <<pid, parent, killed, chan, kstack, nextpid, tlock, intr, pc,
                   back, np, left>>

\* sched(): back to scheduler() on this CPU, which goes on with the scan.  Its
\* panics ask for ptable.lock and no other lock.
sched(c) ==
    LET p == cproc[c] IN
    /\ p # 0 /\ lock = c /\ state[p] # "RUNNING"
    /\ cproc' = [cproc EXCEPT ![c] = 0]
    /\ pos' = [pos EXCEPT ![c] = p + 1]
    /\ UNCHANGED <<table, lock, tlock, intr, pc, back, np, left>>

\* forkret(), and the end of yield(): release ptable.lock.
resume(c, p) ==
    /\ Runs(c, p) /\ lock = c
    /\ pc[p] \in {"forkret", "yielded"}
    /\ lock' = 0
    /\ pc' = [pc EXCEPT ![p] = IF @ = "forkret" THEN "user" ELSE back[p]]
    /\ back' = [back EXCEPT ![p] = "user"]
    /\ UNCHANGED <<table, tlock, cpuvars, np, left>>

yield_unlocked(c, p) ==
    /\ Runs(c, p) /\ pc[p] = "yield"
    /\ lock = 0
    /\ state' = [state EXCEPT ![p] = "RUNNABLE"]
    /\ pc' = [pc EXCEPT ![p] = "yielded"]
    /\ UNCHANGED <<pid, parent, killed, chan, kstack, nextpid, lock, tlock, cpuvars,
                   back, np, left>>

yield(c, p) ==
    /\ Runs(c, p) /\ pc[p] = "yield"
    /\ lock = 0
    /\ lock' = c
    /\ state' = [state EXCEPT ![p] = "RUNNABLE"]
    /\ pc' = [pc EXCEPT ![p] = "yielded"]
    /\ UNCHANGED <<pid, parent, killed, chan, kstack, nextpid, tlock, cpuvars, back,
                   np, left>>
-----------------------------------------------------------------------------
(***************************************************************************)
(* The timer interrupt.                                                    *)
(***************************************************************************)
\* Interrupts are off while the CPU holds a spinlock and inside the handler.
Interruptible(c) == /\ intr[c] = "no" /\ lock # c /\ tlock # c
                    /\ cproc[c] # 0 => pc[cproc[c]] \notin {"yield", "panic"}

\* trap(): the handler ends in yield() if it interrupted a process.
preempt(c) ==
    LET p == cproc[c] IN
    IF p = 0 THEN UNCHANGED <<pc, back>>
    ELSE /\ pc' = [pc EXCEPT ![p] = "yield"]
         /\ back' = [back EXCEPT ![p] = pc[p]]

timer(c) ==
    /\ Interruptible(c)
    /\ IF c = 1 THEN intr' = [intr EXCEPT ![c] = "tick"] /\ UNCHANGED <<pc, back>>
                ELSE cproc[c] # 0 /\ preempt(c) /\ UNCHANGED intr
    /\ UNCHANGED <<table, lock, tlock, cproc, pos, np, left>>

\* CPU 0 of the code: acquire(&tickslock) and ticks++.
tick(c) ==
    /\ intr[c] = "tick" /\ tlock = 0
    /\ tlock' = c
    /\ left' = [s \in Slots |-> IF left[s] > 0 THEN left[s] - 1 ELSE 0]
    /\ intr' = [intr EXCEPT ![c] = "wakeup"]
    /\ UNCHANGED <<table, lock, cproc, pos, pc, back, np>>

wakeup1_nobody(C) == state

\* wakeup1() for the channels in C.
wakeup1(C) == [s \in Slots |-> IF state[s] = "SLEEPING" /\ chan[s] \in C
                               THEN "RUNNABLE" ELSE state[s]]

\* wakeup(&ticks), release(&tickslock) and the rest of trap().
tick_wakeup(c) ==
    /\ intr[c] = "wakeup" /\ lock = 0
    /\ state' = wakeup1({Ticks})
    /\ tlock' = 0
    /\ intr' = [intr EXCEPT ![c] = "no"]
    /\ preempt(c)
    /\ UNCHANGED <<pid, parent, killed, chan, kstack, nextpid, lock, cproc, pos, np,
                   left>>
-----------------------------------------------------------------------------
(***************************************************************************)
(* System calls.                                                           *)
(***************************************************************************)
Goto(p, l) == pc' = [pc EXCEPT ![p] = l]

\* trap(): a killed process in user space exits instead.
syscall(c, p) ==
    /\ Runs(c, p) /\ pc[p] = "user" /\ killed[p] = 0
    /\ \/ nextpid <= MaxPid /\ Goto(p, "fork")
       \/ Goto(p, "wait")
       \/ p # initproc /\ Goto(p, "exit")
       \/ KillPids # {} /\ Goto(p, "kill")
       \/ MaxSleep > 0 /\ Goto(p, "sleep")
    /\ UNCHANGED <<table, lock, tlock, cpuvars, back, np, left>>

trap_killed(c, p) ==
    /\ Runs(c, p) /\ pc[p] = "user" /\ killed[p] = 1
    /\ Goto(p, "exit")
    /\ UNCHANGED <<table, lock, tlock, cpuvars, back, np, left>>

\* allocproc() under ptable.lock, called by fork().
allocproc(c, p) ==
    LET free == {s \in Slots : state[s] = "UNUSED"} IN
    /\ Runs(c, p) /\ pc[p] = "fork" /\ lock = 0
    /\ IF free = {}
       THEN Goto(p, "user") /\ UNCHANGED <<state, pid, nextpid, np>>
       ELSE /\ state' = [state EXCEPT ![First(free)] = "EMBRYO"]
            /\ pid' = [pid EXCEPT ![First(free)] = nextpid]
            /\ nextpid' = nextpid + 1
            /\ np' = [np EXCEPT ![p] = First(free)]
            /\ Goto(p, "kstack")
    /\ UNCHANGED <<parent, killed, chan, kstack, lock, tlock, cpuvars, back, left>>

\* allocproc(): the kernel stack.  A failure gives the slot back unlocked.
allocproc_kstack(c, p) ==
    /\ Runs(c, p) /\ pc[p] = "kstack"
    /\ \/ /\ kstack' = [kstack EXCEPT ![np[p]] = 1]
          /\ Goto(p, "copyuvm")
          /\ UNCHANGED <<state, np>>
       \/ /\ state' = [state EXCEPT ![np[p]] = "UNUSED"]
          /\ np' = [np EXCEPT ![p] = 0]
          /\ Goto(p, "user")
          /\ UNCHANGED kstack
    /\ UNCHANGED <<pid, parent, killed, chan, nextpid, lock, tlock, cpuvars, back, left>>

fork_copyuvm_leaks(c, p) ==
    /\ Runs(c, p) /\ pc[p] = "copyuvm"
    /\ state' = [state EXCEPT ![np[p]] = "UNUSED"]
    /\ np' = [np EXCEPT ![p] = 0]
    /\ Goto(p, "user")
    /\ UNCHANGED <<kstack, parent, pid, killed, chan, nextpid, lock, tlock, cpuvars, back,
                   left>>

\* fork(): copyuvm(), the same on failure, and the rest of the child's fields.
fork_copyuvm(c, p) ==
    /\ Runs(c, p) /\ pc[p] = "copyuvm"
    /\ \/ /\ parent' = [parent EXCEPT ![np[p]] = p]
          /\ Goto(p, "runnable")
          /\ UNCHANGED <<state, kstack, np>>
       \/ /\ kstack' = [kstack EXCEPT ![np[p]] = 0]
          /\ state' = [state EXCEPT ![np[p]] = "UNUSED"]
          /\ np' = [np EXCEPT ![p] = 0]
          /\ Goto(p, "user")
          /\ UNCHANGED parent
    /\ UNCHANGED <<pid, killed, chan, nextpid, lock, tlock, cpuvars, back, left>>

fork_runnable(c, p) ==
    /\ Runs(c, p) /\ pc[p] = "runnable" /\ lock = 0
    /\ state' = [state EXCEPT ![np[p]] = "RUNNABLE"]
    /\ pc' = [pc EXCEPT ![p] = "user", ![np[p]] = "forkret"]
    /\ np' = [np EXCEPT ![p] = 0]
    /\ UNCHANGED <<pid, parent, killed, chan, kstack, nextpid, lock, tlock, cpuvars,
                   back, left>>

\* The critical section of exit(): wake the channels in C, give the children
\* to heir, become a zombie and leave ptable.lock to l.
exit_locked(p, C, heir, l) ==
    /\ lock = 0
    /\ state' = [wakeup1(C) EXCEPT ![p] = "ZOMBIE"]
    /\ parent' = [q \in Slots |-> IF parent[q] = p THEN heir ELSE parent[q]]
    /\ lock' = l
    /\ Goto(p, "zombie")
    /\ UNCHANGED <<pid, killed, chan, kstack, nextpid, tlock, cpuvars, back, np, left>>

exit_keeps_children(c, p) ==
    Runs(c, p) /\ pc[p] = "exit" /\ exit_locked(p, {parent[p], initproc}, p, c)

\* exit(): wake the parent, and init if it inherits a zombie, and go to sched()
\* with ptable.lock held.
exit(c, p) ==
    LET zombies == {q \in Slots : parent[q] = p /\ state[q] = "ZOMBIE"} IN
    /\ Runs(c, p) /\ pc[p] = "exit"
    /\ IF p = initproc
       THEN Goto(p, "panic") /\ UNCHANGED <<table, lock, tlock, cpuvars, back, np, left>>
       ELSE exit_locked(p, {parent[p]} \cup (IF zombies = {} THEN {} ELSE {initproc}),
                        initproc, c)

\* wait(): one round of its loop, entered with ptable.lock just acquired or
\* held since the switch back from sleep().
wait(c, p) ==
    LET kids == {q \in Slots : parent[q] = p}
        dead == {q \in kids : state[q] = "ZOMBIE"}
        q == First(dead) IN
    /\ Runs(c, p)
    /\ \/ pc[p] = "wait" /\ lock = 0
       \/ pc[p] = "waiting" /\ lock = c
    /\ IF dead # {}
       THEN /\ kstack' = [kstack EXCEPT ![q] = 0]
            /\ pid' = [pid EXCEPT ![q] = 0]
            /\ parent' = [parent EXCEPT ![q] = 0]
            /\ killed' = [killed EXCEPT ![q] = 0]
            /\ state' = [state EXCEPT ![q] = "UNUSED"]
            /\ chan' = [chan EXCEPT ![p] = 0]
            /\ lock' = 0
            /\ Goto(p, "user")
       ELSE IF kids = {} \/ killed[p] = 1
       THEN /\ chan' = [chan EXCEPT ![p] = 0]
            /\ lock' = 0
            /\ Goto(p, "user")
            /\ UNCHANGED <<kstack, pid, parent, killed, state>>
       ELSE /\ chan' = [chan EXCEPT ![p] = p]
            /\ state' = [state EXCEPT ![p] = "SLEEPING"]
            /\ lock' = c
            /\ Goto(p, "waiting")
            /\ UNCHANGED <<kstack, pid, parent, killed>>
    /\ UNCHANGED <<nextpid, tlock, cpuvars, back, np, left>>

kill_no_wakeup(c, p, k) ==
    /\ Runs(c, p) /\ pc[p] = "kill" /\ lock = 0
    /\ killed' = [s \in Slots |-> IF pid[s] = k THEN 1 ELSE killed[s]]
    /\ Goto(p, "user")
    /\ UNCHANGED <<state, pid, parent, chan, kstack, nextpid, lock, tlock, cpuvars, back,
                   np, left>>

\* kill(k): the first slot with that pid, whatever its state.
kill(c, p, k) ==
    LET found == {s \in Slots : pid[s] = k} IN
    /\ Runs(c, p) /\ pc[p] = "kill" /\ lock = 0
    /\ IF found = {}
       THEN UNCHANGED <<killed, state>>
       ELSE LET s == First(found) IN
            /\ killed' = [killed EXCEPT ![s] = 1]
            /\ state' = [state EXCEPT ![s] = IF @ = "SLEEPING" THEN "RUNNABLE" ELSE @]
    /\ Goto(p, "user")
    /\ UNCHANGED <<pid, parent, chan, kstack, nextpid, lock, tlock, cpuvars, back, np,
                   left>>

\* sys_sleep(n): acquire(&tickslock), and ticks0 = ticks.
sys_sleep(c, p, n) ==
    /\ Runs(c, p) /\ pc[p] = "sleep" /\ tlock = 0
    /\ tlock' = c
    /\ left' = [left EXCEPT ![p] = n]
    /\ Goto(p, "ticking")
    /\ UNCHANGED <<table, lock, cpuvars, back, np>>

sys_sleep_test_unlocks(c, p) ==
    /\ Runs(c, p) /\ pc[p] = "ticking" /\ tlock = c
    /\ tlock' = 0
    /\ Goto(p, IF left[p] = 0 \/ killed[p] = 1 THEN "user" ELSE "block")
    /\ UNCHANGED <<table, lock, cpuvars, back, np, left>>

\* sys_sleep(): the test of its loop, with tickslock held.
sys_sleep_test(c, p) ==
    /\ Runs(c, p) /\ pc[p] = "ticking" /\ tlock = c
    /\ IF left[p] = 0 \/ killed[p] = 1
       THEN /\ tlock' = 0
            /\ left' = [left EXCEPT ![p] = 0]
            /\ Goto(p, "user")
       ELSE Goto(p, "block") /\ UNCHANGED <<tlock, left>>
    /\ UNCHANGED <<table, lock, cpuvars, back, np>>

\* sleep(chan, lk) with another lock: acquire ptable.lock, release lk.
sleep(c, p) ==
    /\ Runs(c, p) /\ pc[p] = "block" /\ lock = 0
    /\ lock' = c
    /\ tlock' = 0
    /\ chan' = [chan EXCEPT ![p] = Ticks]
    /\ state' = [state EXCEPT ![p] = "SLEEPING"]
    /\ Goto(p, "slept")
    /\ UNCHANGED <<pid, parent, killed, kstack, nextpid, cpuvars, back, np, left>>

\* sleep(): after the switch back, release ptable.lock ...
sleep_wake(c, p) ==
    /\ Runs(c, p) /\ pc[p] = "slept" /\ lock = c
    /\ chan' = [chan EXCEPT ![p] = 0]
    /\ lock' = 0
    /\ Goto(p, "relock")
    /\ UNCHANGED <<state, pid, parent, killed, kstack, nextpid, tlock, cpuvars, back,
                   np, left>>

\* ... and reacquire lk.
sleep_relock(c, p) ==
    /\ Runs(c, p) /\ pc[p] = "relock" /\ tlock = 0
    /\ tlock' = c
    /\ Goto(p, "ticking")
    /\ UNCHANGED <<table, lock, cpuvars, back, np, left>>

kernel(c, p) == \/ allocproc(c, p) \/ allocproc_kstack(c, p) \/ fork_copyuvm(c, p)
                \/ fork_runnable(c, p) \/ exit(c, p) \/ wait(c, p)
                \/ \E k \in KillPids : kill(c, p, k)
                \/ \E n \in 0 .. MaxSleep : sys_sleep(c, p, n)
                \/ sys_sleep_test(c, p) \/ sleep(c, p) \/ sleep_wake(c, p)
                \/ sleep_relock(c, p) \/ trap_killed(c, p)

\* What a CPU does between two stretches of a process's own execution.
switching(c) == \/ scheduler_pick(c) \/ sched(c) \/ tick(c) \/ tick_wakeup(c)
                \/ \E p \in Slots : resume(c, p) \/ yield(c, p)

Next == \E c \in CPUs : \/ scheduler_acquire(c) \/ switching(c) \/ timer(c)
                        \/ \E p \in Slots : syscall(c, p) \/ kernel(c, p)

Spec == Init /\ [][Next]_vars

\* init calls wait() again and again (init.c).
init_waits(c) == syscall(c, initproc) /\ pc'[initproc] = "wait"

\* A CPU goes on executing; a spinlock that is free again and again is at last
\* acquired by each CPU that spins on it; the timer keeps interrupting, but not
\* so often that a process never gets a step done; and init keeps waiting.
\* Nothing else is assumed of user programs.
Fairness ==
    /\ \A c \in CPUs : /\ SF_vars(scheduler_acquire(c))
                        /\ SF_vars(switching(c))
                        /\ SF_vars(timer(c))
    /\ \A p \in Slots : SF_vars(\E c \in CPUs : kernel(c, p))
    /\ SF_vars(\E c \in CPUs : init_waits(c))

FairSpec == Spec /\ Fairness
-----------------------------------------------------------------------------
States == {"UNUSED", "EMBRYO", "SLEEPING", "RUNNABLE", "RUNNING", "ZOMBIE"}
PCs == {"forkret", "user", "yield", "yielded", "fork", "kstack", "copyuvm", "runnable",
        "exit", "zombie", "panic", "wait", "waiting", "kill", "sleep", "ticking",
        "block", "slept", "relock"}

TypeOK == /\ state \in [Slots -> States]
          /\ pid \in [Slots -> Nat]
          /\ parent \in [Slots -> Slots \cup {0}]
          /\ killed \in [Slots -> {0, 1}]
          /\ chan \in [Slots -> Slots \cup {0, Ticks}]
          /\ kstack \in [Slots -> {0, 1}]
          /\ nextpid \in Nat
          /\ lock \in CPUs \cup {0}
          /\ tlock \in CPUs \cup {0}
          /\ cproc \in [CPUs -> Slots \cup {0}]
          /\ pos \in [CPUs -> 0 .. NPROC + 1]
          /\ intr \in [CPUs -> {"no", "tick", "wakeup"}]
          /\ pc \in [Slots -> PCs]
          /\ back \in [Slots -> PCs]
          /\ np \in [Slots -> Slots \cup {0}]
          /\ left \in [Slots -> 0 .. MaxSleep]

\* A process runs on one CPU at a time, and a CPU whose process is no longer
\* RUNNING holds ptable.lock until it has switched away: no other CPU can pick
\* up a process whose context is not saved yet.
OnOneCpu ==
    /\ \A c, d \in CPUs : cproc[c] # 0 /\ cproc[c] = cproc[d] => c = d
    /\ \A c \in CPUs : cproc[c] # 0 /\ state[cproc[c]] # "RUNNING" => lock = c
    /\ \A p \in Slots : state[p] = "RUNNING" => \E c \in CPUs : cproc[c] = p

\* wait() frees the stack of a zombie only when no CPU runs on it any more, and
\* a slot goes back to UNUSED without a stack.
StackOwned ==
    /\ \A c \in CPUs : cproc[c] # 0 => kstack[cproc[c]] = 1
    /\ \A p \in Slots : state[p] = "UNUSED" => kstack[p] = 0

\* Every process but init has a parent that can still wait() for it: exit()
\* passes its children on before it becomes a zombie.
ParentAlive ==
    \A q \in Slots \ {initproc} :
        state[q] \notin {"UNUSED", "EMBRYO"} =>
            /\ parent[q] \in Slots
            /\ state[parent[q]] \in {"SLEEPING", "RUNNABLE", "RUNNING"}

\* No exit is missed: a process that sleeps in wait() has no zombie child.
NoMissedExit ==
    \A p, q \in Slots : state[p] = "SLEEPING" /\ chan[p] = p /\ parent[q] = p
                            => state[q] # "ZOMBIE"

\* exit() and wait() meet: whoever exits has a parent that can wait() for it, and
\* that parent does not sleep over it.
ChildrenReaped == ParentAlive /\ NoMissedExit

\* No tick is missed: a process that sleeps on &ticks with its time over is
\* about to be woken by the timer interrupt that ended it.
NoMissedTick ==
    \A p \in Slots : state[p] = "SLEEPING" /\ chan[p] = Ticks /\ left[p] = 0
                         => \E c \in CPUs : intr[c] = "wakeup"

\* sched() is entered with no spinlock but ptable.lock ("sched locks").
SchedOneLock ==
    \A c \in CPUs : cproc[c] # 0 /\ state[cproc[c]] # "RUNNING" => tlock # c

\* sleep() changes locks in the right order: it has ptable.lock before it lets go of
\* the caller's lock, so that no wakeup falls between the two, and it has let go of
\* that lock before sched().
SleepHandsOver == NoMissedTick /\ SchedOneLock

\* Processes that exist have different pids.
UniquePids ==
    \A p, q \in Slots : p # q /\ state[p] # "UNUSED" /\ state[q] # "UNUSED"
                            => pid[p] # pid[q]

\* allocproc() never gives out a slot that is marked as killed: a kill() is
\* for the process that has the pid when it is called.
NewbornNotKilled ==
    [][\A s \in Slots : state[s] = "UNUSED" /\ state'[s] = "EMBRYO"
                            => killed[s] = 0]_vars

\* A zombie whose parent is init is reaped.
ZombiesReaped ==
    \A q \in Slots : state[q] = "ZOMBIE" /\ parent[q] = initproc ~> state[q] = "UNUSED"

\* A killed process exits, wherever kill() finds it: in user space, in the
\* kernel, asleep in wait() or sleep(), or not yet started.
KilledExit ==
    \A p \in Slots : killed[p] = 1 /\ state[p] \notin {"UNUSED", "EMBRYO"}
                         ~> state[p] \in {"ZOMBIE", "UNUSED"}
=============================================================================
