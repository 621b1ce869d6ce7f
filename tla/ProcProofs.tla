----------------------------- MODULE ProcProofs -----------------------------
(***************************************************************************)
(* Proofs about Proc.tla, for any number of slots and CPUs.                *)
(***************************************************************************)
EXTENDS Proc, WellFoundedInduction, TLAPS

\* Where a process goes on with ptable.lock held when it is switched to.
Switch == {"forkret", "yielded", "waiting", "slept", "zombie"}
Alive == {"SLEEPING", "RUNNABLE", "RUNNING"}
Forking == {"kstack", "copyuvm", "runnable"}
\* Where p is, seen through the timer interrupt.
At(p) == IF pc[p] \in {"yield", "yielded"} THEN back[p] ELSE pc[p]

(***************************************************************************)
(* The inductive invariant.  LockInv says who holds ptable.lock: a CPU     *)
(* that scans the table, or whose process is at a switch.                  *)
(***************************************************************************)
LockInv ==
    /\ \A c, d \in CPUs : cproc[c] # 0 /\ cproc[c] = cproc[d] => c = d
    /\ \A c \in CPUs : cproc[c] # 0 => /\ state[cproc[c]] \notin {"UNUSED", "EMBRYO"}
                                       /\ pc[cproc[c]] \in Switch <=> lock = c
    /\ \A c \in CPUs : cproc[c] = 0 => (pos[c] > 0 <=> lock = c)
    /\ \A p \in Slots : state[p] = "RUNNING" => \E c \in CPUs : cproc[c] = p
    /\ \A p \in Slots : state[p] # "RUNNING" => pc[p] \in Switch
    /\ \A p \in Slots : state[p] \notin {"RUNNING", "RUNNABLE"} => pc[p] # "yielded"

TickLockInv ==
    /\ \A c \in CPUs : intr[c] # "no" =>
          /\ lock # c
          /\ cproc[c] # 0 => pc[cproc[c]] \notin {"yield", "panic", "ticking", "block"}
    /\ \A c \in CPUs : intr[c] = "wakeup" => tlock = c
    /\ \A c \in CPUs : cproc[c] # 0 /\ pc[cproc[c]] \in {"ticking", "block"} => tlock = c
    /\ \A c \in CPUs : tlock = c =>
          \/ intr[c] = "wakeup"
          \/ cproc[c] # 0 /\ pc[cproc[c]] \in {"ticking", "block"}
    /\ \A p \in Slots : pc[p] \in {"yield", "yielded"} =>
          back[p] \notin Switch \cup {"yield", "panic", "ticking", "block"}

ForkInv ==
    /\ \A p \in Slots : At(p) \in Forking =>
          /\ np[p] \in Slots
          /\ state[np[p]] = "EMBRYO"
          /\ kstack[np[p]] = (IF At(p) = "kstack" THEN 0 ELSE 1)
          /\ At(p) = "runnable" => parent[np[p]] = p
    /\ \A p, q \in Slots : At(p) \in Forking /\ At(q) \in Forking /\ np[p] = np[q]
                              => p = q

StackInv == \A p \in Slots : /\ state[p] = "UNUSED" => kstack[p] = 0
                             /\ state[p] \notin {"UNUSED", "EMBRYO"} => kstack[p] = 1

FamilyInv == /\ ParentAlive
             /\ state[initproc] \in Alive
             /\ \A q \in Slots \ {initproc} : parent[q] # q

PidInv == /\ \A p \in Slots : pid[p] < nextpid
          /\ \A p \in Slots : state[p] # "UNUSED" => pid[p] > 0
          /\ \A p, q \in Slots : p # q /\ state[p] # "UNUSED" => pid[p] # pid[q]

TickInv == /\ NoMissedTick
           /\ \A p \in Slots : pc[p] = "block" => left[p] > 0

ProcInv == /\ TypeOK /\ LockInv /\ TickLockInv /\ ForkInv /\ StackInv /\ FamilyInv
           /\ NoMissedExit /\ PidInv /\ TickInv
-----------------------------------------------------------------------------
\* The scans of the process table find the first slot with a property.
LEMMA FirstSlot ==
    ASSUME NEW S \in SUBSET Slots, S # {}
    PROVE  First(S) \in S /\ First(S) \in Slots
<1>1. IsWellFoundedOn(OpToRel(<, Nat), Nat)
  BY NatLessThanWellFounded, Zenon
<1>2. S \subseteq Nat
  BY ProcAssumption DEF Slots
<1>3. \E x \in S : \A y \in S : ~(<<y, x>> \in OpToRel(<, Nat))
  BY <1>1, <1>2, WFMin, Zenon
<1>4. \A x, y \in S : ~(<<y, x>> \in OpToRel(<, Nat)) => x <= y
  BY <1>2 DEF OpToRel
<1>5. \E x \in S : \A y \in S : x <= y
  BY <1>3, <1>4, Zenon
<1>6. QED
  BY Zenon, <1>5 DEF First
-----------------------------------------------------------------------------
(***************************************************************************)
(* The alternatives of the actions that scan the table, with the slot they *)
(* find as a parameter.                                                    *)
(***************************************************************************)
scan_ends(c) ==
    /\ cproc[c] = 0 /\ pos[c] > 0
    /\ lock' = 0
    /\ pos' = [pos EXCEPT ![c] = 0]
    /\ UNCHANGED <<table, tlock, cproc, intr, pc, back, np, left>>

pick(c, s) ==
    /\ cproc[c] = 0 /\ pos[c] > 0
    /\ state[s] = "RUNNABLE"
    /\ cproc' = [cproc EXCEPT ![c] = s]
    /\ state' = [state EXCEPT ![s] = "RUNNING"]
    /\ UNCHANGED <<pid, parent, killed, chan, kstack, nextpid, lock, tlock, pos, intr,
                   pc, back, np, left>>

\* allocproc() finds no slot, or kill() no process, or init exits.
back_to(c, p, l) ==
    /\ Runs(c, p) /\ pc[p] \in {"fork", "kill", "exit"}
    /\ l \in {"user", "panic"}
    /\ Goto(p, l)
    /\ UNCHANGED <<table, lock, tlock, cpuvars, back, np, left>>

alloc(c, p, s) ==
    /\ Runs(c, p) /\ pc[p] = "fork" /\ lock = 0
    /\ state[s] = "UNUSED"
    /\ state' = [state EXCEPT ![s] = "EMBRYO"]
    /\ pid' = [pid EXCEPT ![s] = nextpid]
    /\ nextpid' = nextpid + 1
    /\ np' = [np EXCEPT ![p] = s]
    /\ Goto(p, "kstack")
    /\ UNCHANGED <<parent, killed, chan, kstack, lock, tlock, cpuvars, back, left>>

exit_waking(c, p, C) ==
    /\ Runs(c, p) /\ pc[p] = "exit" /\ p # initproc
    /\ parent[p] \in C
    /\ (\E q \in Slots : parent[q] = p /\ state[q] = "ZOMBIE") => initproc \in C
    /\ exit_locked(p, C, initproc, c)

\* wait() is at its scan with ptable.lock held or about to be.
Waits(c, p) == /\ Runs(c, p)
               /\ \/ pc[p] = "wait" /\ lock = 0
                  \/ pc[p] = "waiting" /\ lock = c

reap(c, p, q) ==
    /\ Waits(c, p)
    /\ parent[q] = p /\ state[q] = "ZOMBIE"
    /\ kstack' = [kstack EXCEPT ![q] = 0]
    /\ pid' = [pid EXCEPT ![q] = 0]
    /\ parent' = [parent EXCEPT ![q] = 0]
    /\ killed' = [killed EXCEPT ![q] = 0]
    /\ state' = [state EXCEPT ![q] = "UNUSED"]
    /\ chan' = [chan EXCEPT ![p] = 0]
    /\ lock' = 0
    /\ Goto(p, "user")
    /\ UNCHANGED <<nextpid, tlock, cpuvars, back, np, left>>

wait_fails(c, p) ==
    /\ Waits(c, p)
    /\ chan' = [chan EXCEPT ![p] = 0]
    /\ lock' = 0
    /\ Goto(p, "user")
    /\ UNCHANGED <<kstack, pid, parent, killed, state, nextpid, tlock, cpuvars, back, np,
                   left>>

wait_sleeps(c, p) ==
    /\ Waits(c, p)
    /\ \A q \in Slots : parent[q] = p => state[q] # "ZOMBIE"
    /\ chan' = [chan EXCEPT ![p] = p]
    /\ state' = [state EXCEPT ![p] = "SLEEPING"]
    /\ lock' = c
    /\ Goto(p, "waiting")
    /\ UNCHANGED <<kstack, pid, parent, killed, nextpid, tlock, cpuvars, back, np, left>>

kill_at(c, p, s) ==
    /\ Runs(c, p) /\ pc[p] = "kill" /\ lock = 0
    /\ killed' = [killed EXCEPT ![s] = 1]
    /\ state' = [state EXCEPT ![s] = IF @ = "SLEEPING" THEN "RUNNABLE" ELSE @]
    /\ Goto(p, "user")
    /\ UNCHANGED <<pid, parent, chan, kstack, nextpid, lock, tlock, cpuvars, back, np,
                   left>>

Cases ==
    \/ \E c \in CPUs : \/ scheduler_acquire(c) \/ scan_ends(c) \/ sched(c)
                       \/ timer(c) \/ tick(c) \/ tick_wakeup(c)
    \/ \E c \in CPUs, p \in Slots :
          \/ pick(c, p) \/ resume(c, p) \/ yield(c, p) \/ syscall(c, p)
          \/ trap_killed(c, p) \/ back_to(c, p, "user") \/ back_to(c, p, "panic")
          \/ allocproc_kstack(c, p) \/ fork_copyuvm(c, p) \/ fork_runnable(c, p)
          \/ wait_fails(c, p) \/ wait_sleeps(c, p)
          \/ sys_sleep_test(c, p) \/ sleep(c, p) \/ sleep_wake(c, p) \/ sleep_relock(c, p)
    \/ \E c \in CPUs, p, s \in Slots : alloc(c, p, s) \/ reap(c, p, s) \/ kill_at(c, p, s)
    \/ \E c \in CPUs, p \in Slots, C \in SUBSET (Slots \cup {0}) : exit_waking(c, p, C)
    \/ \E c \in CPUs, p \in Slots, n \in 0 .. MaxSleep : sys_sleep(c, p, n)

LEMMA PickCases ==
    ASSUME NEW c \in CPUs, scheduler_pick(c)
    PROVE  scan_ends(c) \/ \E s \in Slots : pick(c, s)
<1> DEFINE ready == {s \in Slots : s >= pos[c] /\ state[s] = "RUNNABLE"}
<1>1. CASE ready = {}
  BY Zenon, <1>1 DEF scheduler_pick, scan_ends, table
<1>2. CASE ready # {}
  <2>1. First(ready) \in ready /\ First(ready) \in Slots
    BY Zenon, <1>2, FirstSlot
  <2>2. pick(c, First(ready))
    BY Zenon, <1>2, <2>1 DEF scheduler_pick, pick
  <2>3. QED
    BY Zenon, <2>1, <2>2
<1>3. QED
  BY Zenon, <1>1, <1>2

LEMMA AllocCases ==
    ASSUME NEW c \in CPUs, NEW p \in Slots, allocproc(c, p)
    PROVE  back_to(c, p, "user") \/ \E s \in Slots : alloc(c, p, s)
<1> DEFINE free == {s \in Slots : state[s] = "UNUSED"}
<1>1. CASE free = {}
  BY Zenon, <1>1 DEF allocproc, back_to, table
<1>2. CASE free # {}
  <2>1. First(free) \in free /\ First(free) \in Slots
    BY Zenon, <1>2, FirstSlot
  <2>2. alloc(c, p, First(free))
    BY Zenon, <1>2, <2>1 DEF allocproc, alloc
  <2>3. QED
    BY Zenon, <2>1, <2>2
<1>3. QED
  BY Zenon, <1>1, <1>2

LEMMA KillCases ==
    ASSUME NEW c \in CPUs, NEW p \in Slots, NEW k \in KillPids, kill(c, p, k)
    PROVE  back_to(c, p, "user") \/ \E s \in Slots : kill_at(c, p, s)
<1> DEFINE found == {s \in Slots : pid[s] = k}
<1>1. CASE found = {}
  BY Zenon, <1>1 DEF kill, back_to, table
<1>2. CASE found # {}
  <2>1. First(found) \in Slots
    BY Zenon, <1>2, FirstSlot
  <2>2. kill_at(c, p, First(found))
    BY Zenon, <1>2 DEF kill, kill_at
  <2>3. QED
    BY Zenon, <2>1, <2>2
<1>3. QED
  BY Zenon, <1>1, <1>2

LEMMA WaitCases ==
    ASSUME NEW c \in CPUs, NEW p \in Slots, wait(c, p)
    PROVE  \/ \E q \in Slots : reap(c, p, q)
           \/ wait_fails(c, p)
           \/ wait_sleeps(c, p)
<1> DEFINE kids == {q \in Slots : parent[q] = p}
           dead == {q \in kids : state[q] = "ZOMBIE"}
<1>1. CASE dead # {}
  <2>1. First(dead) \in dead /\ First(dead) \in Slots
    BY Zenon, <1>1, FirstSlot
  <2>2. reap(c, p, First(dead))
    BY Zenon, <1>1, <2>1 DEF wait, reap, Waits
  <2>3. QED
    BY Zenon, <2>1, <2>2
<1>2. CASE dead = {} /\ (kids = {} \/ killed[p] = 1)
  BY Zenon, <1>2 DEF wait, wait_fails, Waits
<1>3. CASE dead = {} /\ ~(kids = {} \/ killed[p] = 1)
  BY Zenon, <1>3 DEF wait, wait_sleeps, Waits
<1>4. QED
  BY Zenon, <1>1, <1>2, <1>3

LEMMA ExitCases ==
    ASSUME TypeOK, NEW c \in CPUs, NEW p \in Slots, exit(c, p)
    PROVE  \/ back_to(c, p, "panic")
           \/ \E C \in SUBSET (Slots \cup {0}) : exit_waking(c, p, C)
<1> DEFINE zombies == {q \in Slots : parent[q] = p /\ state[q] = "ZOMBIE"}
           C == {parent[p]} \cup (IF zombies = {} THEN {} ELSE {initproc})
<1>1. CASE p = initproc
  BY Zenon, <1>1 DEF exit, back_to
<1>2. CASE p # initproc
  <2>1. C \in SUBSET (Slots \cup {0})
    BY ProcAssumption, SMTT(90) DEF TypeOK, Slots, initproc
  <2>2. exit_waking(c, p, C)
    BY Zenon, <1>2 DEF exit, exit_waking
  <2>3. QED
    BY Zenon, <2>1, <2>2
<1>3. QED
  BY Zenon, <1>1, <1>2

LEMMA NextCases ==
    ASSUME TypeOK, Next
    PROVE  Cases
BY ZenonT(40), PickCases, AllocCases, KillCases, WaitCases, ExitCases
   DEF Next, switching, kernel, Cases

\* NPROC is positive: init has a slot, and &ticks is not the address of a slot.
LEMMA InitSlot == initproc \in Slots /\ Ticks \notin Slots /\ Ticks # 0
BY ProcAssumption DEF initproc, Slots, Ticks

LEMMA TypeStep ==
    ASSUME TypeOK, [Next]_vars
    PROVE  TypeOK'
<1> USE DEF table, cpuvars, Runs, Goto
<1>1. CASE UNCHANGED vars
  BY Zenon, <1>1 DEF vars, TypeOK, PCs, States
<1>2. ASSUME NEW c \in CPUs, scheduler_acquire(c)
     PROVE  TypeOK'
  <2>1. pos' \in [CPUs -> 0 .. NPROC + 1]
    BY <1>2, ProcAssumption DEF scheduler_acquire, TypeOK, PCs, States, Slots, CPUs,
       Ticks, initproc
  <2>2. QED
    BY Zenon, <1>2, <2>1 DEF scheduler_acquire, TypeOK, PCs, States
<1>3. ASSUME NEW c \in CPUs, scan_ends(c)
     PROVE  TypeOK'
  <2>1. pos' \in [CPUs -> 0 .. NPROC + 1]
    BY <1>3, ProcAssumption DEF scan_ends, TypeOK, PCs, States, Slots, CPUs, Ticks, initproc
  <2>2. QED
    BY Zenon, <1>3, <2>1 DEF scan_ends, TypeOK, PCs, States
<1>4. ASSUME NEW c \in CPUs, sched(c)
     PROVE  TypeOK'
  <2>1. cproc[c] \in Slots /\ cproc[c] + 1 \in 0 .. NPROC + 1
    BY <1>4, ProcAssumption, SMTT(120) DEF sched, TypeOK, Slots
  <2>2. QED
    BY Zenon, <1>4, <2>1 DEF sched, TypeOK, PCs, States
<1>5. ASSUME NEW c \in CPUs, timer(c)
     PROVE  TypeOK'
  BY <1>5 DEF timer, preempt, Interruptible, TypeOK, PCs, States
<1>6. ASSUME NEW c \in CPUs, tick(c)
     PROVE  TypeOK'
  <2>1. left' \in [Slots -> 0 .. MaxSleep]
    BY <1>6, ProcAssumption DEF tick, TypeOK
  <2>2. QED
    BY Zenon, <1>6, <2>1 DEF tick, TypeOK, PCs, States
<1>7. ASSUME NEW c \in CPUs, tick_wakeup(c)
     PROVE  TypeOK'
  BY <1>7 DEF tick_wakeup, preempt, wakeup1, TypeOK, PCs, States
<1>8. ASSUME NEW c \in CPUs, NEW p \in Slots, pick(c, p)
     PROVE  TypeOK'
  BY Zenon, <1>8 DEF pick, TypeOK, PCs, States
<1>9. ASSUME NEW c \in CPUs, NEW p \in Slots, resume(c, p)
     PROVE  TypeOK'
  BY Zenon, <1>9 DEF resume, TypeOK, PCs, States
<1>10. ASSUME NEW c \in CPUs, NEW p \in Slots, yield(c, p)
     PROVE  TypeOK'
  BY Zenon, <1>10 DEF yield, TypeOK, PCs, States
<1>11. ASSUME NEW c \in CPUs, NEW p \in Slots, syscall(c, p)
     PROVE  TypeOK'
  BY <1>11 DEF syscall, TypeOK, PCs, States
<1>12. ASSUME NEW c \in CPUs, NEW p \in Slots, trap_killed(c, p)
     PROVE  TypeOK'
  BY Zenon, <1>12 DEF trap_killed, TypeOK, PCs, States
<1>13. ASSUME NEW c \in CPUs, NEW p \in Slots, NEW l, back_to(c, p, l)
     PROVE  TypeOK'
  BY Zenon, <1>13 DEF back_to, TypeOK, PCs, States
<1>14. ASSUME NEW c \in CPUs, NEW p \in Slots, allocproc_kstack(c, p)
     PROVE  TypeOK'
  BY <1>14 DEF allocproc_kstack, TypeOK, PCs, States
<1>15. ASSUME NEW c \in CPUs, NEW p \in Slots, fork_copyuvm(c, p)
     PROVE  TypeOK'
  BY <1>15, SMTT(90) DEF fork_copyuvm, TypeOK, PCs, States
<1>16. ASSUME NEW c \in CPUs, NEW p \in Slots, fork_runnable(c, p)
     PROVE  TypeOK'
  BY <1>16, Zenon DEF fork_runnable, TypeOK, PCs, States
<1>17. ASSUME NEW c \in CPUs, NEW p \in Slots, wait_fails(c, p)
     PROVE  TypeOK'
  BY Zenon, <1>17 DEF wait_fails, Waits, TypeOK, PCs, States
<1>18. ASSUME NEW c \in CPUs, NEW p \in Slots, wait_sleeps(c, p)
     PROVE  TypeOK'
  BY Zenon, <1>18 DEF wait_sleeps, Waits, TypeOK, PCs, States
<1>19. ASSUME NEW c \in CPUs, NEW p \in Slots, sys_sleep_test(c, p)
     PROVE  TypeOK'
  <2>1. left' \in [Slots -> 0 .. MaxSleep]
    BY <1>19, ProcAssumption DEF sys_sleep_test, TypeOK
  <2>2. QED
    BY Zenon, <1>19, <2>1 DEF sys_sleep_test, TypeOK, PCs, States
<1>20. ASSUME NEW c \in CPUs, NEW p \in Slots, sleep(c, p)
     PROVE  TypeOK'
  BY Zenon, <1>20 DEF sleep, TypeOK, PCs, States
<1>21. ASSUME NEW c \in CPUs, NEW p \in Slots, sleep_wake(c, p)
     PROVE  TypeOK'
  BY Zenon, <1>21 DEF sleep_wake, TypeOK, PCs, States
<1>22. ASSUME NEW c \in CPUs, NEW p \in Slots, sleep_relock(c, p)
     PROVE  TypeOK'
  BY Zenon, <1>22 DEF sleep_relock, TypeOK, PCs, States
<1>23. ASSUME NEW c \in CPUs, NEW p \in Slots, NEW s \in Slots, alloc(c, p, s)
     PROVE  TypeOK'
  <2>1. nextpid' \in Nat /\ pid' \in [Slots -> Nat]
    BY <1>23 DEF alloc, TypeOK
  <2>2. QED
    BY Zenon, <1>23, <2>1 DEF alloc, TypeOK, PCs, States
<1>24. ASSUME NEW c \in CPUs, NEW p \in Slots, NEW s \in Slots, reap(c, p, s)
     PROVE  TypeOK'
  BY Zenon, <1>24 DEF reap, Waits, TypeOK, PCs, States
<1>25. ASSUME NEW c \in CPUs, NEW p \in Slots, NEW s \in Slots, kill_at(c, p, s)
     PROVE  TypeOK'
  BY Zenon, <1>25 DEF kill_at, TypeOK, PCs, States
<1>26. ASSUME NEW c \in CPUs, NEW p \in Slots, NEW C \in SUBSET (Slots \cup {0}),
   exit_waking(c, p, C)
     PROVE  TypeOK'
  <2>1. wakeup1(C) \in [Slots -> States]
    BY Zenon DEF wakeup1, TypeOK, States
  <2>2. state' \in [Slots -> States]
    BY Zenon, <1>26, <2>1 DEF exit_waking, exit_locked, States
  <2>3. parent' \in [Slots -> Slots \cup {0}]
    BY Zenon, <1>26, InitSlot DEF exit_waking, exit_locked, TypeOK
  <2>4. QED
    BY Zenon, <1>26, <2>2, <2>3 DEF exit_waking, exit_locked, TypeOK, PCs
<1>27. ASSUME NEW c \in CPUs, NEW p \in Slots, NEW n \in 0 .. MaxSleep, sys_sleep(c, p, n)
     PROVE  TypeOK'
  BY Zenon, <1>27 DEF sys_sleep, TypeOK, PCs, States
<1>28. CASE Next
  BY ZenonT(40), <1>28, NextCases, <1>2, <1>3, <1>4, <1>5, <1>6, <1>7, <1>8, <1>9, <1>10, <1>11,
     <1>12, <1>13, <1>14, <1>15, <1>16, <1>17, <1>18, <1>19, <1>20, <1>21, <1>22,
     <1>23, <1>24, <1>25, <1>26, <1>27, SMTT(90)
     DEF Cases
<1>29. QED
  BY Zenon, <1>1, <1>28 DEF vars

\* 0 stands for no CPU and for no process.
LEMMA Zero == 0 \notin CPUs /\ 0 \notin Slots
BY ProcAssumption DEF CPUs, Slots

LEMMA PosType ==
    ASSUME TypeOK
    PROVE  pos \in [CPUs -> Int] /\ cproc \in [CPUs -> Int]
BY ProcAssumption DEF TypeOK, Slots

\* The child of a process inside fork() is an EMBRYO that no CPU runs.
LEMMA Child ==
    ASSUME ForkInv, NEW p \in Slots, pc[p] \in Forking
    PROVE  /\ np[p] \in Slots /\ state[np[p]] = "EMBRYO"
           /\ kstack[np[p]] = (IF pc[p] = "kstack" THEN 0 ELSE 1)
           /\ pc[p] = "runnable" => parent[np[p]] = p
BY Zenon DEF ForkInv, At, Forking

LEMMA LockStep ==
    ASSUME TypeOK, LockInv, TickLockInv, ForkInv, [Next]_vars
    PROVE  LockInv'
<1> USE DEF table, cpuvars, Runs, Goto
<1>1. CASE UNCHANGED <<state, lock, cproc, pos, pc>>
  BY <1>1 DEF TypeOK, LockInv, TickLockInv, Switch
<1>2. ASSUME NEW c \in CPUs, tick(c)
     PROVE  LockInv'
  BY Zenon, <1>1, <1>2 DEF tick
<1>3. ASSUME NEW c \in CPUs, scheduler_acquire(c)
     PROVE  LockInv'
  BY <1>3, Zero, PosType DEF scheduler_acquire, TypeOK, LockInv, TickLockInv, Switch
<1>4. ASSUME NEW c \in CPUs, scan_ends(c)
     PROVE  LockInv'
  BY <1>4, Zero, PosType DEF scan_ends, TypeOK, LockInv, TickLockInv, Switch
<1>5. ASSUME NEW c \in CPUs, sched(c)
     PROVE  LockInv'
  <2>1. cproc[c] \in Slots /\ cproc[c] + 1 > 0
    BY <1>5, ProcAssumption DEF sched, TypeOK, Slots
  <2>2. QED
    BY <1>5, <2>1, Zero, PosType DEF sched, TypeOK, LockInv, Switch
<1>6. ASSUME NEW c \in CPUs, timer(c)
     PROVE  LockInv'
  BY <1>6, Zero, PosType, SMTT(90) DEF timer, preempt, Interruptible, TypeOK, LockInv,
     TickLockInv, Switch
<1>7. ASSUME NEW c \in CPUs, tick_wakeup(c)
     PROVE  LockInv'
  BY SMTT(30), <1>7, Zero, PosType DEF tick_wakeup, preempt, wakeup1, TypeOK, LockInv,
     TickLockInv, Switch
<1>8. ASSUME NEW c \in CPUs, NEW p \in Slots, pick(c, p)
     PROVE  LockInv'
  BY SMTT(30), <1>8, Zero, PosType DEF pick, TypeOK, LockInv, TickLockInv, Switch
<1>9. ASSUME NEW c \in CPUs, NEW p \in Slots, resume(c, p)
     PROVE  LockInv'
  BY SMTT(30), <1>9, Zero, PosType DEF resume, TypeOK, LockInv, TickLockInv, Switch
<1>10. ASSUME NEW c \in CPUs, NEW p \in Slots, yield(c, p)
     PROVE  LockInv'
  BY SMTT(30), <1>10, Zero, PosType DEF yield, TypeOK, LockInv, TickLockInv, Switch
<1>11. ASSUME NEW c \in CPUs, NEW p \in Slots, syscall(c, p)
     PROVE  LockInv'
  BY SMTT(30), <1>11, Zero, PosType DEF syscall, TypeOK, LockInv, TickLockInv, Switch
<1>12. ASSUME NEW c \in CPUs, NEW p \in Slots, trap_killed(c, p)
     PROVE  LockInv'
  BY <1>12, Zero, PosType, SMTT(90) DEF trap_killed, TypeOK, LockInv, TickLockInv, Switch
<1>13. ASSUME NEW c \in CPUs, NEW p \in Slots, NEW l, back_to(c, p, l)
     PROVE  LockInv'
  BY <1>13, Zero, PosType DEF back_to, TypeOK, LockInv, TickLockInv, Switch
<1>14. ASSUME NEW c \in CPUs, NEW p \in Slots, allocproc_kstack(c, p)
     PROVE  LockInv'
  <2>1. /\ np[p] \in Slots /\ np[p] # p /\ state[np[p]] = "EMBRYO"
        /\ pc[np[p]] \in Switch
    BY Zenon, <1>14, Child DEF allocproc_kstack, LockInv, Forking
  <2>2. QED
    BY <1>14, <2>1, Zero, PosType, SMTT(90) DEF allocproc_kstack, TypeOK, LockInv, Switch
<1>15. ASSUME NEW c \in CPUs, NEW p \in Slots, fork_copyuvm(c, p)
     PROVE  LockInv'
  <2>1. /\ np[p] \in Slots /\ np[p] # p /\ state[np[p]] = "EMBRYO"
        /\ pc[np[p]] \in Switch
    BY Zenon, <1>15, Child DEF fork_copyuvm, LockInv, Forking
  <2>2. QED
    BY <1>15, <2>1, Zero, PosType, SMTT(90) DEF fork_copyuvm, TypeOK, LockInv, Switch
<1>16. ASSUME NEW c \in CPUs, NEW p \in Slots, fork_runnable(c, p)
     PROVE  LockInv'
  <2>1. /\ np[p] \in Slots /\ np[p] # p /\ state[np[p]] = "EMBRYO"
        /\ pc[np[p]] \in Switch
    BY Zenon, <1>16, Child DEF fork_runnable, LockInv, Forking
  <2>2. QED
    BY <1>16, <2>1, Zero, PosType DEF fork_runnable, TypeOK, LockInv, Switch
<1>17. ASSUME NEW c \in CPUs, NEW p \in Slots, wait_fails(c, p)
     PROVE  LockInv'
  BY <1>17, Zero, PosType DEF wait_fails, Waits, TypeOK, LockInv, TickLockInv, Switch
<1>18. ASSUME NEW c \in CPUs, NEW p \in Slots, wait_sleeps(c, p)
     PROVE  LockInv'
  BY <1>18, Zero, PosType DEF wait_sleeps, Waits, TypeOK, LockInv, TickLockInv, Switch
<1>19. ASSUME NEW c \in CPUs, NEW p \in Slots, sys_sleep_test(c, p)
     PROVE  LockInv'
  BY SMTT(30), <1>19, Zero, PosType DEF sys_sleep_test, TypeOK, LockInv, TickLockInv, Switch
<1>20. ASSUME NEW c \in CPUs, NEW p \in Slots, sleep(c, p)
     PROVE  LockInv'
  BY SMTT(30), <1>20, Zero, PosType DEF sleep, TypeOK, LockInv, TickLockInv, Switch
<1>21. ASSUME NEW c \in CPUs, NEW p \in Slots, sleep_wake(c, p)
     PROVE  LockInv'
  BY SMTT(30), <1>21, Zero, PosType DEF sleep_wake, TypeOK, LockInv, TickLockInv, Switch
<1>22. ASSUME NEW c \in CPUs, NEW p \in Slots, sleep_relock(c, p)
     PROVE  LockInv'
  BY <1>22, Zero, PosType, SMTT(90) DEF sleep_relock, TypeOK, LockInv, TickLockInv, Switch
<1>23. ASSUME NEW c \in CPUs, NEW p \in Slots, NEW s \in Slots, alloc(c, p, s)
     PROVE  LockInv'
  BY <1>23, Zero, PosType, SMTT(90) DEF alloc, TypeOK, LockInv, TickLockInv, Switch
<1>24. ASSUME NEW c \in CPUs, NEW p \in Slots, NEW s \in Slots, reap(c, p, s)
     PROVE  LockInv'
  BY <1>24, Zero, PosType, SMTT(90) DEF reap, Waits, TypeOK, LockInv, TickLockInv, Switch
<1>25. ASSUME NEW c \in CPUs, NEW p \in Slots, NEW s \in Slots, kill_at(c, p, s)
     PROVE  LockInv'
  BY <1>25, Zero, PosType DEF kill_at, TypeOK, LockInv, TickLockInv, Switch
<1>26. ASSUME NEW c \in CPUs, NEW p \in Slots, NEW C \in SUBSET (Slots \cup {0}),
   exit_waking(c, p, C)
     PROVE  LockInv'
  <2>1. /\ \A q \in Slots : state'[q] = IF q = p THEN "ZOMBIE"
                                   ELSE IF state[q] = "SLEEPING" /\ chan[q] \in C
                                        THEN "RUNNABLE" ELSE state[q]
        /\ lock = 0 /\ lock' = c /\ pc' = [pc EXCEPT ![p] = "zombie"]
        /\ Runs(c, p) /\ UNCHANGED <<cproc, pos>>
    BY Zenon, <1>26 DEF exit_waking, exit_locked, wakeup1
  <2>2. QED
    BY <2>1, Zero, PosType, SMTT(120) DEF TypeOK, LockInv, Switch
<1>27. ASSUME NEW c \in CPUs, NEW p \in Slots, NEW n \in 0 .. MaxSleep, sys_sleep(c, p, n)
     PROVE  LockInv'
  BY <1>27, Zero, PosType, SMTT(90) DEF sys_sleep, TypeOK, LockInv, TickLockInv, Switch
<1>28. CASE Next
  BY Zenon, <1>28, NextCases, <1>2, <1>3, <1>4, <1>5, <1>6, <1>7, <1>8, <1>9, <1>10, <1>11,
     <1>12, <1>13, <1>14, <1>15, <1>16, <1>17, <1>18, <1>19, <1>20, <1>21, <1>22,
     <1>23, <1>24, <1>25, <1>26, <1>27, SMTT(90)
     DEF Cases
<1>29. QED
  BY Zenon, <1>1, <1>28 DEF vars

LEMMA TickLockStep ==
    ASSUME TypeOK, LockInv, TickLockInv, ForkInv, [Next]_vars
    PROVE  TickLockInv'
<1> USE DEF table, cpuvars, Runs, Goto
<1>1. CASE UNCHANGED <<lock, tlock, cproc, intr, pc, back>>
  BY Zenon, <1>1 DEF TypeOK, LockInv, TickLockInv, Switch
<1>2. ASSUME NEW c \in CPUs, scheduler_acquire(c)
     PROVE  TickLockInv'
  BY Zenon, <1>2, Zero DEF scheduler_acquire, TypeOK, LockInv, TickLockInv, Switch
<1>3. ASSUME NEW c \in CPUs, scan_ends(c)
     PROVE  TickLockInv'
  BY <1>3, Zero DEF scan_ends, TypeOK, LockInv, TickLockInv, Switch
<1>4. ASSUME NEW c \in CPUs, sched(c)
     PROVE  TickLockInv'
  BY SMTT(30), <1>4, Zero DEF sched, TypeOK, LockInv, TickLockInv, Switch
<1>5. ASSUME NEW c \in CPUs, timer(c)
     PROVE  TickLockInv'
  BY <1>5, Zero DEF timer, preempt, Interruptible, TypeOK, LockInv, TickLockInv, Switch
<1>6. ASSUME NEW c \in CPUs, tick(c)
     PROVE  TickLockInv'
  BY <1>6, Zero DEF tick, TypeOK, LockInv, TickLockInv, Switch
<1>7. ASSUME NEW c \in CPUs, tick_wakeup(c)
     PROVE  TickLockInv'
  BY <1>7, Zero DEF tick_wakeup, preempt, wakeup1, TypeOK, LockInv, TickLockInv, Switch
<1>8. ASSUME NEW c \in CPUs, NEW p \in Slots, pick(c, p)
     PROVE  TickLockInv'
  BY <1>8, Zero DEF pick, TypeOK, LockInv, TickLockInv, Switch
<1>9. ASSUME NEW c \in CPUs, NEW p \in Slots, resume(c, p)
     PROVE  TickLockInv'
  BY <1>9, Zero DEF resume, TypeOK, LockInv, TickLockInv, Switch
<1>10. ASSUME NEW c \in CPUs, NEW p \in Slots, yield(c, p)
     PROVE  TickLockInv'
  BY <1>10, Zero, SMTT(90) DEF yield, TypeOK, LockInv, TickLockInv, Switch
<1>11. ASSUME NEW c \in CPUs, NEW p \in Slots, syscall(c, p)
     PROVE  TickLockInv'
  BY <1>11, Zero DEF syscall, TypeOK, LockInv, TickLockInv, Switch
<1>12. ASSUME NEW c \in CPUs, NEW p \in Slots, trap_killed(c, p)
     PROVE  TickLockInv'
  BY <1>12, Zero DEF trap_killed, TypeOK, LockInv, TickLockInv, Switch
<1>13. ASSUME NEW c \in CPUs, NEW p \in Slots, NEW l, back_to(c, p, l)
     PROVE  TickLockInv'
  BY <1>13, Zero, SMTT(90) DEF back_to, TypeOK, LockInv, TickLockInv, Switch
<1>14. ASSUME NEW c \in CPUs, NEW p \in Slots, allocproc_kstack(c, p)
     PROVE  TickLockInv'
  BY <1>14, Zero, SMTT(90) DEF allocproc_kstack, TypeOK, LockInv, TickLockInv, Switch
<1>15. ASSUME NEW c \in CPUs, NEW p \in Slots, fork_copyuvm(c, p)
     PROVE  TickLockInv'
  BY <1>15, Zero, SMTT(90) DEF fork_copyuvm, TypeOK, LockInv, TickLockInv, Switch
<1>16. ASSUME NEW c \in CPUs, NEW p \in Slots, fork_runnable(c, p)
     PROVE  TickLockInv'
  <2>1. /\ np[p] \in Slots /\ np[p] # p /\ state[np[p]] = "EMBRYO"
        /\ pc[np[p]] \in Switch /\ \A d \in CPUs : cproc[d] # np[p]
    BY SMTT(30), <1>16, Child, Zero DEF fork_runnable, LockInv, Forking
  <2>2. QED
    BY <1>16, <2>1, Zero DEF fork_runnable, TypeOK, LockInv, TickLockInv, Switch
<1>17. ASSUME NEW c \in CPUs, NEW p \in Slots, wait_fails(c, p)
     PROVE  TickLockInv'
  BY <1>17, Zero, SMTT(90) DEF wait_fails, Waits, TypeOK, LockInv, TickLockInv, Switch
<1>18. ASSUME NEW c \in CPUs, NEW p \in Slots, wait_sleeps(c, p)
     PROVE  TickLockInv'
  BY <1>18, Zero DEF wait_sleeps, Waits, TypeOK, LockInv, TickLockInv, Switch
<1>19. ASSUME NEW c \in CPUs, NEW p \in Slots, sys_sleep_test(c, p)
     PROVE  TickLockInv'
  BY <1>19, Zero, SMTT(90) DEF sys_sleep_test, TypeOK, LockInv, TickLockInv, Switch
<1>20. ASSUME NEW c \in CPUs, NEW p \in Slots, sleep(c, p)
     PROVE  TickLockInv'
  BY <1>20, Zero, SMTT(90) DEF sleep, TypeOK, LockInv, TickLockInv, Switch
<1>21. ASSUME NEW c \in CPUs, NEW p \in Slots, sleep_wake(c, p)
     PROVE  TickLockInv'
  BY <1>21, Zero, SMTT(90) DEF sleep_wake, TypeOK, LockInv, TickLockInv, Switch
<1>22. ASSUME NEW c \in CPUs, NEW p \in Slots, sleep_relock(c, p)
     PROVE  TickLockInv'
  BY <1>22, Zero, SMTT(90) DEF sleep_relock, TypeOK, LockInv, TickLockInv, Switch
<1>23. ASSUME NEW c \in CPUs, NEW p \in Slots, NEW s \in Slots, alloc(c, p, s)
     PROVE  TickLockInv'
  BY <1>23, Zero, SMTT(90) DEF alloc, TypeOK, LockInv, TickLockInv, Switch
<1>24. ASSUME NEW c \in CPUs, NEW p \in Slots, NEW s \in Slots, reap(c, p, s)
     PROVE  TickLockInv'
  BY <1>24, Zero, SMTT(90) DEF reap, Waits, TypeOK, LockInv, TickLockInv, Switch
<1>25. ASSUME NEW c \in CPUs, NEW p \in Slots, NEW s \in Slots, kill_at(c, p, s)
     PROVE  TickLockInv'
  BY <1>25, Zero, SMTT(90) DEF kill_at, TypeOK, LockInv, TickLockInv, Switch
<1>26. ASSUME NEW c \in CPUs, NEW p \in Slots, NEW C \in SUBSET (Slots \cup {0}),
   exit_waking(c, p, C)
     PROVE  TickLockInv'
  BY <1>26, Zero, SMTT(90) DEF exit_waking, exit_locked, wakeup1, TypeOK, LockInv, TickLockInv,
     Switch
<1>27. ASSUME NEW c \in CPUs, NEW p \in Slots, NEW n \in 0 .. MaxSleep, sys_sleep(c, p, n)
     PROVE  TickLockInv'
  BY <1>27, Zero, SMTT(90) DEF sys_sleep, TypeOK, LockInv, TickLockInv, Switch
<1>28. CASE Next
  BY ZenonT(40), <1>28, NextCases, <1>2, <1>3, <1>4, <1>5, <1>6, <1>7, <1>8, <1>9, <1>10, <1>11,
     <1>12, <1>13, <1>14, <1>15, <1>16, <1>17, <1>18, <1>19, <1>20, <1>21, <1>22,
     <1>23, <1>24, <1>25, <1>26, <1>27, SMTT(90)
     DEF Cases
<1>29. QED
  BY Zenon, <1>1, <1>28 DEF vars

LEMMA ForkStep ==
    ASSUME TypeOK, LockInv, TickLockInv, ForkInv, StackInv, [Next]_vars
    PROVE  ForkInv'
<1> USE DEF table, cpuvars, Runs, Goto
<1>1. CASE UNCHANGED <<state, parent, kstack, pc, back, np>>
  BY <1>1 DEF TypeOK, LockInv, TickLockInv, ForkInv, Switch, Forking, At
<1>2. ASSUME NEW c \in CPUs,
            \/ scheduler_acquire(c) \/ scan_ends(c) \/ sched(c) \/ tick(c)
     PROVE  ForkInv'
  BY Zenon, <1>1, <1>2 DEF scheduler_acquire, scan_ends, sched, tick
<1>3. ASSUME NEW c \in CPUs, timer(c)
     PROVE  ForkInv'
  BY <1>3, Zero, SMTT(90) DEF timer, preempt, Interruptible, TypeOK, LockInv, TickLockInv,
     ForkInv, Switch, Forking, At
<1>4. ASSUME NEW c \in CPUs, tick_wakeup(c)
     PROVE  ForkInv'
  BY <1>4, Zero, SMTT(90) DEF tick_wakeup, preempt, wakeup1, TypeOK, LockInv, TickLockInv,
     ForkInv, Switch, Forking, At
<1>5. ASSUME NEW c \in CPUs, NEW p \in Slots, pick(c, p)
     PROVE  ForkInv'
  BY <1>5, Zero, SMTT(90) DEF pick, TypeOK, LockInv, TickLockInv, ForkInv, Switch, Forking, At
<1>6. ASSUME NEW c \in CPUs, NEW p \in Slots, resume(c, p)
     PROVE  ForkInv'
  BY <1>6, Zero, SMTT(90) DEF resume, TypeOK, LockInv, TickLockInv, ForkInv, Switch, Forking, At
<1>7. ASSUME NEW c \in CPUs, NEW p \in Slots, yield(c, p)
     PROVE  ForkInv'
  BY <1>7, Zero, SMTT(90) DEF yield, TypeOK, LockInv, TickLockInv, ForkInv, Switch, Forking, At
<1>8. ASSUME NEW c \in CPUs, NEW p \in Slots, syscall(c, p)
     PROVE  ForkInv'
  BY <1>8, Zero, SMTT(90) DEF syscall, TypeOK, LockInv, TickLockInv, ForkInv, Switch, Forking, At
<1>9. ASSUME NEW c \in CPUs, NEW p \in Slots, trap_killed(c, p)
     PROVE  ForkInv'
  BY <1>9, Zero, SMTT(90) DEF trap_killed, TypeOK, LockInv, TickLockInv, ForkInv, Switch,
     Forking, At
<1>10. ASSUME NEW c \in CPUs, NEW p \in Slots, NEW l, back_to(c, p, l)
     PROVE  ForkInv'
  BY <1>10, Zero, SMTT(90) DEF back_to, TypeOK, LockInv, TickLockInv, ForkInv, Switch, Forking, At
<1>11. ASSUME NEW c \in CPUs, NEW p \in Slots, allocproc_kstack(c, p)
     PROVE  ForkInv'
  BY <1>11, Zero, SMTT(90) DEF allocproc_kstack, TypeOK, LockInv, TickLockInv, ForkInv, Switch,
     Forking, At
<1>12. ASSUME NEW c \in CPUs, NEW p \in Slots, fork_copyuvm(c, p)
     PROVE  ForkInv'
  BY <1>12, Zero, SMTT(90) DEF fork_copyuvm, TypeOK, LockInv, TickLockInv, ForkInv, Switch,
     Forking, At
<1>13. ASSUME NEW c \in CPUs, NEW p \in Slots, fork_runnable(c, p)
     PROVE  ForkInv'
  BY <1>13, Zero, SMTT(90) DEF fork_runnable, TypeOK, LockInv, TickLockInv, ForkInv, Switch,
     Forking, At
<1>14. ASSUME NEW c \in CPUs, NEW p \in Slots, wait_fails(c, p)
     PROVE  ForkInv'
  BY <1>14, Zero, SMTT(90) DEF wait_fails, Waits, TypeOK, LockInv, TickLockInv, ForkInv, Switch,
     Forking, At
<1>15. ASSUME NEW c \in CPUs, NEW p \in Slots, wait_sleeps(c, p)
     PROVE  ForkInv'
  BY <1>15, Zero, SMTT(90) DEF wait_sleeps, Waits, TypeOK, LockInv, TickLockInv, ForkInv, Switch,
     Forking, At
<1>16. ASSUME NEW c \in CPUs, NEW p \in Slots, sys_sleep_test(c, p)
     PROVE  ForkInv'
  BY <1>16, Zero, SMTT(90) DEF sys_sleep_test, TypeOK, LockInv, TickLockInv, ForkInv, Switch,
     Forking, At
<1>17. ASSUME NEW c \in CPUs, NEW p \in Slots, sleep(c, p)
     PROVE  ForkInv'
  BY <1>17, Zero, SMTT(90) DEF sleep, TypeOK, LockInv, TickLockInv, ForkInv, Switch, Forking, At
<1>18. ASSUME NEW c \in CPUs, NEW p \in Slots, sleep_wake(c, p)
     PROVE  ForkInv'
  BY <1>18, Zero, SMTT(90) DEF sleep_wake, TypeOK, LockInv, TickLockInv, ForkInv, Switch,
     Forking, At
<1>19. ASSUME NEW c \in CPUs, NEW p \in Slots, sleep_relock(c, p)
     PROVE  ForkInv'
  BY <1>19, Zero, SMTT(90) DEF sleep_relock, TypeOK, LockInv, TickLockInv, ForkInv, Switch,
     Forking, At
<1>20. ASSUME NEW c \in CPUs, NEW p \in Slots, NEW s \in Slots, alloc(c, p, s)
     PROVE  ForkInv'
  <2>1. kstack[s] = 0 /\ s # p
    BY Zenon, <1>20 DEF alloc, StackInv
  <2>2. QED
    BY <1>20, <2>1 DEF alloc, TypeOK, ForkInv, Forking, At
<1>21. ASSUME NEW c \in CPUs, NEW p \in Slots, NEW s \in Slots, reap(c, p, s)
     PROVE  ForkInv'
  BY <1>21, Zero, SMTT(90) DEF reap, Waits, TypeOK, LockInv, TickLockInv, ForkInv, Switch,
     Forking, At
<1>22. ASSUME NEW c \in CPUs, NEW p \in Slots, NEW s \in Slots, kill_at(c, p, s)
     PROVE  ForkInv'
  BY <1>22, Zero, SMTT(90) DEF kill_at, TypeOK, LockInv, TickLockInv, ForkInv, Switch, Forking, At
<1>23. ASSUME NEW c \in CPUs, NEW p \in Slots, NEW C \in SUBSET (Slots \cup {0}),
   exit_waking(c, p, C)
     PROVE  ForkInv'
  BY <1>23, Zero, SMTT(90) DEF exit_waking, exit_locked, wakeup1, TypeOK, LockInv, TickLockInv,
     ForkInv, Switch, Forking, At
<1>24. ASSUME NEW c \in CPUs, NEW p \in Slots, NEW n \in 0 .. MaxSleep, sys_sleep(c, p, n)
     PROVE  ForkInv'
  BY <1>24, Zero, SMTT(90) DEF sys_sleep, TypeOK, LockInv, TickLockInv, ForkInv, Switch, Forking,
     At
<1>25. CASE Next
  BY Zenon, <1>25, NextCases, <1>2, <1>3, <1>4, <1>5, <1>6, <1>7, <1>8, <1>9, <1>10, <1>11,
     <1>12, <1>13, <1>14, <1>15, <1>16, <1>17, <1>18, <1>19, <1>20, <1>21, <1>22,
     <1>23, <1>24, SMTT(90)
     DEF Cases
<1>26. QED
  BY Zenon, <1>1, <1>25 DEF vars

LEMMA StackStep ==
    ASSUME TypeOK, ForkInv, StackInv, [Next]_vars
    PROVE  StackInv'
<1> USE DEF table, cpuvars, Runs, Goto
<1>1. CASE UNCHANGED <<state, kstack>>
  BY Zenon, <1>1 DEF TypeOK, StackInv
<1>2. ASSUME NEW c \in CPUs,
            \/ scheduler_acquire(c) \/ scan_ends(c) \/ sched(c) \/ timer(c) \/ tick(c)
     PROVE  StackInv'
  BY Zenon, <1>1, <1>2 DEF scheduler_acquire, scan_ends, sched, timer, tick,
     Interruptible,
     preempt
<1>3. ASSUME NEW c \in CPUs, NEW p \in Slots,
            \/ resume(c, p) \/ syscall(c, p) \/ trap_killed(c, p) \/ wait_fails(c, p)
            \/ sys_sleep_test(c, p) \/ sleep_wake(c, p) \/ sleep_relock(c, p)
     PROVE  StackInv'
  BY Zenon, <1>1, <1>3 DEF resume, syscall, trap_killed, wait_fails, sys_sleep_test,
     sleep_wake, sleep_relock, Waits
<1>4. ASSUME NEW c \in CPUs, NEW p \in Slots, NEW l, back_to(c, p, l)
     PROVE  StackInv'
  BY <1>1, <1>4, ZenonT(40) DEF back_to
<1>5. ASSUME NEW c \in CPUs, NEW p \in Slots, NEW n \in 0 .. MaxSleep,
            sys_sleep(c, p, n)
     PROVE  StackInv'
  BY <1>1, <1>5, Zenon DEF sys_sleep
<1>6. ASSUME NEW c \in CPUs, tick_wakeup(c)
     PROVE  StackInv'
  BY Zenon, <1>6 DEF tick_wakeup, preempt, wakeup1, TypeOK, StackInv
<1>7. ASSUME NEW c \in CPUs, NEW p \in Slots, pick(c, p)
     PROVE  StackInv'
  BY Zenon, <1>7 DEF pick, TypeOK, StackInv
<1>8. ASSUME NEW c \in CPUs, NEW p \in Slots, yield(c, p)
     PROVE  StackInv'
  BY Zenon, <1>8 DEF yield, TypeOK, StackInv
<1>9. ASSUME NEW c \in CPUs, NEW p \in Slots, allocproc_kstack(c, p)
     PROVE  StackInv'
  <2>1. np[p] \in Slots /\ state[np[p]] = "EMBRYO" /\ kstack[np[p]] = 0
    BY Zenon, <1>9, Child DEF allocproc_kstack, Forking
  <2>2. QED
    BY <1>9, <2>1, SMTT(120) DEF allocproc_kstack, TypeOK, StackInv
<1>10. ASSUME NEW c \in CPUs, NEW p \in Slots, fork_copyuvm(c, p)
     PROVE  StackInv'
  <2>1. np[p] \in Slots /\ state[np[p]] = "EMBRYO"
    BY Zenon, <1>10, Child DEF fork_copyuvm, Forking
  <2>2. QED
    BY <1>10, <2>1, SMTT(90) DEF fork_copyuvm, TypeOK, StackInv
<1>11. ASSUME NEW c \in CPUs, NEW p \in Slots, fork_runnable(c, p)
     PROVE  StackInv'
  <2>1. np[p] \in Slots /\ state[np[p]] = "EMBRYO" /\ kstack[np[p]] = 1
    BY Zenon, <1>11, Child DEF fork_runnable, Forking
  <2>2. QED
    BY Zenon, <1>11, <2>1 DEF fork_runnable, TypeOK, StackInv
<1>12. ASSUME NEW c \in CPUs, NEW p \in Slots, wait_sleeps(c, p)
     PROVE  StackInv'
  BY Zenon, <1>12 DEF wait_sleeps, Waits, TypeOK, StackInv
<1>13. ASSUME NEW c \in CPUs, NEW p \in Slots, sleep(c, p)
     PROVE  StackInv'
  BY Zenon, <1>13 DEF sleep, TypeOK, StackInv
<1>14. ASSUME NEW c \in CPUs, NEW p \in Slots, NEW s \in Slots, alloc(c, p, s)
     PROVE  StackInv'
  BY Zenon, <1>14 DEF alloc, TypeOK, StackInv
<1>15. ASSUME NEW c \in CPUs, NEW p \in Slots, NEW s \in Slots, reap(c, p, s)
     PROVE  StackInv'
  BY Zenon, <1>15 DEF reap, Waits, TypeOK, StackInv
<1>16. ASSUME NEW c \in CPUs, NEW p \in Slots, NEW s \in Slots, kill_at(c, p, s)
     PROVE  StackInv'
  BY Zenon, <1>16 DEF kill_at, TypeOK, StackInv
<1>17. ASSUME NEW c \in CPUs, NEW p \in Slots, NEW C \in SUBSET (Slots \cup {0}),
   exit_waking(c, p, C)
     PROVE  StackInv'
  BY Zenon, <1>17 DEF exit_waking, exit_locked, wakeup1, TypeOK, StackInv
<1>18. CASE Next
  BY Zenon, <1>18, NextCases, <1>2, <1>3, <1>4, <1>5, <1>6, <1>7, <1>8, <1>9, <1>10, <1>11,
     <1>12, <1>13, <1>14, <1>15, <1>16, <1>17, SMTT(90)
     DEF Cases
<1>19. QED
  BY Zenon, <1>1, <1>18 DEF vars

LEMMA FamilyStep ==
    ASSUME TypeOK, LockInv, ForkInv, FamilyInv, [Next]_vars
    PROVE  FamilyInv'
<1> USE DEF table, cpuvars, Runs, Goto
<1>1. CASE UNCHANGED <<state, parent>>
  BY Zenon, <1>1 DEF TypeOK, FamilyInv, ParentAlive, Alive
<1>2. ASSUME NEW c \in CPUs,
            \/ scheduler_acquire(c) \/ scan_ends(c) \/ sched(c) \/ timer(c) \/ tick(c)
     PROVE  FamilyInv'
  BY Zenon, <1>1, <1>2 DEF scheduler_acquire, scan_ends, sched, timer, tick,
     Interruptible,
     preempt
<1>3. ASSUME NEW c \in CPUs, NEW p \in Slots,
            \/ resume(c, p) \/ syscall(c, p) \/ trap_killed(c, p) \/ wait_fails(c, p)
            \/ sys_sleep_test(c, p) \/ sleep_wake(c, p) \/ sleep_relock(c, p)
     PROVE  FamilyInv'
  BY Zenon, <1>1, <1>3 DEF resume, syscall, trap_killed, wait_fails, sys_sleep_test,
     sleep_wake, sleep_relock, Waits
<1>4. ASSUME NEW c \in CPUs, NEW p \in Slots, NEW l, back_to(c, p, l)
     PROVE  FamilyInv'
  BY <1>1, <1>4, ZenonT(40) DEF back_to
<1>5. ASSUME NEW c \in CPUs, NEW p \in Slots, NEW n \in 0 .. MaxSleep,
            sys_sleep(c, p, n)
     PROVE  FamilyInv'
  BY <1>1, <1>5, Zenon DEF sys_sleep
<1>6. ASSUME NEW c \in CPUs, tick_wakeup(c)
     PROVE  FamilyInv'
  BY Zenon, <1>6, InitSlot, Zero DEF tick_wakeup, preempt, wakeup1, TypeOK, FamilyInv,
     ParentAlive, Alive
<1>7. ASSUME NEW c \in CPUs, NEW p \in Slots, pick(c, p)
     PROVE  FamilyInv'
  BY Zenon, <1>7, InitSlot, Zero DEF pick, TypeOK, FamilyInv, ParentAlive, Alive
<1>8. ASSUME NEW c \in CPUs, NEW p \in Slots, yield(c, p)
     PROVE  FamilyInv'
  BY Zenon, <1>8, InitSlot, Zero DEF yield, TypeOK, FamilyInv, ParentAlive, Alive
<1>9. ASSUME NEW c \in CPUs, NEW p \in Slots, allocproc_kstack(c, p)
     PROVE  FamilyInv'
  <2>1. /\ np[p] \in Slots /\ state[np[p]] = "EMBRYO" /\ np[p] # p
        /\ np[p] # initproc
    BY <1>9, Child, Zenon DEF allocproc_kstack, FamilyInv, Alive, Forking
  <2>2. QED
    BY <1>9, <2>1, InitSlot, SMTT(90) DEF allocproc_kstack, TypeOK, FamilyInv,
       ParentAlive, Alive
<1>10. ASSUME NEW c \in CPUs, NEW p \in Slots, fork_copyuvm(c, p)
     PROVE  FamilyInv'
  <2>1. /\ np[p] \in Slots /\ state[np[p]] = "EMBRYO" /\ np[p] # p
        /\ np[p] # initproc
    BY <1>10, Child, Zenon DEF fork_copyuvm, FamilyInv, Alive, Forking
  <2>2. QED
    BY <1>10, <2>1, InitSlot, SMTT(120) DEF fork_copyuvm, TypeOK, FamilyInv, ParentAlive,
       Alive
<1>11. ASSUME NEW c \in CPUs, NEW p \in Slots, fork_runnable(c, p)
     PROVE  FamilyInv'
  <2>1. /\ np[p] \in Slots /\ state[np[p]] = "EMBRYO" /\ np[p] # p
        /\ np[p] # initproc /\ parent[np[p]] = p
    BY <1>11, Child, Zenon DEF fork_runnable, FamilyInv, Alive, Forking
  <2>2. QED
    BY ZenonT(40), <1>11, <2>1, InitSlot DEF fork_runnable, TypeOK, FamilyInv, ParentAlive,
       Alive
<1>12. ASSUME NEW c \in CPUs, NEW p \in Slots, wait_sleeps(c, p)
     PROVE  FamilyInv'
  BY Zenon, <1>12, InitSlot, Zero DEF wait_sleeps, Waits, TypeOK, FamilyInv, ParentAlive, Alive
<1>13. ASSUME NEW c \in CPUs, NEW p \in Slots, sleep(c, p)
     PROVE  FamilyInv'
  BY Zenon, <1>13, InitSlot, Zero DEF sleep, TypeOK, FamilyInv, ParentAlive, Alive
<1>14. ASSUME NEW c \in CPUs, NEW p \in Slots, NEW s \in Slots, alloc(c, p, s)
     PROVE  FamilyInv'
  BY Zenon, <1>14, InitSlot, Zero DEF alloc, TypeOK, FamilyInv, ParentAlive, Alive
<1>15. ASSUME NEW c \in CPUs, NEW p \in Slots, NEW s \in Slots, reap(c, p, s)
     PROVE  FamilyInv'
  BY Zenon, <1>15, InitSlot, Zero DEF reap, Waits, TypeOK, FamilyInv, ParentAlive, Alive
<1>16. ASSUME NEW c \in CPUs, NEW p \in Slots, NEW s \in Slots, kill_at(c, p, s)
     PROVE  FamilyInv'
  BY Zenon, <1>16, InitSlot, Zero DEF kill_at, TypeOK, FamilyInv, ParentAlive, Alive
<1>17. ASSUME NEW c \in CPUs, NEW p \in Slots, NEW C \in SUBSET (Slots \cup {0}),
   exit_waking(c, p, C)
     PROVE  FamilyInv'
  BY Zenon, <1>17, InitSlot, Zero DEF exit_waking, exit_locked, wakeup1, TypeOK, FamilyInv,
     ParentAlive, Alive
<1>18. CASE Next
  BY Zenon, <1>18, NextCases, <1>2, <1>3, <1>4, <1>5, <1>6, <1>7, <1>8, <1>9, <1>10, <1>11,
     <1>12, <1>13, <1>14, <1>15, <1>16, <1>17, SMTT(90)
     DEF Cases
<1>19. QED
  BY Zenon, <1>1, <1>18 DEF vars

LEMMA MissedExitStep ==
    ASSUME TypeOK, ForkInv, FamilyInv, NoMissedExit, [Next]_vars
    PROVE  NoMissedExit'
<1> USE DEF table, cpuvars, Runs, Goto
<1>1. CASE UNCHANGED <<state, parent, chan>>
  BY Zenon, <1>1 DEF TypeOK, NoMissedExit
<1>2. ASSUME NEW c \in CPUs,
            \/ scheduler_acquire(c) \/ scan_ends(c) \/ sched(c) \/ timer(c) \/ tick(c)
     PROVE  NoMissedExit'
  BY Zenon, <1>1, <1>2 DEF scheduler_acquire, scan_ends, sched, timer, tick,
     Interruptible,
     preempt
<1>3. ASSUME NEW c \in CPUs, NEW p \in Slots,
            \/ resume(c, p) \/ syscall(c, p) \/ trap_killed(c, p)
            \/ sys_sleep_test(c, p) \/ sleep_relock(c, p)
     PROVE  NoMissedExit'
  BY Zenon, <1>1, <1>3 DEF resume, syscall, trap_killed, sys_sleep_test, sleep_relock
<1>4. ASSUME NEW c \in CPUs, NEW p \in Slots, NEW l, back_to(c, p, l)
     PROVE  NoMissedExit'
  BY <1>1, <1>4, ZenonT(40) DEF back_to
<1>5. ASSUME NEW c \in CPUs, NEW p \in Slots, NEW n \in 0 .. MaxSleep,
            sys_sleep(c, p, n)
     PROVE  NoMissedExit'
  BY <1>1, <1>5, Zenon DEF sys_sleep
<1>6. ASSUME NEW c \in CPUs, tick_wakeup(c)
     PROVE  NoMissedExit'
  BY ZenonT(40), <1>6, InitSlot, Zero DEF tick_wakeup, preempt, wakeup1, TypeOK, NoMissedExit
<1>7. ASSUME NEW c \in CPUs, NEW p \in Slots, pick(c, p)
     PROVE  NoMissedExit'
  BY Zenon, <1>7, InitSlot, Zero DEF pick, TypeOK, NoMissedExit
<1>8. ASSUME NEW c \in CPUs, NEW p \in Slots, yield(c, p)
     PROVE  NoMissedExit'
  BY Zenon, <1>8, InitSlot, Zero DEF yield, TypeOK, NoMissedExit
<1>9. ASSUME NEW c \in CPUs, NEW p \in Slots, allocproc_kstack(c, p)
     PROVE  NoMissedExit'
  <2>1. np[p] \in Slots /\ state[np[p]] = "EMBRYO"
    BY <1>9, Child, Zenon DEF allocproc_kstack, Forking
  <2>2. QED
    BY <1>9, <2>1, SMTT(90) DEF allocproc_kstack, TypeOK, NoMissedExit
<1>10. ASSUME NEW c \in CPUs, NEW p \in Slots, fork_copyuvm(c, p)
     PROVE  NoMissedExit'
  <2>1. np[p] \in Slots /\ state[np[p]] = "EMBRYO"
    BY Zenon, <1>10, Child DEF fork_copyuvm, Forking
  <2>2. QED
    BY <1>10, <2>1, SMTT(120) DEF fork_copyuvm, TypeOK, NoMissedExit
<1>11. ASSUME NEW c \in CPUs, NEW p \in Slots, fork_runnable(c, p)
     PROVE  NoMissedExit'
  <2>1. np[p] \in Slots /\ state[np[p]] = "EMBRYO"
    BY Zenon, <1>11, Child DEF fork_runnable, Forking
  <2>2. QED
    BY Zenon, <1>11, <2>1 DEF fork_runnable, TypeOK, NoMissedExit
<1>12. ASSUME NEW c \in CPUs, NEW p \in Slots, wait_fails(c, p)
     PROVE  NoMissedExit'
  BY Zenon, <1>12, InitSlot, Zero DEF wait_fails, Waits, TypeOK, NoMissedExit
<1>13. ASSUME NEW c \in CPUs, NEW p \in Slots, wait_sleeps(c, p)
     PROVE  NoMissedExit'
  BY ZenonT(40), <1>13, InitSlot, Zero DEF wait_sleeps, Waits, TypeOK, NoMissedExit
<1>14. ASSUME NEW c \in CPUs, NEW p \in Slots, sleep(c, p)
     PROVE  NoMissedExit'
  BY Zenon, <1>14, InitSlot, Zero DEF sleep, TypeOK, NoMissedExit
<1>15. ASSUME NEW c \in CPUs, NEW p \in Slots, sleep_wake(c, p)
     PROVE  NoMissedExit'
  BY Zenon, <1>15, InitSlot, Zero DEF sleep_wake, TypeOK, NoMissedExit
<1>16. ASSUME NEW c \in CPUs, NEW p \in Slots, NEW s \in Slots, alloc(c, p, s)
     PROVE  NoMissedExit'
  BY Zenon, <1>16, InitSlot, Zero DEF alloc, TypeOK, NoMissedExit
<1>17. ASSUME NEW c \in CPUs, NEW p \in Slots, NEW s \in Slots, reap(c, p, s)
     PROVE  NoMissedExit'
  BY Zenon, <1>17, InitSlot, Zero DEF reap, Waits, TypeOK, NoMissedExit
<1>18. ASSUME NEW c \in CPUs, NEW p \in Slots, NEW s \in Slots, kill_at(c, p, s)
     PROVE  NoMissedExit'
  BY ZenonT(40), <1>18, InitSlot, Zero DEF kill_at, TypeOK, NoMissedExit
<1>19. ASSUME NEW c \in CPUs, NEW p \in Slots, NEW C \in SUBSET (Slots \cup {0}),
   exit_waking(c, p, C)
     PROVE  NoMissedExit'
  BY <1>19, InitSlot, Zero, SMTT(120) DEF exit_waking, exit_locked, wakeup1, TypeOK,
     NoMissedExit, FamilyInv
<1>20. CASE Next
  BY Zenon, <1>20, NextCases, <1>2, <1>3, <1>4, <1>5, <1>6, <1>7, <1>8, <1>9, <1>10, <1>11,
     <1>12, <1>13, <1>14, <1>15, <1>16, <1>17, <1>18, <1>19, SMTT(90)
     DEF Cases
<1>21. QED
  BY Zenon, <1>1, <1>20 DEF vars

LEMMA PidStep ==
    ASSUME TypeOK, ForkInv, PidInv, [Next]_vars
    PROVE  PidInv'
<1> USE DEF table, cpuvars, Runs, Goto
<1>1. CASE UNCHANGED <<state, pid, nextpid>>
  BY Zenon, <1>1 DEF TypeOK, PidInv
<1>2. ASSUME NEW c \in CPUs,
            \/ scheduler_acquire(c) \/ scan_ends(c) \/ sched(c) \/ timer(c) \/ tick(c)
     PROVE  PidInv'
  BY Zenon, <1>1, <1>2 DEF scheduler_acquire, scan_ends, sched, timer, tick,
     Interruptible,
     preempt
<1>3. ASSUME NEW c \in CPUs, NEW p \in Slots,
            \/ resume(c, p) \/ syscall(c, p) \/ trap_killed(c, p) \/ wait_fails(c, p)
            \/ sys_sleep_test(c, p) \/ sleep_wake(c, p) \/ sleep_relock(c, p)
     PROVE  PidInv'
  BY Zenon, <1>1, <1>3 DEF resume, syscall, trap_killed, wait_fails, sys_sleep_test,
     sleep_wake, sleep_relock, Waits
<1>4. ASSUME NEW c \in CPUs, NEW p \in Slots, NEW l, back_to(c, p, l)
     PROVE  PidInv'
  BY <1>1, <1>4, ZenonT(40) DEF back_to
<1>5. ASSUME NEW c \in CPUs, NEW p \in Slots, NEW n \in 0 .. MaxSleep,
            sys_sleep(c, p, n)
     PROVE  PidInv'
  BY <1>1, <1>5, Zenon DEF sys_sleep
<1>6. ASSUME NEW c \in CPUs, tick_wakeup(c)
     PROVE  PidInv'
  BY Zenon, <1>6 DEF tick_wakeup, preempt, wakeup1, TypeOK, PidInv
<1>7. ASSUME NEW c \in CPUs, NEW p \in Slots, pick(c, p)
     PROVE  PidInv'
  BY Zenon, <1>7 DEF pick, TypeOK, PidInv
<1>8. ASSUME NEW c \in CPUs, NEW p \in Slots, yield(c, p)
     PROVE  PidInv'
  BY Zenon, <1>8 DEF yield, TypeOK, PidInv
<1>9. ASSUME NEW c \in CPUs, NEW p \in Slots, allocproc_kstack(c, p)
     PROVE  PidInv'
  <2>1. np[p] \in Slots /\ state[np[p]] = "EMBRYO"
    BY <1>9, Child, Zenon DEF allocproc_kstack, Forking
  <2>2. QED
    BY <1>9, <2>1, SMTT(90) DEF allocproc_kstack, TypeOK, PidInv
<1>10. ASSUME NEW c \in CPUs, NEW p \in Slots, fork_copyuvm(c, p)
     PROVE  PidInv'
  <2>1. np[p] \in Slots /\ state[np[p]] = "EMBRYO"
    BY Zenon, <1>10, Child DEF fork_copyuvm, Forking
  <2>2. QED
    BY <1>10, <2>1, SMTT(90) DEF fork_copyuvm, TypeOK, PidInv
<1>11. ASSUME NEW c \in CPUs, NEW p \in Slots, fork_runnable(c, p)
     PROVE  PidInv'
  <2>1. np[p] \in Slots /\ state[np[p]] = "EMBRYO"
    BY <1>11, Child, Zenon DEF fork_runnable, Forking
  <2>2. QED
    BY Zenon, <1>11, <2>1 DEF fork_runnable, TypeOK, PidInv
<1>12. ASSUME NEW c \in CPUs, NEW p \in Slots, wait_sleeps(c, p)
     PROVE  PidInv'
  BY Zenon, <1>12 DEF wait_sleeps, Waits, TypeOK, PidInv
<1>13. ASSUME NEW c \in CPUs, NEW p \in Slots, sleep(c, p)
     PROVE  PidInv'
  BY Zenon, <1>13 DEF sleep, TypeOK, PidInv
<1>14. ASSUME NEW c \in CPUs, NEW p \in Slots, NEW s \in Slots, alloc(c, p, s)
     PROVE  PidInv'
  BY <1>14, SMTT(90) DEF alloc, TypeOK, PidInv
<1>15. ASSUME NEW c \in CPUs, NEW p \in Slots, NEW s \in Slots, reap(c, p, s)
     PROVE  PidInv'
  BY <1>15, SMTT(90) DEF reap, Waits, TypeOK, PidInv
<1>16. ASSUME NEW c \in CPUs, NEW p \in Slots, NEW s \in Slots, kill_at(c, p, s)
     PROVE  PidInv'
  BY ZenonT(40), <1>16 DEF kill_at, TypeOK, PidInv
<1>17. ASSUME NEW c \in CPUs, NEW p \in Slots, NEW C \in SUBSET (Slots \cup {0}),
   exit_waking(c, p, C)
     PROVE  PidInv'
  BY Zenon, <1>17 DEF exit_waking, exit_locked, wakeup1, TypeOK, PidInv
<1>18. CASE Next
  BY Zenon, <1>18, NextCases, <1>2, <1>3, <1>4, <1>5, <1>6, <1>7, <1>8, <1>9, <1>10, <1>11,
     <1>12, <1>13, <1>14, <1>15, <1>16, <1>17
     DEF Cases
<1>19. QED
  BY Zenon, <1>1, <1>18 DEF vars

LEMMA TickStep ==
    ASSUME TypeOK, LockInv, TickLockInv, ForkInv, TickInv, [Next]_vars
    PROVE  TickInv'
<1> USE DEF table, cpuvars, Runs, Goto
<1>1. CASE UNCHANGED <<state, chan, intr, pc, left>>
  BY Zenon, <1>1 DEF TypeOK, TickInv, NoMissedTick
<1>2. ASSUME NEW c \in CPUs,
            \/ scheduler_acquire(c) \/ scan_ends(c) \/ sched(c)
     PROVE  TickInv'
  BY Zenon, <1>1, <1>2 DEF scheduler_acquire, scan_ends, sched
<1>3. ASSUME NEW c \in CPUs, timer(c)
     PROVE  TickInv'
  BY Zenon, <1>3, InitSlot DEF timer, preempt, Interruptible, TypeOK, TickInv, NoMissedTick
<1>4. ASSUME NEW c \in CPUs, tick(c)
     PROVE  TickInv'
  <2>1. \A q \in Slots : pc[q] # "block"
    BY <1>4, Zero, SMTT(90) DEF tick, LockInv, TickLockInv, Switch
  <2>2. QED
    BY Zenon, <1>4, <2>1 DEF tick, TypeOK, TickInv, NoMissedTick
<1>5. ASSUME NEW c \in CPUs, tick_wakeup(c)
     PROVE  TickInv'
  BY Zenon, <1>5, InitSlot DEF tick_wakeup, preempt, wakeup1, TypeOK, TickInv, NoMissedTick
<1>6. ASSUME NEW c \in CPUs, NEW p \in Slots, pick(c, p)
     PROVE  TickInv'
  BY Zenon, <1>6, InitSlot DEF pick, TypeOK, TickInv, NoMissedTick
<1>7. ASSUME NEW c \in CPUs, NEW p \in Slots, resume(c, p)
     PROVE  TickInv'
  BY Zenon, <1>7 DEF resume, TypeOK, TickInv, NoMissedTick, TickLockInv
<1>8. ASSUME NEW c \in CPUs, NEW p \in Slots, yield(c, p)
     PROVE  TickInv'
  BY Zenon, <1>8, InitSlot DEF yield, TypeOK, TickInv, NoMissedTick
<1>9. ASSUME NEW c \in CPUs, NEW p \in Slots, syscall(c, p)
     PROVE  TickInv'
  BY ZenonT(40), <1>9, InitSlot DEF syscall, TypeOK, TickInv, NoMissedTick
<1>10. ASSUME NEW c \in CPUs, NEW p \in Slots, trap_killed(c, p)
     PROVE  TickInv'
  BY Zenon, <1>10, InitSlot DEF trap_killed, TypeOK, TickInv, NoMissedTick
<1>11. ASSUME NEW c \in CPUs, NEW p \in Slots, NEW l, back_to(c, p, l)
     PROVE  TickInv'
  BY Zenon, <1>11, InitSlot DEF back_to, TypeOK, TickInv, NoMissedTick
<1>12. ASSUME NEW c \in CPUs, NEW p \in Slots, allocproc_kstack(c, p)
     PROVE  TickInv'
  <2>1. np[p] \in Slots /\ state[np[p]] = "EMBRYO"
    BY <1>12, Child, Zenon DEF allocproc_kstack, Forking
  <2>2. QED
    BY <1>12, <2>1, SMTT(90) DEF allocproc_kstack, TypeOK, TickInv, NoMissedTick
<1>13. ASSUME NEW c \in CPUs, NEW p \in Slots, fork_copyuvm(c, p)
     PROVE  TickInv'
  <2>1. np[p] \in Slots /\ state[np[p]] = "EMBRYO"
    BY Zenon, <1>13, Child DEF fork_copyuvm, Forking
  <2>2. QED
    BY <1>13, <2>1, SMTT(90) DEF fork_copyuvm, TypeOK, TickInv, NoMissedTick
<1>14. ASSUME NEW c \in CPUs, NEW p \in Slots, fork_runnable(c, p)
     PROVE  TickInv'
  <2>1. np[p] \in Slots /\ state[np[p]] = "EMBRYO"
    BY <1>14, Child, Zenon DEF fork_runnable, Forking
  <2>2. QED
    BY Zenon, <1>14, <2>1 DEF fork_runnable, TypeOK, TickInv, NoMissedTick
<1>15. ASSUME NEW c \in CPUs, NEW p \in Slots, wait_fails(c, p)
     PROVE  TickInv'
  BY Zenon, <1>15, InitSlot DEF wait_fails, Waits, TypeOK, TickInv, NoMissedTick
<1>16. ASSUME NEW c \in CPUs, NEW p \in Slots, wait_sleeps(c, p)
     PROVE  TickInv'
  BY Zenon, <1>16, InitSlot DEF wait_sleeps, Waits, TypeOK, TickInv, NoMissedTick
<1>17. ASSUME NEW c \in CPUs, NEW p \in Slots, sys_sleep_test(c, p)
     PROVE  TickInv'
  <2>1. left \in [Slots -> Int] /\ \A q \in Slots : left[q] >= 0
    BY ProcAssumption, SMTT(90) DEF TypeOK
  <2>2. QED
    BY <1>17, <2>1, SMTT(90) DEF sys_sleep_test, TypeOK, TickInv, NoMissedTick
<1>18. ASSUME NEW c \in CPUs, NEW p \in Slots, sleep(c, p)
     PROVE  TickInv'
  BY <1>18, InitSlot, SMTT(90) DEF sleep, TypeOK, TickInv, NoMissedTick
<1>19. ASSUME NEW c \in CPUs, NEW p \in Slots, sleep_wake(c, p)
     PROVE  TickInv'
  BY Zenon, <1>19, InitSlot DEF sleep_wake, TypeOK, TickInv, NoMissedTick
<1>20. ASSUME NEW c \in CPUs, NEW p \in Slots, sleep_relock(c, p)
     PROVE  TickInv'
  BY Zenon, <1>20, InitSlot DEF sleep_relock, TypeOK, TickInv, NoMissedTick
<1>21. ASSUME NEW c \in CPUs, NEW p \in Slots, NEW s \in Slots, alloc(c, p, s)
     PROVE  TickInv'
  BY Zenon, <1>21, InitSlot DEF alloc, TypeOK, TickInv, NoMissedTick
<1>22. ASSUME NEW c \in CPUs, NEW p \in Slots, NEW s \in Slots, reap(c, p, s)
     PROVE  TickInv'
  BY Zenon, <1>22, InitSlot DEF reap, Waits, TypeOK, TickInv, NoMissedTick
<1>23. ASSUME NEW c \in CPUs, NEW p \in Slots, NEW s \in Slots, kill_at(c, p, s)
     PROVE  TickInv'
  BY Zenon, <1>23, InitSlot DEF kill_at, TypeOK, TickInv, NoMissedTick
<1>24. ASSUME NEW c \in CPUs, NEW p \in Slots, NEW C \in SUBSET (Slots \cup {0}),
   exit_waking(c, p, C)
     PROVE  TickInv'
  BY Zenon, <1>24, InitSlot DEF exit_waking, exit_locked, wakeup1, TypeOK, TickInv,
     NoMissedTick
<1>25. ASSUME NEW c \in CPUs, NEW p \in Slots, NEW n \in 0 .. MaxSleep, sys_sleep(c, p, n)
     PROVE  TickInv'
  BY Zenon, <1>25, InitSlot DEF sys_sleep, TypeOK, TickInv, NoMissedTick
<1>26. CASE Next
  BY Zenon, <1>26, NextCases, <1>2, <1>3, <1>4, <1>5, <1>6, <1>7, <1>8, <1>9, <1>10, <1>11,
     <1>12, <1>13, <1>14, <1>15, <1>16, <1>17, <1>18, <1>19, <1>20, <1>21, <1>22,
     <1>23, <1>24, <1>25, SMTT(90)
     DEF Cases
<1>27. QED
  BY Zenon, <1>1, <1>26 DEF vars
-----------------------------------------------------------------------------
LEMMA ProcInvInit == Init => ProcInv
<1> SUFFICES ASSUME Init PROVE ProcInv
  BY Zenon
<1>1. TypeOK
  BY ProcAssumption, SMTT(90) DEF Init, TypeOK, Slots, CPUs, PCs, States
<1>2. LockInv /\ TickLockInv
  BY Zero, SMTT(90) DEF Init, LockInv, TickLockInv, Switch
<1>3. ForkInv /\ StackInv
  BY Zenon DEF Init, ForkInv, StackInv, Forking, At
<1>4. FamilyInv
  BY Zenon, InitSlot, Zero DEF Init, FamilyInv, ParentAlive, Alive
<1>5. NoMissedExit /\ TickInv
  BY Zenon DEF Init, NoMissedExit, TickInv, NoMissedTick
<1>6. PidInv
  BY DEF Init, PidInv
<1>7. QED
  BY Zenon, <1>1, <1>2, <1>3, <1>4, <1>5, <1>6 DEF ProcInv

LEMMA ProcInvStep == ProcInv /\ [Next]_vars => ProcInv'
<1> SUFFICES ASSUME ProcInv, [Next]_vars PROVE ProcInv'
  BY Zenon
<1> USE DEF ProcInv
<1>1. TypeOK'
  BY Zenon, TypeStep
<1>2. LockInv' /\ TickLockInv' /\ ForkInv'
  BY Zenon, LockStep, TickLockStep, ForkStep
<1>3. StackInv' /\ FamilyInv' /\ NoMissedExit'
  BY Zenon, StackStep, FamilyStep, MissedExitStep
<1>4. PidInv' /\ TickInv'
  BY Zenon, PidStep, TickStep
<1>5. QED
  BY Zenon, <1>1, <1>2, <1>3, <1>4

LEMMA ProcInvariant == Spec => []ProcInv
BY ProcInvInit, ProcInvStep, PTL DEF Spec

\* The fields of the process table, the locks and the CPUs keep their types:
\* a scan never leaves the table and a tick never counts below zero.
THEOREM TypeCorrect == Spec => []TypeOK
<1>1. ProcInv => TypeOK
  BY Zenon DEF ProcInv
<1>2. QED
  BY <1>1, ProcInvariant, PTL

\* The hand-off of ptable.lock between sched() and scheduler() keeps a process
\* on one CPU, whatever the number of CPUs, and kill(), wakeup() and wait() on
\* other CPUs cannot take a process that has not switched away.
THEOREM ProcessOnOneCpu == Spec => []OnOneCpu
<1>1. ProcInv => OnOneCpu
  BY SMTT(90) DEF ProcInv, TypeOK, LockInv, OnOneCpu
<1>2. QED
  BY <1>1, ProcInvariant, PTL

\* wait() never frees the stack a CPU runs on, and the failure paths of fork()
\* give the stack back before the slot.
THEOREM StacksOwned == Spec => []StackOwned
<1>1. ProcInv => StackOwned
  BY DEF ProcInv, TypeOK, LockInv, StackInv, StackOwned
<1>2. QED
  BY <1>1, ProcInvariant, PTL

\* Every child has a live parent, and no parent sleeps in wait() over a zombie:
\* exit() leaves no orphan and no missed wakeup, however many processes exit.
THEOREM FamilyIntact == Spec => []ChildrenReaped
<1>1. ProcInv => ChildrenReaped
  BY Zenon DEF ProcInv, FamilyInv, ChildrenReaped
<1>2. QED
  BY <1>1, ProcInvariant, PTL

\* sleep() loses no wakeup: it takes ptable.lock before it releases tickslock,
\* so no process sleeps on past the tick that ends its sleep, and sched() is
\* never entered with tickslock held.
THEOREM SleepersWoken == Spec => []SleepHandsOver
<1>1. ProcInv => NoMissedTick
  BY Zenon DEF ProcInv, TickInv
<1>2. ProcInv => SchedOneLock
  <2> SUFFICES ASSUME ProcInv, NEW c \in CPUs, cproc[c] # 0, state[cproc[c]] # "RUNNING",
                      tlock = c
               PROVE  FALSE
    BY Zenon DEF SchedOneLock
  <2>1. cproc[c] \in Slots /\ pc[cproc[c]] \in Switch /\ lock = c
    <3>1. cproc[c] \in Slots
      BY Zenon DEF ProcInv, TypeOK
    <3>2. QED
      BY Zenon, <3>1 DEF ProcInv, LockInv
  <2>2. QED
    BY Zenon, <2>1 DEF ProcInv, TickLockInv, Switch
<1>3. ProcInv => SleepHandsOver
  BY Zenon, <1>1, <1>2 DEF SleepHandsOver
<1>4. QED
  BY <1>3, ProcInvariant, PTL

\* allocproc() gives every process a pid of its own; this needs nextpid not to
\* overflow, which the model leaves unbounded.
THEOREM PidsUnique == Spec => []UniquePids
<1>1. ProcInv => UniquePids
  BY Zenon DEF ProcInv, PidInv, UniquePids
<1>2. QED
  BY <1>1, ProcInvariant, PTL
=============================================================================
