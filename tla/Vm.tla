--------------------------------- MODULE Vm ---------------------------------
(***************************************************************************)
(* Physical memory and address spaces: kalloc.c, vm.c, exec.c and what     *)
(* fork(), exit(), wait() and sbrk() do with memory.                       *)
(*                                                                         *)
(* kalloc() and kfree() are atomic (kmem.lock), and every kalloc() is a    *)
(* step of its own, so that processes compete for the last frames at any   *)
(* point of a loop.  Frees only add frames; those of one deallocuvm() or   *)
(* freevm() are one step.  Frames have no names: free counts those on the  *)
(* free list, and the others are counted where they are used.  A frame     *)
(* that is freed twice, or freed and still used, or lost, makes the sum    *)
(* wrong.  An address space tells which of its frames are there: the       *)
(* directory, the page table of the kernel's half (one stands for all),    *)
(* the page tables of the user's half and the user's pages.                *)
(***************************************************************************)
EXTENDS Integers, FiniteSets, FiniteSetsExt, Sequences

CONSTANTS NSlot,        \* size of the process table; process 1 is init
          PGSIZE,       \* addresses in a page
          NPTE,         \* entries of a page table
          NPDE,         \* page tables of the user half
          KernEnd,      \* the address after the kernel's image
          KernSplit,        \* end of the memory that entrypgdir maps
          PHYSTOP,      \* end of physical memory
          Growths,      \* arguments of sbrk()
          Programs      \* the ends (vaddr + memsz) of the segments of a program

VARIABLES free,         \* the number of frames on kmem.freelist
          boot,         \* progress of main()
          kpgdir,       \* the kernel's own address space
          slot,         \* UNUSED, EMBRYO, USED or ZOMBIE
          parent,       \* p->parent
          kstack,       \* whether the slot has a kernel stack
          cur,          \* p->pgdir
          sz,           \* p->sz
          new,          \* the address space that copyuvm() or exec() builds
          task,           \* where a process is in its call, with its locals
          leaked        \* history: the number of frames that copyuvm() forgot

vmvars == <<free, boot, kpgdir, slot, parent, kstack, cur, sz, new, task, leaked>>

ProcSlots == 1..NSlot
Init1 == 1
Pages == 0..(NPDE * NPTE - 1)
PDXs == 0..(NPDE - 1)
KERNBASE == NPDE * NPTE * PGSIZE
PGROUNDUP(a) == ((a + PGSIZE - 1) \div PGSIZE) * PGSIZE
PageOf(a) == a \div PGSIZE
PDX(a) == PageOf(a) \div NPTE

\* A place of an address space: without a frame, or with one.
Absent == 0
There == 1

NoSpace == [dir |-> Absent, kpt |-> Absent, tab |-> [d \in PDXs |-> Absent],
            page |-> [g \in Pages |-> Absent], guard |-> {}]
Ready == [pc |-> "user"]

\* kinit1() takes whole frames, and kinit2() the rest.
BootLayout == KernSplit % PGSIZE = 0 /\ KernEnd <= KernSplit /\ KernSplit <= PHYSTOP

-----------------------------------------------------------------------------
\* freerange(): the number of whole frames in a range of memory.
freerange(start, end) == Max({0, end - PGROUNDUP(start)}) \div PGSIZE

kalloc == free > 0 /\ free' = free - 1
kfree(n) == free' = free + n

\* The user pages of s from address lo to address hi that are there.
UserPages(s, lo, hi) ==
  {g \in Pages : s.page[g] # Absent /\ PGROUNDUP(lo) <= g * PGSIZE /\ g * PGSIZE < hi}

\* deallocuvm(s, oldsz, newsz): the space without these pages.
Unmapped(s, oldsz, newsz) ==
  [s EXCEPT !.page = [g \in Pages |->
              IF g \in UserPages(s, newsz, oldsz) THEN Absent ELSE @[g]],
            !.guard = @ \ UserPages(s, newsz, oldsz)]

Present(b) == IF b = Absent THEN 0 ELSE 1
Tables(s) == Cardinality({d \in PDXs : s.tab[d] # Absent}) + Present(s.kpt)

\* A plausible slip: freevm() frees the pages and the directory, not the tables.
freevm_no_tables(s) == Cardinality(UserPages(s, 0, KERNBASE)) + Present(s.dir)

\* freevm(): the number of frames that it frees.
freevm(s) == Cardinality(UserPages(s, 0, KERNBASE)) + Tables(s) + Present(s.dir)

-----------------------------------------------------------------------------
\* main(): kinit1(), kvmalloc(), kinit2(), and userinit(), which does not test
\* what kalloc() returns.
kinit1 ==
  /\ boot = "kinit1"
  /\ kfree(freerange(KernEnd, KernSplit))
  /\ boot' = "kvmalloc"
  /\ UNCHANGED <<kpgdir, slot, parent, kstack, cur, sz, new, task, leaked>>

kvmalloc ==
  /\ boot = "kvmalloc"
  /\ kpgdir' = [NoSpace EXCEPT !.dir = There, !.kpt = There]
  /\ free' = free - 2
  /\ boot' = "kinit2"
  /\ UNCHANGED <<slot, parent, kstack, cur, sz, new, task, leaked>>

kinit2 ==
  /\ boot = "kinit2"
  /\ kfree(freerange(KernSplit, PHYSTOP))
  /\ boot' = "userinit"
  /\ UNCHANGED <<kpgdir, slot, parent, kstack, cur, sz, new, task, leaked>>

\* userinit() with allocproc(), setupkvm() and inituvm().
userinit ==
  /\ boot = "userinit"
  /\ kstack' = [kstack EXCEPT ![Init1] = 1]
  /\ cur' = [cur EXCEPT ![Init1] = [NoSpace EXCEPT !.dir = There, !.kpt = There,
                                      !.tab[0] = There, !.page[0] = There]]
  /\ free' = free - 5
  /\ slot' = [slot EXCEPT ![Init1] = "USED"]
  /\ sz' = [sz EXCEPT ![Init1] = PGSIZE]
  /\ boot' = "done"
  /\ UNCHANGED <<kpgdir, parent, new, task, leaked>>

-----------------------------------------------------------------------------
User(p) == boot = "done" /\ slot[p] = "USED" /\ task[p].pc = "user"
Here(p, pc) == slot[p] = "USED" /\ task[p].pc = pc
Onto(p, pc) == task' = [task EXCEPT ![p].pc = pc]

\* fork(): allocproc() takes a slot and a stack; without a frame it gives up.
sys_fork(p) ==
  /\ User(p) /\ kalloc
  /\ LET np == Min({q \in ProcSlots : slot[q] = "UNUSED"})
     IN /\ \E q \in ProcSlots : slot[q] = "UNUSED"
        /\ slot' = [slot EXCEPT ![np] = "EMBRYO"]
        /\ kstack' = [kstack EXCEPT ![np] = 1]
        /\ task' = [task EXCEPT ![p] =
                     [pc |-> "dir", why |-> "fork", a |-> 0, np |-> np, mem |-> 0]]
  /\ UNCHANGED <<boot, kpgdir, parent, cur, sz, new, leaked>>

\* exec() of a program that namei() and readi() found to be one.
sys_exec(p) ==
  /\ User(p)
  /\ \E prog \in Programs :
       task' = [task EXCEPT ![p] = [pc |-> "dir", why |-> "exec", segs |-> prog, oldsz |-> 0,
                                newsz |-> 0, a |-> 0, mem |-> 0]]
  /\ UNCHANGED <<free, boot, kpgdir, slot, parent, kstack, cur, sz, new, leaked>>

\* The failure exits of fork() and exec(): what was built is freed with freevm(),
\* fork() also frees the stack and the slot.  mem frames in hand are freed too,
\* lost frames are forgotten.
GiveUp(p, mem, lost) ==
  LET embryo == IF task[p].why = "fork" THEN 1 ELSE 0
  IN /\ kfree(freevm(new[p]) + embryo + mem)
     /\ leaked' = leaked + lost
     /\ new' = [new EXCEPT ![p] = NoSpace]
     /\ task' = [task EXCEPT ![p] = Ready]
     /\ IF task[p].why = "fork"
        THEN /\ slot' = [slot EXCEPT ![task[p].np] = "UNUSED"]
             /\ kstack' = [kstack EXCEPT ![task[p].np] = 0]
        ELSE UNCHANGED <<slot, kstack>>
     /\ UNCHANGED <<boot, kpgdir, parent, cur, sz>>

\* setupkvm(): the directory, then the kernel's page tables.
setupkvm_dir(p) ==
  /\ Here(p, "dir")
  /\ \/ free = 0 /\ GiveUp(p, 0, 0)
     \/ /\ kalloc
        /\ new' = [new EXCEPT ![p].dir = There]
        /\ Onto(p, "kpt")
        /\ UNCHANGED <<boot, kpgdir, slot, parent, kstack, cur, sz, leaked>>

setupkvm_tab(p) ==
  /\ Here(p, "kpt")
  /\ \/ free = 0 /\ GiveUp(p, 0, 0)
     \/ /\ kalloc
        /\ new' = [new EXCEPT ![p].kpt = There]
        /\ Onto(p, IF task[p].why = "fork" THEN "copy" ELSE "seg")
        /\ UNCHANGED <<boot, kpgdir, slot, parent, kstack, cur, sz, leaked>>

\* The loop of copyuvm(): a frame for the copy of the page at address a.
copyuvm_page(p) ==
  /\ Here(p, "copy") /\ task[p].a < sz[p]
  /\ \/ free = 0 /\ GiveUp(p, 0, 0)
     \/ /\ kalloc
        /\ task' = [task EXCEPT ![p].pc = "copymap", ![p].mem = cur[p].page[PageOf(task[p].a)]]
        /\ UNCHANGED <<boot, kpgdir, slot, parent, kstack, cur, sz, new, leaked>>

\* mappages() of the frame mem at address a of s: walkpgdir() allocates the page
\* table where it is missing, and fails when it cannot.
NeedsTable(s, a) == s.tab[PDX(a)] = Absent
MapFails(s, a) == NeedsTable(s, a) /\ free = 0
Mapped(s, a, mem) == [s EXCEPT !.tab[PDX(a)] = There, !.page[PageOf(a)] = mem]
walkpgdir(s, a) == IF NeedsTable(s, a) THEN kalloc ELSE UNCHANGED free

\* The copy is mapped with the flags of the original.  When mappages() fails,
\* copyuvm() frees what it has mapped and forgets the frame it holds.
copyuvm_map(p) ==
  /\ Here(p, "copymap")
  /\ LET a == task[p].a
     IN IF MapFails(new[p], a) THEN GiveUp(p, 0, 1)
        ELSE /\ walkpgdir(new[p], a)
             /\ new' = [new EXCEPT ![p] = [Mapped(@, a, task[p].mem) EXCEPT
                                             !.guard = @ \cup (cur[p].guard \cap {PageOf(a)})]]
             /\ task' = [task EXCEPT ![p].pc = "copy", ![p].mem = Absent, ![p].a = a + PGSIZE]
             /\ UNCHANGED <<boot, kpgdir, slot, parent, kstack, cur, sz, leaked>>

\* copyuvm() is done: the child gets the space and runs.
fork_done(p) ==
  /\ Here(p, "copy") /\ task[p].a >= sz[p]
  /\ LET np == task[p].np
     IN /\ cur' = [cur EXCEPT ![np] = new[p]]
        /\ sz' = [sz EXCEPT ![np] = sz[p]]
        /\ parent' = [parent EXCEPT ![np] = p]
        /\ slot' = [slot EXCEPT ![np] = "USED"]
        /\ task' = [task EXCEPT ![p] = Ready, ![np] = Ready]
  /\ new' = [new EXCEPT ![p] = NoSpace]
  /\ UNCHANGED <<free, boot, kpgdir, kstack, leaked>>

-----------------------------------------------------------------------------
(***************************************************************************)
(* allocuvm(), called by sbrk() on the process's own space and by exec()   *)
(* on the one that it builds.                                              *)
(***************************************************************************)
Target(p) == IF task[p].why = "grow" THEN cur[p] ELSE new[p]
SetTarget(p, s) ==
  IF task[p].why = "grow" THEN cur' = [cur EXCEPT ![p] = s] /\ UNCHANGED new
  ELSE new' = [new EXCEPT ![p] = s] /\ UNCHANGED cur

\* sys_sbrk() and growproc() with n > 0: a size from KERNBASE on fails.
sbrk_grow(p) ==
  /\ User(p)
  /\ \E n \in {n \in Growths : n > 0 /\ sz[p] + n < KERNBASE} :
       task' = [task EXCEPT ![p] = [pc |-> "alloc", why |-> "grow", oldsz |-> sz[p],
                                newsz |-> sz[p] + n, a |-> PGROUNDUP(sz[p]), mem |-> 0]]
  /\ UNCHANGED <<free, boot, kpgdir, slot, parent, kstack, cur, sz, new, leaked>>

\* deallocuvm() of the process's own space down to newsz.
Shrink(p, newsz) ==
  /\ kfree(Cardinality(UserPages(cur[p], newsz, sz[p])))
  /\ cur' = [cur EXCEPT ![p] = Unmapped(@, sz[p], newsz)]

\* growproc() with n < 0.  A process that gives back everything keeps its size,
\* because growproc() takes the new size 0 for a failure; it faults when it
\* returns to its program.  A larger n wraps around, and nothing happens.
sbrk_shrink(p) ==
  /\ User(p) /\ p # Init1
  /\ \E n \in {n \in Growths : n < 0 /\ sz[p] + n >= 0} :
       /\ Shrink(p, sz[p] + n)
       /\ sz' = IF sz[p] + n = 0 THEN sz ELSE [sz EXCEPT ![p] = @ + n]
       /\ task' = IF sz[p] + n = 0 THEN [task EXCEPT ![p] = [pc |-> "fault"]] ELSE task
  /\ UNCHANGED <<boot, kpgdir, slot, parent, kstack, new, leaked>>

\* allocuvm() fails: the pages that it added (from address lo on) are freed, with
\* the frame in hand; exec() then frees the rest.
Undo(p, lo, mem) ==
  \/ task[p].why = "exec" /\ GiveUp(p, mem, 0)
  \/ /\ task[p].why = "grow"
     /\ kfree(Cardinality(UserPages(cur[p], lo, task[p].newsz)) + mem)
     /\ cur' = [cur EXCEPT ![p] = Unmapped(@, task[p].newsz, lo)]
     /\ task' = [task EXCEPT ![p] = Ready]
     /\ UNCHANGED <<boot, kpgdir, slot, parent, kstack, sz, new, leaked>>

\* A plausible slip: the pages of a growth that fails half way stay.
AllocFails_keeps(p, mem) == Undo(p, task[p].newsz, mem)

AllocFails(p, mem) == Undo(p, task[p].oldsz, mem)

\* The frame for the next page.
allocuvm_page(p) ==
  /\ Here(p, "alloc") /\ task[p].a < task[p].newsz
  /\ \/ free = 0 /\ AllocFails(p, 0)
     \/ /\ kalloc
        /\ task' = [task EXCEPT ![p].pc = "allocmap", ![p].mem = There]
        /\ UNCHANGED <<boot, kpgdir, slot, parent, kstack, cur, sz, new, leaked>>

\* mappages() of the frame; its failure exit frees the frame.
allocuvm_map(p) ==
  /\ Here(p, "allocmap")
  /\ IF MapFails(Target(p), task[p].a) THEN AllocFails(p, 1)
     ELSE /\ walkpgdir(Target(p), task[p].a)
          /\ SetTarget(p, Mapped(Target(p), task[p].a, task[p].mem))
          /\ task' = [task EXCEPT ![p].pc = "alloc", ![p].mem = Absent, ![p].a = @ + PGSIZE]
          /\ UNCHANGED <<boot, kpgdir, slot, parent, kstack, sz, leaked>>

growproc_done(p) ==
  /\ Here(p, "alloc") /\ task[p].why = "grow" /\ task[p].a >= task[p].newsz
  /\ sz' = [sz EXCEPT ![p] = task[p].newsz]
  /\ task' = [task EXCEPT ![p] = Ready]
  /\ UNCHANGED <<free, boot, kpgdir, slot, parent, kstack, cur, new, leaked>>

\* The loop of exec() over the segments.  allocuvm() to a size below the present
\* one adds nothing; one that reaches the kernel, or a malformed header, is the
\* end of exec().  After the last segment come the guard page and the stack.
exec_segment(p) ==
  /\ Here(p, "seg")
  /\ LET old == task[p].newsz
         top == IF task[p].segs = <<>> THEN PGROUNDUP(old) + 2 * PGSIZE ELSE Head(task[p].segs)
     IN \/ GiveUp(p, 0, 0)
        \/ /\ top < KERNBASE
           /\ task' = [task EXCEPT ![p].pc = "alloc", ![p].oldsz = old, ![p].a = PGROUNDUP(old),
                               ![p].newsz = Max({top, old})]
           /\ UNCHANGED <<free, boot, kpgdir, slot, parent, kstack, cur, sz, new, leaked>>

\* A segment's pages are there: loaduvm() fills them or fails.
exec_load(p) ==
  /\ Here(p, "alloc") /\ task[p].why = "exec" /\ task[p].segs # <<>> /\ task[p].a >= task[p].newsz
  /\ \/ GiveUp(p, 0, 0)
     \/ /\ task' = [task EXCEPT ![p].pc = "seg", ![p].segs = Tail(@)]
        /\ UNCHANGED <<free, boot, kpgdir, slot, parent, kstack, cur, sz, new, leaked>>

\* The page at address a is out of the program's reach.
clearpteu(s, a) == [s EXCEPT !.guard = @ \cup {PageOf(a)}]

\* The stack is there: clearpteu(), the arguments (copyout() fails where they do
\* not fit the stack's page), and the switch to the new space.
exec_commit(p) ==
  /\ Here(p, "alloc") /\ task[p].why = "exec" /\ task[p].segs = <<>> /\ task[p].a >= task[p].newsz
  /\ \/ GiveUp(p, 0, 0)
     \/ /\ kfree(freevm(cur[p]))
        /\ cur' = [cur EXCEPT ![p] = clearpteu(new[p], task[p].newsz - 2 * PGSIZE)]
        /\ sz' = [sz EXCEPT ![p] = task[p].newsz]
        /\ new' = [new EXCEPT ![p] = NoSpace]
        /\ task' = [task EXCEPT ![p] = Ready]
        /\ UNCHANGED <<boot, kpgdir, slot, parent, kstack, leaked>>

\* exit(), of a process's own accord or after a fault; memory stays until wait().
exit_vm(p) ==
  /\ p # Init1 /\ slot[p] = "USED" /\ task[p].pc \in {"user", "fault"}
  /\ slot' = [slot EXCEPT ![p] = "ZOMBIE"]
  /\ parent' = [q \in ProcSlots |-> IF parent[q] = p THEN Init1 ELSE parent[q]]
  /\ task' = [task EXCEPT ![p] = Ready]
  /\ UNCHANGED <<free, boot, kpgdir, kstack, cur, sz, new, leaked>>

\* wait() frees the child's stack and space.
wait_vm(p) ==
  /\ User(p)
  /\ \E q \in ProcSlots :
       /\ slot[q] = "ZOMBIE" /\ parent[q] = p
       /\ kfree(freevm(cur[q]) + 1)
       /\ kstack' = [kstack EXCEPT ![q] = 0]
       /\ cur' = [cur EXCEPT ![q] = NoSpace]
       /\ sz' = [sz EXCEPT ![q] = 0]
       /\ parent' = [parent EXCEPT ![q] = 0]
       /\ slot' = [slot EXCEPT ![q] = "UNUSED"]
  /\ UNCHANGED <<boot, kpgdir, new, task, leaked>>

-----------------------------------------------------------------------------
VmInit ==
  /\ free = 0 /\ leaked = 0
  /\ boot = "kinit1" /\ kpgdir = NoSpace
  /\ slot = [p \in ProcSlots |-> "UNUSED"]
  /\ parent = [p \in ProcSlots |-> 0] /\ kstack = [p \in ProcSlots |-> 0]
  /\ cur = [p \in ProcSlots |-> NoSpace] /\ new = [p \in ProcSlots |-> NoSpace]
  /\ sz = [p \in ProcSlots |-> 0]
  /\ task = [p \in ProcSlots |-> Ready]

VmNext ==
  \/ kinit1 \/ kvmalloc \/ kinit2 \/ userinit
  \/ \E p \in ProcSlots :
       \/ sys_fork(p) \/ setupkvm_dir(p) \/ setupkvm_tab(p)
       \/ copyuvm_page(p) \/ copyuvm_map(p) \/ fork_done(p)
       \/ sbrk_grow(p) \/ sbrk_shrink(p) \/ growproc_done(p)
       \/ allocuvm_page(p) \/ allocuvm_map(p)
       \/ sys_exec(p) \/ exec_segment(p) \/ exec_load(p) \/ exec_commit(p)
       \/ exit_vm(p) \/ wait_vm(p)

VmSpec == VmInit /\ [][VmNext]_vmvars

-----------------------------------------------------------------------------
\* The frames of p's spaces, its stack, and the frame in its variable mem.
Frames(s) == Cardinality({g \in Pages : s.page[g] # Absent}) + Tables(s) + Present(s.dir)
Held(p) ==
  Frames(cur[p]) + Frames(new[p]) + kstack[p] +
  (IF task[p].pc \in {"copymap", "allocmap"} THEN 1 ELSE 0)

\* Types; a process never reaches into the kernel's half.
VmTypeOK ==
  /\ free \in Nat /\ leaked \in Nat
  /\ slot \in [ProcSlots -> {"UNUSED", "EMBRYO", "USED", "ZOMBIE"}]
  /\ \A p \in ProcSlots : sz[p] \in 0..(KERNBASE - 1) /\ kstack[p] \in {0, 1}

\* kalloc() and kfree() against all of their callers: after boot the free frames,
\* those that copyuvm() forgot and those in use (the kernel's page table, stacks,
\* address spaces, spaces that are being built, a frame in the hands of a call)
\* are the whole frames between the kernel's image and the end of memory.  No
\* failure exit frees a frame twice or loses another one.
FramesConserved ==
  boot = "done" =>
    free + leaked + Frames(kpgdir) + FoldSet(LAMBDA p, n : n + Held(p), 0, ProcSlots)
      = (PHYSTOP - PGROUNDUP(KernEnd)) \div PGSIZE

\* A process's pages are exactly those below p->sz, also after a failed sbrk() or
\* exec() and while exec() builds another space: copyuvm() meets no missing page.
\* The exception is a process that shrank to nothing, which cannot go on.
SizeMapped ==
  boot = "done" =>
    \A p \in ProcSlots : slot[p] = "USED" /\ task[p].pc # "fault" =>
      LET growing == task[p].pc \in {"alloc", "allocmap"} /\ task[p].why = "grow"
          top == IF growing THEN Max({task[p].a, sz[p]}) ELSE sz[p]
      IN \A g \in Pages : cur[p].page[g] # Absent <=> g * PGSIZE < top

\* While fork() copies, the part that is copied has the parent's pages and flags:
\* the page under the child's stack is closed to the user as the parent's is.
CopyFaithful ==
  \A p \in ProcSlots : task[p].pc \in {"copy", "copymap"} =>
    \A g \in Pages : g * PGSIZE < task[p].a =>
      /\ new[p].page[g] = Absent <=> cur[p].page[g] = Absent
      /\ g \in new[p].guard <=> g \in cur[p].guard

\* Memory is accounted for: processes and page tables have their types, and
\* kalloc() and kfree() neither lose a frame nor give one out twice.
MemorySound == VmTypeOK /\ FramesConserved

\* growproc(), exec() and fork() leave every process the pages it should have:
\* those below its size and no others, and in a child the parent's, with its
\* guard page.
PagesRight == SizeMapped /\ CopyFaithful
=============================================================================
