------------------------------- MODULE MCKernel -------------------------------
(***************************************************************************)
(* Components of the kernel that share no state here: file contents,       *)
(* memory, and the space of the log, for three processes that do not fit   *)
(* into it at once.  `part` says which of them moves; the variables of the *)
(* others stay as they begin (those of file contents and memory are then   *)
(* 0), so that the three state spaces are explored side by side and are    *)
(* not multiplied.                                                         *)
(***************************************************************************)
EXTENDS Log

VARIABLES
  part,
  bitmap, blk, saved_inode, inode, ilocked, file, fd, wp, mk, panicked, want,           \* FileData
  free, boot, kpgdir, slot, parent, kstack, cur, sz, new, task, leaked                  \* Vm

\* mkfs and two writers, who have a file each or share one.
Data == INSTANCE FileData WITH
  Writers <- {1, 2}, Inodes <- 1..4, FSSIZE <- 9, BSIZE <- 2, NDIRECT <- 1, MAXOPBLOCKS <- 6,
  WriteLens <- {5}, Opened <- {2, 3}, ImageLens <- {1}

\* Three processes that fork, sbrk() by 3 and -2 bytes and exec a program of two
\* segments in 22 frames.
Memory == INSTANCE Vm WITH
  NSlot <- 3, PGSIZE <- 2, NPTE <- 2, NPDE <- 3, KernEnd <- 3, KernSplit <- 10, PHYSTOP <- 48,
  Growths <- {3, -2}, Programs <- {<<2, 5>>}

ASSUME Data!RootNotFull /\ Data!OneBlockPerOp /\ Memory!BootLayout

-----------------------------------------------------------------------------
datavars == <<bitmap, blk, saved_inode, inode, ilocked, file, fd, wp, mk, panicked, want>>
memvars == <<free, boot, kpgdir, slot, parent, kstack, cur, sz, new, task, leaked>>

\* The variables of a component that does not move.
NoData == /\ bitmap = 0 /\ blk = 0 /\ saved_inode = 0 /\ inode = 0 /\ ilocked = 0 /\ file = 0
          /\ fd = 0 /\ wp = 0 /\ mk = 0 /\ panicked = 0 /\ want = 0
NoMemory == /\ free = 0 /\ boot = 0 /\ kpgdir = 0 /\ slot = 0 /\ parent = 0 /\ kstack = 0
            /\ cur = 0 /\ sz = 0 /\ new = 0 /\ task = 0 /\ leaked = 0

KernelInit ==
  /\ Init
  /\ \/ part = "data" /\ Data!DataInit /\ NoMemory
     \/ part = "memory" /\ Memory!VmInit /\ NoData
     \/ part = "log" /\ NoData /\ NoMemory

DataStep == part = "data" /\ Data!DataNext /\ UNCHANGED <<part, memvars, vars>>
MemoryStep == part = "memory" /\ Memory!VmNext /\ UNCHANGED <<part, datavars, vars>>
LogStep == part = "log" /\ Next /\ UNCHANGED <<part, datavars, memvars>>

KernelNext == DataStep \/ MemoryStep \/ LogStep

KernelSpec == KernelInit /\ [][KernelNext]_<<part, datavars, memvars, vars>>

-----------------------------------------------------------------------------
(* The properties of the components that are instances here.               *)

\* balloc(), bfree(), iupdate(): the image and its inodes are sound.
ImageSound == part = "data" => Data!ImageSound

\* readi(), writei(): a file holds what was written to it.
ContentsRight == part = "data" => Data!ContentsRight

\* filewrite(): a transaction writes fewer than MAXOPBLOCKS blocks, without panics.
WritesFit == part = "data" => Data!WritesFit

\* kalloc(), kfree(): every frame is free, has one owner, or was leaked by copyuvm().
MemorySound == part = "memory" => Memory!MemorySound

\* growproc(), exec(), fork(): a process has the pages that it should have.
PagesRight == part = "memory" => Memory!PagesRight
=============================================================================
