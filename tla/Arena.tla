--------------------------------- MODULE Arena ---------------------------------
(***************************************************************************)
(* The allocator of Assignment 6, starter/mymalloc.c: lists of blocks of   *)
(* three sizes, meant for one arena per processor.  curr_proc is           *)
(* get_nprocs(), the number of processors, so that all threads use one     *)
(* arena.  Threads copy the arena with its mutex: the lock that they take  *)
(* is their own, and only global_lock excludes anybody.                    *)
(*                                                                         *)
(* Addresses are bytes.  A pointer to a header counts in headers, as it    *)
(* does in C: header + BLOCK_SIZE is BLOCK_SIZE headers further on, which  *)
(* is outside of the block.  What the program then stores there is not     *)
(* modelled: the model is of calls, up to the first store that hits a      *)
(* header.                                                                 *)
(***************************************************************************)
EXTENDS Integers, Sequences, FiniteSets, FiniteSetsExt, Functions, TLC

CONSTANTS Threads,
          BLOCK_SIZE, LIST_SIZE, \* sizeof(block), sizeof(list)
          NBLOCKS,               \* NUM_64_BLOCKS and so on: blocks per list at the start
          BreakLimit,            \* limit of sbrk()
          Mappings,              \* addresses that mmap() may return
          MaxHeld                \* pointers that a thread has at a time

VARIABLES free_lists,            \* the arena: class -> address of its list
          list,                  \* lists: address -> [head, tail]
          block,                 \* headers: address -> [size, in_use, next]
          programbreak,
          g_lock_init, g_holder, \* global_lock: initialised, and held by
          arena_initializer,
          thr,                   \* threads: pc, s, free_list (the copy), header
          mine                   \* the pointers that mymalloc() gave to each thread

NULL == -1
Large == 4                       \* a request of more than 1024 bytes
Classes == 1..Large              \* 64, 256 and 1024 bytes are counted as 1, 2 and 3
arena == <<free_lists, list, block, programbreak>>
globals == <<g_lock_init, g_holder, arena_initializer>>
arvars == <<arena, globals, thr, mine>>

Pointer(header) == header + BLOCK_SIZE * BLOCK_SIZE
Header(ptr) == ptr - BLOCK_SIZE * BLOCK_SIZE

Jump(t, pc) == thr' = [thr EXCEPT ![t].pc = pc]

\* The blocks of a list in order, for the loops over it.
RECURSIVE Chain(_)
Chain(b) == IF b = NULL THEN <<>> ELSE <<b>> \o Chain(block[b].next)
Found(S) == IF S = <<>> THEN NULL ELSE S[1]

-----------------------------------------------------------------------------
mymalloc(t, s) ==
  /\ thr[t].pc = "idle" /\ Cardinality(mine[t]) < MaxHeld
  /\ thr' = [thr EXCEPT ![t].pc = "check", ![t].s = s]
  /\ UNCHANGED <<arena, globals, mine>>

\* if (g_lock_init == 0), without a lock.
check_lock(t) ==
  /\ thr[t].pc = "check" /\ Jump(t, IF g_lock_init = 0 THEN "init" ELSE "lock")
  /\ UNCHANGED <<arena, globals, mine>>

\* Initialising a mutex that is held frees it.
init_lock(t) ==
  /\ thr[t].pc = "init" /\ g_holder' = NULL /\ g_lock_init' = 1 /\ Jump(t, "lock")
  /\ UNCHANGED <<arena, arena_initializer, mine>>

lock_global(t) ==
  /\ thr[t].pc = "lock" /\ g_holder = NULL /\ g_holder' = t /\ Jump(t, "arena")
  /\ UNCHANGED <<arena, g_lock_init, arena_initializer, mine>>

\* if (arena_initializer == 0), with global_lock unless another thread freed it.
check_arena(t) ==
  /\ thr[t].pc = "arena"
  /\ IF arena_initializer = 0 THEN Jump(t, "build") /\ UNCHANGED g_holder
     ELSE Jump(t, "copy") /\ g_holder' = NULL
  /\ UNCHANGED <<arena, g_lock_init, arena_initializer, mine>>

\* initialize_arena(): a list for each class with NBLOCKS blocks behind it, all new;
\* the list of large blocks is empty.  Without memory for them a list is missing, and
\* using it ends the program.
Stride(c) == BLOCK_SIZE + c
ListBytes(c) == LIST_SIZE + IF c = Large THEN 0 ELSE NBLOCKS * Stride(c)
ListAt(c) == programbreak + MapThenSumSet(ListBytes, 1..(c - 1))
BlockAt(c, i) == ListAt(c) + LIST_SIZE + (i - 1) * Stride(c)
NewList(c) ==
  IF c = Large THEN [head |-> NULL, tail |-> NULL]
  ELSE [head |-> BlockAt(c, 1), tail |-> BlockAt(c, NBLOCKS)]
NewBlocks(c) ==
  [b \in {BlockAt(c, i) : i \in 1..NBLOCKS} |->
     [size |-> c, in_use |-> 0, next |-> IF b = BlockAt(c, NBLOCKS) THEN NULL ELSE b + Stride(c)]]
initialize_arena(t) ==
  /\ thr[t].pc = "build" /\ g_holder' = NULL /\ arena_initializer' = 1
  /\ IF ListAt(Large) + LIST_SIZE > BreakLimit THEN Jump(t, "segfault") /\ UNCHANGED arena
     ELSE /\ free_lists' = [c \in Classes |-> ListAt(c)]
          /\ list' = [l \in {ListAt(c) : c \in Classes} |->
                        NewList(CHOOSE c \in Classes : ListAt(c) = l)] @@ list
          /\ block' = NewBlocks(1) @@ NewBlocks(2) @@ NewBlocks(3) @@ block
          /\ programbreak' = ListAt(Large) + LIST_SIZE
          /\ Jump(t, "copy")
  /\ UNCHANGED <<g_lock_init, mine>>

\* arena free_list = free_lists[curr_proc]: the addresses of the lists, and a mutex of
\* its own, which is then locked.  A request of no bytes is refused here.
copy_arena(t) ==
  /\ thr[t].pc = "copy"
  /\ thr' = [thr EXCEPT ![t].pc = IF thr[t].s = 0 THEN "idle" ELSE "search",
                        ![t].free_list = IF thr[t].s = 0 THEN NULL ELSE free_lists[thr[t].s]]
  /\ UNCHANGED <<arena, globals, mine>>

\* A free block of the list of this size.
get_free_block(t) ==
  /\ thr[t].pc = "search"
  /\ LET free == SelectSeq(Chain(list[thr[t].free_list].head), LAMBDA b : block[b].in_use = 0)
     IN thr' = [thr EXCEPT ![t].header = Found(free),
                           ![t].pc = IF thr[t].s = Large THEN "mmap" ELSE "take"]
  /\ UNCHANGED <<arena, globals, mine>>

\* The call returns the pointer to a block.
Return(t, header) ==
  /\ mine' = [mine EXCEPT ![t] = @ \cup {Pointer(header)}]
  /\ thr' = [thr EXCEPT ![t] = [pc |-> "idle", s |-> 0, free_list |-> NULL, header |-> NULL]]

\* A block was found: mark it and return it.
take_block(t) ==
  /\ thr[t].pc = "take" /\ thr[t].header # NULL
  /\ block' = [block EXCEPT ![thr[t].header].in_use = 1]
  /\ Return(t, thr[t].header)
  /\ UNCHANGED <<free_lists, list, programbreak, globals>>

\* None was found: get_block() extends the heap under global_lock.  On failure the two
\* larger classes return NULL; the smallest writes through the pointer -1.
get_block(t) ==
  /\ thr[t].pc = "take" /\ thr[t].header = NULL /\ g_holder = NULL
  /\ IF programbreak + Stride(thr[t].s) > BreakLimit
     THEN Jump(t, IF thr[t].s = 1 THEN "segfault" ELSE "idle") /\ UNCHANGED arena
     ELSE /\ block' = programbreak :> [size |-> thr[t].s, in_use |-> 1, next |-> NULL] @@ block
          /\ programbreak' = programbreak + Stride(thr[t].s)
          /\ thr' = [thr EXCEPT ![t].header = programbreak, ![t].pc = "link"]
          /\ UNCHANGED <<free_lists, list>>
  /\ UNCHANGED <<globals, mine>>

\* A large block is mapped, and is in no list.
map_block(t) ==
  /\ thr[t].pc = "mmap"
  /\ \/ /\ Mappings \subseteq DOMAIN block /\ Jump(t, "idle") /\ UNCHANGED <<block, mine>>
     \/ \E header \in Mappings \ DOMAIN block :
          /\ block' = header :> [size |-> Large, in_use |-> 1, next |-> NULL] @@ block
          /\ Return(t, header)
  /\ UNCHANGED <<free_lists, list, programbreak, globals>>

\* The end of the list: tail->next = header, and then tail = header.
link_block(t) ==
  /\ thr[t].pc = "link"
  /\ LET l == list[thr[t].free_list]
     IN /\ list' = IF l.head = NULL THEN [list EXCEPT ![thr[t].free_list].head = thr[t].header]
                   ELSE list
        /\ block' = IF l.tail = NULL THEN block
                    ELSE [block EXCEPT ![l.tail].next = thr[t].header]
  /\ Jump(t, "tail") /\ UNCHANGED <<free_lists, programbreak, globals, mine>>

move_tail(t) ==
  /\ thr[t].pc = "tail"
  /\ list' = [list EXCEPT ![thr[t].free_list].tail = thr[t].header]
  /\ Return(t, thr[t].header)
  /\ UNCHANGED <<free_lists, block, programbreak, globals>>

\* myfree(), without a lock: a block is searched in the list of its size, and marked if
\* it is there; a large one is unmapped.
myfree(t, ptr) ==
  /\ thr[t].pc = "idle" /\ ptr \in mine[t]
  /\ mine' = [mine EXCEPT ![t] = @ \ {ptr}]
  /\ LET header == Header(ptr)
         size == block[header].size
     IN block' = IF size = Large THEN Restrict(block, DOMAIN block \ {header})
                 ELSE IF header \in Range(Chain(list[free_lists[size]].head))
                 THEN [block EXCEPT ![header].in_use = 0] ELSE block
  /\ UNCHANGED <<free_lists, list, programbreak, globals, thr>>

ArenaInit ==
  /\ free_lists = [c \in Classes |-> NULL] /\ list = <<>> /\ block = <<>> /\ programbreak = 0
  /\ g_lock_init = 0 /\ g_holder = NULL /\ arena_initializer = 0
  /\ thr = [t \in Threads |-> [pc |-> "idle", s |-> 0, free_list |-> NULL, header |-> NULL]]
  /\ mine = [t \in Threads |-> {}]

ArenaNext ==
  \E t \in Threads :
    \/ \E s \in 0..Large : mymalloc(t, s)
    \/ \E ptr \in mine[t] : myfree(t, ptr)
    \/ check_lock(t) \/ init_lock(t) \/ lock_global(t) \/ check_arena(t)
    \/ initialize_arena(t) \/ copy_arena(t) \/ get_free_block(t) \/ take_block(t)
    \/ get_block(t) \/ map_block(t) \/ link_block(t) \/ move_tail(t)

ArenaSpec == ArenaInit /\ [][ArenaNext]_arvars

-----------------------------------------------------------------------------
\* mymalloc() gives a block to one caller at a time.
GivenOnce == \A t, u \in Threads : t # u => mine[t] \cap mine[u] = {}
=============================================================================
