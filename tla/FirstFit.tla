------------------------------ MODULE FirstFit ------------------------------
(***************************************************************************)
(* The allocator of Assignment 5, Allocator/part1/mymalloc.c: a list of    *)
(* all blocks, first fit, no splitting.  global_lock makes each call one   *)
(* step.  Addresses are bytes, and pointers to headers count in headers,   *)
(* as they do in C: header + BLOCK_SIZE is BLOCK_SIZE headers further on.  *)
(* The model follows the program up to the first myfree() that returns     *)
(* memory to the system (cut).                                             *)
(***************************************************************************)
EXTENDS Integers, Sequences, Functions, SequencesExt, TLC

CONSTANTS BLOCK_SIZE,            \* sizeof(block)
          FitLimit,              \* limit of sbrk()
          Sizes

VARIABLES block,                 \* headers: address -> [size, in_use, next]
          first, fit_tail,       \* head and tail of the list
          programbreak,
          user,                  \* pointers that the program has
          cut                    \* whether memory was returned to the system

fitvars == <<block, first, fit_tail, programbreak, user, cut>>

NULL == -1

Pointer(header) == header + BLOCK_SIZE * BLOCK_SIZE
Header(ptr) == ptr - BLOCK_SIZE * BLOCK_SIZE

\* The list from a block on.
RECURSIVE BlocksFrom(_)
BlocksFrom(b) == IF b = NULL THEN <<>> ELSE <<b>> \o BlocksFrom(block[b].next)

find_block(s) ==
  SelectSeq(BlocksFrom(first), LAMBDA b : block[b].in_use = 0 /\ block[b].size >= s)

\* A block that fits is used again, whatever its size.
reuse(s) ==
  /\ find_block(s) # <<>>
  /\ LET header == Head(find_block(s))
     IN /\ block' = [block EXCEPT ![header].in_use = 1]
        /\ user' = user \cup {Pointer(header)}
  /\ UNCHANGED <<first, fit_tail, programbreak>>

\* A new block at the break, behind the tail; without memory NULL is returned.
extend(s, newtail) ==
  /\ find_block(s) = <<>> /\ programbreak + BLOCK_SIZE + s <= FitLimit
  /\ block' = programbreak :> [size |-> s, in_use |-> 1, next |-> NULL] @@
                (IF fit_tail = NULL THEN block ELSE [block EXCEPT ![fit_tail].next = programbreak])
  /\ first' = IF first = NULL THEN programbreak ELSE first
  /\ fit_tail' = newtail
  /\ programbreak' = programbreak + BLOCK_SIZE + s
  /\ user' = user \cup {Pointer(programbreak)}

\* A plausible slip: the tail is set for the first block only.
fit_malloc_tail(s) ==
  /\ ~cut /\ UNCHANGED cut
  /\ reuse(s) \/ extend(s, IF fit_tail = NULL THEN programbreak ELSE fit_tail)

fit_malloc(s) == ~cut /\ (reuse(s) \/ extend(s, programbreak)) /\ UNCHANGED cut

\* myfree() of a block that does not look like the last: it is marked only.
fit_free(ptr) ==
  /\ ~cut /\ user' = user \ {ptr}
  /\ LET header == Header(ptr)
     IN IF ptr + block[header].size # programbreak
        THEN /\ block' = [block EXCEPT ![header].in_use = 0]
             /\ UNCHANGED <<first, fit_tail, programbreak, cut>>
        ELSE /\ cut' = TRUE
             /\ programbreak' = programbreak - BLOCK_SIZE - block[header].size
             /\ IF first = fit_tail
                THEN first' = NULL /\ fit_tail' = NULL /\ UNCHANGED block
                ELSE LET list == BlocksFrom(first)
                         last == list[Len(list) - 1]
                     IN fit_tail' = last /\ block' = [block EXCEPT ![last].next = NULL]
                        /\ UNCHANGED first

FitInit ==
  /\ block = <<>> /\ first = NULL /\ fit_tail = NULL
  /\ programbreak = 0 /\ user = {} /\ cut = FALSE

FitNext == (\E s \in Sizes : fit_malloc(s)) \/ (\E ptr \in user : fit_free(ptr))

FitSpec == FitInit /\ [][FitNext]_fitvars

-----------------------------------------------------------------------------
\* The list keeps track of the whole heap: until myfree() returns memory, the blocks
\* from head to fit_tail lie end to end up to the break, and a block is in use exactly
\* when the program has the pointer to it.
BlocksTracked ==
  LET list == BlocksFrom(first) IN
  ~cut =>
    /\ IF list = <<>> THEN programbreak = 0 /\ fit_tail = NULL
       ELSE list[1] = 0 /\ fit_tail = list[Len(list)]
    /\ \A i \in DOMAIN list :
         LET end == list[i] + BLOCK_SIZE + block[list[i]].size
         IN end = IF i = Len(list) THEN programbreak ELSE list[i + 1]
    /\ user = {Pointer(b) : b \in {b \in Range(list) : block[b].in_use = 1}}
=============================================================================
