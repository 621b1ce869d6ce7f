-------------------------------- MODULE Umalloc --------------------------------
(***************************************************************************)
(* The user library's allocator, umalloc.c: a circular list of free blocks *)
(* in address order, with roving start.  Addresses and sizes are in        *)
(* headers; a header is UNIT bytes.  The list starts at the static base,   *)
(* which lies below the heap.                                              *)
(***************************************************************************)
EXTENDS Integers, FiniteSets, Functions, TLC

CONSTANTS UNIT, NALLOC, HeapEnd,       \* bytes of a header, least extension, limit of sbrk()
          Requests, MaxBlocks          \* sizes asked for, blocks held at a time

VARIABLES hdr,                         \* headers: address -> [ptr, size]
          freep,                       \* where the next search starts; NoList before the first
          brk,                         \* the break
          held,                        \* the program's blocks: [at, bytes]
          granted,                       \* their number, counted call by call (history)
          foreign                      \* units that the program got from sbrk() itself

umvars == <<hdr, freep, brk, held, granted, foreign>>

BaseAt == 0
NoList == -1

\* The place in the list after which bp belongs.
RECURSIVE Before(_, _, _)
Before(h, p, bp) ==
  LET q == h[p].ptr
  IN IF bp > p /\ bp < q THEN p
     ELSE IF p >= q /\ (bp > p \/ bp < q) THEN p
     ELSE Before(h, q, bp)

\* free(): put bp behind p, joined with the block after and the block before it
\* when they touch; joins says whether to look before.  The header of a block that
\* was joined is no header any more.
put_back(h, start, bp, joins) ==
  LET p == Before(h, start, bp)
      q == h[p].ptr
      mine == IF bp + h[bp].size = q
              THEN [ptr |-> h[q].ptr, size |-> h[bp].size + h[q].size]
              ELSE [ptr |-> q, size |-> h[bp].size]
      joined == joins /\ p + h[p].size = bp
      gone == (IF bp + h[bp].size = q THEN {q} ELSE {}) \cup (IF joined THEN {bp} ELSE {})
      list == IF joined
              THEN [h EXCEPT ![p] = [ptr |-> mine.ptr, size |-> @.size + mine.size]]
              ELSE [h EXCEPT ![bp] = mine, ![p].ptr = bp]
  IN [freep |-> p, hdr |-> Restrict(list, DOMAIN h \ gone)]

\* A plausible slip: no look at the block before.
put_back_apart(h, start, bp) == put_back(h, start, bp, FALSE)

free_into(h, start, bp) == put_back(h, start, bp, TRUE)

\* morecore(): at least NALLOC units, given to free().
morecore(h, start, at, nu) ==
  free_into(at :> [ptr |-> 0, size |-> nu] @@ h, start, at)

NoMemory == [hdr |-> <<>>, freep |-> NoList, brk |-> 0, got |-> NoList]

\* The end of a block that is larger: the rest stays in the list with size left.
split(h, p, n, left) ==
  (p + h[p].size - n) :> [ptr |-> 0, size |-> n] @@ [h EXCEPT ![p].size = left]

\* A plausible slip: the rest keeps its size.
split_off_whole(h, p, n) == split(h, p, n, h[p].size)

split_off(h, p, n) == split(h, p, n, h[p].size - n)

\* The search of malloc() from p with its predecessor; start is where it began.
RECURSIVE Search(_, _, _, _, _, _)
Search(h, start, b, prevp, p, n) ==
  IF h[p].size = n
  THEN [hdr |-> [h EXCEPT ![prevp].ptr = h[p].ptr, ![p].ptr = 0],
        freep |-> prevp, brk |-> b, got |-> p]
  ELSE IF h[p].size > n
  THEN [hdr |-> split_off(h, p, n), freep |-> prevp, brk |-> b, got |-> p + h[p].size - n]
  ELSE IF p # start THEN Search(h, start, b, p, h[p].ptr, n)
  ELSE LET nu == IF n < NALLOC THEN NALLOC ELSE n
           more == morecore(h, start, b, nu)
       IN IF b + nu > HeapEnd THEN NoMemory
          ELSE Search(more.hdr, more.freep, b + nu, more.freep, more.hdr[more.freep].ptr, n)

nunits(nbytes) == (nbytes + UNIT - 1) \div UNIT + 1

malloc(nbytes) ==
  /\ Cardinality(held) < MaxBlocks
  /\ LET first == freep = NoList
         h == IF first THEN BaseAt :> [ptr |-> BaseAt, size |-> 0] ELSE hdr
         start == IF first THEN BaseAt ELSE freep
         r == Search(h, start, brk, start, h[start].ptr, nunits(nbytes))
     IN IF r.got = NoList
        THEN hdr' = h /\ freep' = start /\ UNCHANGED <<brk, held, granted>>
        ELSE /\ hdr' = r.hdr /\ freep' = r.freep /\ brk' = r.brk
             /\ held' = held \cup {[at |-> r.got + 1, bytes |-> nbytes]} /\ granted' = granted + 1
  /\ UNCHANGED foreign

free_block(x) ==
  /\ x \in held /\ held' = held \ {x} /\ granted' = granted - 1
  /\ LET r == free_into(hdr, freep, x.at - 1)
     IN hdr' = r.hdr /\ freep' = r.freep
  /\ UNCHANGED <<brk, foreign>>

\* The program extends its memory by itself, so that the heap has gaps.
own_sbrk ==
  /\ brk < HeapEnd /\ brk' = brk + 1 /\ foreign' = foreign \cup {brk}
  /\ UNCHANGED <<hdr, freep, held, granted>>

UmInit ==
  hdr = <<>> /\ freep = NoList /\ brk = 1 /\ held = {} /\ granted = 0 /\ foreign = {}

UmNext ==
  \/ \E n \in Requests : malloc(n)
  \/ \E x \in held : free_block(x)
  \/ own_sbrk

UmSpec == UmInit /\ [][UmNext]_umvars

-----------------------------------------------------------------------------
Units(at, n) == at..(at + n - 1)

\* The free blocks, as the list has them.
RECURSIVE Around(_, _)
Around(p, seen) == IF p \in seen THEN seen ELSE Around(hdr[p].ptr, seen \cup {p})
FreeList == IF freep = NoList THEN {} ELSE Around(freep, {})

\* The heap is partitioned: the list is a ring through base in the order of the
\* addresses, free blocks that touch are joined, and every unit below the break is
\* in one free block, one block of the program or the program's own.
HeapSound ==
  /\ freep # NoList => BaseAt \in FreeList
  /\ \A p \in FreeList :
       LET q == hdr[p].ptr IN
       /\ IF p = CHOOSE m \in FreeList : \A k \in FreeList : k <= m THEN q = BaseAt
          ELSE q > p /\ (FreeList \cap ((p + 1)..(q - 1)) = {})
       /\ p # BaseAt => p + hdr[p].size # q
  /\ LET parts == {Units(p, hdr[p].size) : p \in FreeList \ {BaseAt}}
                    \cup {Units(x.at - 1, hdr[x.at - 1].size) : x \in held}
     IN /\ UNION parts \cup foreign = 1..(brk - 1)
        /\ \A A, B \in parts \cup {foreign} : A # B => A \cap B = {}

\* The bytes of the blocks that malloc() returned do not overlap, and none is given twice.
InBytes == {[at |-> x.at * UNIT, len |-> x.bytes] : x \in held}
Promise == INSTANCE Heap WITH
  Addresses <- 0..(HeapEnd * UNIT), Lengths <- Requests, live <- InBytes
ImplementsHeap == Promise!Spec
=============================================================================
