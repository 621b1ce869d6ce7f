------------------------------ MODULE FileData ------------------------------
(***************************************************************************)
(* The contents of files (fs.c, file.c): the bitmap of blocks, the direct  *)
(* and indirect blocks of an inode, reading, writing and truncating, and   *)
(* mkfs, which builds the image that the kernel starts from.               *)
(*                                                                         *)
(* A block is BSIZE cells.  A cell holds a byte of a file or, in an        *)
(* indirect block, a block number: one uint is one cell, so that           *)
(* NINDIRECT = BSIZE.  Blocks are numbered from the first block after the  *)
(* metadata; 0 is the address that stands for no block.  A process writes  *)
(* its own number as the bytes of its data.                                *)
(***************************************************************************)
EXTENDS Integers, FiniteSets, SequencesExt

CONSTANTS Writers,      \* processes, numbered from 1
          Inodes,       \* inode numbers 1..k; 1 is the root directory
          FSSIZE,       \* number of data blocks
          BSIZE, NDIRECT, MAXOPBLOCKS,
          WriteLens,    \* lengths of the writes and reads that processes ask for
          ImageLens,    \* lengths of the files given to mkfs
          Opened        \* the files that processes open

VARIABLES bitmap,       \* the data blocks that are marked in use
          blk,          \* the cells of each block
          saved_inode,       \* inodes on disk (through the log): addrs and size
          inode,        \* their copies in the inode cache
          ilocked,      \* the holder of each inode's sleep-lock, or 0
          file,         \* the struct files: ip (0: closed) and off
          fd,           \* the struct file that each process uses
          wp,           \* where each process is in its call
          mk,           \* mkfs's progress: next inode, cells left to copy, or done
          panicked,     \* what stopped the kernel: "space", "range", "free", or "no"
          want          \* history: the bytes that each file ought to hold

dvars == <<bitmap, blk, saved_inode, inode, ilocked, file, fd, wp, mk, panicked, want>>

DBlocks == 1..FSSIZE
Cells == 0..(BSIZE - 1)
NINDIRECT == BSIZE
MAXFILE == NDIRECT + NINDIRECT
RootInum == 1
BBLOCK == -1     \* the block of the bitmap
IBLOCK == -2     \* the block of an inode
ZeroBlock == [c \in Cells |-> 0]
Junk == [c \in Cells |-> 1]
NoInode == [addrs |-> [k \in 0..NDIRECT |-> 0], size |-> 0]
NoCall == [pc |-> "idle"]

\* mkfs must not end with a full last block in the root directory: see mkfs_done.
RootNotFull == (Cardinality(Inodes) + 1) % BSIZE # 0
\* A call of filewrite() has room for one block.
OneBlockPerOp == MAXOPBLOCKS >= 6

-----------------------------------------------------------------------------
(***************************************************************************)
(* Allocation.  The operators work on a record s of what the caller may    *)
(* change: the bitmap, the blocks, the inode it holds locked, the blocks   *)
(* it has written since begin_op(), and b, the address that is returned    *)
(* (0 after a panic).  bread() and brelse() of the bitmap's buffer make    *)
(* each of balloc() and bfree() atomic.                                    *)
(***************************************************************************)
Alloc(i, written) ==
  [bitmap |-> bitmap, blk |-> blk, ip |-> inode[i], wrote |-> written, b |-> 0]

\* The first block that is not marked; what it holds becomes zero where zero is set.
alloc_first(s, zero) ==
  IF (1..FSSIZE) \subseteq s.bitmap THEN [s EXCEPT !.b = 0]
  ELSE LET b == Min((1..FSSIZE) \ s.bitmap)
       IN [s EXCEPT !.bitmap = @ \cup {b}, !.wrote = @ \cup {BBLOCK, b}, !.b = b,
                    !.blk[b] = IF zero THEN ZeroBlock ELSE @]

\* A plausible slip: the new block keeps what its last owner left in it.
balloc_no_bzero(s) == alloc_first(s, FALSE)

balloc(s) == alloc_first(s, TRUE)

bmap_direct(s, bn) ==
  IF s.ip.addrs[bn] # 0 THEN [s EXCEPT !.b = s.ip.addrs[bn]]
  ELSE LET t == balloc(s) IN [t EXCEPT !.ip.addrs[bn] = t.b]

\* a[bn] of the indirect block, both allocated when they are missing.
bmap_indirect(s, bn) ==
  LET t == bmap_direct(s, NDIRECT)
      a == t.blk[t.b]
      u == balloc(t)
  IN IF t.b = 0 THEN t
     ELSE IF a[bn] # 0 THEN [t EXCEPT !.b = a[bn]]
     ELSE IF u.b = 0 THEN u
     ELSE [u EXCEPT !.blk[t.b][bn] = u.b, !.wrote = @ \cup {t.b}]

bmap(s, bn) ==
  CASE bn < NDIRECT -> bmap_direct(s, bn)
    [] bn \in NDIRECT..(MAXFILE - 1) -> bmap_indirect(s, bn - NDIRECT)
    [] OTHER -> [s EXCEPT !.b = 0]

-----------------------------------------------------------------------------
(***************************************************************************)
(* mkfs.  iappend() puts cell after cell into the block it belongs to,     *)
(* taking blocks from freeblock upwards; the bitmap is written last.       *)
(***************************************************************************)
\* Block fbn of d, taken at the disk's first free block where it is missing.
iappend_block(s, fbn) ==
  LET take(t) == [t EXCEPT !.free = @ + 1]
      d == IF fbn < NDIRECT THEN fbn ELSE NDIRECT
      t == IF s.din.addrs[d] # 0 THEN s
           ELSE take([s EXCEPT !.din.addrs[d] = s.free])
      ind == t.din.addrs[NDIRECT]
  IN IF fbn < NDIRECT \/ t.blk[ind][fbn - NDIRECT] # 0 THEN t
     ELSE take([t EXCEPT !.blk[ind][fbn - NDIRECT] = t.free])

iappend_cell(s, c) ==
  LET fbn == s.din.size \div BSIZE
      t == iappend_block(s, fbn)
      x == IF fbn < NDIRECT THEN t.din.addrs[fbn]
           ELSE t.blk[t.din.addrs[NDIRECT]][fbn - NDIRECT]
  IN [t EXCEPT !.blk[x][s.din.size % BSIZE] = c, !.din.size = @ + 1]

iappend(s, cells) == FoldLeft(iappend_cell, s, cells)

Image(i, bl, fr) == [din |-> saved_inode[i], blk |-> bl, free |-> fr]

\* ialloc() of the next file and its entry in the root directory.
mkfs_file ==
  /\ mk.phase = "files" /\ mk.left = 0 /\ mk.inum + 1 \in Inodes
  /\ LET s == iappend(Image(RootInum, blk, mk.free), <<mk.inum + 1>>)
     IN /\ saved_inode' = [saved_inode EXCEPT ![RootInum] = s.din]
        /\ want' = [want EXCEPT ![RootInum] = Append(@, mk.inum + 1)]
        /\ blk' = s.blk
        /\ \E n \in ImageLens :
             mk' = [mk EXCEPT !.inum = @ + 1, !.left = n, !.free = s.free]
  /\ UNCHANGED <<bitmap, inode, ilocked, file, wp, panicked, fd>>

\* One read() of the file that is copied, at most BSIZE bytes, and its iappend().
mkfs_copy ==
  /\ mk.phase = "files" /\ mk.left > 0
  /\ LET n == Min({mk.left, BSIZE})
         cells == [k \in 1..n |-> 1]
         s == iappend(Image(mk.inum, blk, mk.free), cells)
     IN /\ saved_inode' = [saved_inode EXCEPT ![mk.inum] = s.din]
        /\ want' = [want EXCEPT ![mk.inum] = @ \o cells]
        /\ blk' = s.blk
        /\ mk' = [mk EXCEPT !.left = @ - n, !.free = s.free]
  /\ UNCHANGED <<bitmap, inode, ilocked, file, wp, panicked, fd>>

\* The root's size is raised to whole blocks, the bitmap is written, and the
\* kernel boots.  A last block that is exactly full would get a further one that
\* is not allocated, which readi() would allocate outside of a transaction.
mkfs_finish(used) ==
  /\ mk.phase = "files" /\ mk.left = 0 /\ mk.inum + 1 \notin Inodes
  /\ LET size == ((saved_inode[RootInum].size \div BSIZE) + 1) * BSIZE
         img == [saved_inode EXCEPT ![RootInum].size = size]
     IN /\ saved_inode' = img /\ inode' = img
        /\ want' = [want EXCEPT ![RootInum] =
                      @ \o [k \in 1..(size - saved_inode[RootInum].size) |-> 0]]
  /\ bitmap' = 1..used
  /\ mk' = [mk EXCEPT !.phase = "done", !.free = 0]
  /\ UNCHANGED <<blk, ilocked, file, wp, panicked, fd>>

\* A plausible slip: the last block that was used is not marked.
mkfs_done_short == mkfs_finish(mk.free - 2)

mkfs_done == mkfs_finish(mk.free - 1)

-----------------------------------------------------------------------------
(***************************************************************************)
(* Open files.  Two processes may share a struct file, with its offset,    *)
(* after fork(), or open the file each for itself.                         *)
(***************************************************************************)
Booted == mk.phase = "done" /\ panicked = "no"
ip_of(p) == file[fd[p]].ip
off_of(p) == file[fd[p]].off
Busy(f) == \E p \in Writers : fd[p] = f /\ wp[p].pc # "idle"

\* sys_open() of a file that exists; no name leads to one that is truncated.
file_open(p) ==
  /\ Booted /\ wp[p].pc = "idle" /\ ip_of(p) = 0
  /\ \E i \in Opened :
       /\ \A q \in Writers : wp[q].pc = "trunc" => wp[q].i # i
       /\ file' = [file EXCEPT ![fd[p]] = [ip |-> i, off |-> 0]]
  /\ UNCHANGED <<bitmap, blk, saved_inode, inode, ilocked, fd, wp, mk, panicked, want>>

\* The last fileclose() of a struct file.  When the file has no name left either,
\* iput() finds no other reference and truncates it.
fileclose(p) ==
  /\ Booted /\ ip_of(p) # 0 /\ ~Busy(fd[p])
  /\ file' = [file EXCEPT ![fd[p]] = [ip |-> 0, off |-> 0]]
  /\ \/ UNCHANGED <<wp, ilocked>>
     \/ /\ \A f \in Writers \ {fd[p]} : file[f].ip # ip_of(p)
        /\ wp' = [wp EXCEPT ![p] = [pc |-> "trunc", i |-> ip_of(p), j |-> 0, wrote |-> {}]]
        /\ ilocked' = [ilocked EXCEPT ![ip_of(p)] = p]
  /\ UNCHANGED <<bitmap, blk, saved_inode, inode, fd, mk, panicked, want>>

\* A call that returns, successfully or not.
Return(p) == wp' = [wp EXCEPT ![p] = NoCall]

filewrite(p) ==
  /\ Booted /\ wp[p].pc = "idle" /\ ip_of(p) # 0
  /\ \E n \in WriteLens :
       wp' = [wp EXCEPT ![p] = [pc |-> "chunk", n |-> n, i |-> 0]]
  /\ UNCHANGED <<bitmap, blk, saved_inode, inode, ilocked, file, fd, mk, panicked, want>>

\* One turn of filewrite()'s loop up to the loop of writei(): a transaction, the
\* inode's lock, and writei()'s tests of the offset.
filewrite_limit(p, maxbytes) ==
  /\ Booted /\ wp[p].pc = "chunk" /\ ilocked[ip_of(p)] = 0
  /\ LET n1 == Min({wp[p].n - wp[p].i, maxbytes})
     IN IF off_of(p) > inode[ip_of(p)].size \/ off_of(p) + n1 > MAXFILE * BSIZE
        THEN Return(p) /\ UNCHANGED ilocked
        ELSE /\ wp' = [wp EXCEPT ![p] =
                  [pc |-> "write", n |-> wp[p].n, i |-> wp[p].i, n1 |-> n1,
                   tot |-> 0, wrote |-> {}]]
             /\ ilocked' = [ilocked EXCEPT ![ip_of(p)] = p]
  /\ UNCHANGED <<bitmap, blk, saved_inode, inode, file, fd, mk, panicked, want>>

Max1 == ((MAXOPBLOCKS - 1 - 1 - 2) \div 2) * BSIZE

\* A plausible slip: the slop of non-aligned writes is forgotten in the bound of a
\* transaction.
filewrite_chunk_tight(p) == filewrite_limit(p, (MAXOPBLOCKS - 1) * BSIZE)

filewrite_chunk(p) == filewrite_limit(p, Max1)

\* What bmap() did becomes the state; without an address the kernel panicked.
Apply(p, i, s, reason) ==
  /\ bitmap' = s.bitmap
  /\ inode' = [inode EXCEPT ![i] = s.ip]
  /\ panicked' = IF s.b = 0 THEN reason ELSE "no"

\* The turn of the loop of writei() at offset o with n bytes to go.
Part(o, n) == Min({n, BSIZE - (o % BSIZE)})
Reason(o) == IF o \div BSIZE >= MAXFILE THEN "range" ELSE "space"

writei_block(p) ==
  /\ Booted /\ wp[p].pc = "write" /\ wp[p].tot < wp[p].n1
  /\ LET o == off_of(p) + wp[p].tot
         m == Part(o, wp[p].n1 - wp[p].tot)
         s == bmap(Alloc(ip_of(p), wp[p].wrote), o \div BSIZE)
     IN /\ Apply(p, ip_of(p), s, Reason(o))
        /\ blk' = IF s.b = 0 THEN s.blk
                  ELSE [s.blk EXCEPT ![s.b] = [c \in Cells |->
                          IF c \in (o % BSIZE)..((o % BSIZE) + m - 1) THEN p ELSE @[c]]]
        /\ wp' = [wp EXCEPT ![p].tot = @ + m, ![p].wrote = s.wrote \cup {s.b}]
  /\ UNCHANGED <<saved_inode, ilocked, file, fd, mk, want>>

Overlay(seq, o, n, c) ==
  [k \in 1..Max({Len(seq), o + n}) |-> IF k \in (o + 1)..(o + n) THEN c ELSE seq[k]]

\* The end of writei() and of the turn of filewrite(): a size that grew is saved
\* with iupdate(), the offset moves on, inode and transaction are let go.
writei_done(p) ==
  /\ Booted /\ wp[p].pc = "write" /\ wp[p].tot = wp[p].n1
  /\ LET i == ip_of(p)
         o == off_of(p) + wp[p].n1
         grown == [inode[i] EXCEPT !.size = Max({o, @})]
     IN /\ inode' = [inode EXCEPT ![i] = grown]
        /\ saved_inode' = IF o > inode[i].size THEN [saved_inode EXCEPT ![i] = grown]
                          ELSE saved_inode
        /\ want' = [want EXCEPT ![i] = Overlay(@, off_of(p), wp[p].n1, p)]
        /\ file' = [file EXCEPT ![fd[p]].off = o]
        /\ ilocked' = [ilocked EXCEPT ![i] = 0]
        /\ IF wp[p].i + wp[p].n1 = wp[p].n THEN Return(p)
           ELSE wp' = [wp EXCEPT ![p] = [pc |-> "chunk", n |-> wp[p].n,
                                         i |-> wp[p].i + wp[p].n1]]
  /\ UNCHANGED <<bitmap, blk, fd, mk, panicked>>

\* fileread() up to iunlock(): readi() clips the length at the end of the file
\* and copies from block after block, with nobody else at the inode.
fileread(p) ==
  /\ Booted /\ wp[p].pc = "idle" /\ ip_of(p) # 0 /\ ilocked[ip_of(p)] = 0
  /\ off_of(p) <= inode[ip_of(p)].size
  /\ \E n \in WriteLens :
       LET i == ip_of(p)
           last == off_of(p) + Min({n, inode[i].size - off_of(p)}) - 1
           next(s, o) == LET t == bmap(s, o \div BSIZE)
                         IN [t EXCEPT !.buf = Append(@, t.blk[t.b][o % BSIZE])]
           s0 == [Alloc(i, {}) EXCEPT !.b = 1] @@ [buf |-> <<>>]
           s == FoldLeft(next, s0, [k \in 1..(last + 1 - off_of(p)) |-> off_of(p) + k - 1])
       IN /\ Apply(p, i, s, "space")
          /\ blk' = s.blk
          /\ wp' = [wp EXCEPT ![p] = [pc |-> "read", buf |-> s.buf, wrote |-> s.wrote]]
          /\ ilocked' = [ilocked EXCEPT ![i] = p]
  /\ UNCHANGED <<saved_inode, file, fd, mk, want>>

readi_done(p) ==
  /\ Booted /\ wp[p].pc = "read"
  /\ file' = [file EXCEPT ![fd[p]].off = @ + Len(wp[p].buf)]
  /\ ilocked' = [ilocked EXCEPT ![ip_of(p)] = 0]
  /\ Return(p)
  /\ UNCHANGED <<bitmap, blk, saved_inode, inode, fd, mk, panicked, want>>

(***************************************************************************)
(* itrunc() frees block after block: the direct ones (j < NDIRECT), the    *)
(* entries of the indirect block, and the indirect block itself.  Other    *)
(* processes allocate in between, and may get a block that was just freed. *)
(***************************************************************************)
TruncEnd == NDIRECT + NINDIRECT

\* The address that turn j of itrunc() frees, 0 for none.
TruncAddr(i, j) ==
  CASE j < NDIRECT -> inode[i].addrs[j]
    [] j \in NDIRECT..(TruncEnd - 1) /\ inode[i].addrs[NDIRECT] # 0 ->
         blk[inode[i].addrs[NDIRECT]][j - NDIRECT]
    [] j = TruncEnd -> inode[i].addrs[NDIRECT]
    [] OTHER -> 0

\* bfree() of block b, which panics when the block is not marked.  What is left
\* in the block does not matter until balloc() zeroes it: Junk stands for it.
bfree(b) ==
  /\ blk' = [blk EXCEPT ![b] = Junk]
  /\ bitmap' = bitmap \ {b}
  /\ panicked' = IF b \in bitmap THEN "no" ELSE "free"

\* The turns of the loops that find an address; itrunc_step() is the next one.
Turns(p) == {j \in wp[p].j..TruncEnd : TruncAddr(wp[p].i, j) # 0}

itrunc_step(p) ==
  /\ Booted /\ wp[p].pc = "trunc" /\ Turns(p) # {}
  /\ LET i == wp[p].i
         j == Min(Turns(p))
         k == IF j = TruncEnd THEN NDIRECT ELSE j
     IN /\ bfree(TruncAddr(i, j))
        /\ inode' = IF j \in NDIRECT..(TruncEnd - 1) THEN inode
                    ELSE [inode EXCEPT ![i].addrs[k] = 0]
        /\ wp' = [wp EXCEPT ![p].j = j + 1, ![p].wrote = @ \cup {BBLOCK}]
  /\ UNCHANGED <<saved_inode, ilocked, file, fd, mk, want>>

\* The size becomes 0 and the inode is saved.  iput() then marks it free, and
\* ialloc() may give it out again as an empty file.
itrunc_done(p) ==
  /\ Booted /\ wp[p].pc = "trunc" /\ Turns(p) = {}
  /\ LET i == wp[p].i
         empty == [inode[i] EXCEPT !.size = 0]
     IN /\ inode' = [inode EXCEPT ![i] = empty]
        /\ saved_inode' = [saved_inode EXCEPT ![i] = empty]
        /\ want' = [want EXCEPT ![i] = <<>>]
        /\ ilocked' = [ilocked EXCEPT ![i] = 0]
  /\ Return(p)
  /\ UNCHANGED <<bitmap, blk, file, fd, mk, panicked>>

-----------------------------------------------------------------------------
\* mkfs has zeroed the disk and made the root with its entries "." and "..".
DataInit ==
  /\ bitmap = {} /\ panicked = "no"
  /\ LET zero == [b \in DBlocks |-> ZeroBlock]
         s == iappend([din |-> NoInode, blk |-> zero, free |-> 1], <<RootInum, RootInum>>)
     IN /\ blk = s.blk
        /\ saved_inode = [i \in Inodes |-> IF i = RootInum THEN s.din ELSE NoInode]
        /\ mk = [phase |-> "files", inum |-> RootInum, left |-> 0, free |-> s.free]
  /\ inode = [i \in Inodes |-> NoInode]
  /\ ilocked = [i \in Inodes |-> 0]
  /\ file = [p \in Writers |-> [ip |-> 0, off |-> 0]]
  /\ fd \in {[p \in Writers |-> p], [p \in Writers |-> 1]}
  /\ wp = [p \in Writers |-> NoCall]
  /\ want = [i \in Inodes |-> IF i = RootInum THEN <<RootInum, RootInum>> ELSE <<>>]

DataNext ==
  \/ mkfs_file \/ mkfs_copy \/ mkfs_done
  \/ \E p \in Writers :
       \/ file_open(p) \/ fileclose(p)
       \/ filewrite(p) \/ filewrite_chunk(p) \/ writei_block(p) \/ writei_done(p)
       \/ fileread(p) \/ readi_done(p)
       \/ itrunc_step(p) \/ itrunc_done(p)

DataSpec == DataInit /\ [][DataNext]_dvars

-----------------------------------------------------------------------------
\* The entries of inode i's indirect block that count: itrunc() frees them one
\* by one and leaves them in the block.
LiveEntries(i) ==
  IF inode[i].addrs[NDIRECT] = 0 THEN {}
  ELSE {c \in Cells :
          /\ blk[inode[i].addrs[NDIRECT]][c] # 0
          /\ \A p \in Writers :
               wp[p].pc = "trunc" /\ wp[p].i = i => c + NDIRECT >= wp[p].j}

\* The places that hold a block address, and the block they name.
Places ==
  {<<i, "inode", k>> : i \in Inodes, k \in 0..NDIRECT} \cup
  UNION {{<<i, "indirect", c>> : c \in LiveEntries(i)} : i \in Inodes}
AddrAt(x) ==
  IF x[2] = "inode" THEN inode[x[1]].addrs[x[3]] ELSE blk[inode[x[1]].addrs[NDIRECT]][x[3]]
Owners(b) == {x \in Places : AddrAt(x) = b}

\* Byte number o of inode i, -1 where no block is allocated.
ByteAt(i, o) ==
  LET bn == o \div BSIZE
      ind == inode[i].addrs[NDIRECT]
      b == IF bn < NDIRECT THEN inode[i].addrs[bn]
           ELSE IF ind = 0 THEN 0 ELSE blk[ind][bn - NDIRECT]
  IN IF b \in DBlocks THEN blk[b][o % BSIZE] ELSE -1

\* Types: addresses are blocks of the disk, and no file is larger than MAXFILE
\* blocks.
DataTypeOK ==
  /\ bitmap \subseteq DBlocks
  /\ \A i \in Inodes :
       /\ \A k \in 0..NDIRECT : inode[i].addrs[k] \in DBlocks \cup {0}
       /\ inode[i].size \in 0..(MAXFILE * BSIZE)
       /\ ilocked[i] \in Writers \cup {0}
  /\ panicked \in {"no", "space", "range", "free"}

\* balloc() and bfree() against bmap() and itrunc(): once the kernel runs, a block
\* is marked in the bitmap exactly when one place, in an inode or in an indirect
\* block, names it, and no block is named twice.  This holds in the middle of a
\* truncation while other files take the blocks that it gives back.
BlocksOwnedOnce ==
  Booted => \A b \in DBlocks : Cardinality(Owners(b)) = (IF b \in bitmap THEN 1 ELSE 0)

\* writei() calls iupdate() only when the size grows.  That is enough: whenever an
\* inode is not locked, the disk has the addresses and the size of the cached copy.
InodeSaved == Booted => \A i \in Inodes : ilocked[i] = 0 => saved_inode[i] = inode[i]

\* A file holds the bytes that the completed writes, chunk by chunk at the offset
\* of their struct file, put there; in particular readi() finds no bytes of the
\* block's last owner.  What a read has copied so far is a part of these bytes.
ContentsRight ==
  Booted =>
    /\ \A i \in Inodes : ilocked[i] = 0 =>
         /\ inode[i].size = Len(want[i])
         /\ \A o \in 0..(inode[i].size - 1) : ByteAt(i, o) = want[i][o + 1]
    /\ \A p \in Writers : wp[p].pc = "read" =>
         \A k \in DOMAIN wp[p].buf : wp[p].buf[k] = want[ip_of(p)][off_of(p) + k]

\* A transaction writes fewer than MAXOPBLOCKS distinct blocks (the inode's block
\* included), which is what Log requires of its callers; readi(), which runs
\* outside of transactions, writes none.
OpFits ==
  \A p \in Writers :
    /\ wp[p].pc \in {"write", "trunc"} => Cardinality(wp[p].wrote \cup {IBLOCK}) < MAXOPBLOCKS
    /\ wp[p].pc = "read" => wp[p].wrote = {}

\* The panics of bfree() ("freeing free block") and of bmap() ("out of range")
\* are not reached; balloc() panics when the disk is full.
NoDataPanic == panicked \in {"no", "space"}

\* balloc(), bfree(), bmap(), itrunc(), iupdate(): the image is sound.  Addresses are
\* in range, every block in use has one owner and a mark, and what another process
\* or the next boot reads of an inode that is not locked is what the cache has.
ImageSound == DataTypeOK /\ BlocksOwnedOnce /\ InodeSaved

\* filewrite() keeps every call within the log's reservation, and with it within
\* the file and the bitmap: no panic but that of the full disk.
WritesFit == OpFits /\ NoDataPanic
=============================================================================
