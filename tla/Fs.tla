--------------------------------- MODULE Fs ---------------------------------
(***************************************************************************)
(* Names, inodes and open files of the xv6 kernel: the inode cache and the *)
(* directories of fs.c, the file table (file.c) and the system calls on    *)
(* them (sysfile.c), made by several processes at once.                    *)
(*                                                                         *)
(* A stretch of code between ilock() and iunlock() that takes no second    *)
(* sleep-lock is one step, and so is a critical section of icache.lock or  *)
(* ftable.lock.  A path is the sequence of names that skipelem() finds in  *)
(* it, a directory a function from names to inode numbers (0: no entry).   *)
(* File contents are left out, and so are the transactions around each     *)
(* call, which Log.tla is about.                                           *)
(***************************************************************************)
EXTENDS Integers, Sequences, FiniteSets

\* The operators that a comment calls mutants stand for mistakes in the
\* definition below them.
CONSTANTS Procs,
          NINODES,  \* sb.ninodes: inodes 1 .. NINODES of the disk, 1 the root
          NINODE,   \* entries of icache
          NFILE,    \* entries of ftable
          NOFILE,   \* open files of a process
          Names,    \* names of directory entries
          Calls,    \* of each process: the system calls it makes
          MaxLinks  \* bound: no link() while a file has this many links

ASSUME FsAssumption == /\ NINODES \in Nat \ {0} /\ NINODE \in Nat \ {0}
                       /\ NFILE \in Nat /\ NOFILE \in Nat /\ MaxLinks \in Nat
                       /\ 0 \notin Procs

Inums == 1 .. NINODES
Slots == 1 .. NINODE
Files == 1 .. NFILE
Fds == 1 .. NOFILE
ROOTINO == 1
Entries == Names \cup {".", ".."}
Nothing == [n \in Entries |-> 0]

VARIABLES
    dinode,  \* the inodes on the disk: type and number of links
    dir,     \* contents of the directories on the disk
    icache,  \* the inode cache; lock is the process that holds the sleep-lock
    ftable,  \* the file table: references, and an entry of icache or 0
    ofile,   \* of each process: its open files
    cwd,     \* of each process: its directory, an entry of icache
    th,      \* of each process: where it is in a call, and its variables
    lost     \* history: inodes that had a name in a directory when it was freed

vars == <<dinode, dir, icache, ftable, ofile, cwd, th, lost>>
fds == <<ftable, ofile>>

Idle == [pc |-> "idle", call |-> [op |-> "none"], path |-> <<>>, par |-> 0,
         cur |-> 0, dp |-> 0, ip |-> 0, put |-> 0, nret |-> "idle", iret |-> "idle"]

Init == /\ dinode = [i \in Inums |-> IF i = ROOTINO THEN [type |-> "dir", nlink |-> 1]
                                                    ELSE [type |-> "free", nlink |-> 0]]
        /\ dir = [i \in Inums |-> IF i = ROOTINO
                                  THEN [Nothing EXCEPT !["."] = ROOTINO, ![".."] = ROOTINO]
                                  ELSE Nothing]
        /\ icache = [s \in Slots |-> [inum |-> IF s = 1 THEN ROOTINO ELSE 0,
                                      ref |-> IF s = 1 THEN Cardinality(Procs) ELSE 0,
                                      valid |-> 0, type |-> "free", nlink |-> 0, lock |-> 0]]
        /\ ftable = [f \in Files |-> [ref |-> 0, ip |-> 0]]
        /\ ofile = [p \in Procs |-> [d \in Fds |-> 0]]
        /\ cwd = [p \in Procs |-> 1]
        /\ th = [p \in Procs |-> Idle]
        /\ lost = {}
-----------------------------------------------------------------------------
(***************************************************************************)
(* The inode cache.                                                        *)
(***************************************************************************)
First(S) == CHOOSE s \in S : \A t \in S : s <= t

\* iget(): the entry it returns (0: panic, "full" below), and what it makes of the cache c.
iget_slot(c, i) ==
    LET held == {s \in Slots : c[s].ref > 0 /\ c[s].inum = i}
        empty == {s \in Slots : c[s].ref = 0}
    IN  IF held # {} THEN First(held) ELSE IF empty # {} THEN First(empty) ELSE 0
iget(c, i) ==
    LET s == iget_slot(c, i) IN
    IF s = 0 THEN c
    ELSE IF c[s].ref > 0 THEN [c EXCEPT ![s].ref = @ + 1]
    ELSE [c EXCEPT ![s].inum = i, ![s].ref = 1, ![s].valid = 0]

\* ilock() waits for the lock and reads the inode unless it is valid; it
\* panics if the inode is free.
no_type(s) == icache[s].valid = 0 /\ dinode[icache[s].inum].type = "free"
can_lock(s) == icache[s].lock = 0 /\ ~no_type(s)
loaded(s) == IF icache[s].valid = 1 THEN icache
             ELSE [icache EXCEPT ![s].valid = 1,
                                 ![s].type = dinode[icache[s].inum].type,
                                 ![s].nlink = dinode[icache[s].inum].nlink]

\* iupdate(): write the entry s of the cache c to the disk d.
iupdate(d, c, s) == [d EXCEPT ![c[s].inum] = [type |-> c[s].type, nlink |-> c[s].nlink]]

\* A step of the process p that leaves its variables as t.
Go(p, t) == th' = [th EXCEPT ![p] = t]
At(p, l) == th[p].pc = l
\* iput(s), and then l.
put(t, s, l) == [t EXCEPT !.pc = "iput", !.put = s, !.iret = l]

\* Mutant: iput() frees an inode that others still refer to.
iput_shared(p) ==
    LET t == th[p]
        e == icache[t.put] IN
    /\ At(p, "iput")
    /\ e.lock = 0
    /\ IF e.valid = 1 /\ e.nlink = 0
       THEN icache' = [icache EXCEPT ![t.put].lock = p] /\ Go(p, [t EXCEPT !.pc = "itrunc"])
       ELSE UNCHANGED icache /\ Go(p, [t EXCEPT !.pc = "iput_ref"])
    /\ UNCHANGED <<dinode, dir, fds, cwd, lost>>

\* iput(): lock the inode; if nothing refers to it any more, keep it locked ...
iput(p) ==
    LET t == th[p]
        s == t.put
        e == icache[s] IN
    /\ At(p, "iput")
    /\ e.lock = 0
    /\ IF e.valid = 1 /\ e.nlink = 0 /\ e.ref = 1
       THEN icache' = [icache EXCEPT ![s].lock = p] /\ Go(p, [t EXCEPT !.pc = "itrunc"])
       ELSE UNCHANGED icache /\ Go(p, [t EXCEPT !.pc = "iput_ref"])
    /\ UNCHANGED <<dinode, dir, fds, cwd, lost>>

\* ... discard its contents, free it and unlock it.
iput_itrunc(p) ==
    LET t == th[p]
        s == t.put IN
    /\ At(p, "itrunc")
    /\ dir' = [dir EXCEPT ![icache[s].inum] = Nothing]
    /\ dinode' = iupdate(dinode, [icache EXCEPT ![s].type = "free"], s)
    /\ icache' = [icache EXCEPT ![s].type = "free", ![s].valid = 0, ![s].lock = 0]
    /\ Go(p, [t EXCEPT !.pc = "iput_ref"])
    /\ lost' = (lost \cup {dir[icache[s].inum][n] : n \in Names}) \ {0, icache[s].inum}
    /\ UNCHANGED <<fds, cwd>>

\* iput(): drop the reference.
iput_ref(p) ==
    LET t == th[p] IN
    /\ At(p, "iput_ref")
    /\ icache' = [icache EXCEPT ![t.put].ref = @ - 1]
    /\ Go(p, IF t.iret = "idle" THEN Idle ELSE [t EXCEPT !.pc = t.iret, !.put = 0])
    /\ UNCHANGED <<dinode, dir, fds, cwd, lost>>
-----------------------------------------------------------------------------
(***************************************************************************)
(* namex(): the walk along a path.                                         *)
(***************************************************************************)
\* Mutant: namex() does not idup() the current directory.
namex_start_no_idup(p, t, path, par, l) ==
    LET s == IF path.abs = 1 THEN iget_slot(icache, ROOTINO) ELSE cwd[p] IN
    /\ icache' = IF path.abs = 1 THEN iget(icache, ROOTINO) ELSE icache
    /\ Go(p, [t EXCEPT !.pc = IF s = 0 THEN "full" ELSE "namex", !.path = path.elems,
                       !.par = par, !.cur = s, !.nret = l])
    /\ UNCHANGED <<dinode, dir, fds, cwd, lost>>

\* namex(): the root or the current directory of p; afterwards l, with the
\* inode (0: none) in cur and, for nameiparent(), its last name in path.
namex_start(p, t, path, par, l) ==
    LET s == IF path.abs = 1 THEN iget_slot(icache, ROOTINO) ELSE cwd[p] IN
    /\ icache' = IF path.abs = 1 THEN iget(icache, ROOTINO)
                                 ELSE [icache EXCEPT ![s].ref = @ + 1]
    /\ Go(p, [t EXCEPT !.pc = IF s = 0 THEN "full" ELSE "namex", !.path = path.elems,
                       !.par = par, !.cur = s, !.nret = l])
    /\ UNCHANGED <<dinode, dir, fds, cwd, lost>>

\* The path is at its end.
namex_end(p) ==
    LET t == th[p] IN
    /\ At(p, "namex") /\ t.path = <<>>
    /\ Go(p, IF t.par = 1 THEN put([t EXCEPT !.cur = 0], t.cur, t.nret)
                          ELSE [t EXCEPT !.pc = t.nret])
    /\ UNCHANGED <<dinode, dir, icache, fds, cwd, lost>>

\* One element of the path: lock the directory and look the name up in it.
namex(p) ==
    LET t == th[p]
        s == t.cur
        c == loaded(s)
        n == dir[c[s].inum][Head(t.path)] IN
    /\ At(p, "namex") /\ t.path # <<>> /\ can_lock(s)
    /\ IF c[s].type = "dir" /\ t.par = 1 /\ Len(t.path) = 1
       THEN icache' = c /\ Go(p, [t EXCEPT !.pc = t.nret])
       ELSE IF c[s].type # "dir" \/ n = 0
       THEN icache' = c /\ Go(p, put([t EXCEPT !.cur = 0], s, t.nret))
       ELSE /\ icache' = iget(c, n)
            /\ Go(p, IF iget_slot(c, n) = 0 THEN [t EXCEPT !.pc = "full"]
                     ELSE put([t EXCEPT !.cur = iget_slot(c, n), !.path = Tail(@)], s, "namex"))
    /\ UNCHANGED <<dinode, dir, fds, cwd, lost>>
-----------------------------------------------------------------------------
(***************************************************************************)
(* System calls.  In each, t.cur is what namex() has found.                *)
(***************************************************************************)
syscall(p, c) == /\ At(p, "idle")
                 /\ c.op = "link" => \A i \in Inums : dinode[i].type = "file" => dinode[i].nlink < MaxLinks
                 /\ namex_start(p, [Idle EXCEPT !.call = c], c.path,
                                IF c.op \in {"create", "unlink"} THEN 1 ELSE 0, c.op)

\* There is no such file or directory.
not_found(p) == /\ th[p].pc \in {"open", "create", "unlink", "link", "chdir"}
                /\ th[p].cur = 0
                /\ Go(p, Idle)
                /\ UNCHANGED <<dinode, dir, icache, fds, cwd, lost>>

\* create(): the name exists ...
create_found(p) ==
    LET t == th[p]
        s == t.cur
        c == loaded(s)
        n == dir[c[s].inum][Head(t.path)] IN
    /\ At(p, "create") /\ s # 0 /\ can_lock(s) /\ n # 0
    /\ icache' = iget(c, n)
    /\ Go(p, IF iget_slot(c, n) = 0 THEN [t EXCEPT !.pc = "full"]
             ELSE put([t EXCEPT !.cur = 0, !.ip = iget_slot(c, n)], s, "create_exists"))
    /\ UNCHANGED <<dinode, dir, fds, cwd, lost>>

\* ... and is good enough for open() if it is a file.
create_exists(p) ==
    LET t == th[p]
        s == t.ip
        c == loaded(s) IN
    /\ At(p, "create_exists") /\ can_lock(s)
    /\ IF t.call.type = "file" /\ c[s].type = "file"
       THEN icache' = [c EXCEPT ![s].lock = p] /\ Go(p, [t EXCEPT !.pc = "open_file"])
       ELSE icache' = c /\ Go(p, put([t EXCEPT !.ip = 0], s, "idle"))
    /\ UNCHANGED <<dinode, dir, fds, cwd, lost>>

\* create(): the name is free; ialloc() takes an inode, with the directory locked.
create_ialloc(p) ==
    LET t == th[p]
        s == t.cur
        c == [loaded(s) EXCEPT ![s].lock = p]
        free == {i \in Inums : dinode[i].type = "free"}
        i == First(free) IN
    /\ At(p, "create") /\ s # 0 /\ can_lock(s) /\ dir[icache[s].inum][Head(t.path)] = 0
    /\ IF free = {} \/ iget_slot(c, i) = 0
       THEN Go(p, [t EXCEPT !.pc = "full"]) /\ icache' = c /\ UNCHANGED dinode
       ELSE /\ dinode' = [dinode EXCEPT ![i] = [type |-> t.call.type, nlink |-> 0]]
            /\ icache' = iget(c, i)
            /\ Go(p, [t EXCEPT !.pc = "create_init", !.cur = 0, !.dp = s, !.ip = iget_slot(c, i)])
    /\ UNCHANGED <<dir, fds, cwd, lost>>

\* create(): lock the new inode, give it its links, and name it.
create_init(p) ==
    LET t == th[p]
        s == t.ip
        i == icache[s].inum
        d == icache[t.dp].inum
        sub == t.call.type = "dir"
        c == [loaded(s) EXCEPT ![s].nlink = 1, ![s].lock = p,
                               ![t.dp].nlink = IF sub THEN @ + 1 ELSE @, ![t.dp].lock = 0] IN
    /\ At(p, "create_init") /\ can_lock(s)
    /\ icache' = c
    /\ dinode' = LET e == iupdate(dinode, c, s) IN IF sub THEN iupdate(e, c, t.dp) ELSE e
    /\ dir' = LET e == [dir EXCEPT ![d][Head(t.path)] = i]
              IN  IF sub THEN [e EXCEPT ![i]["."] = i, ![i][".."] = d] ELSE e
    /\ Go(p, put([t EXCEPT !.dp = 0], t.dp, IF t.call.type = "file" THEN "open_file" ELSE "created"))
    /\ UNCHANGED <<fds, cwd, lost>>

\* sys_mkdir(), sys_mknod(): unlock and put the new inode.
created(p) == /\ At(p, "created")
              /\ icache' = [icache EXCEPT ![th[p].ip].lock = 0]
              /\ Go(p, put([th[p] EXCEPT !.ip = 0], th[p].ip, "idle"))
              /\ UNCHANGED <<dinode, dir, fds, cwd, lost>>

\* sys_open() without O_CREATE: directories are only read.
open(p) ==
    LET t == th[p]
        s == t.cur
        c == loaded(s) IN
    /\ At(p, "open") /\ s # 0 /\ can_lock(s)
    /\ IF c[s].type = "dir" /\ t.call.mode # "O_RDONLY"
       THEN icache' = c /\ Go(p, put([t EXCEPT !.cur = 0], s, "idle"))
       ELSE /\ icache' = [c EXCEPT ![s].lock = p]
            /\ Go(p, [t EXCEPT !.pc = "open_file", !.cur = 0, !.ip = s])
    /\ UNCHANGED <<dinode, dir, fds, cwd, lost>>

\* sys_open(): filealloc() and fdalloc(); then unlock the inode, and put it if
\* one of them has failed.
open_file(p) ==
    LET t == th[p]
        F == {f \in Files : ftable[f].ref = 0}
        D == {d \in Fds : ofile[p][d] = 0} IN
    /\ At(p, "open_file")
    /\ icache' = [icache EXCEPT ![t.ip].lock = 0]
    /\ IF F = {} \/ D = {}
       THEN Go(p, put([t EXCEPT !.ip = 0], t.ip, "idle")) /\ UNCHANGED fds
       ELSE /\ ftable' = [ftable EXCEPT ![First(F)] = [ref |-> 1, ip |-> t.ip]]
            /\ ofile' = [ofile EXCEPT ![p][First(D)] = First(F)]
            /\ Go(p, Idle)
    /\ UNCHANGED <<dinode, dir, cwd, lost>>

\* filestat(), fileread(), filewrite(): lock the inode and use it.
file_use(p, d) == LET f == ofile[p][d] IN
                  /\ At(p, "idle") /\ f # 0
                  /\ can_lock(ftable[f].ip)
                  /\ icache' = loaded(ftable[f].ip)
                  /\ UNCHANGED <<dinode, dir, fds, cwd, th, lost>>

\* sys_dup(): fdalloc() and filedup().
sys_dup(p, d) == LET f == ofile[p][d]
                     D == {e \in Fds : ofile[p][e] = 0} IN
                 /\ At(p, "idle") /\ f # 0 /\ D # {}
                 /\ ofile' = [ofile EXCEPT ![p][First(D)] = f]
                 /\ ftable' = [ftable EXCEPT ![f].ref = @ + 1]
                 /\ UNCHANGED <<dinode, dir, icache, cwd, th, lost>>

\* sys_close(), fileclose(): the last reference puts the inode.
sys_close(p, d) ==
    LET f == ofile[p][d] IN
    /\ At(p, "idle") /\ f # 0
    /\ ofile' = [ofile EXCEPT ![p][d] = 0]
    /\ IF ftable[f].ref > 1
       THEN ftable' = [ftable EXCEPT ![f].ref = @ - 1] /\ UNCHANGED th
       ELSE /\ ftable' = [ftable EXCEPT ![f] = [ref |-> 0, ip |-> 0]]
            /\ Go(p, put(Idle, ftable[f].ip, "idle"))
    /\ UNCHANGED <<dinode, dir, icache, cwd, lost>>

\* (Mutant: sys_link() does not count the link.)
link_uncounted(p) ==
    LET t == th[p]
        s == t.cur IN
    /\ At(p, "link") /\ s # 0 /\ can_lock(s)
    /\ icache' = loaded(s)
    /\ Go(p, IF loaded(s)[s].type = "dir" THEN put([t EXCEPT !.cur = 0], s, "idle")
             ELSE [t EXCEPT !.pc = "link_new", !.cur = 0, !.ip = s])
    /\ UNCHANGED <<dinode, dir, fds, cwd, lost>>

\* sys_link(): count the new link first ...
link(p) ==
    LET t == th[p]
        s == t.cur
        c == [loaded(s) EXCEPT ![s].nlink = @ + 1] IN
    /\ At(p, "link") /\ s # 0 /\ can_lock(s)
    /\ IF loaded(s)[s].type = "dir"
       THEN /\ icache' = loaded(s) /\ Go(p, put([t EXCEPT !.cur = 0], s, "idle"))
            /\ UNCHANGED dinode
       ELSE /\ icache' = c /\ dinode' = iupdate(dinode, c, s)
            /\ Go(p, [t EXCEPT !.pc = "link_new", !.cur = 0, !.ip = s])
    /\ UNCHANGED <<dir, fds, cwd, lost>>

link_new(p) == At(p, "link_new") /\ namex_start(p, th[p], th[p].call.new, 1, "link_add")

\* ... then add the name, unless dirlink() finds it ...
link_add(p) ==
    LET t == th[p]
        s == t.cur
        c == loaded(s)
        n == dir[c[s].inum][Head(t.path)] IN
    /\ At(p, "link_add") /\ s # 0 /\ can_lock(s)
    /\ IF n = 0
       THEN /\ dir' = [dir EXCEPT ![c[s].inum][Head(t.path)] = icache[t.ip].inum]
            /\ icache' = c
            /\ Go(p, put([t EXCEPT !.cur = 0], s, "link_done"))
       ELSE /\ icache' = iget([c EXCEPT ![s].lock = p], n)
            /\ Go(p, IF iget_slot(c, n) = 0 THEN [t EXCEPT !.pc = "full"]
                     ELSE put([t EXCEPT !.cur = 0, !.dp = s], iget_slot(c, n), "link_exists"))
            /\ UNCHANGED dir
    /\ UNCHANGED <<dinode, fds, cwd, lost>>

link_done(p) == /\ At(p, "link_done")
                /\ Go(p, put([th[p] EXCEPT !.ip = 0], th[p].ip, "idle"))
                /\ UNCHANGED <<dinode, dir, icache, fds, cwd, lost>>

link_exists(p) == /\ At(p, "link_exists")
                  /\ icache' = [icache EXCEPT ![th[p].dp].lock = 0]
                  /\ Go(p, put([th[p] EXCEPT !.dp = 0], th[p].dp, "link_bad"))
                  /\ UNCHANGED <<dinode, dir, fds, cwd, lost>>

\* Mutant: sys_link() keeps the link that it did not make.
link_bad_keeps(p) ==
    LET t == th[p] IN
    /\ \/ At(p, "link_bad")
       \/ At(p, "link_add") /\ t.cur = 0
    /\ Go(p, put([t EXCEPT !.ip = 0], t.ip, "idle"))
    /\ UNCHANGED <<dinode, dir, icache, fds, cwd, lost>>

\* ... and take the link back if that fails.
link_bad(p) ==
    LET t == th[p]
        c == [loaded(t.ip) EXCEPT ![t.ip].nlink = @ - 1] IN
    /\ \/ At(p, "link_bad")
       \/ At(p, "link_add") /\ t.cur = 0
    /\ can_lock(t.ip)
    /\ icache' = c /\ dinode' = iupdate(dinode, c, t.ip)
    /\ Go(p, put([t EXCEPT !.ip = 0], t.ip, "idle"))
    /\ UNCHANGED <<dir, fds, cwd, lost>>

\* sys_unlink(): lock the directory and find the inode ...
unlink(p) ==
    LET t == th[p]
        s == t.cur
        c == loaded(s)
        n == dir[c[s].inum][Head(t.path)] IN
    /\ At(p, "unlink") /\ s # 0 /\ can_lock(s)
    /\ IF Head(t.path) \in {".", ".."} \/ n = 0
       THEN icache' = c /\ Go(p, put([t EXCEPT !.cur = 0], s, "idle"))
       ELSE /\ icache' = iget([c EXCEPT ![s].lock = p], n)
            /\ Go(p, IF iget_slot(c, n) = 0 THEN [t EXCEPT !.pc = "full"]
                     ELSE [t EXCEPT !.pc = "unlink_ip", !.cur = 0, !.dp = s,
                                    !.ip = iget_slot(c, n)])
    /\ UNCHANGED <<dinode, dir, fds, cwd, lost>>

\* ... lock it too, and remove the name, but not that of a directory in use ...
isdirempty(i) == \A n \in Names : dir[i][n] = 0
unlink_ip(p) ==
    LET t == th[p]
        s == t.ip
        c == loaded(s)
        sub == c[s].type = "dir"
        e == [c EXCEPT ![s].lock = p, ![t.dp].lock = 0,
                       ![t.dp].nlink = IF sub THEN @ - 1 ELSE @] IN
    /\ At(p, "unlink_ip") /\ can_lock(s)
    /\ IF c[s].nlink < 1
       THEN Go(p, [t EXCEPT !.pc = "panic"]) /\ icache' = c /\ UNCHANGED <<dinode, dir>>
       ELSE IF sub /\ ~isdirempty(c[s].inum)
       THEN /\ icache' = c
            /\ Go(p, put([t EXCEPT !.ip = 0], s, "unlink_bad"))
            /\ UNCHANGED <<dinode, dir>>
       ELSE /\ icache' = e
            /\ dinode' = IF sub THEN iupdate(dinode, e, t.dp) ELSE dinode
            /\ dir' = [dir EXCEPT ![e[t.dp].inum][Head(t.path)] = 0]
            /\ Go(p, put([t EXCEPT !.dp = 0], t.dp, "unlink_done"))
    /\ UNCHANGED <<fds, cwd, lost>>

unlink_bad(p) == /\ At(p, "unlink_bad")
                 /\ icache' = [icache EXCEPT ![th[p].dp].lock = 0]
                 /\ Go(p, put([th[p] EXCEPT !.dp = 0], th[p].dp, "idle"))
                 /\ UNCHANGED <<dinode, dir, fds, cwd, lost>>

\* ... and count the link that is gone.
unlink_done(p) ==
    LET t == th[p]
        c == [icache EXCEPT ![t.ip].nlink = @ - 1, ![t.ip].lock = 0] IN
    /\ At(p, "unlink_done")
    /\ icache' = c /\ dinode' = iupdate(dinode, c, t.ip)
    /\ Go(p, put([t EXCEPT !.ip = 0], t.ip, "idle"))
    /\ UNCHANGED <<dir, fds, cwd, lost>>

\* sys_chdir(): put the old directory, and then leave it.
chdir(p) ==
    LET t == th[p]
        s == t.cur IN
    /\ At(p, "chdir") /\ s # 0 /\ can_lock(s)
    /\ icache' = loaded(s)
    /\ Go(p, IF loaded(s)[s].type # "dir" THEN put([t EXCEPT !.cur = 0], s, "idle")
             ELSE put([t EXCEPT !.cur = 0, !.ip = s], cwd[p], "chdir_set"))
    /\ UNCHANGED <<dinode, dir, fds, cwd, lost>>

chdir_set(p) == /\ At(p, "chdir_set")
                /\ cwd' = [cwd EXCEPT ![p] = th[p].ip]
                /\ Go(p, Idle)
                /\ UNCHANGED <<dinode, dir, icache, fds, lost>>

Next == \E p \in Procs :
    \/ \E c \in Calls[p] : syscall(p, c)
    \/ \E d \in Fds : file_use(p, d) \/ sys_dup(p, d) \/ sys_close(p, d)
    \/ iput(p) \/ iput_itrunc(p) \/ iput_ref(p) \/ namex_end(p) \/ namex(p) \/ not_found(p)
    \/ create_found(p) \/ create_exists(p) \/ create_ialloc(p) \/ create_init(p) \/ created(p)
    \/ open(p) \/ open_file(p)
    \/ link(p) \/ link_new(p) \/ link_add(p) \/ link_done(p) \/ link_exists(p) \/ link_bad(p)
    \/ unlink(p) \/ unlink_ip(p) \/ unlink_bad(p) \/ unlink_done(p)
    \/ chdir(p) \/ chdir_set(p)

Spec == Init /\ [][Next]_vars
-----------------------------------------------------------------------------
\* The tables keep their types; link counts never go below zero, and no file has
\* more references than there are descriptors.
Vars == {"cur", "dp", "ip", "put"}
Types == {"free", "dir", "file", "dev"}
TypeOK == /\ dinode \in [Inums -> [type : Types, nlink : Nat]]
          /\ dir \in [Inums -> [Entries -> Inums \cup {0}]]
          /\ icache \in [Slots -> [inum : Inums \cup {0}, ref : Nat, valid : {0, 1},
                                   type : Types, nlink : Nat, lock : Procs \cup {0}]]
          /\ ftable \in [Files -> [ref : 0 .. Cardinality(Procs) * NOFILE, ip : Slots \cup {0}]]
          /\ ofile \in [Procs -> [Fds -> Files \cup {0}]]
          /\ cwd \in [Procs -> Slots]
          /\ \A p \in Procs : \A x \in Vars : th[p][x] \in Slots \cup {0}
          /\ lost \subseteq Inums

\* The reference counts are exact: icache counts the open files, the current
\* directories and the pointers of the calls under way, ftable the descriptors
\* (iget(), idup(), iput(), filedup(), fileclose()).
RefCounts ==
    /\ \A s \in Slots :
           icache[s].ref = Cardinality({f \in Files : ftable[f].ref > 0 /\ ftable[f].ip = s})
                         + Cardinality({p \in Procs : cwd[p] = s /\ th[p].iret # "chdir_set"})
                         + Cardinality({x \in Procs \X Vars : th[x[1]][x[2]] = s})
    /\ \A f \in Files :
           ftable[f].ref = Cardinality({x \in Procs \X Fds : ofile[x[1]][x[2]] = f})

\* An inode has one entry in the cache (iget()), and a valid entry agrees with
\* the disk when nobody is between a change and its iupdate().
CacheCoherent ==
    \A s \in Slots : icache[s].ref > 0 =>
        /\ \A q \in Slots \ {s} : icache[q].ref > 0 => icache[q].inum # icache[s].inum
        /\ icache[s].valid = 1 => dinode[icache[s].inum] = [type |-> icache[s].type,
                                                            nlink |-> icache[s].nlink]

\* An inode that no call is working on has a link for every name and, if it is
\* a directory, for every directory in it.  Only an inode whose name was added to
\* a directory that had been removed already may keep a link that is no name.
Working(i) == \E x \in Procs \X Vars : LET s == th[x[1]][x[2]] IN s # 0 /\ icache[s].inum = i
Links(i) == Cardinality({x \in Inums \X Names : dir[x[1]][x[2]] = i})
            + Cardinality({n \in Names : dir[i][n] # 0 /\ dinode[dir[i][n]].type = "dir"})
            + (IF i = ROOTINO THEN 1 ELSE 0)
LinkCounts == \A i \in Inums : dinode[i].type # "free" /\ ~Working(i) =>
                  /\ dinode[i].nlink >= Links(i)
                  /\ i \notin lost => dinode[i].nlink = Links(i)

\* What a directory names is not free: iput() frees no inode that link() or
\* create() has given a name.
NamesAlive == \A i \in Inums, n \in Names :
                  dir[i][n] # 0 => dinode[i].type = "dir" /\ dinode[dir[i][n]].type # "free"

\* The entry of icache that p is about to lock, or 0.
wanted(p) == LET t == th[p] IN
             IF t.pc = "iput" THEN t.put
             ELSE IF t.pc \in {"create_exists", "create_init", "unlink_ip", "link_bad"} THEN t.ip
             ELSE IF t.pc \in {"open", "create", "unlink", "link", "link_add", "chdir"}
                     \/ (t.pc = "namex" /\ t.path # <<>>) THEN t.cur
             ELSE 0

\* No panic(): no call locks an inode that has been freed ("ilock: no type"), or
\* unlinks one that has no links ("unlink: nlink < 1").  The paths have no "..":
\* that of a removed directory may name an inode that has been freed.
NoPanic == \A p \in Procs :
               /\ ~At(p, "panic")
               /\ ~At(p, "iput") /\ wanted(p) # 0 => ~no_type(wanted(p))

\* An inode without links is freed by whoever drops the last reference (iput()):
\* one that is still allocated is still referred to.
NoOrphans == \A i \in Inums : dinode[i].type # "free" /\ dinode[i].nlink = 0 =>
                 \E s \in Slots : icache[s].inum = i /\ icache[s].ref > 0

\* No two processes wait for inodes that the other one has locked.
NoDeadlock == \A p, q \in Procs : wanted(p) # 0 /\ wanted(q) # 0 =>
                  ~(icache[wanted(p)].lock = q /\ icache[wanted(q)].lock = p)

\* The inode cache is sound: iget(), idup(), iput(), filedup() and fileclose() count
\* every reference, and all calls see one copy of an inode, the one on the disk.
InodesSound == TypeOK /\ RefCounts /\ CacheCoherent
=============================================================================
