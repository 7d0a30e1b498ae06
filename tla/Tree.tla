-------------------------------- MODULE Tree --------------------------------
(***************************************************************************)
(* Inodes, directories and open files under concurrent system calls: the   *)
(* inode table and path names of kernel/fs.c, the file table of            *)
(* kernel/file.c and the calls of kernel/sysfile.c.                        *)
(*                                                                         *)
(* A step goes from one place where a process can be held up, or where     *)
(* another process sees what it did, to the next: an ilock() with the code *)
(* under it, or a section under itable.lock.  Contents are those of module *)
(* Content: a file has none here, a directory is a function from names to  *)
(* inode numbers; a dirlink() that finds no block for its entry fails.     *)
(***************************************************************************)
EXTENDS Integers, FiniteSets, FiniteSetsExt, Sequences

CONSTANTS
    Proc, initproc,
    Name, DIRSIZ,   \* names are sequences of characters, of at most DIRSIZ
    NINODES,        \* inodes on the disk
    NINODE,         \* entries of the inode table
    NFILE, NOFILE,  \* entries of the file table, of a process
    Call,           \* system calls with their arguments
    MaxCalls        \* how many of them there are at most

ROOTINO == 1
Inum == 1 .. NINODES
Slot == 1 .. NINODE
File == 1 .. NFILE
None == 0
DotDot == <<".", ".">>

\* The processes' working directories and open files, two paths under way for
\* each process, fit into the inode table.
ASSUME TreeAssumption ==
    NINODES <= NINODE /\ DotDot \notin Name /\ \A nm \in Name : Len(nm) \in 1 .. DIRSIZ

VARIABLES
    dinode,     \* type and nlink on disk
    dir,        \* the entries of the directories
    itable,     \* the inode table
    lock,       \* who holds ip->lock
    ftable, ofile, cwd,
    th,         \* the system call of a process: where it is, its locals
    lost,       \* entries that went with their directory, by inode
    calls,      \* how many there have been
    orphan      \* inodes without a name that nobody will free

disk == <<dinode, dir, lost, orphan, calls>>
files == <<ftable, ofile, cwd>>
vars == <<disk, itable, lock, files, th>>

NoEntries == [nm \in Name \cup {DotDot} |-> None]
Idle == [pc |-> "idle", op |-> "none", path |-> <<>>, new |-> <<>>, parent |-> FALSE,
         nm |-> DotDot, ip |-> None, dp |-> None, keep |-> None, x |-> None, k |-> "idle"]
FreeSlot == [inum |-> None, ref |-> 0, valid |-> FALSE, type |-> "none", nlink |-> 0]

\* What mkfs has made, and userinit(): the root is everyone's directory.
Init ==
    /\ dinode = [n \in Inum |-> IF n = ROOTINO THEN [type |-> "dir", nlink |-> 1]
                                ELSE [type |-> "none", nlink |-> 0]]
    /\ dir = [n \in Inum |-> IF n = ROOTINO THEN [NoEntries EXCEPT ![DotDot] = ROOTINO]
                             ELSE NoEntries]
    /\ itable = [s \in Slot |-> IF s = 1 THEN [FreeSlot EXCEPT !.inum = ROOTINO,
                                                               !.ref = Cardinality(Proc)]
                                ELSE FreeSlot]
    /\ lock = [s \in Slot |-> None]
    /\ ftable = [f \in File |-> [ref |-> 0, ip |-> None]]
    /\ ofile = [p \in Proc |-> [fd \in 1 .. NOFILE |-> None]]
    /\ cwd = [p \in Proc |-> 1]
    /\ th = [p \in Proc |-> Idle]
    /\ lost = [n \in Inum |-> 0] /\ orphan = {} /\ calls = 0

-----------------------------------------------------------------------------
\* The inode table

\* The entry that iget() returns for inode n, and the table after it
iget_slot(t, n) ==
    LET S == {s \in Slot : t[s].ref > 0 /\ t[s].inum = n} IN
    IF S # {} THEN Min(S) ELSE Min({s \in Slot : t[s].ref = 0})
iget(t, n) ==
    LET s == iget_slot(t, n) IN
    IF t[s].ref > 0 THEN [t EXCEPT ![s].ref = @ + 1]
    ELSE [t EXCEPT ![s] = [FreeSlot EXCEPT !.inum = n, !.ref = 1]]
idup(t, s) == [t EXCEPT ![s].ref = @ + 1]

\* What ilock() leaves in the table: the inode is read if it has not been.
ilock(t, s) ==
    LET n == t[s].inum IN
    IF t[s].valid THEN t
    ELSE [t EXCEPT ![s] = [@ EXCEPT !.valid = TRUE, !.type = dinode[n].type,
                                    !.nlink = dinode[n].nlink]]

Unlocked(s) == lock[s] = None
At(p, l) == th[p].pc = l
\* The process goes to l, from where locals that are dead have their first value
Goto(p, l) ==
    th' = [th EXCEPT ![p] = IF l \in {"idle", "exit", "dead"} THEN [Idle EXCEPT !.pc = l]
                            ELSE [@ EXCEPT !.pc = l, !.x = None, !.k = "idle"]]

\* iput(x), after which the process goes on at k
Put(p, x, k) ==
    th' = [th EXCEPT ![p] = [(IF k \in {"idle", "exit", "dead"} THEN Idle ELSE @) EXCEPT
                                !.pc = "put", !.x = x, !.k = k]]

\* iput(dp) in a call that is done with the directory
PutParent(p, k) ==
    th' = [th EXCEPT ![p] = [@ EXCEPT !.pc = "put", !.x = th[p].dp, !.k = k, !.dp = None, !.nm = DotDot]]

\* An entry without a reference is as good as new.
Unref(t, s) == [t EXCEPT ![s] = IF @.ref = 1 THEN FreeSlot ELSE [@ EXCEPT !.ref = @ - 1]]

Freeing(p, l) == th' = [th EXCEPT ![p].pc = l]

\* iput() frees the inode; mutant: with the last reference.
must_free_unreferenced(s) == itable[s].ref = 1 /\ itable[s].valid
must_free(s) == itable[s].ref = 1 /\ itable[s].valid /\ itable[s].nlink = 0

\* iput(): under itable.lock, where acquiresleep() must not have to wait ...
iput(p) ==
    LET x == th[p].x IN
    /\ At(p, "put")
    /\ IF must_free(x)
         THEN Unlocked(x) /\ lock' = [lock EXCEPT ![x] = p] /\ Freeing(p, "free")
              /\ UNCHANGED itable
         ELSE itable' = Unref(itable, x) /\ Goto(p, th[p].k)
              /\ UNCHANGED lock
    /\ UNCHANGED <<disk, files>>

\* ... itrunc(), type = 0, iupdate(): the number may be given out again ...
iput_free(p) ==
    LET x == th[p].x
        n == itable[x].inum
    IN
    /\ At(p, "free")
    /\ dinode' = [dinode EXCEPT ![n].type = "none"]
    /\ itable' = [itable EXCEPT ![x].type = "none"]
    /\ lost' = [m \in Inum |-> lost[m] + Cardinality({nm \in Name : dir[n][nm] = m})]
    /\ dir' = [dir EXCEPT ![n] = NoEntries]
    /\ Freeing(p, "freed")
    /\ UNCHANGED <<orphan, calls, lock, files>>

\* ... valid = 0 and releasesleep(); mutant: valid stays ...
iput_freed_valid(p) ==
    /\ At(p, "freed")
    /\ lock' = [lock EXCEPT ![th[p].x] = None]
    /\ Freeing(p, "unref")
    /\ UNCHANGED <<disk, itable, files>>
iput_freed(p) ==
    /\ At(p, "freed")
    /\ itable' = [itable EXCEPT ![th[p].x].valid = FALSE]
    /\ lock' = [lock EXCEPT ![th[p].x] = None]
    /\ Freeing(p, "unref")
    /\ UNCHANGED <<disk, files>>

\* ... and the reference goes.  It is the last one although the inode is in
\* use when someone has allocated it, removed it and put it in the meantime:
\* that iput() saw two references, and this one does not look again.
iput_unref(p) ==
    LET x == th[p].x IN
    /\ At(p, "unref")
    /\ itable' = Unref(itable, x)
    /\ orphan' = IF must_free(x) THEN orphan \cup {itable[x].inum} ELSE orphan
    /\ Goto(p, th[p].k)
    /\ UNCHANGED <<dinode, dir, lost, calls, lock, files>>

-----------------------------------------------------------------------------
\* Paths

without_slashes(path) ==
    LET J == {j \in 1 .. Len(path) : path[j] # "/"} IN
    IF J = {} THEN <<>> ELSE SubSeq(path, Min(J), Len(path))

\* The next element of a path that has one, and the path after it
skipelem(path) ==
    LET s == without_slashes(path)
        slash == {j \in 1 .. Len(s) : s[j] = "/"}
        len == IF slash = {} THEN Len(s) ELSE Min(slash) - 1
    IN  [name |-> SubSeq(s, 1, Min({len, DIRSIZ})), path |-> without_slashes(SubSeq(s, len + 1, Len(s)))]

\* Whose iget() or idup() namex() starts with
Absolute(path) == path # <<>> /\ path[1] = "/"
Start(p, path) == IF Absolute(path) THEN iget_slot(itable, ROOTINO) ELSE cwd[p]
Started(t, p, path) == IF Absolute(path) THEN iget(t, ROOTINO) ELSE idup(t, cwd[p])

\* Where a call goes on when namex() has failed, or has found what it looks for
Failed(p) == IF th[p].keep # None THEN "link_bad" ELSE "idle"
Found(p) == IF th[p].keep # None THEN "link_new" ELSE th[p].op

\* The call r of p when namex() has come to its loop with path: one without an
\* element ends it at once, and has no parent.
Walk(p, r, path) ==
    LET s == [r EXCEPT !.ip = Start(p, path)] IN
    IF without_slashes(path) # <<>> THEN [s EXCEPT !.pc = "walk", !.path = path]
    ELSE IF ~r.parent THEN [s EXCEPT !.pc = r.op]
    ELSE [s EXCEPT !.pc = "put", !.ip = None, !.x = s.ip,
                   !.k = IF r.keep # None THEN "link_bad" ELSE "idle"]

\* begin_op() and the call of namei() or nameiparent()
syscall(p, c) ==
    /\ At(p, "idle") /\ calls < MaxCalls
    /\ calls' = calls + 1
    /\ itable' = Started(itable, p, c.path)
    /\ th' = [th EXCEPT ![p] = Walk(p, [Idle EXCEPT !.op = c.op, !.new = c.new,
                                           !.parent = c.op \in {"create", "mkdir", "unlink"}], c.path)]
    /\ UNCHANGED <<dinode, dir, lost, orphan, lock, files>>

\* One round of the loop of namex(), up to its iput()
namex(p) ==
    LET ip == th[p].ip
        t == ilock(itable, ip)
        e == skipelem(th[p].path)
        nm == e.name
        rest == e.path
        next == dir[t[ip].inum][nm]
    IN
    /\ At(p, "walk") /\ Unlocked(ip)
    /\ \/ /\ t[ip].type # "dir" \/ (~(th[p].parent /\ rest = <<>>) /\ next = None)
          /\ itable' = t
          /\ Put(p, ip, Failed(p))
       \/ /\ t[ip].type = "dir" /\ th[p].parent /\ rest = <<>>
          /\ itable' = t
          /\ th' = [th EXCEPT ![p] = [@ EXCEPT !.pc = Found(p), !.dp = ip, !.ip = None, !.nm = nm,
                                               !.path = <<>>]]
       \/ /\ t[ip].type = "dir" /\ ~(th[p].parent /\ rest = <<>>) /\ next # None
          /\ itable' = iget(t, next)
          /\ th' = [th EXCEPT ![p] = [@ EXCEPT !.pc = "put", !.x = ip, !.path = rest,
                                               !.ip = iget_slot(t, next),
                                               !.k = IF rest = <<>> THEN Found(p) ELSE "walk"]]
    /\ UNCHANGED <<disk, lock, files>>

-----------------------------------------------------------------------------
\* open()

FreeFiles == {f \in File : ftable[f].ref = 0}
FreeFds(p) == {fd \in 1 .. NOFILE : ofile[p][fd] = None}

\* The end of sys_open() with ip locked: filealloc(), fdalloc(), iunlock()
Opened(p) ==
    LET ip == th[p].ip IN
    IF FreeFiles = {} \/ FreeFds(p) = {}
      THEN Put(p, ip, "idle") /\ UNCHANGED files
      ELSE /\ ftable' = [ftable EXCEPT ![Min(FreeFiles)] = [ref |-> 1, ip |-> ip]]
           /\ ofile' = [ofile EXCEPT ![p][Min(FreeFds(p))] = Min(FreeFiles)]
           /\ th' = [th EXCEPT ![p] = Idle]
           /\ UNCHANGED cwd

sys_open(p) ==
    LET ip == th[p].ip
        t == ilock(itable, ip)
    IN
    /\ At(p, "open") /\ Unlocked(ip)
    /\ itable' = t
    /\ Opened(p)
    /\ UNCHANGED <<disk, lock>>

\* What ialloc() makes of an inode that is free
ialloc(op) == [type |-> IF op = "mkdir" THEN "dir" ELSE "file", nlink |-> 0]

\* create() up to ilock(ip): the name is there, or an inode is allocated,
\* or ialloc() finds none
create(p) ==
    LET dp == th[p].dp
        t == ilock(itable, dp)
        old == dir[t[dp].inum][th[p].nm]
        free == {n \in Inum : dinode[n].type = "none"}
        n == Min(free)
    IN
    /\ At(p, th[p].op) /\ th[p].op \in {"create", "mkdir"} /\ Unlocked(dp)
    /\ \/ /\ old # None
          /\ itable' = iget(t, old)
          /\ th' = [th EXCEPT ![p] = [@ EXCEPT !.pc = "put", !.x = dp, !.k = "create_found",
                                               !.ip = iget_slot(t, old), !.dp = None,
                                               !.nm = DotDot]]
          /\ UNCHANGED <<dinode, lock>>
       \/ /\ old = None /\ free # {}
          /\ dinode' = [dinode EXCEPT ![n] = ialloc(th[p].op)]
          /\ itable' = iget(t, n)
          /\ lock' = [lock EXCEPT ![dp] = p]
          /\ th' = [th EXCEPT ![p] = [@ EXCEPT !.pc = "create_new", !.ip = iget_slot(t, n)]]
       \/ /\ old = None /\ free = {}
          /\ itable' = t
          /\ Put(p, dp, "idle")
          /\ UNCHANGED <<dinode, lock>>
    /\ UNCHANGED <<dir, lost, orphan, calls, files>>

create_found(p) ==
    LET ip == th[p].ip
        t == ilock(itable, ip)
    IN
    /\ At(p, "create_found") /\ Unlocked(ip)
    /\ itable' = t
    /\ IF th[p].op = "create" /\ t[ip].type = "file"
         THEN Opened(p)
         ELSE Put(p, ip, "idle") /\ UNCHANGED files
    /\ UNCHANGED <<disk, lock>>

\* nlink of the inode in entry s goes to v, in memory and (iupdate) on disk
SetLinks(t, s, v) == [t EXCEPT ![s].nlink = v]

\* create() from ilock(ip) on: both directories get their entries ...
create_new(p) ==
    LET ip == th[p].ip
        dp == th[p].dp
        n == itable[ip].inum
        d == itable[dp].inum
        t == SetLinks(ilock(itable, ip), ip, 1)
        up == itable[dp].nlink + 1
    IN
    /\ At(p, "create_new") /\ Unlocked(ip)
    /\ IF th[p].op = "mkdir"
         THEN /\ itable' = SetLinks(t, dp, up)
              /\ dinode' = [dinode EXCEPT ![n].nlink = 1, ![d].nlink = up]
              /\ dir' = [dir EXCEPT ![n][DotDot] = d, ![d][th[p].nm] = n]
         ELSE /\ itable' = t
              /\ dinode' = [dinode EXCEPT ![n].nlink = 1]
              /\ dir' = [dir EXCEPT ![d][th[p].nm] = n]
    /\ lock' = [lock EXCEPT ![ip] = p, ![dp] = None]
    /\ PutParent(p, "created")
    /\ UNCHANGED <<lost, orphan, calls, files>>

\* ... or a dirlink() has failed
create_fail(p) ==
    LET ip == th[p].ip IN
    /\ At(p, "create_new") /\ Unlocked(ip)
    /\ itable' = SetLinks(ilock(itable, ip), ip, 0)
    /\ dinode' = [dinode EXCEPT ![itable[ip].inum].nlink = 0]
    /\ Put(p, ip, "unlock_dp")
    /\ UNCHANGED <<dir, lost, orphan, calls, lock, files>>

\* create() has returned: the end of sys_open() or of sys_mkdir()
created(p) ==
    LET ip == th[p].ip IN
    /\ At(p, "created")
    /\ lock' = [lock EXCEPT ![ip] = None]
    /\ IF th[p].op = "create" THEN Opened(p) ELSE Put(p, ip, "idle") /\ UNCHANGED files
    /\ UNCHANGED <<disk, itable>>

\* iunlockput(dp) on the error paths of create() and sys_unlink()
unlock_dp(p) ==
    /\ At(p, "unlock_dp")
    /\ lock' = [lock EXCEPT ![th[p].dp] = None]
    /\ Put(p, th[p].dp, "idle")
    /\ UNCHANGED <<disk, itable, files>>

-----------------------------------------------------------------------------
\* unlink(): dp is locked, and stays so if the name is there ...
sys_unlink(p) ==
    LET dp == th[p].dp
        t == ilock(itable, dp)
        n == dir[t[dp].inum][th[p].nm]
    IN
    /\ At(p, "unlink") /\ Unlocked(dp)
    /\ IF th[p].nm = DotDot \/ n = None
         THEN itable' = t /\ Put(p, dp, "idle") /\ UNCHANGED lock
         ELSE /\ itable' = iget(t, n)
              /\ lock' = [lock EXCEPT ![dp] = p]
              /\ th' = [th EXCEPT ![p] = [@ EXCEPT !.pc = "unlink_ip", !.ip = iget_slot(t, n)]]
    /\ UNCHANGED <<disk, files>>

isdirempty(n) == \A nm \in Name : dir[n][nm] = None

\* ... ip is locked, and if it may go, the entry is cleared ...
unlink_ip(p) ==
    LET ip == th[p].ip
        dp == th[p].dp
        t == ilock(itable, ip)
        n == t[ip].inum
        d == t[dp].inum
        links == IF t[ip].type = "dir" THEN t[dp].nlink - 1 ELSE t[dp].nlink
    IN
    /\ At(p, "unlink_ip") /\ Unlocked(ip)
    /\ IF t[ip].type = "dir" /\ ~isdirempty(n)
         THEN itable' = t /\ Put(p, ip, "unlock_dp") /\ UNCHANGED <<dinode, dir, lock>>
         ELSE /\ dir' = [dir EXCEPT ![d][th[p].nm] = None]
              /\ itable' = SetLinks(t, dp, links)
              /\ dinode' = [dinode EXCEPT ![d].nlink = links]
              /\ lock' = [lock EXCEPT ![ip] = p, ![dp] = None]
              /\ PutParent(p, "unlink_end")
    /\ UNCHANGED <<lost, orphan, calls, files>>

\* ... and ip loses its link.
unlink_end(p) ==
    LET ip == th[p].ip
        v == itable[ip].nlink - 1
    IN
    /\ At(p, "unlink_end")
    /\ itable' = SetLinks(itable, ip, v)
    /\ dinode' = [dinode EXCEPT ![itable[ip].inum].nlink = v]
    /\ lock' = [lock EXCEPT ![ip] = None]
    /\ Put(p, ip, "idle")
    /\ UNCHANGED <<dir, lost, orphan, calls, files>>

-----------------------------------------------------------------------------
\* Mutant: the inode stays locked while the new name is looked up.
sys_link_locked(p) ==
    LET ip == th[p].ip
        t == ilock(itable, ip)
        v == t[ip].nlink + 1
    IN
    /\ At(p, "link") /\ Unlocked(ip) /\ t[ip].type # "dir"
    /\ itable' = Started(SetLinks(t, ip, v), p, th[p].new)
    /\ dinode' = [dinode EXCEPT ![t[ip].inum].nlink = v]
    /\ th' = [th EXCEPT ![p] = Walk(p, [@ EXCEPT !.keep = ip, !.parent = TRUE, !.new = <<>>], th[p].new)]
    /\ lock' = [lock EXCEPT ![ip] = p]
    /\ UNCHANGED <<dir, lost, orphan, calls, files>>

\* link(): the inode has one link more before the new name is looked up.
sys_link(p) ==
    LET ip == th[p].ip
        t == ilock(itable, ip)
        v == t[ip].nlink + 1
    IN
    /\ At(p, "link") /\ Unlocked(ip)
    /\ IF t[ip].type = "dir"
         THEN itable' = t /\ Put(p, ip, "idle") /\ UNCHANGED dinode
         ELSE /\ itable' = Started(SetLinks(t, ip, v), p, th[p].new)
              /\ dinode' = [dinode EXCEPT ![t[ip].inum].nlink = v]
              /\ th' = [th EXCEPT ![p] = Walk(p, [@ EXCEPT !.keep = ip, !.parent = TRUE, !.new = <<>>], th[p].new)]
    /\ UNCHANGED <<dir, lost, orphan, calls, lock, files>>

\* dirlink() fails if the name is there, or if there is no block
link_new(p) ==
    LET dp == th[p].dp
        d == itable[dp].inum
    IN
    /\ At(p, "link_new") /\ Unlocked(dp)
    /\ itable' = ilock(itable, dp)
    /\ \/ /\ dir[d][th[p].nm] = None
          /\ dir' = [dir EXCEPT ![d][th[p].nm] = itable[th[p].keep].inum]
          /\ PutParent(p, "link_ok")
       \/ PutParent(p, "link_bad") /\ UNCHANGED dir
    /\ UNCHANGED <<dinode, lost, orphan, calls, lock, files>>

link_ok(p) ==
    /\ At(p, "link_ok")
    /\ Put(p, th[p].keep, "idle")
    /\ UNCHANGED <<disk, itable, lock, files>>

\* bad: mutant: the link is not taken back.
link_bad_keeps(p) ==
    /\ At(p, "link_bad") /\ Unlocked(th[p].keep)
    /\ itable' = ilock(itable, th[p].keep)
    /\ Put(p, th[p].keep, "idle")
    /\ UNCHANGED <<disk, lock, files>>
link_bad(p) ==
    LET ip == th[p].keep
        t == ilock(itable, ip)
        v == t[ip].nlink - 1
    IN
    /\ At(p, "link_bad") /\ Unlocked(ip)
    /\ itable' = SetLinks(t, ip, v)
    /\ dinode' = [dinode EXCEPT ![t[ip].inum].nlink = v]
    /\ Put(p, ip, "idle")
    /\ UNCHANGED <<dir, lost, orphan, calls, lock, files>>

-----------------------------------------------------------------------------
sys_chdir(p) ==
    LET ip == th[p].ip
        t == ilock(itable, ip)
    IN
    /\ At(p, "chdir") /\ Unlocked(ip)
    /\ itable' = t
    /\ IF t[ip].type = "dir" THEN Put(p, cwd[p], "chdir_end") ELSE Put(p, ip, "idle")
    /\ UNCHANGED <<disk, lock, files>>

chdir_end(p) ==
    /\ At(p, "chdir_end")
    /\ cwd' = [cwd EXCEPT ![p] = th[p].ip]
    /\ Goto(p, "idle")
    /\ UNCHANGED <<disk, itable, lock, ftable, ofile>>

\* Descriptors

\* filedup(), n times
filedup(file, n) == [file EXCEPT !.ref = @ + n]

sys_dup(p, fd) ==
    LET f == ofile[p][fd] IN
    /\ At(p, "idle") /\ f # None /\ FreeFds(p) # {}
    /\ ofile' = [ofile EXCEPT ![p][Min(FreeFds(p))] = f]
    /\ ftable' = [ftable EXCEPT ![f] = filedup(@, 1)]
    /\ UNCHANGED <<disk, itable, lock, cwd, th>>

\* fileclose(), after which the process goes on at k
fileclose(p, f, k) ==
    IF ftable[f].ref > 1
      THEN ftable' = [ftable EXCEPT ![f].ref = @ - 1] /\ Goto(p, k)
      ELSE ftable' = [ftable EXCEPT ![f] = [ref |-> 0, ip |-> None]] /\ Put(p, ftable[f].ip, k)

sys_close(p, fd) ==
    /\ At(p, "idle") /\ ofile[p][fd] # None
    /\ ofile' = [ofile EXCEPT ![p][fd] = None]
    /\ fileclose(p, ofile[p][fd], "idle")
    /\ UNCHANGED <<disk, itable, lock, cwd>>

\* exit() closes one file after the other, then puts the directory.
exit(p) ==
    LET open == {fd \in 1 .. NOFILE : ofile[p][fd] # None} IN
    /\ th[p].pc \in {"idle", "exit"} /\ p # initproc
    /\ IF open # {}
         THEN /\ ofile' = [ofile EXCEPT ![p][Min(open)] = None]
              /\ fileclose(p, ofile[p][Min(open)], "exit")
              /\ UNCHANGED cwd
         ELSE Put(p, cwd[p], "dead") /\ cwd' = [cwd EXCEPT ![p] = None] /\ UNCHANGED <<ofile, ftable>>
    /\ UNCHANGED <<disk, itable, lock>>

\* fork(): filedup() of every file and idup() of the directory
fork(p, q) ==
    /\ At(p, "idle") /\ At(q, "dead")
    /\ ofile' = [ofile EXCEPT ![q] = ofile[p]]
    /\ ftable' = [f \in File |->
                     filedup(ftable[f], Cardinality({fd \in 1 .. NOFILE : ofile[p][fd] = f}))]
    /\ cwd' = [cwd EXCEPT ![q] = cwd[p]]
    /\ itable' = idup(itable, cwd[p])
    /\ th' = [th EXCEPT ![q] = Idle]
    /\ UNCHANGED <<disk, lock>>

\* The machine stops and starts again.  No transaction is under way: one that
\* is leaves the disk as it was before it, which is such a state.
crash ==
    /\ \A p \in Proc : th[p].pc \in {"idle", "dead"}
    /\ itable' = [s \in Slot |-> IF s = 1 THEN [FreeSlot EXCEPT !.inum = ROOTINO,
                                                                !.ref = Cardinality(Proc)]
                                 ELSE FreeSlot]
    /\ lock' = [s \in Slot |-> None]
    /\ ftable' = [f \in File |-> [ref |-> 0, ip |-> None]]
    /\ ofile' = [p \in Proc |-> [fd \in 1 .. NOFILE |-> None]]
    /\ cwd' = [p \in Proc |-> 1]
    /\ th' = [p \in Proc |-> Idle]
    /\ orphan' = {n \in Inum : dinode[n].type # "none" /\ dinode[n].nlink = 0}
    /\ UNCHANGED <<dinode, dir, lost, calls>>

Put_(p) == iput(p) \/ iput_free(p) \/ iput_freed(p) \/ iput_unref(p)
Step(p) ==
    \/ Put_(p) \/ namex(p)
    \/ sys_open(p) \/ create(p) \/ create_found(p) \/ create_new(p) \/ create_fail(p)
    \/ created(p) \/ unlock_dp(p)
    \/ sys_unlink(p) \/ unlink_ip(p) \/ unlink_end(p)
    \/ sys_link(p) \/ link_new(p) \/ link_ok(p) \/ link_bad(p)
    \/ sys_chdir(p) \/ chdir_end(p)

Next ==
    \/ \E p \in Proc :
          \/ Step(p) \/ exit(p)
          \/ \E c \in Call : syscall(p, c)
          \/ \E fd \in 1 .. NOFILE : sys_dup(p, fd) \/ sys_close(p, fd)
          \/ \E q \in Proc : fork(p, q)
    \/ crash

Spec == Init /\ [][Next]_vars

-----------------------------------------------------------------------------
\* Types of the variables.
TypeOK ==
    /\ dinode \in [Inum -> [type : {"none", "file", "dir"}, nlink : 0 .. NINODES * Cardinality(Name) + Cardinality(Proc)]]
    /\ dir \in [Inum -> [Name \cup {DotDot} -> Inum \cup {None}]]
    /\ \A s \in Slot : itable[s].inum \in Inum \cup {None} /\ itable[s].ref \in Nat
    /\ lock \in [Slot -> Proc \cup {None}]
    /\ \A f \in File : ftable[f].ref \in Nat /\ ftable[f].ip \in Slot \cup {None}

\* The references that a process holds in its locals, as <<variable, entry>>
Held(p) ==
    LET h == th[p]
        walking == {"walk", "open", "create_found", "create_new", "created", "unlink_ip",
                    "unlink_end", "link", "chdir", "chdir_end"}
        parenting == {"create", "mkdir", "unlink", "create_new", "unlink_ip", "unlock_dp",
                      "link_new"}
        at == IF h.pc \in {"put", "free", "freed", "unref"} THEN h.k ELSE h.pc
    IN  (IF at \in walking THEN {<<"ip", h.ip>>} ELSE {})
        \cup (IF at \in parenting THEN {<<"dp", h.dp>>} ELSE {})
        \cup (IF h.keep # None /\ at # "idle" THEN {<<"keep", h.keep>>} ELSE {})
        \cup (IF at # h.pc THEN {<<"x", h.x>>} ELSE {})
        \cup (IF at # "chdir_end" /\ cwd[p] # None THEN {<<"cwd", cwd[p]>>} ELSE {})

\* An entry of the inode table has as many references as there are pointers to
\* it: the processes' locals and directories, and the open files; an entry of
\* the file table as many as there are descriptors.  No two entries are for
\* the same inode.
RefsCounted ==
    /\ \A s \in Slot :
          itable[s].ref =
              Cardinality({f \in File : ftable[f].ref > 0 /\ ftable[f].ip = s})
              + Cardinality(UNION {{<<p, h>> : h \in {g \in Held(p) : g[2] = s}} : p \in Proc})
    /\ \A f \in File :
          ftable[f].ref = Cardinality({x \in Proc \X (1 .. NOFILE) : ofile[x[1]][x[2]] = f})
    /\ \A s, u \in Slot :
          itable[s].ref > 0 /\ itable[u].ref > 0 /\ itable[s].inum = itable[u].inum => s = u

Names(n) == {x \in Inum \X Name : dir[x[1]][x[2]] = n}
Subdirs(n) == {d \in Inum \ {ROOTINO} : dir[d][DotDot] = n /\ Names(d) # {}}
\* The processes in link() before the name, in unlink() after it
Linking(n) ==
    {p \in Proc :
        LET h == th[p]
            at == IF h.pc \in {"put", "free", "freed", "unref"} THEN h.k ELSE h.pc
        IN  \/ h.keep # None /\ itable[h.keep].inum = n /\ at \in {"walk", "link_new", "link_bad"}
            \/ at = "unlink_end" /\ itable[h.ip].inum = n}

\* nlink counts the names and, for a directory, the ".." of those in it, up to
\* the calls that are between the one and the other.  A file whose only name
\* was in a directory that had been removed has lost it for good.
LinksCounted ==
    \A n \in Inum :
        dinode[n].type # "none" =>
            dinode[n].nlink = Cardinality(Names(n)) + Cardinality(Subdirs(n))
                              + Cardinality(Linking(n)) + lost[n]
                              + (IF n = ROOTINO THEN 1 ELSE 0)

\* A name is that of an inode in use ("ilock: no type"), and an inode without a
\* name is in use only as long as someone refers to it, or it was when the
\* machine crashed or while iput() was about to free it.
NamesAndUse ==
    /\ \A x \in Inum \X Name : dir[x[1]][x[2]] # None => dinode[dir[x[1]][x[2]]].type # "none"
    /\ \A n \in Inum :
          dinode[n].type # "none" /\ dinode[n].nlink = 0 =>
              n \in orphan \/ \E s \in Slot : itable[s].ref > 0 /\ itable[s].inum = n

\* What the table holds of an inode is what is on the disk, also when the
\* number was given out again while iput() was freeing it.
CopyCurrent ==
    \A s \in Slot :
        itable[s].ref > 0 /\ itable[s].valid =>
            \/ itable[s].type = dinode[itable[s].inum].type
               /\ itable[s].nlink = dinode[itable[s].inum].nlink
            \/ \E p \in Proc : At(p, "freed") /\ th[p].x = s

\* "ip->ref == 1 means no other process can have ip locked, so this
\* acquiresleep() won't block (or deadlock)."
IputNeverBlocks ==
    \A p \in Proc : At(p, "put") /\ must_free(th[p].x) => Unlocked(th[p].x)

\* The inode that a process wants to lock next
Wants(p) ==
    CASE th[p].pc \in {"walk", "open", "link", "chdir", "create_found", "create_new", "unlink_ip"} -> th[p].ip
      [] th[p].pc \in {"create", "mkdir", "unlink", "link_new"} -> th[p].dp
      [] th[p].pc = "link_bad" -> th[p].keep
      [] OTHER -> None

\* No processes wait for each other's inodes, nor one for its own.
NoDeadlock ==
    \A S \in SUBSET Proc \ {{}} :
        \E p \in S : Wants(p) = None \/ lock[Wants(p)] \notin S

\* ilock() finds a type: it does not panic, but for the parent of a directory
\* that has been removed, which nothing keeps from being removed and freed.
IlockFindsType ==
    \A p \in Proc :
        Wants(p) # None /\ Unlocked(Wants(p)) =>
            \/ ilock(itable, Wants(p))[Wants(p)].type # "none"
            \/ \E d \in Inum : /\ dinode[d].type = "dir" /\ dinode[d].nlink = 0
                               /\ dir[d][DotDot] = itable[Wants(p)].inum

\* The two counts that decide when an inode is freed are exact.
CountsExact == TypeOK /\ RefsCounted /\ LinksCounted

\* No call blocks for ever or panics, however the calls interleave, with the
\* exception in IlockFindsType.
NobodyStuck == IputNeverBlocks /\ NoDeadlock /\ IlockFindsType
=============================================================================
