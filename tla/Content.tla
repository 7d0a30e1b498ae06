------------------------------ MODULE Content ------------------------------
(***************************************************************************)
(* Where the contents of files and directories are on the disk: the block  *)
(* allocator, the inodes' direct and indirect blocks, readi() and writei() *)
(* (kernel/fs.c), directories as files of entries, the reads and writes    *)
(* through a struct file (kernel/file.c), and the image that mkfs/mkfs.c   *)
(* builds.                                                                 *)
(*                                                                         *)
(* Each action is what a caller does between ilock() and iunlock() of the  *)
(* inode, in one transaction.  A cell of a block is what a byte is to the  *)
(* code: it holds a written value, a directory entry (its name stands for  *)
(* it) or a block number.  fs.logged is what the transaction logged.       *)
(***************************************************************************)
EXTENDS Integers, FiniteSets, FiniteSetsExt, Sequences

CONSTANTS
    Process, Name,
    Dot,                \* the names "." and "..", and the data in the image
    Data,               \* what processes write
    BSIZE, NDIRECT, NINDIRECT, BPB, MAXOPBLOCKS,
    FSSIZE, nmeta,      \* blocks, and how many of them are meta blocks
    bmapstart, inodeblock,
    UINT,               \* the number of values of a uint
    WriteSize, ReadSize \* cells that a write() or read() asks for

MAXFILE == NDIRECT + NINDIRECT
BlockNo == 0 .. FSSIZE - 1
ROOTINO == 1
FILEINO == 2
Inode == {ROOTINO, FILEINO}

ASSUME ContentAssumption ==
    /\ MAXFILE * BSIZE < UINT /\ nmeta <= FSSIZE
    /\ bmapstart + FSSIZE \div BPB < nmeta /\ inodeblock < nmeta

VARIABLES
    fs,         \* inode, dinode: in memory and on disk; bitmap: the bits that
                \* are set; data, disk: blocks in the cache and as logged
    off,        \* f->off of the struct file that the processes share
    todo        \* n - i in filewrite(), or 0 outside of it

vars == <<fs, off, todo>>

Zeroes == [c \in 0 .. BSIZE - 1 |-> 0]
Smaller(a, b) == IF a < b THEN a ELSE b
BBLOCK(b) == bmapstart + b \div BPB

\* log_write(bp), after bp->data has been set to d
log_write(s, b, d) ==
    [s EXCEPT !.data[b] = d, !.disk[b] = d, !.logged = @ \cup {b}]

iupdate(s, i) == [s EXCEPT !.dinode[i] = s.inode[i], !.logged = @ \cup {inodeblock}]

-----------------------------------------------------------------------------
\* Blocks

\* The blocks that balloc() looks at
candidates == BlockNo

\* balloc() with its bzero(); the block is 0 when there is none.
balloc(s) ==
    LET b == IF candidates \subseteq s.bitmap THEN 0 ELSE Min(candidates \ s.bitmap) IN
    [addr |-> b,
     s |-> IF b = 0 THEN s
           ELSE log_write([s EXCEPT !.bitmap = @ \cup {b}, !.logged = @ \cup {BBLOCK(b)}],
                          b, Zeroes)]

\* The blocks keep what they held, which is Junk from here on.
Junk == [c \in 0 .. BSIZE - 1 |-> Dot]
Dump(blocks, B) == [b \in BlockNo |-> IF b \in B THEN Junk ELSE blocks[b]]
bfree(s, B) ==
    [s EXCEPT !.bitmap = @ \ B, !.logged = @ \cup {BBLOCK(b) : b \in B},
              !.data = Dump(@, B), !.disk = Dump(@, B)]

\* addrs[n], allocated if it is 0
direct(s, i, n) ==
    LET a == balloc(s) IN
    IF s.inode[i].addrs[n] # 0 THEN [addr |-> s.inode[i].addrs[n], s |-> s]
    ELSE [addr |-> a.addr, s |-> [a.s EXCEPT !.inode[i].addrs[n] = a.addr]]

\* a[n] in the indirect block blk, allocated if it is 0
indirect(s, blk, n) ==
    LET a == balloc(s) IN
    IF s.data[blk][n] # 0 THEN [addr |-> s.data[blk][n], s |-> s]
    ELSE IF a.addr = 0 THEN a
    ELSE [addr |-> a.addr, s |-> log_write(a.s, blk, [a.s.data[blk] EXCEPT ![n] = a.addr])]

bmap(s, i, bn) ==
    LET ind == direct(s, i, NDIRECT) IN
    IF bn < NDIRECT THEN direct(s, i, bn)
    ELSE IF ind.addr = 0 THEN ind
    ELSE indirect(ind.s, ind.addr, bn - NDIRECT)

\* The blocks that the inode refers to through its indirect block
Entries(s, i) ==
    LET ind == s.inode[i].addrs[NDIRECT] IN
    IF ind = 0 THEN {} ELSE {s.data[ind][n] : n \in 0 .. NINDIRECT - 1} \ {0}

\* itrunc(); mutant: the indirect block is not freed.
itrunc_keep_indirect(s, i) ==
    LET B == ({s.inode[i].addrs[n] : n \in 0 .. NDIRECT - 1} \ {0}) \cup Entries(s, i) IN
    iupdate([bfree(s, B) EXCEPT
                !.inode[i] = [size |-> 0, addrs |-> [n \in 0 .. NDIRECT |-> 0]]], i)
itrunc(s, i) ==
    LET B == ({s.inode[i].addrs[n] : n \in 0 .. NDIRECT} \ {0}) \cup Entries(s, i) IN
    iupdate([bfree(s, B) EXCEPT
                !.inode[i] = [size |-> 0, addrs |-> [n \in 0 .. NDIRECT |-> 0]]], i)

-----------------------------------------------------------------------------
\* readi() and writei()

\* The loop of readi(): the cells o .. o + n - 1
RECURSIVE read_cells(_, _, _, _)
read_cells(s, i, o, n) ==
    LET m == Smaller(n, BSIZE - (o % BSIZE))
        a == bmap(s, i, o \div BSIZE)
    IN
    IF n = 0 \/ a.addr = 0 THEN <<>>
    ELSE [c \in 1 .. m |-> a.s.data[a.addr][(o % BSIZE) + c - 1]]
            \o read_cells(a.s, i, o + m, n - m)

\* A negative n of read() is a large uint.
readi(s, i, o, n) ==
    IF o > s.inode[i].size \/ (o + n) % UINT < o THEN <<>>
    ELSE read_cells(s, i, o, IF (o + n) % UINT > s.inode[i].size
                               THEN s.inode[i].size - o ELSE n)

\* The block d with v in the m cells from o on
Patch(d, o, m, v) == [c \in 0 .. BSIZE - 1 |-> IF c \in o .. o + m - 1 THEN v ELSE d[c]]

\* either_copyin() of m cells; mutant: to the start of the block.
copyin_start(d, o, m, v) == Patch(d, 0, m, v)
copyin(d, o, m, v) == Patch(d, o % BSIZE, m, v)

\* The loop of writei().  ok cells can be copied from the caller; then
\* either_copyin() fails, after it has copied a part of a block.
RECURSIVE write_cells(_, _, _, _, _, _)
write_cells(s, i, o, n, v, ok) ==
    LET m == Smaller(n, BSIZE - (o % BSIZE))
        a == bmap(s, i, o \div BSIZE)
        d == copyin(a.s.data[a.addr], o, Smaller(m, ok), v)
    IN
    IF n = 0 THEN [s |-> s, off |-> o]
    ELSE IF a.addr = 0 THEN [s |-> a.s, off |-> o]
    ELSE IF ok < m THEN [s |-> [a.s EXCEPT !.data[a.addr] = d], off |-> o]
    ELSE write_cells(log_write(a.s, a.addr, d), i, o + m, n - m, v, ok - m)

\* The end of writei(): the size, and the inode goes to disk.  Mutant: only
\* when the size has changed.
set_size_if_changed(s, i, o) ==
    IF o > s.inode[i].size THEN iupdate([s EXCEPT !.inode[i].size = o], i) ELSE s
set_size(s, i, o) ==
    iupdate(IF o > s.inode[i].size THEN [s EXCEPT !.inode[i].size = o] ELSE s, i)

writei(s, i, o, n, v, ok) ==
    LET w == write_cells(s, i, o, n, v, ok) IN
    IF o > s.inode[i].size \/ (o + n) % UINT < o \/ (o + n) % UINT > MAXFILE * BSIZE
      THEN [s |-> s, ret |-> -1]
      ELSE [s |-> set_size(w.s, i, w.off), ret |-> w.off - o]

-----------------------------------------------------------------------------
\* Directories: the entries of the root, each read by a readi() of its own

entry(s, k) == readi(s, ROOTINO, k, 1)

\* The offsets at which dirlookup() finds the name
dirlookup(s, nm) == {k \in 0 .. s.inode[ROOTINO].size - 1 : entry(s, k) = <<nm>>}

\* Where dirlink() puts an entry
dirslot(s) ==
    LET E == {k \in 0 .. s.inode[ROOTINO].size - 1 : entry(s, k) = <<0>>} IN
    IF E = {} THEN s.inode[ROOTINO].size ELSE Min(E)

-----------------------------------------------------------------------------
\* mkfs.  m.freeblock counts up; only the disk exists.

take(m, addr) ==
    IF addr # 0 THEN [x |-> addr, m |-> m]
    ELSE [x |-> m.freeblock, m |-> [m EXCEPT !.freeblock = @ + 1]]

\* The block for file block fbn, in the loop of iappend()
place(m, i, fbn) ==
    IF fbn < NDIRECT
      THEN LET a == take(m, m.dinode[i].addrs[fbn]) IN
           [x |-> a.x, m |-> [a.m EXCEPT !.dinode[i].addrs[fbn] = a.x]]
      ELSE LET ind == take(m, m.dinode[i].addrs[NDIRECT])
               a == take(ind.m, ind.m.disk[ind.x][fbn - NDIRECT])
           IN  [x |-> a.x, m |-> [a.m EXCEPT !.dinode[i].addrs[NDIRECT] = ind.x,
                                             !.disk[ind.x][fbn - NDIRECT] = a.x]]

RECURSIVE append_cells(_, _, _, _, _)
append_cells(m, i, o, n, v) ==
    LET fbn == o \div BSIZE
        a == place(m, i, fbn)
        n1 == Smaller(n, (fbn + 1) * BSIZE - o)
    IN
    IF n = 0 THEN [m EXCEPT !.dinode[i].size = o]
    ELSE append_cells([a.m EXCEPT !.disk[a.x] = Patch(@, o - fbn * BSIZE, n1, v)],
                      i, o + n1, n - n1, v)
iappend(m, i, n, v) == append_cells(m, i, m.dinode[i].size, n, v)

\* "fix size of root inode dir"
fix_root(m) ==
    [m EXCEPT !.dinode[ROOTINO].size = ((@ \div BSIZE) + 1) * BSIZE]

\* The image with one file, called nm, of n cells
image(nm, n) ==
    LET zero == [size |-> 0, addrs |-> [k \in 0 .. NDIRECT |-> 0]]
        m0 == [dinode |-> [i \in Inode |-> zero], disk |-> [b \in BlockNo |-> Zeroes],
               freeblock |-> nmeta]
        m1 == iappend(iappend(m0, ROOTINO, 1, Dot), ROOTINO, 1, Dot)
    IN  fix_root(iappend(iappend(m1, ROOTINO, 1, nm), FILEINO, n, Dot))

mkfs_balloc(m) == 0 .. m.freeblock - 1

Init ==
    /\ \E nm \in Name, n \in {0, BSIZE} :
          LET m == image(nm, n) IN
          fs = [inode |-> m.dinode, dinode |-> m.dinode, bitmap |-> mkfs_balloc(m),
                data |-> m.disk, disk |-> m.disk, logged |-> {}]
    /\ off = 0
    /\ todo = [p \in Process |-> 0]

-----------------------------------------------------------------------------
\* System calls

Begin == [fs EXCEPT !.logged = {}]

\* filewrite() is called ...
filewrite(p, n) ==
    /\ todo[p] = 0
    /\ todo' = [todo EXCEPT ![p] = n]
    /\ UNCHANGED <<fs, off>>

\* The cells of one transaction in filewrite(); mutant: without "2 blocks of
\* slop for non-aligned writes".
max_no_slop == ((MAXOPBLOCKS - 1 - 1) \div 2) * BSIZE
max == ((MAXOPBLOCKS - 1 - 1 - 2) \div 2) * BSIZE

\* ... and goes through its loop once
filewrite_chunk(p, ok) ==
    LET n1 == Smaller(todo[p], max)
        w == writei(Begin, FILEINO, off, n1, Data, ok)
    IN
    /\ todo[p] > 0 /\ ok <= n1
    /\ fs' = w.s
    /\ off' = IF w.ret > 0 THEN off + w.ret ELSE off
    /\ todo' = [todo EXCEPT ![p] = IF w.ret = n1 THEN @ - n1 ELSE 0]

fileread(n) ==
    /\ off' = off + Len(readi(fs, FILEINO, off, n))
    /\ UNCHANGED <<fs, todo>>

\* open() again, which gives a new offset, and open() with O_TRUNC by anyone
sys_open ==
    /\ \A p \in Process : todo[p] = 0
    /\ off' = 0
    /\ UNCHANGED <<fs, todo>>

sys_open_trunc ==
    /\ fs' = itrunc(Begin, FILEINO)
    /\ UNCHANGED <<off, todo>>

\* dirlink() fails when the name is there
dirlink(nm) ==
    /\ dirlookup(fs, nm) = {}
    /\ fs' = writei(Begin, ROOTINO, dirslot(fs), 1, nm, 1).s
    /\ UNCHANGED <<off, todo>>

\* unlink() clears the entry.
unlink(nm) ==
    /\ \E k \in dirlookup(fs, nm) : fs' = writei(Begin, ROOTINO, k, 1, 0, 1).s
    /\ UNCHANGED <<off, todo>>

\* bget() recycles the buffer of a block; the block is read again later.
evict(b) ==
    /\ fs.data[b] # fs.disk[b]
    /\ fs' = [fs EXCEPT !.data[b] = fs.disk[b]]
    /\ UNCHANGED <<off, todo>>

Next ==
    \/ \E p \in Process :
          \/ \E n \in WriteSize : filewrite(p, n)
          \/ \E ok \in 0 .. max : filewrite_chunk(p, ok)
    \/ \E n \in ReadSize : fileread(n)
    \/ sys_open \/ sys_open_trunc
    \/ \E nm \in Name : dirlink(nm) \/ unlink(nm)
    \/ \E b \in BlockNo : evict(b)

Spec == Init /\ [][Next]_vars

-----------------------------------------------------------------------------
\* The n-th block number that inode i holds: the direct ones, the indirect
\* block and the ones listed there
Holds(i, n) ==
    IF n <= NDIRECT THEN fs.inode[i].addrs[n]
    ELSE IF fs.inode[i].addrs[NDIRECT] = 0 THEN 0
    ELSE fs.data[fs.inode[i].addrs[NDIRECT]][n - NDIRECT - 1]

BlockOf(i, bn) == Holds(i, IF bn < NDIRECT THEN bn ELSE bn + 1)
Cell(i, k) == fs.data[BlockOf(i, k \div BSIZE)][k % BSIZE]
LoggedCell(i, k) == fs.disk[BlockOf(i, k \div BSIZE)][k % BSIZE]
Size(i) == fs.inode[i].size

\* Types of the variables.
TypeOK ==
    /\ \A i \in Inode :
          /\ fs.inode[i].size \in 0 .. MAXFILE * BSIZE
          /\ fs.inode[i].addrs \in [0 .. NDIRECT -> BlockNo]
    /\ fs.bitmap \subseteq BlockNo /\ fs.logged \subseteq BlockNo
    /\ off \in 0 .. MAXFILE * BSIZE
    /\ todo \in [Process -> 0 .. Max(WriteSize)]

\* After every call, also one that ran out of blocks halfway or could not copy
\* from the caller, the bitmap has exactly the meta blocks and the blocks that
\* inodes hold, and no block is held twice: none is leaked, shared, or freed
\* while in use ("freeing free block").
BitmapExact ==
    LET Places == {x \in Inode \X (0 .. MAXFILE) : Holds(x[1], x[2]) # 0} IN
    /\ fs.bitmap = 0 .. nmeta - 1 \cup {Holds(x[1], x[2]) : x \in Places}
    /\ \A x \in Places : Holds(x[1], x[2]) >= nmeta
    /\ \A x, y \in Places : x # y => Holds(x[1], x[2]) # Holds(y[1], y[2])

\* Every block below the size is there, so that bmap() never allocates for
\* readi(): fileread() is not in a transaction, and log_write() would panic;
\* dirlookup() panics on a short read.
NoHoles ==
    \A i \in Inode : \A k \in 0 .. Size(i) - 1 : BlockOf(i, k \div BSIZE) # 0

\* iupdate() has been called after every change of an inode: what ilock() would
\* read from the disk again is what was in memory.
InodeSaved == fs.dinode = fs.inode

\* No transaction logs more blocks than begin_op() has set aside for it.
OpFits == Cardinality(fs.logged) <= MAXOPBLOCKS

\* readi() returns the cells of the file from off on, as many as there are
\* and as asked for.
ReadsRight ==
    \A i \in Inode : \A o \in 0 .. Size(i) + 1, n \in {0, 1, BSIZE + 1, UINT - 1} :
        readi(fs, i, o, n) =
            IF o + n >= UINT THEN <<>>
            ELSE [c \in 1 .. Max({0, Smaller(n, Size(i) - o)}) |-> Cell(i, o + c - 1)]

\* No name is twice in the directory, and "." and ".." stay.
NamesUnique ==
    /\ \A nm \in Name : Cardinality(dirlookup(fs, nm)) <= 1
    /\ dirlookup(fs, Dot) = {0, 1}

\* A cell changes only to what a write() that is under way put there: at its
\* offset or after it, within its length; or it goes back to what the log has.
\* A call that moves the offset has written all that it moved over.  Nothing
\* that happens to the file reaches the directory, and the other way round.
WriteEffect ==
    [][ /\ \A k \in 0 .. Size(FILEINO)' - 1 :
              \/ k < Size(FILEINO) /\ Cell(FILEINO, k)' = Cell(FILEINO, k)
              \/ \E p \in Process : Cell(FILEINO, k)' = Data /\ k \in off .. off + todo[p] - 1
              \/ k < Size(FILEINO) /\ Cell(FILEINO, k)' = LoggedCell(FILEINO, k)
        /\ \A p \in Process :
              todo[p] > todo'[p] /\ off' > off =>
                  \A k \in off .. off' - 1 : Cell(FILEINO, k)' = Data
        /\ \A k \in 0 .. Smaller(Size(ROOTINO), Size(ROOTINO)') - 1 :
              Cell(ROOTINO, k) # Cell(ROOTINO, k)' => UNCHANGED <<off, todo, Size(FILEINO)>>
      ]_vars

\* Between calls a file is whole: all its blocks are there, its inode is on
\* disk, it reads as what was written, and no name is in the directory twice.
FilesWhole == TypeOK /\ NoHoles /\ InodeSaved /\ ReadsRight /\ NamesUnique
=============================================================================
