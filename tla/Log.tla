-------------------------------- MODULE Log --------------------------------
(***************************************************************************)
(* The write-ahead log of kernel/log.c, with the part of the buffer cache  *)
(* it relies on (pins, kernel/bio.c) and the disk it writes to.  A process *)
(* runs file-system calls begin_op(); log_write()*; end_op(); the last     *)
(* call to end commits for all.  The machine may crash between any two     *)
(* disk writes, and initlog() recovers at the next boot.                   *)
(*                                                                         *)
(* Grain: a section of code under log.lock is one action; each bwrite() is *)
(* an action of its own, a block write being all or nothing.  sleep() and  *)
(* wakeup() on &log are the set of processes whose pc is "sleeping".       *)
(***************************************************************************)
EXTENDS Naturals, Sequences, FiniteSets

CONSTANTS
    Proc,         \* processes that make file-system calls
    Block,        \* home blocks of the disk
    Val,          \* contents of a block
    NotCached,    \* no buffer holds the block
    MAXOPBLOCKS,  \* kernel/param.h: blocks a call may log
    LOGSIZE,      \* kernel/param.h: size of the in-memory block list
    NLog,         \* sb.nlog: log blocks on disk, header included
    OpBlocks      \* distinct blocks a call of the workload really logs

ASSUME LogAssumption ==
    /\ MAXOPBLOCKS \in Nat /\ LOGSIZE \in Nat /\ OpBlocks \in Nat
    /\ MAXOPBLOCKS <= LOGSIZE
    /\ NLog \in Nat \ {0}
    /\ IsFiniteSet(Proc)
    /\ NotCached \notin Val

VARIABLES
    home,         \* disk: home location of every block
    logd,         \* disk: data blocks of the log (log.start+1 ...)
    header,       \* disk: header block of the log, its first n entries
    boot,         \* progress of initlog(), then "up", or "panic"
    lh,           \* log.lh, its first n entries
    outstanding,  \* log.outstanding
    committing,   \* log.committing
    phase,        \* progress of commit()
    tail,         \* loop variable of write_log() and install_trans(), from 1
    cache,        \* contents of the buffer of each block
    refcnt,       \* references bpin() holds on that buffer
    pc,           \* where each process is
    wrote         \* blocks logged by the call in progress

disk == <<home, logd, header>>
logvars == <<lh, outstanding, committing>>
bufs == <<cache, refcnt>>
procs == <<pc, wrote>>
vars == <<home, logd, header, boot, lh, outstanding, committing, phase, tail,
          cache, refcnt, pc, wrote>>

Slots == 1 .. (NLog - 1)
Logged(s) == {s[i] : i \in DOMAIN s}

(***************************************************************************)
(* What a reader of the running system sees: bread() returns the buffer,   *)
(* or reads the disk when there is none.                                   *)
(***************************************************************************)
View == [b \in Block |-> IF cache[b] = NotCached THEN home[b] ELSE cache[b]]

\* mkfs leaves an empty log, with nothing known of its data blocks; the
\* memory is that of a machine about to boot.
Init ==
    /\ home \in [Block -> Val]
    /\ logd \in [Slots -> Val]
    /\ header = <<>>
    /\ boot = "read_head"
    /\ lh = <<>> /\ outstanding = 0 /\ committing = FALSE
    /\ phase = "none" /\ tail = 1
    /\ cache = [b \in Block |-> NotCached]
    /\ refcnt = [b \in Block |-> 0]
    /\ pc = [p \in Proc |-> "idle"]
    /\ wrote = [p \in Proc |-> {}]

\* A crash loses the memory, and the machine boots.
Crash ==
    /\ boot' = "read_head"
    /\ lh' = <<>> /\ outstanding' = 0 /\ committing' = FALSE
    /\ phase' = "none" /\ tail' = 1
    /\ cache' = [b \in Block |-> NotCached]
    /\ refcnt' = [b \in Block |-> 0]
    /\ pc' = [p \in Proc |-> "idle"]
    /\ wrote' = [p \in Proc |-> {}]
    /\ UNCHANGED disk

-----------------------------------------------------------------------------
\* initlog(): recover_from_log()

read_head ==
    /\ boot = "read_head"
    /\ lh' = header
    /\ tail' = 1
    /\ boot' = "install"
    /\ UNCHANGED <<disk, outstanding, committing, phase, bufs, procs>>

\* Mutant of bpin: log_write() does not pin the buffer.
bpin_forgotten(b) == UNCHANGED refcnt

\* bpin() and bunpin(), under bcache.lock
bpin(b) == refcnt' = [refcnt EXCEPT ![b] = @ + 1]
bunpin(b) == refcnt' = [refcnt EXCEPT ![b] = @ - 1]

(***************************************************************************)
(* One turn of the loop of install_trans(): the home block and its buffer  *)
(* get the contents of log block tail; a pin is dropped outside recovery.  *)
(***************************************************************************)
install_block(recovering) ==
    LET b == lh[tail] IN
    /\ tail <= Len(lh)
    /\ home' = [home EXCEPT ![b] = logd[tail]]
    /\ cache' = [cache EXCEPT ![b] = logd[tail]]
    /\ IF recovering THEN UNCHANGED refcnt ELSE bunpin(b)
    /\ tail' = tail + 1

recover_install ==
    /\ boot = "install"
    /\ install_block(TRUE)
    /\ UNCHANGED <<logd, header, boot, logvars, phase, procs>>

recover_clear ==
    /\ boot = "install"
    /\ tail > Len(lh)
    /\ lh' = <<>>
    /\ header' = <<>>
    /\ boot' = "up"
    /\ UNCHANGED <<home, logd, outstanding, committing, phase, tail, bufs, procs>>

-----------------------------------------------------------------------------
\* The buffer cache, as far as the log relies on it

\* bget() may recycle any buffer nobody has a reference to.
evict(b) ==
    /\ cache[b] # NotCached
    /\ refcnt[b] = 0
    /\ cache' = [cache EXCEPT ![b] = NotCached]
    /\ UNCHANGED <<disk, boot, logvars, phase, tail, refcnt, procs>>

bread(b) ==
    /\ boot = "up"
    /\ cache[b] = NotCached
    /\ cache' = [cache EXCEPT ![b] = home[b]]
    /\ UNCHANGED <<disk, boot, logvars, phase, tail, refcnt, procs>>

-----------------------------------------------------------------------------
\* File-system calls

\* Mutant of wakeup: nobody is woken.
wakeup_lost(q) == q

\* wakeup(&log) applied to the program counters q
wakeup(q) == [p \in Proc |-> IF q[p] = "sleeping" THEN "begin" ELSE q[p]]

\* Mutant of MustWait: a call may start during a commit.
MustWait_for_room_only == Len(lh) + (outstanding + 1) * MAXOPBLOCKS > LOGSIZE

NoRoom == Len(lh) + (outstanding + 1) * MAXOPBLOCKS > LOGSIZE
MustWait == committing \/ NoRoom

\* One turn of the loop of begin_op(), on entry or after a wakeup.
begin_op(p) ==
    /\ boot = "up"
    /\ pc[p] \in {"idle", "begin"}
    /\ IF MustWait
         THEN /\ pc' = [pc EXCEPT ![p] = "sleeping"]
              /\ UNCHANGED outstanding
         ELSE /\ outstanding' = outstanding + 1
              /\ pc' = [pc EXCEPT ![p] = "op"]
    /\ UNCHANGED <<disk, boot, lh, committing, phase, tail, bufs, wrote>>

TooBig == Len(lh) >= LOGSIZE \/ Len(lh) >= NLog - 1

(***************************************************************************)
(* The caller has read block b, changed it to v and holds its buffer.      *)
(* panic() is left with log.lock held, so the log stops until a restart.   *)
(***************************************************************************)
log_write(p, b, v) ==
    /\ boot = "up"
    /\ pc[p] = "op"
    /\ b \in wrote[p] \/ Cardinality(wrote[p]) < OpBlocks
    /\ IF TooBig \/ outstanding < 1
         THEN /\ boot' = "panic"
              /\ UNCHANGED <<lh, bufs, wrote>>
         ELSE /\ cache' = [cache EXCEPT ![b] = v]
              /\ wrote' = [wrote EXCEPT ![p] = @ \cup {b}]
              /\ IF b \in Logged(lh)
                   THEN UNCHANGED <<lh, refcnt>>
                   ELSE /\ lh' = Append(lh, b)
                        /\ bpin(b)
              /\ UNCHANGED boot
    /\ UNCHANGED <<disk, outstanding, committing, phase, tail, pc>>

end_op(p) ==
    /\ boot = "up"
    /\ pc[p] = "op"
    /\ outstanding' = outstanding - 1
    /\ wrote' = [wrote EXCEPT ![p] = {}]
    /\ boot' = IF committing THEN "panic" ELSE boot
    /\ IF outstanding' = 0
         THEN /\ committing' = TRUE
              /\ pc' = [pc EXCEPT ![p] = "commit"]
              /\ phase' = IF Len(lh) > 0 THEN "write_log" ELSE "done"
              /\ tail' = 1
         ELSE /\ pc' = wakeup([pc EXCEPT ![p] = "idle"])
              /\ UNCHANGED <<committing, phase, tail>>
    /\ UNCHANGED <<disk, lh, bufs>>

-----------------------------------------------------------------------------
\* commit(), by the process whose end_op() was the last

write_log(p) ==
    /\ boot = "up"
    /\ pc[p] = "commit" /\ phase = "write_log"
    /\ tail <= Len(lh)
    /\ logd' = [logd EXCEPT ![tail] = View[lh[tail]]]
    /\ tail' = tail + 1
    /\ UNCHANGED <<home, header, boot, logvars, phase, bufs, procs>>

\* Mutant of write_head: the header goes to disk before the log blocks.
write_head_early(p) ==
    /\ boot = "up"
    /\ pc[p] = "commit" /\ phase = "write_log"
    /\ header' = lh
    /\ phase' = "install"
    /\ tail' = 1
    /\ UNCHANGED <<home, logd, boot, logvars, bufs, procs>>

\* The commit point.
write_head(p) ==
    /\ boot = "up"
    /\ pc[p] = "commit" /\ phase = "write_log"
    /\ tail > Len(lh)
    /\ header' = lh
    /\ phase' = "install"
    /\ tail' = 1
    /\ UNCHANGED <<home, logd, boot, logvars, bufs, procs>>

install_trans(p) ==
    /\ boot = "up"
    /\ pc[p] = "commit" /\ phase = "install"
    /\ install_block(FALSE)
    /\ UNCHANGED <<logd, header, boot, logvars, phase, procs>>

erase_head(p) ==
    /\ boot = "up"
    /\ pc[p] = "commit" /\ phase = "install"
    /\ tail > Len(lh)
    /\ lh' = <<>>
    /\ header' = <<>>
    /\ phase' = "done"
    /\ UNCHANGED <<home, logd, boot, outstanding, committing, tail, bufs, procs>>

\* Mutant of commit_done: log.committing is not reset.
commit_done_no_reset(p) ==
    /\ boot = "up"
    /\ pc[p] = "commit" /\ phase = "done"
    /\ phase' = "none"
    /\ pc' = wakeup([pc EXCEPT ![p] = "idle"])
    /\ UNCHANGED <<disk, boot, lh, outstanding, committing, tail, bufs, wrote>>

\* The tail of end_op() after commit().
commit_done(p) ==
    /\ boot = "up"
    /\ pc[p] = "commit" /\ phase = "done"
    /\ committing' = FALSE
    /\ phase' = "none"
    /\ pc' = wakeup([pc EXCEPT ![p] = "idle"])
    /\ UNCHANGED <<disk, boot, lh, outstanding, tail, bufs, wrote>>

commit(p) ==
    write_log(p) \/ write_head(p) \/ install_trans(p) \/ erase_head(p) \/ commit_done(p)

recover == read_head \/ recover_install \/ recover_clear

Next ==
    \/ recover
    \/ \E b \in Block : evict(b) \/ bread(b)
    \/ \E p \in Proc : begin_op(p) \/ end_op(p) \/ commit(p)
    \/ \E p \in Proc, b \in Block, v \in Val : log_write(p, b, v)
    \/ Crash

Spec == Init /\ [][Next]_vars

(***************************************************************************)
(* Fairness: the scheduler runs every process, the disk answers, and a     *)
(* call in progress reaches its end_op().  Nothing is assumed of new       *)
(* calls, of the cache's evictions or of crashes.                          *)
(***************************************************************************)
FairSpec ==
    /\ Spec
    /\ WF_vars(recover)
    /\ \A p \in Proc : WF_vars(end_op(p)) /\ WF_vars(commit(p))
    /\ \A p \in Proc : WF_vars(pc[p] = "begin" /\ begin_op(p))

-----------------------------------------------------------------------------
\* Properties

\* Every variable has its type: the logged blocks fit the log on disk, and
\* log.outstanding counts the calls between begin_op() and end_op().
TypeOK ==
    /\ home \in [Block -> Val]
    /\ logd \in [Slots -> Val]
    /\ header \in Seq(Block) /\ Len(header) <= NLog - 1
    /\ lh \in Seq(Block) /\ Len(lh) <= NLog - 1
    /\ boot \in {"read_head", "install", "up", "panic"}
    /\ phase \in {"none", "write_log", "install", "done"}
    /\ tail \in 1 .. NLog
    /\ cache \in [Block -> Val \cup {NotCached}]
    /\ refcnt \in [Block -> Nat]
    /\ pc \in [Proc -> {"idle", "begin", "sleeping", "op", "commit"}]
    /\ wrote \in [Proc -> SUBSET Block]
    /\ committing \in BOOLEAN
    /\ outstanding = Cardinality({p \in Proc : pc[p] = "op"})

\* A buffer that bget() may recycle (refcnt 0) holds what the disk holds, so
\* no update is lost by recycling it before install_trans() has written it.
RecyclableIsClean ==
    \A b \in Block : cache[b] # NotCached /\ refcnt[b] = 0 => cache[b] = home[b]

\* A process asleep in begin_op() always has somebody left to wake it: a call
\* in progress, whose end_op() wakes it, or a commit, which wakes it when done.
SleeperHasWaker ==
    (\E p \in Proc : pc[p] = "sleeping") => outstanding > 0 \/ committing

\* The space begin_op() reserves is enough: log_write() never panics with
\* "too big a transaction", nor end_op() with "log.committing".
NoPanic == boot # "panic"

\* A process asleep in begin_op() is woken, whoever ends or commits meanwhile.
SleeperWakes ==
    \A p \in Proc : pc[p] = "sleeping" ~> pc[p] # "sleeping"

\* Once end_op() has set log.committing, the commit ends and new calls may
\* start again (or the machine restarts).
CommitEnds == committing ~> ~committing

\* Nobody waits for the log for ever.
LogProgress == SleeperWakes /\ CommitEnds

(***************************************************************************)
(* Refinement.  What a restart would find is the home blocks overlaid with *)
(* the log blocks that the on-disk header names.                           *)
(***************************************************************************)
Overlay(hdr, data, base) ==
    [b \in Block |->
        IF b \in Logged(hdr) THEN data[CHOOSE i \in DOMAIN hdr : hdr[i] = b]
                             ELSE base[b]]

Durable == Overlay(header, logd, home)

Shown == IF boot \in {"read_head", "install"} THEN Durable ELSE View

Abs == INSTANCE AtomicDisk WITH
          durable <- Durable,
          volatile <- Shown,
          active <- {p \in Proc : pc[p] = "op"}

\* The log makes file-system calls atomic across crashes: the overlapping
\* calls' writes become durable together, at write_head(), or not at all, and
\* what a running system shows is always what the calls have written.
CrashAtomic == Abs!Spec
=============================================================================
