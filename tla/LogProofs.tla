----------------------------- MODULE LogProofs ------------------------------
(***************************************************************************)
(* Proofs about Log, for any number of processes, blocks and log blocks:   *)
(* its inductive invariant, that every step preserves it, what follows     *)
(* from it, and that Log implements AtomicDisk.                            *)
(***************************************************************************)
EXTENDS Log, TLAPS

\* TypeOK, but for the two variables that take other provers.
Types ==
    /\ home \in [Block -> Val]
    /\ logd \in [Slots -> Val]
    /\ header \in Seq(Block) /\ Len(header) <= NLog - 1
    /\ lh \in Seq(Block) /\ Len(lh) <= NLog - 1
    /\ boot \in {"read_head", "install", "up", "panic"}
    /\ phase \in {"none", "write_log", "install", "done"}
    /\ tail \in 1 .. NLog
    /\ cache \in [Block -> Val \cup {NotCached}]
    /\ refcnt \in [Block -> Nat]
    /\ pc \in [Proc -> {"idle", "begin", "sleeping", "op", "commit"}]
    /\ wrote \in [Proc -> SUBSET Block]

Ops == {p \in Proc : pc[p] = "op"}

Count == outstanding = Cardinality(Ops)

Recovering == boot \in {"read_head", "install"}

\* No block is logged twice: log_write() absorbs.
ListInv ==
    /\ \A i, j \in DOMAIN lh : lh[i] = lh[j] => i = j
    /\ \A i, j \in DOMAIN header : header[i] = header[j] => i = j

\* A commit runs only while no call is in progress, and nothing during recovery.
CallInv ==
    /\ committing <=> phase # "none"
    /\ committing => \A p \in Proc : pc[p] # "op"
    /\ Recovering => ~committing /\ \A p \in Proc : pc[p] # "op"

\* The blocks whose update exists only in their buffer, or in the log.
Uninstalled(b) ==
    /\ ~Recovering
    /\ \E i \in DOMAIN lh : lh[i] = b /\ (phase = "install" => tail <= i)

\* Exactly these blocks are pinned, and pinned once.
PinInv ==
    \A b \in Block :
        IF Uninstalled(b) THEN refcnt[b] = 1 /\ cache[b] # NotCached
                          ELSE refcnt[b] = 0

\* How far each loop of commit() and recover_from_log() has got.
ProgressInv ==
    /\ boot = "install" =>
          /\ lh = header
          /\ \A i \in DOMAIN lh : i < tail => home[lh[i]] = logd[i]
    /\ ~Recovering =>
          /\ phase # "install" => header = <<>>
          /\ phase = "done" => lh = <<>>
          /\ phase = "write_log" =>
                \A i \in DOMAIN lh : i < tail => logd[i] = cache[lh[i]]
          /\ phase = "install" =>
                /\ header = lh
                /\ \A i \in DOMAIN lh :
                      IF i < tail THEN home[lh[i]] = logd[i]
                                  ELSE cache[lh[i]] = logd[i]

IInv ==
    /\ Types
    /\ Count
    /\ committing \in BOOLEAN
    /\ ListInv
    /\ CallInv
    /\ PinInv
    /\ RecyclableIsClean
    /\ ProgressInv

-----------------------------------------------------------------------------
\* Each action but the calls that count preserves the invariant.

\* Recovery reads the header.
LEMMA ReadHeadInv ==
    ASSUME IInv, read_head
    PROVE  IInv'
<1> USE DEF IInv, read_head, disk, bufs, procs
<1>1. Types'
  BY LogAssumption DEF Types, Slots
<1>2. Count'
  BY DEF Count, Ops
<1>3. committing' \in BOOLEAN
  OBVIOUS
<1>4. ListInv'
  BY DEF Types, ListInv, ProgressInv, Recovering
<1>5. CallInv'
  BY DEF Types, CallInv, Recovering
<1>6. PinInv'
  BY DEF Types, PinInv, Recovering, Uninstalled, ListInv, ProgressInv
<1>7. RecyclableIsClean'
  BY DEF Types, RecyclableIsClean, PinInv, Recovering, Uninstalled, ListInv, ProgressInv
<1>8. ProgressInv'
  BY DEF Types, ProgressInv, Recovering, ListInv, PinInv, Uninstalled
<1> QED BY <1>1, <1>2, <1>3, <1>4, <1>5, <1>6, <1>7, <1>8

\* Recovery copies one log block to its home.
LEMMA RecoverInstallInv ==
    ASSUME IInv, recover_install
    PROVE  IInv'
<1> USE DEF IInv, recover_install, install_block, logvars, procs
<1>1. Types'
  BY LogAssumption DEF Types, Slots
<1>2. Count'
  BY DEF Count, Ops
<1>3. committing' \in BOOLEAN
  OBVIOUS
<1>4. ListInv'
  BY DEF Types, ListInv, ProgressInv, Recovering
<1>5. CallInv'
  BY DEF Types, CallInv, Recovering
<1>6. PinInv'
  BY DEF Types, PinInv, Recovering, Uninstalled, ListInv, ProgressInv
<1>7. RecyclableIsClean'
  BY DEF Types, RecyclableIsClean, PinInv, Recovering, Uninstalled, ListInv, ProgressInv
<1>8. ProgressInv'
  BY DEF Types, ProgressInv, Recovering, ListInv, PinInv, Uninstalled
<1> QED BY <1>1, <1>2, <1>3, <1>4, <1>5, <1>6, <1>7, <1>8

\* Recovery clears the header.
LEMMA RecoverClearInv ==
    ASSUME IInv, recover_clear
    PROVE  IInv'
<1> USE DEF IInv, recover_clear, bufs, procs
<1>1. Types'
  BY LogAssumption DEF Types, Slots
<1>2. Count'
  BY DEF Count, Ops
<1>3. committing' \in BOOLEAN
  OBVIOUS
<1>4. ListInv'
  BY DEF Types, ListInv, ProgressInv, Recovering
<1>5. CallInv'
  BY DEF Types, CallInv, Recovering
<1>6. PinInv'
  BY DEF Types, PinInv, Recovering, Uninstalled, ListInv, ProgressInv
<1>7. RecyclableIsClean'
  BY DEF Types, RecyclableIsClean, PinInv, Recovering, Uninstalled, ListInv, ProgressInv
<1>8. ProgressInv'
  BY DEF Types, ProgressInv, Recovering, ListInv, PinInv, Uninstalled
<1> QED BY <1>1, <1>2, <1>3, <1>4, <1>5, <1>6, <1>7, <1>8

\* A buffer is recycled.
LEMMA EvictInv ==
    ASSUME IInv, NEW b \in Block, evict(b)
    PROVE  IInv'
<1> USE DEF IInv, evict, disk, logvars, procs
<1>1. Types'
  BY LogAssumption DEF Types, Slots
<1>2. Count'
  BY DEF Count, Ops
<1>3. committing' \in BOOLEAN
  OBVIOUS
<1>4. ListInv'
  BY DEF Types, ListInv, ProgressInv, Recovering
<1>5. CallInv'
  BY DEF Types, CallInv, Recovering
<1>6. PinInv'
  BY DEF Types, PinInv, Recovering, Uninstalled, ListInv, ProgressInv
<1>7. RecyclableIsClean'
  BY DEF Types, RecyclableIsClean, PinInv, Recovering, Uninstalled, ListInv, ProgressInv
<1>8. ProgressInv'
  BY DEF Types, ProgressInv, Recovering, ListInv, PinInv, Uninstalled
<1> QED BY <1>1, <1>2, <1>3, <1>4, <1>5, <1>6, <1>7, <1>8

\* A block is read.
LEMMA BreadInv ==
    ASSUME IInv, NEW b \in Block, bread(b)
    PROVE  IInv'
<1> USE DEF IInv, bread, disk, logvars, procs
<1>1. Types'
  BY LogAssumption DEF Types, Slots
<1>2. Count'
  BY DEF Count, Ops
<1>3. committing' \in BOOLEAN
  OBVIOUS
<1>4. ListInv'
  BY DEF Types, ListInv, ProgressInv, Recovering
<1>5. CallInv'
  BY DEF Types, CallInv, Recovering
<1>6. PinInv'
  BY DEF Types, PinInv, Recovering, Uninstalled, ListInv, ProgressInv
<1>7. RecyclableIsClean'
  BY DEF Types, RecyclableIsClean, PinInv, Recovering, Uninstalled, ListInv, ProgressInv
<1>8. ProgressInv'
  BY DEF Types, ProgressInv, Recovering, ListInv, PinInv, Uninstalled
<1> QED BY <1>1, <1>2, <1>3, <1>4, <1>5, <1>6, <1>7, <1>8

\* commit() copies one buffer to the log.
LEMMA WriteLogInv ==
    ASSUME IInv, NEW p \in Proc, write_log(p)
    PROVE  IInv'
<1> USE DEF IInv, write_log, logvars, bufs, procs, View
<1>1. Types'
  BY LogAssumption DEF Types, Slots
<1>2. Count'
  BY DEF Count, Ops
<1>3. committing' \in BOOLEAN
  OBVIOUS
<1>4. ListInv'
  BY DEF Types, ListInv, ProgressInv, Recovering
<1>5. CallInv'
  BY DEF Types, CallInv, Recovering
<1>6. PinInv'
  BY DEF Types, PinInv, Recovering, Uninstalled, ListInv, ProgressInv
<1>7. RecyclableIsClean'
  BY DEF Types, RecyclableIsClean, PinInv, Recovering, Uninstalled, ListInv, ProgressInv
<1>8. ProgressInv'
  <2>1. lh[tail] \in Block /\ tail \in DOMAIN lh /\ tail \in Slots
    BY LogAssumption DEF Types, Slots
  <2>2. Uninstalled(lh[tail])
    BY <2>1 DEF Uninstalled, Recovering
  <2>3. logd'[tail] = cache[lh[tail]]
    BY <2>1, <2>2 DEF Types, PinInv
  <2>4. \A i \in DOMAIN lh : i < tail => logd'[i] = logd[i]
    BY LogAssumption DEF Types, Slots
  <2>5. \A i \in DOMAIN lh : i < tail' => i < tail \/ i = tail
    BY DEF Types
  <2>6. \A i \in DOMAIN lh' : i < tail' => logd'[i] = cache'[lh'[i]]
    BY <2>3, <2>4, <2>5 DEF ProgressInv, Recovering
  <2> QED BY <2>6 DEF ProgressInv, Recovering
<1> QED BY <1>1, <1>2, <1>3, <1>4, <1>5, <1>6, <1>7, <1>8

\* commit() writes the header.
LEMMA WriteHeadInv ==
    ASSUME IInv, NEW p \in Proc, write_head(p)
    PROVE  IInv'
<1> USE DEF IInv, write_head, logvars, bufs, procs
<1>1. Types'
  BY LogAssumption DEF Types, Slots
<1>2. Count'
  BY DEF Count, Ops
<1>3. committing' \in BOOLEAN
  OBVIOUS
<1>4. ListInv'
  BY DEF Types, ListInv, ProgressInv, Recovering
<1>5. CallInv'
  BY DEF Types, CallInv, Recovering
<1>6. PinInv'
  BY DEF Types, PinInv, Recovering, Uninstalled, ListInv, ProgressInv
<1>7. RecyclableIsClean'
  BY DEF Types, RecyclableIsClean, PinInv, Recovering, Uninstalled, ListInv, ProgressInv
<1>8. ProgressInv'
  BY DEF Types, ProgressInv, Recovering, ListInv, PinInv, Uninstalled
<1> QED BY <1>1, <1>2, <1>3, <1>4, <1>5, <1>6, <1>7, <1>8

\* commit() installs one block and drops its pin.
LEMMA InstallInv ==
    ASSUME IInv, NEW p \in Proc, install_trans(p)
    PROVE  IInv'
<1> USE DEF IInv, install_trans, install_block, bunpin, logvars, procs
<1>1. Types'
  <2>1. refcnt[lh[tail]] = 1
    BY DEF Types, PinInv, Uninstalled, Recovering
  <2>2. tail \in Slots /\ tail' \in 1 .. NLog /\ lh[tail] \in Block
    BY LogAssumption DEF Types, Slots
  <2>3. logd[tail] \in Val
    BY <2>2 DEF Types
  <2>4. /\ home' \in [Block -> Val]
        /\ cache' \in [Block -> Val \cup {NotCached}]
    BY <2>2, <2>3 DEF Types
  <2>5. refcnt' \in [Block -> Nat]
    BY <2>1, <2>2 DEF Types
  <2> QED BY <2>2, <2>4, <2>5 DEF Types
<1>2. Count'
  BY DEF Count, Ops
<1>3. committing' \in BOOLEAN
  OBVIOUS
<1>4. ListInv'
  BY DEF Types, ListInv, ProgressInv, Recovering
<1>5. CallInv'
  BY DEF Types, CallInv, Recovering
<1>6. PinInv'
  BY DEF Types, PinInv, Recovering, Uninstalled, ListInv, ProgressInv
<1>7. RecyclableIsClean'
  BY DEF Types, RecyclableIsClean, PinInv, Recovering, Uninstalled, ListInv, ProgressInv
<1>8. ProgressInv'
  BY DEF Types, ProgressInv, Recovering, ListInv, PinInv, Uninstalled
<1> QED BY <1>1, <1>2, <1>3, <1>4, <1>5, <1>6, <1>7, <1>8

\* commit() clears the header.
LEMMA EraseInv ==
    ASSUME IInv, NEW p \in Proc, erase_head(p)
    PROVE  IInv'
<1> USE DEF IInv, erase_head, bufs, procs
<1>1. Types'
  BY LogAssumption DEF Types, Slots
<1>2. Count'
  BY DEF Count, Ops
<1>3. committing' \in BOOLEAN
  OBVIOUS
<1>4. ListInv'
  BY DEF Types, ListInv, ProgressInv, Recovering
<1>5. CallInv'
  BY DEF Types, CallInv, Recovering
<1>6. PinInv'
  BY DEF Types, PinInv, Recovering, Uninstalled, ListInv, ProgressInv
<1>7. RecyclableIsClean'
  BY DEF Types, RecyclableIsClean, PinInv, Recovering, Uninstalled, ListInv, ProgressInv
<1>8. ProgressInv'
  BY DEF Types, ProgressInv, Recovering, ListInv, PinInv, Uninstalled
<1> QED BY <1>1, <1>2, <1>3, <1>4, <1>5, <1>6, <1>7, <1>8

\* commit() is over: the sleepers are woken.
LEMMA CommitDoneInv ==
    ASSUME IInv, NEW p \in Proc, commit_done(p)
    PROVE  IInv'
<1> USE DEF IInv, commit_done, disk, bufs, wakeup
<1>1. Types'
  BY LogAssumption DEF Types, Slots
<1>2. Count'
  <2>1. Ops' = Ops
    BY DEF Types, Ops
  <2> QED BY <2>1 DEF Count
<1>3. committing' \in BOOLEAN
  BY Zenon
<1>4. ListInv'
  BY DEF ListInv
<1>5. CallInv'
  BY DEF Types, CallInv, Recovering
<1>6. PinInv'
  BY DEF Types, PinInv, Recovering, Uninstalled
<1>7. RecyclableIsClean'
  BY DEF RecyclableIsClean
<1>8. ProgressInv'
  BY DEF Types, ProgressInv, Recovering
<1> QED BY <1>1, <1>2, <1>3, <1>4, <1>5, <1>6, <1>7, <1>8

\* A call logs a block: absorbed, or appended and pinned.
LEMMA LogWriteInv ==
    ASSUME IInv, NEW p \in Proc, NEW b \in Block, NEW v \in Val, log_write(p, b, v)
    PROVE  IInv'
<1> USE DEF IInv
<1>1. /\ boot = "up" /\ pc[p] = "op"
      /\ UNCHANGED <<home, logd, header, outstanding, committing, phase, tail, pc>>
  BY DEF log_write, disk
<1>2. ~committing /\ phase = "none"
  BY <1>1 DEF CallInv, Types
<1>3. committing' \in BOOLEAN /\ Count'
  BY <1>1 DEF Count, Ops
<1>4. CASE TooBig \/ outstanding < 1
  <2>1. boot' = "panic" /\ UNCHANGED <<lh, cache, refcnt, wrote>>
    BY <1>4 DEF log_write, bufs
  <2>2. Types' /\ ListInv' /\ CallInv'
    BY <1>1, <1>2, <2>1 DEF Types, ListInv, CallInv, Recovering
  <2>3. PinInv' /\ RecyclableIsClean' /\ ProgressInv'
    BY <1>1, <2>1 DEF PinInv, Recovering, Uninstalled, RecyclableIsClean, ProgressInv
  <2> QED BY <1>3, <2>2, <2>3
<1>5. CASE ~(TooBig \/ outstanding < 1) /\ b \in Logged(lh)
  <2>1. /\ cache' = [cache EXCEPT ![b] = v]
        /\ wrote' = [wrote EXCEPT ![p] = @ \cup {b}]
        /\ UNCHANGED <<lh, refcnt, boot>>
    BY <1>5 DEF log_write
  <2>2. Types' /\ ListInv' /\ CallInv'
    BY <1>1, <1>2, <2>1 DEF Types, ListInv, CallInv, Recovering
  <2>3. PinInv' /\ ProgressInv'
    BY <1>1, <1>2, <2>1, LogAssumption DEF Types, PinInv, Recovering, Uninstalled, ProgressInv
  <2>4. refcnt[b] = 1
    BY <1>1, <1>2, <1>5 DEF Types, PinInv, Recovering, Uninstalled, Logged
  <2>5. RecyclableIsClean'
    BY <1>1, <2>1, <2>4 DEF Types, RecyclableIsClean
  <2> QED BY <1>3, <2>2, <2>3, <2>5
<1>6. CASE ~(TooBig \/ outstanding < 1) /\ b \notin Logged(lh)
  <2>1. /\ cache' = [cache EXCEPT ![b] = v]
        /\ wrote' = [wrote EXCEPT ![p] = @ \cup {b}]
        /\ lh' = Append(lh, b)
        /\ refcnt' = [refcnt EXCEPT ![b] = @ + 1]
        /\ UNCHANGED boot
    BY <1>6 DEF log_write, bpin
  <2>2. /\ lh' \in Seq(Block) /\ Len(lh') = Len(lh) + 1
        /\ \A i \in DOMAIN lh : lh'[i] = lh[i]
        /\ lh'[Len(lh) + 1] = b
        /\ DOMAIN lh' = 1 .. (Len(lh) + 1) /\ DOMAIN lh = 1 .. Len(lh)
    BY <2>1 DEF Types
  <2>3. Len(lh') <= NLog - 1
    BY <1>6, <2>2, LogAssumption DEF Types, TooBig
  <2>4. Types' /\ CallInv'
    <3>1. cache' \in [Block -> Val \cup {NotCached}] /\ refcnt' \in [Block -> Nat]
      BY <2>1 DEF Types
    <3>2. wrote' \in [Proc -> SUBSET Block]
      BY <2>1 DEF Types
    <3>3. Types'
      <4> HIDE DEF IInv
      <4>1. Types
        BY DEF IInv
      <4> QED BY <1>1, <2>1, <2>2, <2>3, <3>1, <3>2, <4>1, Zenon DEF Types
    <3>4. CallInv'
      <4> HIDE DEF IInv
      <4>1. CallInv
        BY DEF IInv
      <4> QED BY <1>1, <2>1, <4>1, Zenon DEF CallInv, Recovering
    <3> QED BY <3>3, <3>4
  <2>5. ListInv'
    <3>1. Len(lh) \in Nat /\ \A i \in 1 .. (Len(lh) + 1) : i \in DOMAIN lh \/ i = Len(lh) + 1
      BY <2>2 DEF Types
    <3>2. \A i \in DOMAIN lh : lh'[i] # b
      BY <1>6, <2>2 DEF Logged
    <3>3. \A i, j \in DOMAIN lh' : lh'[i] = lh'[j] => i = j
      BY <2>2, <3>1, <3>2 DEF ListInv
    <3> QED BY <1>1, <3>3 DEF ListInv
  <2>6. \A c \in Block : Uninstalled(c)' <=> Uninstalled(c) \/ c = b
    <3>1. Len(lh) \in Nat /\ \A i \in 1 .. (Len(lh) + 1) : i \in DOMAIN lh \/ i = Len(lh) + 1
      BY <2>2 DEF Types
    <3>2. \A c \in Block : (\E i \in DOMAIN lh' : lh'[i] = c)
                            <=> (\E i \in DOMAIN lh : lh[i] = c) \/ c = b
      BY <2>2, <3>1
    <3>3. ~Recovering /\ ~Recovering' /\ phase # "install" /\ phase' # "install"
      BY <1>1, <1>2, <2>1 DEF Recovering
    <3> QED BY <3>2, <3>3 DEF Uninstalled
  <2>7. ~Uninstalled(b)
    BY <1>6 DEF Uninstalled, Logged
  <2>8. PinInv'
    BY <2>1, <2>6, <2>7, LogAssumption DEF Types, PinInv
  <2>9. refcnt'[b] = 1 /\ \A c \in Block : c # b => refcnt'[c] = refcnt[c] /\ cache'[c] = cache[c]
    BY <2>1, <2>7 DEF Types, PinInv
  <2>10. RecyclableIsClean'
    BY <1>1, <2>9 DEF RecyclableIsClean
  <2>11. ProgressInv'
    BY <1>1, <1>2, <2>1 DEF ProgressInv, Recovering
  <2> QED BY <1>3, <2>4, <2>5, <2>8, <2>10, <2>11
<1> QED BY <1>4, <1>5, <1>6

-----------------------------------------------------------------------------
\* Log implements AtomicDisk, step by step.

\* The log block that the header names for b is the one a restart installs.
LEMMA OverlayValue ==
    ASSUME NEW hdr, NEW data, NEW base,
           \A i, j \in DOMAIN hdr : hdr[i] = hdr[j] => i = j
    PROVE  /\ \A i \in DOMAIN hdr : hdr[i] \in Block => Overlay(hdr, data, base)[hdr[i]] = data[i]
           /\ \A b \in Block : b \notin Logged(hdr) => Overlay(hdr, data, base)[b] = base[b]
<1>1. ASSUME NEW i \in DOMAIN hdr, hdr[i] \in Block
      PROVE  Overlay(hdr, data, base)[hdr[i]] = data[i]
  <2> DEFINE k == CHOOSE k \in DOMAIN hdr : hdr[k] = hdr[i]
  <2>1. k \in DOMAIN hdr /\ hdr[k] = hdr[i]
    OBVIOUS
  <2>2. k = i
    BY <2>1
  <2>3. hdr[i] \in Logged(hdr)
    BY DEF Logged
  <2> QED BY <1>1, <2>2, <2>3 DEF Overlay
<1>2. ASSUME NEW b \in Block, b \notin Logged(hdr)
      PROVE  Overlay(hdr, data, base)[b] = base[b]
  BY <1>2 DEF Overlay
<1> QED BY <1>1, <1>2

\* Installing a block that the header names changes nothing a restart finds.
LEMMA InstallDurable ==
    ASSUME IInv, install_block(TRUE) \/ install_block(FALSE), header = lh,
           UNCHANGED <<logd, header>>
    PROVE  Durable' = Durable
<1>1. tail \in DOMAIN header /\ header[tail] \in Block /\ home \in [Block -> Val]
  BY DEF install_block, IInv, Types
<1>2. home' = [home EXCEPT ![header[tail]] = logd[tail]]
  BY DEF install_block
<1>3. header[tail] \in Logged(header)
  BY <1>1 DEF Logged
<1>4. \A b \in Block : b \notin Logged(header) => home'[b] = home[b]
  BY <1>1, <1>2, <1>3
<1> QED BY <1>4 DEF Durable, Overlay

\* Once every logged block is installed, the header no longer matters.
LEMMA InstalledDurable ==
    ASSUME IInv, \A i \in DOMAIN header : home[header[i]] = logd[i]
    PROVE  Durable = home
<1>1. \A i, j \in DOMAIN header : header[i] = header[j] => i = j
  BY DEF IInv, ListInv
<1>2. \A b \in Block : Durable[b] = home[b]
  BY <1>1, OverlayValue DEF Durable, Logged
<1>3. home = [b \in Block |-> home[b]]
  BY DEF IInv, Types
<1> QED BY <1>2, <1>3 DEF Durable, Overlay

\* With an empty header a restart finds the home blocks.
LEMMA EmptyOverlay ==
    ASSUME NEW data, NEW base, base = [b \in Block |-> base[b]]
    PROVE  Overlay(<<>>, data, base) = base
BY DEF Overlay, Logged

\* The variables of AtomicDisk under the refinement mapping.
absvars == <<Durable, Shown, Ops>>

\* Every step of the log is a step of AtomicDisk, or leaves its state alone.
LEMMA StepSimulation == IInv /\ IInv' /\ [Next]_vars => [Abs!Next]_(Abs!vars)
<1> SUFFICES ASSUME IInv, IInv', [Next]_vars PROVE Abs!Next \/ UNCHANGED absvars
  BY Zenon DEF Abs!vars, absvars, Ops
<1> USE DEF absvars
<1>1. CASE read_head
  BY <1>1, Zenon DEF read_head, disk, procs, Durable, Shown, Ops
<1>2. CASE recover_install
  <2>1. header = lh /\ boot = "install"
    BY <1>2, Zenon DEF recover_install, IInv, ProgressInv
  <2>2. Durable' = Durable
    BY <1>2, <2>1, InstallDurable, Zenon DEF recover_install
  <2> QED BY <1>2, <2>1, <2>2, Zenon DEF recover_install, procs, Shown, Ops
<1>3. CASE recover_clear
  <2>1. \A i \in DOMAIN header : home[header[i]] = logd[i]
    BY <1>3 DEF recover_clear, IInv, Types, ProgressInv
  <2>2. Durable = home
    BY <2>1, InstalledDurable, Zenon
  <2>3. home = [b \in Block |-> home[b]]
    BY Zenon DEF IInv, Types
  <2>4. Durable' = home
    BY <1>3, <2>3, EmptyOverlay, Zenon DEF recover_clear, Durable
  <2>5. \A b \in Block : refcnt[b] = 0
    BY <1>3, Zenon DEF recover_clear, IInv, PinInv, Uninstalled, Recovering
  <2>6. View' = home
    BY <1>3, <2>3, <2>5, Zenon DEF recover_clear, bufs, View, IInv, RecyclableIsClean
  <2> QED BY <1>3, <2>2, <2>4, <2>6, Zenon DEF recover_clear, procs, Shown, Ops
<1>4. ASSUME NEW b \in Block, evict(b) PROVE UNCHANGED absvars
  <2>1. View' = View
    BY <1>4, Zenon DEF evict, disk, View, IInv, Types, RecyclableIsClean
  <2> QED BY <1>4, <2>1, Zenon DEF evict, disk, procs, Durable, Shown, Ops
<1>5. ASSUME NEW b \in Block, bread(b) PROVE UNCHANGED absvars
  <2>1. View' = View
    BY <1>5, Zenon DEF bread, disk, View, IInv, Types
  <2> QED BY <1>5, <2>1, Zenon DEF bread, disk, procs, Durable, Shown, Ops
<1>6. ASSUME NEW p \in Proc, begin_op(p) PROVE Abs!Next \/ UNCHANGED absvars
  <2>1. Durable' = Durable /\ Shown' = Shown
    BY <1>6, Zenon DEF begin_op, disk, bufs, Durable, Shown, View
  <2>2. Ops' = Ops \/ Ops' = Ops \cup {p}
    BY <1>6, Zenon DEF begin_op, Ops, IInv, Types
  <2>3. CASE Ops' = Ops
    BY <2>1, <2>3, Zenon
  <2>4. CASE Ops' = Ops \cup {p}
    <3>1. Abs!Begin(p)
      BY <2>1, <2>4, Zenon DEF Abs!Begin, Ops
    <3> QED BY <3>1, Zenon DEF Abs!Next
  <2> QED BY <2>2, <2>3, <2>4, Zenon
<1>7. ASSUME NEW p \in Proc, end_op(p) PROVE Abs!Next
  <2>1. Durable' = Durable
    BY <1>7, Zenon DEF end_op, disk, Durable
  <2>2. Shown' = Shown
    BY <1>7, Zenon DEF end_op, disk, bufs, Shown, View
  <2>3. Ops' = Ops \ {p} /\ p \in Ops
    BY <1>7, Zenon DEF end_op, wakeup, Ops, IInv, Types
  <2>4. Abs!End(p)
    BY <2>1, <2>2, <2>3, Zenon DEF Abs!End, Ops
  <2> QED BY <2>4, Zenon DEF Abs!Next
<1>8. ASSUME NEW p \in Proc, NEW b \in Block, NEW v \in Val, log_write(p, b, v)
      PROVE  Abs!Next \/ UNCHANGED absvars
  <2>0. home' = home /\ logd' = logd /\ header' = header /\ pc' = pc /\ pc[p] = "op"
    BY <1>8, Zenon DEF log_write, disk
  <2>1. Durable' = Durable /\ Ops' = Ops /\ p \in Ops /\ home' = home
    BY <2>0, Zenon DEF Durable, Ops
  <2>2. CASE TooBig \/ outstanding < 1
    BY <1>8, <2>1, <2>2, Zenon DEF log_write, disk, bufs, Shown, View
  <2>3. CASE ~(TooBig \/ outstanding < 1)
    <3>1. cache' = [cache EXCEPT ![b] = v] /\ boot = "up" /\ boot' = "up"
      BY <1>8, <2>3, Zenon DEF log_write
    <3>2. View' = [View EXCEPT ![b] = v]
      BY <2>1, <3>1, LogAssumption, Zenon DEF View, IInv, Types
    <3>3. Abs!Write(p, b, v)
      BY <2>1, <3>1, <3>2, Zenon DEF Abs!Write, Shown, Ops
    <3> QED BY <3>3, Zenon DEF Abs!Next
  <2> QED BY <2>2, <2>3, Zenon
<1>9. ASSUME NEW p \in Proc, write_log(p) PROVE UNCHANGED absvars
  <2>1. header = <<>> /\ header' = <<>> /\ home' = home
    BY <1>9, Zenon DEF write_log, IInv, ProgressInv, Recovering
  <2>2. home = [b \in Block |-> home[b]]
    BY Zenon DEF IInv, Types
  <2>3. Durable = home /\ Durable' = home
    BY <2>1, <2>2, EmptyOverlay, Zenon DEF Durable
  <2> QED BY <1>9, <2>1, <2>3, Zenon DEF write_log, bufs, procs, Shown, View, Ops
<1>10. ASSUME NEW p \in Proc, write_head(p) PROVE Abs!Next
  <2>1. /\ boot = "up" /\ phase = "write_log" /\ tail > Len(lh) /\ header' = lh
        /\ UNCHANGED <<home, logd, boot, cache, pc, lh>>
    BY <1>10, Zenon DEF write_head, logvars, bufs, procs
  <2>2. \A i \in DOMAIN lh : logd[i] = cache[lh[i]] /\ lh[i] \in Block
    <3>1. \A i \in DOMAIN lh : i < tail /\ lh[i] \in Block
      BY <2>1 DEF IInv, Types
    <3>2. \A i \in DOMAIN lh : i < tail => logd[i] = cache[lh[i]]
      BY <2>1, Zenon DEF IInv, ProgressInv, Recovering
    <3> QED BY <3>1, <3>2, Zenon
  <2>3. \A i \in DOMAIN lh : View[lh[i]] = logd[i]
    BY <2>1, <2>2, Zenon DEF View, IInv, Types, PinInv, Uninstalled, Recovering
  <2>4. \A b \in Block : b \notin Logged(lh) => View[b] = home[b]
    BY <2>1, Zenon DEF View, IInv, PinInv, RecyclableIsClean, Uninstalled, Logged
  <2>5. \A i, j \in DOMAIN lh : lh[i] = lh[j] => i = j
    BY Zenon DEF IInv, ListInv
  <2>6. \A b \in Block : Overlay(lh, logd, home)[b] = View[b]
    BY <2>2, <2>3, <2>4, <2>5, OverlayValue DEF Logged
  <2>7. Durable' = View
    BY <2>1, <2>6, Zenon DEF Durable, Overlay, View
  <2>8. Shown = View /\ Shown' = View
    BY <2>1, Zenon DEF Shown, View
  <2>9. Ops = {} /\ Ops' = {}
    BY <2>1, Zenon DEF Ops, IInv, CallInv
  <2>10. Abs!Commit
    BY <2>7, <2>8, <2>9, Zenon DEF Abs!Commit, Ops
  <2> QED BY <2>10, Zenon DEF Abs!Next
<1>11. ASSUME NEW p \in Proc, install_trans(p) PROVE UNCHANGED absvars
  <2>1. /\ boot = "up" /\ phase = "install" /\ tail \in DOMAIN lh /\ header = lh
        /\ lh[tail] \in Block /\ UNCHANGED <<logd, header, boot, pc>>
    BY <1>11 DEF install_trans, install_block, procs, IInv, Types, ProgressInv, Recovering
  <2>2. Durable' = Durable
    BY <1>11, <2>1, InstallDurable, Zenon DEF install_trans
  <2>3. Uninstalled(lh[tail])
    BY <2>1 DEF Uninstalled, Recovering, IInv, Types
  <2>4. cache[lh[tail]] = logd[tail] /\ cache[lh[tail]] # NotCached
    BY <2>1, <2>3 DEF IInv, Types, PinInv, ProgressInv, Recovering
  <2>5. /\ home' = [home EXCEPT ![lh[tail]] = logd[tail]]
        /\ cache' = [cache EXCEPT ![lh[tail]] = logd[tail]]
    BY <1>11, Zenon DEF install_trans, install_block
  <2>6. View' = View
    BY <2>1, <2>4, <2>5, Zenon DEF View, IInv, Types
  <2> QED BY <2>1, <2>2, <2>6, Zenon DEF Shown, Ops
<1>12. ASSUME NEW p \in Proc, erase_head(p) PROVE UNCHANGED absvars
  <2>1. \A i \in DOMAIN header : home[header[i]] = logd[i]
    BY <1>12 DEF erase_head, IInv, Types, ProgressInv, Recovering
  <2>2. Durable = home
    BY <2>1, InstalledDurable, Zenon
  <2>3. home = [b \in Block |-> home[b]]
    BY Zenon DEF IInv, Types
  <2>4. Durable' = home
    BY <1>12, <2>3, EmptyOverlay, Zenon DEF erase_head, Durable
  <2> QED BY <1>12, <2>2, <2>4, Zenon DEF erase_head, bufs, procs, Shown, View, Ops
<1>13. ASSUME NEW p \in Proc, commit_done(p) PROVE UNCHANGED absvars
  <2>1. Ops' = Ops
    BY <1>13, Zenon DEF commit_done, wakeup, Ops, IInv, Types
  <2>2. UNCHANGED <<home, logd, header, cache, boot>>
    BY <1>13, Zenon DEF commit_done, disk, bufs
  <2>3. Durable' = Durable /\ View' = View
    BY <2>2, Zenon DEF Durable, View
  <2> QED BY <2>1, <2>2, <2>3, Zenon DEF Shown
<1>14. CASE Crash
  <2>1. Durable' = Durable /\ Shown' = Durable /\ Ops' = {}
    BY <1>14, Zenon DEF Crash, disk, Durable, Shown, Ops
  <2>2. Abs!Crash
    BY <2>1, Zenon DEF Abs!Crash, Ops
  <2> QED BY <2>2, Zenon DEF Abs!Next
<1>15. CASE UNCHANGED vars
  BY <1>15, Zenon DEF vars, Durable, Shown, View, Ops
<1>16. ASSUME NEW p \in Proc, commit(p) PROVE Abs!Next \/ UNCHANGED absvars
  BY <1>9, <1>10, <1>11, <1>12, <1>13, <1>16, Zenon DEF commit
<1>17. CASE recover
  BY <1>1, <1>2, <1>3, <1>17, Zenon DEF recover
<1> QED BY <1>4, <1>5, <1>6, <1>7, <1>8, <1>14, <1>15, <1>16, <1>17, Zenon DEF Next

-----------------------------------------------------------------------------
\* Counting the calls in progress.

\* What the proofs use of finite sets; FiniteSetsAre, below, shows that it holds.
EmptyFact == IsFiniteSet({}) /\ Cardinality({}) = 0
CountFact == \A S : IsFiniteSet(S) => Cardinality(S) \in Nat /\ (Cardinality(S) = 0 => S = {})
SubsetFact ==
    \A S, T : IsFiniteSet(S) /\ T \subseteq S => IsFiniteSet(T) /\ Cardinality(T) <= Cardinality(S)
AddFact ==
    \A S, x : IsFiniteSet(S) /\ x \notin S =>
        IsFiniteSet(S \cup {x}) /\ Cardinality(S \cup {x}) = Cardinality(S) + 1
RemoveFact ==
    \A S, x : IsFiniteSet(S) /\ x \in S =>
        IsFiniteSet(S \ {x}) /\ Cardinality(S \ {x}) = Cardinality(S) - 1
ProductFact ==
    \A S, T : IsFiniteSet(S) /\ IsFiniteSet(T) =>
        IsFiniteSet(S \X T) /\ Cardinality(S \X T) = Cardinality(S) * Cardinality(T)
IntervalFact == \A n \in Nat : IsFiniteSet(1 .. n) /\ Cardinality(1 .. n) = n
FiniteSetFacts ==
    /\ EmptyFact /\ CountFact /\ SubsetFact /\ AddFact /\ RemoveFact
    /\ ProductFact /\ IntervalFact

\* log.outstanding counts a set that begin_op() extends by one process and
\* end_op() reduces by one.
LEMMA Counting ==
    ASSUME FiniteSetFacts
    PROVE  /\ IsFiniteSet(Ops) /\ Cardinality(Ops) \in Nat
           /\ \A p \in Proc : p \notin Ops => Cardinality(Ops \cup {p}) = Cardinality(Ops) + 1
           /\ \A p \in Ops : Cardinality(Ops \ {p}) = Cardinality(Ops) - 1
           /\ \A p \in Ops : Cardinality(Ops) >= 1
           /\ \A p \in Ops : Cardinality(Ops \ {p}) = 0 => Ops \ {p} = {}
<1>1. IsFiniteSet(Ops)
  <2>1. Ops \subseteq Proc
    BY Zenon DEF Ops
  <2> QED BY <2>1, LogAssumption, Zenon DEF FiniteSetFacts, SubsetFact
<1>2. Cardinality(Ops) \in Nat
  BY <1>1, Zenon DEF FiniteSetFacts, CountFact
<1>3. \A p \in Proc : p \notin Ops => Cardinality(Ops \cup {p}) = Cardinality(Ops) + 1
  BY <1>1, Zenon DEF FiniteSetFacts, AddFact
<1>4. \A p \in Ops : /\ IsFiniteSet(Ops \ {p})
                   /\ Cardinality(Ops \ {p}) = Cardinality(Ops) - 1
  BY <1>1, Zenon DEF FiniteSetFacts, RemoveFact
<1>5. \A p \in Ops : Cardinality(Ops \ {p}) \in Nat
  BY <1>4, Zenon DEF FiniteSetFacts, CountFact
<1>6. \A p \in Ops : Cardinality(Ops \ {p}) = 0 => Ops \ {p} = {}
  BY <1>4, Zenon DEF FiniteSetFacts, CountFact
<1>7. ASSUME NEW p \in Ops PROVE Cardinality(Ops) >= 1
  <2> DEFINE m == Cardinality(Ops)
             n == Cardinality(Ops \ {p})
  <2>1. m \in Nat /\ n \in Nat /\ n = m - 1
    BY <1>2, <1>4, <1>5, Zenon
  <2> HIDE DEF m, n
  <2>2. m >= 1
    BY <2>1
  <2> QED BY <2>2, Zenon DEF m
<1> QED BY <1>1, <1>2, <1>3, <1>4, <1>6, <1>7, Zenon

-----------------------------------------------------------------------------
\* The invariant is inductive.

\* mkfs and the boot establish the invariant.
LEMMA InitInv ==
    ASSUME FiniteSetFacts, Init
    PROVE  IInv
<1> USE DEF Init
<1>1. Count
  <2>1. Ops = {}
    BY Zenon DEF Ops
  <2> QED BY <2>1, Zenon DEF Count, FiniteSetFacts, EmptyFact
<1>2. Types
  BY LogAssumption DEF Types
<1>3. ListInv /\ CallInv /\ PinInv /\ RecyclableIsClean /\ ProgressInv
  BY DEF ListInv, CallInv, PinInv, RecyclableIsClean, ProgressInv, Recovering, Uninstalled
<1> QED BY <1>1, <1>2, <1>3, Zenon DEF IInv

\* A crash leaves the disk alone, whatever was being written to it.
LEMMA CrashInv ==
    ASSUME FiniteSetFacts, IInv, Crash
    PROVE  IInv'
<1> USE DEF IInv, Crash, disk
<1>1. Count'
  <2>1. Ops' = {}
    BY Zenon DEF Ops
  <2> QED BY <2>1, Zenon DEF Count, FiniteSetFacts, EmptyFact
<1>2. Types'
  BY LogAssumption DEF Types
<1>3. ListInv' /\ CallInv'
  BY DEF ListInv, CallInv, Recovering
<1>4. PinInv'
  BY Zenon DEF PinInv, Recovering, Uninstalled
<1>5. RecyclableIsClean'
  <2>1. \A b \in Block : cache'[b] = NotCached
    BY Zenon
  <2> QED BY <2>1, Zenon DEF RecyclableIsClean
<1>7. committing' \in BOOLEAN
  BY Zenon
<1>6. ProgressInv'
  BY Zenon DEF ProgressInv, Recovering
<1> HIDE DEF Crash
<1> QED BY <1>1, <1>2, <1>3, <1>4, <1>5, <1>6, <1>7, Zenon

\* A call is admitted, or waits.
LEMMA BeginInv ==
    ASSUME FiniteSetFacts, IInv, NEW p \in Proc, begin_op(p)
    PROVE  IInv'
<1> USE DEF IInv, begin_op, disk, bufs
<1>1. Types'
  BY LogAssumption, Zenon DEF Types, Slots
<1>2. Count'
  <2>1. CASE MustWait
    <3>1. Ops' = Ops
      BY <2>1, Zenon DEF Types, Ops
    <3> QED BY <2>1, <3>1, Zenon DEF Count
  <2>2. CASE ~MustWait
    <3>1. Ops' = Ops \cup {p} /\ p \notin Ops
      BY <2>2, Zenon DEF Types, Ops
    <3>2. Cardinality(Ops \cup {p}) = Cardinality(Ops) + 1
      BY <3>1, Counting, Zenon
    <3> QED BY <2>2, <3>1, <3>2, Zenon DEF Count
  <2> QED BY <2>1, <2>2, Zenon
<1>3. committing' \in BOOLEAN
  BY Zenon
<1>4. ListInv'
  BY Zenon DEF ListInv
<1>5. CallInv'
  BY Zenon DEF Types, CallInv, Recovering, MustWait
<1>6. PinInv'
  BY Zenon DEF PinInv, Recovering, Uninstalled
<1>7. RecyclableIsClean'
  BY Zenon DEF RecyclableIsClean
<1>8. ProgressInv'
  BY Zenon DEF ProgressInv, Recovering
<1> QED BY <1>1, <1>2, <1>3, <1>4, <1>5, <1>6, <1>7, <1>8, Zenon

\* A call ends; the last one turns to commit().
LEMMA EndInv ==
    ASSUME FiniteSetFacts, IInv, NEW p \in Proc, end_op(p)
    PROVE  IInv'
<1> USE DEF IInv, end_op, disk, bufs, wakeup
<1>0. ~committing /\ phase = "none"
  BY Zenon DEF CallInv, Types
<1>1. Types'
  <2>1. 1 \in 1 .. NLog
    BY LogAssumption
  <2> QED BY <1>0, <2>1, Zenon DEF Types
<1>2. /\ Count'
      /\ outstanding' = 0 => Ops' = {}
  <2>1. Ops' = Ops \ {p} /\ p \in Ops
    BY Zenon DEF Types, Ops
  <2>2. /\ Cardinality(Ops \ {p}) = Cardinality(Ops) - 1
        /\ Cardinality(Ops \ {p}) = 0 => Ops \ {p} = {}
    BY <2>1, Counting, Zenon
  <2> QED BY <2>1, <2>2, Zenon DEF Count
<1>3. committing' \in BOOLEAN
  BY Zenon
<1>4. ListInv'
  BY Zenon DEF ListInv
<1>5. CallInv'
  <2>1. CASE outstanding' = 0
    BY <1>0, <1>2, <2>1, Zenon DEF Types, CallInv, Recovering, Ops
  <2>2. CASE outstanding' # 0
    BY <1>0, <2>2, Zenon DEF Types, CallInv, Recovering
  <2> QED BY <2>1, <2>2, Zenon
<1>6. PinInv'
  BY <1>0, Zenon DEF PinInv, Recovering, Uninstalled
<1>7. RecyclableIsClean'
  BY Zenon DEF RecyclableIsClean
<1>8. ProgressInv'
  BY <1>0 DEF Types, ProgressInv, Recovering
<1> QED BY <1>1, <1>2, <1>3, <1>4, <1>5, <1>6, <1>7, <1>8, Zenon

\* Every step of the log preserves the invariant.
LEMMA StepInv ==
    ASSUME FiniteSetFacts, IInv, [Next]_vars
    PROVE  IInv'
<1>1. CASE recover
  BY <1>1, ReadHeadInv, RecoverInstallInv, RecoverClearInv, Zenon DEF recover
<1>2. ASSUME NEW b \in Block, evict(b) \/ bread(b) PROVE IInv'
  BY <1>2, EvictInv, BreadInv, Zenon
<1>3. ASSUME NEW p \in Proc, begin_op(p) \/ end_op(p) PROVE IInv'
  BY <1>3, BeginInv, EndInv, Zenon
<1>4. ASSUME NEW p \in Proc, commit(p) PROVE IInv'
  BY <1>4, WriteLogInv, WriteHeadInv, InstallInv, EraseInv, CommitDoneInv, Zenon DEF commit
<1>5. ASSUME NEW p \in Proc, NEW b \in Block, NEW v \in Val, log_write(p, b, v)
      PROVE  IInv'
  BY <1>5, LogWriteInv, Zenon
<1>6. CASE Crash
  BY <1>6, CrashInv, Zenon
<1>7. CASE UNCHANGED vars
  BY <1>7, Zenon DEF vars, IInv, Types, Count, Ops, ListInv, CallInv, PinInv, Uninstalled,
              RecyclableIsClean, ProgressInv, Recovering
<1> QED BY <1>1, <1>2, <1>3, <1>4, <1>5, <1>6, <1>7, Zenon DEF Next

-----------------------------------------------------------------------------
\* No lost wakeup in begin_op().

\* The log is empty whenever it is idle, so a call that finds no room finds
\* another call in progress.
WakeInv ==
    /\ SleeperHasWaker
    /\ Recovering => \A p \in Proc : pc[p] # "sleeping"
    /\ ~Recovering /\ ~committing /\ outstanding = 0 => lh = <<>>

\* Every operation of the log leaves someone to wake the sleepers of begin_op().
LEMMA WakeStep ==
    ASSUME FiniteSetFacts, IInv, WakeInv, [Next]_vars
    PROVE  WakeInv'
<1> USE DEF WakeInv, SleeperHasWaker, Recovering
<1>0. outstanding \in Nat /\ Len(lh) \in Nat
  BY Counting DEF IInv, Types, Count
<1>1. CASE recover
  BY <1>1, Zenon DEF recover, read_head, recover_install, recover_clear, install_block,
              logvars, procs
<1>2. ASSUME NEW b \in Block, evict(b) \/ bread(b) PROVE WakeInv'
  BY <1>2, Zenon DEF evict, bread, logvars, procs
<1>3. ASSUME NEW p \in Proc, begin_op(p) PROVE WakeInv'
  <2>1. CASE committing
    BY <1>3, <2>1, Zenon DEF begin_op, MustWait, IInv, Types
  <2>2. CASE ~committing /\ outstanding = 0
    <3>1. lh = <<>> /\ ~MustWait
      BY <1>3, <2>2, LogAssumption DEF begin_op, MustWait, NoRoom
    <3> QED BY <1>0, <1>3, <2>2, <3>1 DEF begin_op, IInv, Types
  <2>3. CASE ~committing /\ outstanding # 0
    BY <1>0, <1>3, <2>3 DEF begin_op, IInv, Types
  <2> QED BY <2>1, <2>2, <2>3, Zenon
<1>4. ASSUME NEW p \in Proc, end_op(p) PROVE WakeInv'
  <2>1. ~committing
    BY <1>4, Zenon DEF end_op, IInv, CallInv
  <2>2. CASE outstanding' = 0
    BY <1>4, <2>1, <2>2, Zenon DEF end_op, IInv, Types
  <2>3. CASE outstanding' # 0
    BY <1>4, <2>1, <2>3, Zenon DEF end_op, wakeup, IInv, Types
  <2> QED BY <2>2, <2>3, Zenon
<1>5. ASSUME NEW p \in Proc, commit(p) PROVE WakeInv'
  <2>1. CASE commit_done(p)
    BY <2>1, Zenon DEF commit_done, wakeup, IInv, Types, ProgressInv
  <2>2. CASE write_log(p) \/ write_head(p) \/ install_trans(p) \/ erase_head(p)
    BY <2>2, Zenon DEF write_log, write_head, install_trans, install_block, erase_head,
                logvars, procs
  <2> QED BY <1>5, <2>1, <2>2, Zenon DEF commit
<1>6. ASSUME NEW p \in Proc, NEW b \in Block, NEW v \in Val, log_write(p, b, v)
      PROVE  WakeInv'
  BY <1>0, <1>6 DEF log_write
<1>7. CASE Crash
  BY <1>7, Zenon DEF Crash
<1>8. CASE UNCHANGED vars
  BY <1>8, Zenon DEF vars
<1> HIDE DEF WakeInv
<1> QED BY <1>1, <1>2, <1>3, <1>4, <1>5, <1>6, <1>7, <1>8, Zenon DEF Next

-----------------------------------------------------------------------------
\* The room that begin_op() reserves.

\* The blocks that the calls in progress may still log, numbered for each call.
Reserved == {x \in Proc \X (1 .. OpBlocks) : pc[x[1]] = "op" /\ x[2] > Cardinality(wrote[x[1]])}

\* What a call has logged is on the list, and the list has room for the rest:
\* two entries less than LOGSIZE, for log_write() looks for a free entry even
\* when it needs none, and the header takes a block of the log.
RoomInv ==
    /\ NoPanic
    /\ \A p \in Proc :
          /\ pc[p] # "op" => wrote[p] = {}
          /\ pc[p] = "op" => /\ wrote[p] \subseteq Logged(lh)
                             /\ IsFiniteSet(wrote[p]) /\ Cardinality(wrote[p]) <= OpBlocks
    /\ Ops # {} => Len(lh) + Cardinality(Reserved) <= LOGSIZE - 2

\* Fewer blocks per call leave that many entries free for every call.
LEMMA Slack ==
    ASSUME NEW n \in Nat, NEW k \in Nat, NEW m \in Nat, k < m
    PROVE  n * k + n <= n * m
<1>1. PICK d \in Nat : m = k + 1 + d
  <2>1. m - k - 1 \in Nat /\ m = k + 1 + (m - k - 1)
    OBVIOUS
  <2> QED BY <2>1, Zenon
<1>2. n * d \in Nat /\ n * k \in Nat
  OBVIOUS
<1>3. n * m = n * k + n + n * d
  BY <1>1
<1> QED BY <1>2, <1>3

\* The reserved blocks are finite in number, and a call takes OpBlocks at most.
LEMMA ReservedIs ==
    ASSUME FiniteSetFacts, NEW O \in SUBSET Proc, NEW R \in SUBSET (O \X (1 .. OpBlocks))
    PROVE  /\ IsFiniteSet(R) /\ Cardinality(R) \in Nat
           /\ Cardinality(R) <= Cardinality(O) * OpBlocks
<1>1. IsFiniteSet(1 .. OpBlocks) /\ Cardinality(1 .. OpBlocks) = OpBlocks
  BY LogAssumption, Zenon DEF FiniteSetFacts, IntervalFact
<1>2. IsFiniteSet(O)
  BY LogAssumption, Zenon DEF FiniteSetFacts, SubsetFact
<1>3. /\ IsFiniteSet(O \X (1 .. OpBlocks))
      /\ Cardinality(O \X (1 .. OpBlocks)) = Cardinality(O) * Cardinality(1 .. OpBlocks)
  BY <1>1, <1>2, Zenon DEF FiniteSetFacts, ProductFact
<1>4. IsFiniteSet(R) /\ Cardinality(R) <= Cardinality(O \X (1 .. OpBlocks))
  BY <1>3, Zenon DEF FiniteSetFacts, SubsetFact
<1> QED BY <1>1, <1>3, <1>4, Zenon DEF FiniteSetFacts, CountFact

\* The same of Reserved, before and after a step.
LEMMA ReservedNow ==
    ASSUME FiniteSetFacts
    PROVE  /\ IsFiniteSet(Reserved) /\ Cardinality(Reserved) \in Nat
           /\ IsFiniteSet(Reserved') /\ Cardinality(Reserved') \in Nat
           /\ Cardinality(Reserved') <= Cardinality(Ops') * OpBlocks
<1>1. Ops \in SUBSET Proc /\ Reserved \in SUBSET (Ops \X (1 .. OpBlocks))
  BY Zenon DEF Ops, Reserved
<1>2. Ops' \in SUBSET Proc /\ Reserved' \in SUBSET (Ops' \X (1 .. OpBlocks))
  BY Zenon DEF Ops, Reserved
<1> QED BY <1>1, <1>2, ReservedIs, Zenon

\* A call is admitted only if there is room for MAXOPBLOCKS blocks of every call.
LEMMA RoomBegin ==
    ASSUME FiniteSetFacts, OpBlocks < MAXOPBLOCKS, MAXOPBLOCKS < LOGSIZE,
           IInv, WakeInv, RoomInv, NEW p \in Proc, begin_op(p)
    PROVE  RoomInv'
<1> USE DEF IInv, begin_op, disk, bufs
<1>1. /\ NoPanic'
      /\ \A q \in Proc :
            /\ pc'[q] # "op" => wrote'[q] = {}
            /\ pc'[q] = "op" => /\ wrote'[q] \subseteq Logged(lh')
                                /\ IsFiniteSet(wrote'[q]) /\ Cardinality(wrote'[q]) <= OpBlocks
  <2>1. NoPanic'
    BY Zenon DEF RoomInv, NoPanic
  <2>2. wrote' = wrote /\ lh' = lh /\ pc[p] # "op"
    BY Zenon
  <2>3. wrote[p] = {}
    BY <2>2, Zenon DEF RoomInv
  <2>4. IsFiniteSet(wrote[p]) /\ Cardinality(wrote[p]) <= OpBlocks
    <3>1. IsFiniteSet({}) /\ Cardinality({}) = 0
      BY Zenon DEF FiniteSetFacts, EmptyFact
    <3>2. OpBlocks \in Nat
      BY LogAssumption, Zenon
    <3> HIDE DEF IInv, begin_op
    <3> QED BY <2>3, <3>1, <3>2
  <2>5. \A q \in Proc : q # p => pc'[q] = pc[q]
    BY Zenon DEF Types
  <2>6. ASSUME NEW q \in Proc
        PROVE  /\ pc'[q] # "op" => wrote'[q] = {}
               /\ pc'[q] = "op" => /\ wrote'[q] \subseteq Logged(lh')
                                   /\ IsFiniteSet(wrote'[q]) /\ Cardinality(wrote'[q]) <= OpBlocks
    <3> HIDE DEF IInv, begin_op
    <3>1. CASE q = p
      BY <2>2, <2>3, <2>4, <3>1, Zenon
    <3>2. CASE q # p
      BY <2>2, <2>5, <3>2, Zenon DEF RoomInv
    <3> QED BY <3>1, <3>2, Zenon
  <2> QED BY <2>1, <2>6, Zenon
<1>2. CASE MustWait
  <2>1. Ops' = Ops /\ Reserved' = Reserved
    BY <1>2, Zenon DEF Ops, Reserved, Types
  <2> QED BY <1>1, <2>1, Zenon DEF RoomInv
<1>3. CASE ~MustWait
  <2> DEFINE n == outstanding + 1
             r == Cardinality(Reserved')
  <2>1. Count'
    BY BeginInv, Zenon DEF IInv
  <2>2. Cardinality(Ops') = n /\ n \in Nat
    BY <1>3, <2>1, Counting DEF Count
  <2>3. Cardinality(Reserved') \in Nat /\ Cardinality(Reserved') <= Cardinality(Ops') * OpBlocks
    BY ReservedNow, Zenon
  <2>4. r \in Nat /\ r <= n * OpBlocks
    BY <2>2, <2>3, Zenon
  <2>5. Len(lh) \in Nat /\ Len(lh) + n * MAXOPBLOCKS <= LOGSIZE /\ lh' = lh
    <3>1. lh \in Seq(Block)
      BY Zenon DEF Types
    <3> QED BY <1>3, <2>2, <3>1, LogAssumption DEF MustWait, NoRoom
  <2>6. outstanding = 0 => Len(lh) = 0
    BY <1>3, Zenon DEF WakeInv, MustWait, Recovering
  <2>7. n * OpBlocks + n <= n * MAXOPBLOCKS
    BY <2>2, LogAssumption, Slack, Zenon
  <2>8. outstanding \in Nat
    BY Counting, Zenon DEF Count
  <2> HIDE DEF r
  <2>9. Len(lh) + r <= LOGSIZE - 2
    <3>1. CASE outstanding = 0
      BY <2>4, <2>6, <3>1, LogAssumption
    <3>2. CASE outstanding # 0
      <4>1. n >= 2
        BY <2>8, <3>2
      <4> HIDE DEF n
      <4>2. n * OpBlocks \in Nat /\ n * MAXOPBLOCKS \in Nat
        BY <2>2, LogAssumption
      <4> QED BY <2>2, <2>4, <2>5, <2>7, <4>1, <4>2, LogAssumption
    <3> QED BY <3>1, <3>2, Zenon
  <2> QED BY <1>1, <2>5, <2>9, Zenon DEF RoomInv, r
<1> QED BY <1>2, <1>3, Zenon

\* A call that logs a block uses up one of its own.
LEMMA RoomWrite ==
    ASSUME FiniteSetFacts, LOGSIZE <= NLog,
           IInv, RoomInv, NEW p \in Proc, NEW b \in Block, NEW v \in Val, log_write(p, b, v)
    PROVE  RoomInv'
<1> DEFINE r == Cardinality(Reserved)
           c == Cardinality(wrote[p])
<1>0. Types /\ Count
  BY Zenon DEF IInv
<1>1. pc[p] = "op" /\ boot = "up" /\ pc' = pc /\ p \in Ops
  BY Zenon DEF log_write, Ops
<1>2. r \in Nat /\ Len(lh) \in Nat /\ Len(lh) + r <= LOGSIZE - 2
  BY <1>0, <1>1, ReservedNow DEF RoomInv, Types
<1>3. outstanding >= 1
  BY <1>0, <1>1, Counting, Zenon DEF Count
<1> HIDE DEF r
<1>4. ~(TooBig \/ outstanding < 1)
  BY <1>0, <1>2, <1>3, LogAssumption, Counting DEF TooBig, Count
<1>5. /\ wrote' = [wrote EXCEPT ![p] = wrote[p] \cup {b}] /\ boot' = boot
      /\ lh' = IF b \in Logged(lh) THEN lh ELSE Append(lh, b)
      /\ b \in wrote[p] \/ c < OpBlocks
  BY <1>4, Zenon DEF log_write
<1>6. Logged(lh') = Logged(lh) \cup {b} /\ Len(lh') \in Nat /\ Len(lh') <= Len(lh) + 1
  <2>1. CASE b \in Logged(lh)
    BY <1>2, <1>5, <2>1
  <2>2. CASE b \notin Logged(lh)
    <3>1. lh' = Append(lh, b) /\ lh \in Seq(Block)
      BY <1>0, <1>5, <2>2, Zenon DEF Types
    <3>2. /\ Len(lh') = Len(lh) + 1 /\ DOMAIN lh = 1 .. Len(lh) /\ DOMAIN lh' = 1 .. (Len(lh) + 1)
          /\ lh'[Len(lh) + 1] = b /\ \A i \in 1 .. Len(lh) : lh'[i] = lh[i]
      BY <3>1
    <3>3. \A i \in 1 .. (Len(lh) + 1) : i \in 1 .. Len(lh) \/ i = Len(lh) + 1
      BY <1>2
    <3> QED BY <1>2, <3>2, <3>3 DEF Logged
  <2> QED BY <2>1, <2>2, Zenon
<1>7. CASE b \in wrote[p]
  <2>1. b \in Logged(lh) /\ wrote' = wrote
    BY <1>0, <1>1, <1>5, <1>7, Zenon DEF RoomInv, Types
  <2>2. lh' = lh
    BY <1>5, <2>1, Zenon
  <2>3. Ops' = Ops /\ Reserved' = Reserved
    BY <1>1, <2>1, Zenon DEF Ops, Reserved
  <2>4. NoPanic'
    BY <1>1, <1>5, Zenon DEF NoPanic
  <2> QED BY <1>1, <2>1, <2>2, <2>3, <2>4, Zenon DEF RoomInv
<1>8. CASE b \notin wrote[p]
  <2>1. IsFiniteSet(wrote[p]) /\ c \in Nat /\ c < OpBlocks
    BY <1>1, <1>5, <1>8, Zenon DEF RoomInv, FiniteSetFacts, CountFact
  <2>2. IsFiniteSet(wrote'[p]) /\ Cardinality(wrote'[p]) = c + 1 /\ wrote'[p] = wrote[p] \cup {b}
    <3>1. wrote'[p] = wrote[p] \cup {b}
      BY <1>0, <1>5, Zenon DEF Types
    <3> QED BY <1>8, <2>1, <3>1, Zenon DEF FiniteSetFacts, AddFact
  <2>3. \A q \in Proc : q # p => wrote'[q] = wrote[q]
    BY <1>0, <1>5, Zenon DEF Types
  <2> HIDE DEF c
  <2>4. c + 1 \in 1 .. OpBlocks /\ \A j \in 1 .. OpBlocks : j > c + 1 <=> j > c /\ j # c + 1
    BY <2>1, LogAssumption
  <2>5. <<p, c + 1>> \in Reserved
    BY <1>1, <2>1, <2>4 DEF Reserved, c
  <2>6. Reserved' = Reserved \ {<<p, c + 1>>}
    <3>1. ASSUME NEW q \in Proc, NEW j \in 1 .. OpBlocks
          PROVE  <<q, j>> \in Reserved' <=> <<q, j>> \in Reserved \ {<<p, c + 1>>}
      <4>1. CASE q = p
        <5>1. <<p, j>> \in Reserved' <=> j > c + 1
          <6>1. <<p, j>> \in Reserved' <=> pc'[p] = "op" /\ j > Cardinality(wrote'[p])
            BY Zenon DEF Reserved
          <6> QED BY <1>1, <2>2, <6>1, Zenon
        <5>2. <<p, j>> \in Reserved <=> j > c
          BY <1>1, Zenon DEF Reserved, c
        <5>3. <<p, j>> = <<p, c + 1>> <=> j = c + 1
          BY Zenon
        <5> QED BY <2>4, <4>1, <5>1, <5>2, <5>3, Zenon
      <4>2. CASE q # p
        BY <1>1, <2>3, <4>2, Zenon DEF Reserved
      <4> QED BY <4>1, <4>2, Zenon
    <3>2. Reserved \subseteq Proc \X (1 .. OpBlocks) /\ Reserved' \subseteq Proc \X (1 .. OpBlocks)
      BY Zenon DEF Reserved
    <3> QED BY <3>1, <3>2
  <2>7. Cardinality(Reserved') = r - 1
    <3>1. Cardinality(Reserved \ {<<p, c + 1>>}) = Cardinality(Reserved) - 1
      BY <2>5, ReservedNow, Zenon DEF FiniteSetFacts, RemoveFact
    <3> QED BY <2>6, <3>1, Zenon DEF r
  <2>8. Len(lh') + Cardinality(Reserved') <= LOGSIZE - 2
    BY <1>2, <1>6, <2>7, LogAssumption
  <2>9. \A q \in Proc :
          /\ pc'[q] # "op" => wrote'[q] = {}
          /\ pc'[q] = "op" => /\ wrote'[q] \subseteq Logged(lh')
                              /\ IsFiniteSet(wrote'[q]) /\ Cardinality(wrote'[q]) <= OpBlocks
    <3> TAKE q \in Proc
    <3>1. CASE q = p
      <4>1. wrote[p] \subseteq Logged(lh) /\ c + 1 <= OpBlocks
        BY <1>1, <2>1, LogAssumption DEF RoomInv
      <4>2. wrote'[p] \subseteq Logged(lh')
        BY <1>6, <2>2, <4>1, Zenon
      <4> QED BY <1>1, <2>2, <3>1, <4>1, <4>2, Zenon
    <3>2. CASE q # p
      BY <1>1, <1>6, <2>3, <3>2, Zenon DEF RoomInv
    <3> QED BY <3>1, <3>2, Zenon
  <2>10. NoPanic'
    BY <1>1, <1>5, Zenon DEF NoPanic
  <2> QED BY <2>8, <2>9, <2>10, Zenon DEF RoomInv
<1> QED BY <1>7, <1>8, Zenon

\* A call that ends gives back what it has not used.
LEMMA RoomEnd ==
    ASSUME FiniteSetFacts, IInv, RoomInv, NEW p \in Proc, end_op(p)
    PROVE  RoomInv'
<1> USE DEF IInv, end_op, disk, bufs, wakeup
<1>1. ~committing /\ pc[p] = "op" /\ lh' = lh
  BY Zenon DEF CallInv, Types
<1>2. \A q \in Proc : /\ pc'[q] = "op" <=> pc[q] = "op" /\ q # p
                      /\ wrote'[q] = IF q = p THEN {} ELSE wrote[q]
  BY Zenon DEF Types
<1>3. Reserved' \subseteq Reserved
  BY <1>2, Zenon DEF Reserved
<1>4. Cardinality(Reserved') <= Cardinality(Reserved) /\ Cardinality(Reserved') \in Nat
  BY <1>3, ReservedNow, Zenon DEF FiniteSetFacts, SubsetFact
<1>5. Len(lh) + Cardinality(Reserved) <= LOGSIZE - 2
  BY <1>1, Zenon DEF RoomInv, Ops
<1>6. Len(lh') + Cardinality(Reserved') <= LOGSIZE - 2
  BY <1>1, <1>4, <1>5, ReservedNow, LogAssumption DEF Types
<1>7. NoPanic'
  BY <1>1, Zenon DEF NoPanic, RoomInv
<1> QED BY <1>1, <1>2, <1>6, <1>7, Zenon DEF RoomInv

\* Every step keeps the room.
LEMMA RoomStep ==
    ASSUME FiniteSetFacts, OpBlocks < MAXOPBLOCKS, MAXOPBLOCKS < LOGSIZE, LOGSIZE <= NLog,
           IInv, WakeInv, RoomInv, [Next]_vars
    PROVE  RoomInv'
<1>1. ASSUME UNCHANGED pc, UNCHANGED wrote, boot' # "panic", UNCHANGED lh \/ Ops = {}
      PROVE  RoomInv'
  <2>1. Ops' = Ops /\ Reserved' = Reserved
    BY <1>1, Zenon DEF Ops, Reserved
  <2> QED BY <1>1, <2>1, Zenon DEF RoomInv, NoPanic, Ops
<1>2. CASE recover
  <2>1. UNCHANGED pc /\ UNCHANGED wrote /\ boot' # "panic" /\ Recovering
    BY <1>2, Zenon DEF recover, read_head, recover_install, recover_clear, install_block,
                procs, Recovering
  <2>2. Ops = {}
    BY <2>1, Zenon DEF Ops, IInv, CallInv
  <2> QED BY <1>1, <2>1, <2>2, Zenon
<1>3. ASSUME NEW b \in Block, evict(b) \/ bread(b) PROVE RoomInv'
  <2>1. UNCHANGED pc /\ UNCHANGED wrote /\ UNCHANGED lh /\ boot' = boot
    BY <1>3, Zenon DEF evict, bread, logvars, procs
  <2> QED BY <1>1, <2>1, Zenon DEF RoomInv, NoPanic
<1>4. ASSUME NEW p \in Proc, commit(p) PROVE RoomInv'
  <2>1. Ops = {}
    <3>1. phase # "none"
      BY <1>4, Zenon DEF commit, write_log, write_head, install_trans, erase_head, commit_done,
                  install_block
    <3> QED BY <3>1, Zenon DEF IInv, CallInv, Ops
  <2>2. CASE commit_done(p)
    <3>1. /\ wrote' = wrote /\ lh' = lh /\ boot' = boot
          /\ \A q \in Proc : pc[q] # "op" /\ pc'[q] # "op"
      BY <2>1, <2>2, Zenon DEF commit_done, wakeup, IInv, Types, Ops
    <3>2. Ops' = {} /\ NoPanic'
      BY <3>1, Zenon DEF RoomInv, NoPanic, Ops
    <3> QED BY <3>1, <3>2, Zenon DEF RoomInv
  <2>3. CASE write_log(p) \/ write_head(p) \/ install_trans(p) \/ erase_head(p)
    <3>1. UNCHANGED pc /\ UNCHANGED wrote /\ boot' # "panic"
      BY <2>3, Zenon DEF write_log, write_head, install_trans, install_block, erase_head, procs
    <3> QED BY <1>1, <2>1, <3>1, Zenon
  <2> QED BY <1>4, <2>2, <2>3, Zenon DEF commit
<1>5. CASE Crash
  <2>1. boot' # "panic" /\ \A q \in Proc : pc'[q] # "op" /\ wrote'[q] = {}
    BY <1>5, Zenon DEF Crash
  <2>2. Ops' = {} /\ NoPanic'
    BY <2>1, Zenon DEF NoPanic, Ops
  <2> QED BY <2>1, <2>2, Zenon DEF RoomInv
<1>6. CASE UNCHANGED vars
  BY <1>1, <1>6, Zenon DEF vars, RoomInv, NoPanic
<1>7. ASSUME NEW p \in Proc, begin_op(p) \/ end_op(p) PROVE RoomInv'
  BY <1>7, RoomBegin, RoomEnd, Zenon
<1>8. ASSUME NEW p \in Proc, NEW b \in Block, NEW v \in Val, log_write(p, b, v)
      PROVE  RoomInv'
  BY <1>8, RoomWrite, Zenon
<1> QED BY <1>2, <1>3, <1>4, <1>5, <1>6, <1>7, <1>8, Zenon DEF Next

-----------------------------------------------------------------------------
\* The theorems.

\* The definitions of FiniteSets, to which its operators and those that the
\* theorems of the library are about both come down.
Finite(S) == \E s \in Seq(S) : \A x \in S : \E n \in 1 .. Len(s) : s[n] = x
Number(S) == LET N[T \in SUBSET S] == IF T = {} THEN 0 ELSE 1 + N[T \ {CHOOSE x : x \in T}]
             IN  N[S]

\* What the module says of finite sets ...
LEMMA FiniteHere == \A S : (IsFiniteSet(S) <=> Finite(S)) /\ Cardinality(S) = Number(S)
BY Zenon DEF IsFiniteSet, Finite, Cardinality, Number

LOCAL INSTANCE FiniteSetTheorems

\* ... is what the library says of them.
LEMMA FiniteThere == \A S : (IsFiniteSet(S) <=> Finite(S)) /\ Cardinality(S) = Number(S)
BY Zenon DEF IsFiniteSet, Finite, Cardinality, Number

\* The facts that the proofs use of finite sets hold.
LEMMA FiniteSetsAre == FiniteSetFacts
<1> USE FiniteHere, FiniteThere
<1>1. EmptyFact
  BY FS_EmptySet, Zenon DEF EmptyFact
<1>2. CountFact
  <2>1. \A S : IsFiniteSet(S) => Cardinality(S) \in Nat /\ (Cardinality(S) = 0 => S = {})
    BY FS_EmptySet, FS_CardinalityType, Zenon
  <2> QED BY <2>1, Zenon DEF CountFact
<1>3. SubsetFact
  BY FS_Subset, Zenon DEF SubsetFact
<1>4. AddFact
  BY FS_AddElement, Zenon DEF AddFact
<1>5. RemoveFact
  BY FS_RemoveElement, Zenon DEF RemoveFact
<1>6. ProductFact
  BY FS_Product, Zenon DEF ProductFact
<1>7. IntervalFact
  <2>1. \A n \in Nat : IsFiniteSet(1 .. n) /\ Cardinality(1 .. n) = n
    BY FS_Interval
  <2> QED BY <2>1, Zenon DEF IntervalFact
<1> QED BY <1>1, <1>2, <1>3, <1>4, <1>5, <1>6, <1>7, Zenon DEF FiniteSetFacts

\* The invariant holds in every state of the log.
LEMMA Invariance == Spec => []IInv
<1>1. Init => IInv
  BY FiniteSetsAre, InitInv, Zenon
<1>2. IInv /\ [Next]_vars => IInv'
  BY FiniteSetsAre, StepInv, Zenon
<1> QED BY <1>1, <1>2, PTL DEF Spec

\* Every variable keeps its type: no commit writes past the log blocks of the
\* disk, and log.outstanding is the number of calls in progress.
THEOREM TypeCorrect == Spec => []TypeOK
<1>1. IInv => TypeOK
  BY Zenon DEF IInv, Types, Count, Ops, TypeOK
<1> QED BY <1>1, Invariance, PTL

\* bget() never recycles a buffer whose update is not at its home location.
THEOREM RecyclableCorrect == Spec => []RecyclableIsClean
<1>1. IInv => RecyclableIsClean
  BY Zenon DEF IInv
<1> QED BY <1>1, Invariance, PTL

\* The log implements AtomicDisk: whatever the moment of a crash, recovery
\* finds the writes of all the calls of a transaction or of none.
THEOREM Refinement == Spec => CrashAtomic
<1>1. Init => Abs!Init
  <2> SUFFICES ASSUME Init PROVE Abs!Init
    BY Zenon
  <2>1. home \in [Block -> Val] /\ home = [b \in Block |-> home[b]]
    BY Zenon DEF Init
  <2>2. Durable = home
    BY <2>1, EmptyOverlay, Zenon DEF Durable, Init
  <2>3. Shown = Durable /\ Ops = {}
    BY Zenon DEF Init, Shown, Ops
  <2> QED BY <2>1, <2>2, <2>3, Zenon DEF Abs!Init, Ops
<1> QED BY <1>1, Invariance, StepSimulation, PTL DEF Spec, CrashAtomic, Abs!Spec

\* The log is empty whenever it is idle.
LEMMA Waking == Spec => []WakeInv
<1>1. Init => WakeInv
  BY Zenon DEF Init, WakeInv, SleeperHasWaker, Recovering
<1>2. IInv /\ WakeInv /\ [Next]_vars => WakeInv'
  BY FiniteSetsAre, WakeStep, Zenon
<1> QED BY <1>1, <1>2, Invariance, PTL DEF Spec

\* A process asleep in begin_op() always has a call or a commit to wake it.
THEOREM WakerCorrect == Spec => []SleeperHasWaker
<1>1. WakeInv => SleeperHasWaker
  BY Zenon DEF WakeInv
<1> QED BY <1>1, Waking, PTL

\* The log never panics, neither "too big a transaction" nor "log.committing":
\* however many calls overlap, what begin_op() has reserved is enough for them,
\* if every call logs fewer blocks than the MAXOPBLOCKS it reserves, one call
\* does not fill the list and the log on disk is as long as the list (in the
\* kernel LOGSIZE is 3 * MAXOPBLOCKS and mkfs makes LOGSIZE log blocks).
THEOREM NeverPanics ==
    ASSUME OpBlocks < MAXOPBLOCKS, MAXOPBLOCKS < LOGSIZE, LOGSIZE <= NLog
    PROVE  Spec => []NoPanic
<1>1. Init => RoomInv
  BY Zenon DEF Init, RoomInv, NoPanic, Ops
<1>2. IInv /\ WakeInv /\ RoomInv /\ [Next]_vars => RoomInv'
  BY FiniteSetsAre, RoomStep, Zenon
<1>3. RoomInv => NoPanic
  BY Zenon DEF RoomInv
<1> QED BY <1>1, <1>2, <1>3, Invariance, Waking, PTL DEF Spec

=============================================================================
