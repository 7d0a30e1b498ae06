--------------------------------- MODULE Vm ---------------------------------
(***************************************************************************)
(* User memory: the page allocator (kalloc.c), the page tables (vm.c), the *)
(* process operations that own them (proc.c, exec.c, sys_exec) and the     *)
(* copies between kernel and user memory (copyin, copyout, copyinstr).     *)
(*                                                                         *)
(* A C function is an operator over the memory record s: how often each    *)
(* page is on the free list, what each page holds, the value returned (r,  *)
(* 0 where the C code returns 0 for "no page" or -1) and whether the       *)
(* kernel panicked.  Pages are numbered from 1; 0 is the null pointer.     *)
(* Which page of the free list kalloc returns does not matter to any       *)
(* caller: the lowest one is taken.  A system call is one step: between    *)
(* two kallocs of a call another process only changes which of them is the *)
(* first to fail, and every such point is reached with some amount of      *)
(* memory in use.                                                          *)
(***************************************************************************)
EXTENDS Integers, FiniteSets, SequencesExt

CONSTANTS
    Proc,       \* the slots of the process table
    initproc,   \* the first process
    NPAGE,      \* physical pages between end and PHYSTOP
    LEVELS,     \* levels of a page table (3 in Sv39)
    ENTRIES,    \* PTEs of a page-table page (512)
    PGSIZE,     \* bytes of a page
    Exec,       \* calls of exec: [elf, segs, args]; segs: the program's segments
                \* [vaddr, memsz, filesz, perm, whole]; args: the lengths of the
                \* argument strings with their NUL, 0 for a bad pointer
    MAXARG,     \* entries of argv, the final null included
    ALIGN,      \* alignment of the stack pointer (16)
    Sbrk,       \* arguments of sbrk
    Addr,       \* user addresses that programs store to or pass to wait
    CopyAddr,   \* the addresses at which the copies are compared with their definition
    MaxSz       \* bound on the size of a process, in bytes

VARIABLES
    free,   \* kmem.freelist: how often each page is on it
    mem,    \* the contents of each page: bytes, or PTEs
    proc,   \* proc[]: state, pagetable, sz and trapframe
    ret,    \* who made the last call, and whether it succeeded
    panic   \* panic() was called

vars == <<free, mem, proc, ret, panic>>

Page == 1..NPAGE
MAXVA == (ENTRIES ^ LEVELS) * PGSIZE
TRAMPOLINE == MAXVA - PGSIZE
TRAPFRAME == TRAMPOLINE - PGSIZE
trampoline == NPAGE + 1     \* the page of trampoline.S, in the kernel's text

PGROUNDDOWN(a) == (a \div PGSIZE) * PGSIZE
PGROUNDUP(a) == PGROUNDDOWN(a + PGSIZE - 1)
PX(level, va) == ((va \div PGSIZE) \div (ENTRIES ^ level)) % ENTRIES

NoPte == [pa |-> 0, perm |-> {}]
EmptyTable == [i \in 0..(ENTRIES - 1) |-> NoPte]
Filled(c) == [i \in 0..(PGSIZE - 1) |-> c]
FreedByte == 1      \* kfree fills with it
JunkByte == 5       \* kalloc fills with it
UserByte == 2       \* what user programs and the kernel's copies store
FileByte == 3       \* what loadseg reads from the executable

valid(pte) == "V" \in pte.perm
leaf(pte) == pte.perm \intersect {"R", "W", "X"} # {}

Panic(s, cond) == [s EXCEPT !.panic = @ \/ cond]

-----------------------------------------------------------------------------
(* kalloc.c *)

kfree(s, g) ==
    Panic([s EXCEPT !.free[g] = @ + 1, !.mem[g] = Filled(FreedByte)], g \notin Page)

kalloc(s) ==
    LET list == {g \in Page : s.free[g] > 0}
        g == CHOOSE x \in list : \A y \in list : x <= y
    IN  IF list = {} THEN [s EXCEPT !.r = 0]
        ELSE [s EXCEPT !.free[g] = @ - 1, !.mem[g] = Filled(JunkByte), !.r = g]

-----------------------------------------------------------------------------
(* vm.c; the table that walk() has come to is s.r. *)

new_table(k, above, i) ==
    IF k.r = 0 THEN k
    ELSE [k EXCEPT !.mem[k.r] = EmptyTable, !.mem[above][i] = [pa |-> k.r, perm |-> {"V"}]]

RECURSIVE walk_from(_, _, _, _)
walk_from(s, va, level, alloc) ==
    IF s.r = 0 \/ level = 0 THEN s
    ELSE IF valid(s.mem[s.r][PX(level, va)])
    THEN walk_from([s EXCEPT !.r = s.mem[s.r][PX(level, va)].pa], va, level - 1, alloc)
    ELSE IF alloc THEN walk_from(new_table(kalloc(s), s.r, PX(level, va)), va, level - 1, alloc)
    ELSE [s EXCEPT !.r = 0]

\* The bottom table, which holds va's PTE, or 0.
walk(s, pt, va, alloc) ==
    walk_from(Panic([s EXCEPT !.r = pt], va >= MAXVA), va, LEVELS - 1, alloc)

\* The PTE of va in the table walk() returned, NoPte where it returned 0.
pte_in(w, va) == IF w.r = 0 THEN NoPte ELSE w.mem[w.r][PX(0, va)]
pte_of(s, pt, va) == pte_in(walk(s, pt, va, FALSE), va)

\* mutant: PTE_U is not tested
walkaddr_any(s, pt, va) ==
    IF va >= MAXVA \/ ~valid(pte_of(s, pt, va)) THEN 0 ELSE pte_of(s, pt, va).pa

walkaddr(s, pt, va) ==
    IF va >= MAXVA \/ ~({"V", "U"} \subseteq pte_of(s, pt, va).perm) THEN 0
    ELSE pte_of(s, pt, va).pa

set_pte(w, va, pa, perm) ==
    IF w.r = 0 THEN w
    ELSE [Panic(w, valid(w.mem[w.r][PX(0, va)])) EXCEPT
             !.mem[w.r][PX(0, va)] = [pa |-> pa, perm |-> perm \union {"V"}], !.r = 1]

\* mappages() of the one page that every caller for a user table asks for.
mappages(s, pt, va, pa, perm) == set_pte(walk(s, pt, va, TRUE), va, pa, perm)

clear_pte(w, pte, va, do_free) ==
    IF ~valid(pte) \/ ~leaf(pte) THEN Panic(w, TRUE)
    ELSE IF do_free THEN kfree([w EXCEPT !.mem[w.r][PX(0, va)] = NoPte], pte.pa)
    ELSE [w EXCEPT !.mem[w.r][PX(0, va)] = NoPte]

RECURSIVE uvmunmap(_, _, _, _, _)
uvmunmap(s, pt, va, npages, do_free) ==
    IF npages = 0 THEN s
    ELSE uvmunmap(clear_pte(walk(Panic(s, va % PGSIZE # 0), pt, va, FALSE),
                            pte_of(s, pt, va), va, do_free),
                  pt, va + PGSIZE, npages - 1, do_free)

uvmcreate_page(k) == IF k.r = 0 THEN k ELSE [k EXCEPT !.mem[k.r] = EmptyTable]
uvmcreate(s) == uvmcreate_page(kalloc(s))

\* mutant: the page that newsz lies in goes too
uvmdealloc_down(s, pt, oldsz, newsz) ==
    IF newsz >= oldsz THEN [s EXCEPT !.r = oldsz]
    ELSE [uvmunmap(s, pt, PGROUNDDOWN(newsz), (PGROUNDUP(oldsz) - PGROUNDDOWN(newsz)) \div PGSIZE, TRUE)
             EXCEPT !.r = newsz]

uvmdealloc(s, pt, oldsz, newsz) ==
    IF newsz >= oldsz THEN [s EXCEPT !.r = oldsz]
    ELSE [uvmunmap(s, pt, PGROUNDUP(newsz), (PGROUNDUP(oldsz) - PGROUNDUP(newsz)) \div PGSIZE, TRUE)
             EXCEPT !.r = newsz]

\* A round of uvmalloc() at a, once kalloc returned k and mappages m: a failure
\* gives back what the earlier rounds mapped from oldsz on.
uvmalloc_undo(s, pt, oldsz, a) == [uvmdealloc(s, pt, a, oldsz) EXCEPT !.r = 0]

uvmalloc_mapped(m, page, pt, oldsz, a) ==
    IF m.r = 0 THEN uvmalloc_undo(kfree(m, page), pt, oldsz, a) ELSE m

uvmalloc_page(k, pt, oldsz, a, perm) ==
    IF k.r = 0 THEN uvmalloc_undo(k, pt, oldsz, a)
    ELSE uvmalloc_mapped(mappages([k EXCEPT !.mem[k.r] = Filled(0)], pt, a, k.r, perm),
                         k.r, pt, oldsz, a)

RECURSIVE uvmalloc_from(_, _, _, _, _, _)
uvmalloc_from(s, pt, oldsz, a, newsz, perm) ==
    IF s.r = 0 THEN s
    ELSE IF a >= newsz THEN [s EXCEPT !.r = newsz]
    ELSE uvmalloc_from(uvmalloc_page(kalloc(s), pt, oldsz, a, perm),
                       pt, oldsz, a + PGSIZE, newsz, perm)

uvmalloc(s, pt, oldsz, newsz, xperm) ==
    IF newsz < oldsz THEN [s EXCEPT !.r = oldsz]
    ELSE uvmalloc_from([s EXCEPT !.r = 1], pt, PGROUNDUP(oldsz), PGROUNDUP(oldsz), newsz,
                       xperm \union {"R", "U"})

\* freewalk() from entry i of table pt on.
RECURSIVE freewalk(_, _, _)
freewalk(s, pt, i) ==
    IF i = ENTRIES THEN kfree(s, pt)
    ELSE IF valid(s.mem[pt][i]) /\ ~leaf(s.mem[pt][i])
    THEN freewalk([freewalk(s, s.mem[pt][i].pa, 0) EXCEPT !.mem[pt][i] = NoPte], pt, i + 1)
    ELSE freewalk(Panic(s, valid(s.mem[pt][i])), pt, i + 1)

uvmfree(s, pt, sz) ==
    freewalk(uvmunmap(s, pt, 0, PGROUNDUP(sz) \div PGSIZE, TRUE), pt, 0)

\* A round of uvmcopy() at i, and its label err.

uvmcopy_err(s, new, i) == [uvmunmap(s, new, 0, i \div PGSIZE, TRUE) EXCEPT !.r = 0]

uvmcopy_mapped(m, page, new, i) ==
    IF m.r = 0 THEN uvmcopy_err(kfree(m, page), new, i) ELSE m

\* mutant: the child's pages are all the user's, the stack guard among them
uvmcopy_page_flags(k, pte, new, i) ==
    IF ~valid(pte) THEN Panic(k, TRUE)
    ELSE IF k.r = 0 THEN uvmcopy_err(k, new, i)
    ELSE uvmcopy_mapped(mappages([k EXCEPT !.mem[k.r] = k.mem[pte.pa]], new, i, k.r,
                                 pte.perm \union {"U"}),
                        k.r, new, i)

uvmcopy_page(k, pte, new, i) ==
    IF ~valid(pte) THEN Panic(k, TRUE)
    ELSE IF k.r = 0 THEN uvmcopy_err(k, new, i)
    ELSE uvmcopy_mapped(mappages([k EXCEPT !.mem[k.r] = k.mem[pte.pa]], new, i, k.r, pte.perm),
                        k.r, new, i)

\* uvmcopy() from address i on.
RECURSIVE uvmcopy(_, _, _, _, _)
uvmcopy(s, old, new, i, sz) ==
    IF s.r = 0 THEN s
    ELSE IF i >= sz THEN [s EXCEPT !.r = 1]
    ELSE uvmcopy(uvmcopy_page(kalloc(s), pte_of(s, old, i), new, i), old, new, i + PGSIZE, sz)

uvmclear_pte(w, va) ==
    IF w.r = 0 THEN Panic(w, TRUE) ELSE [w EXCEPT !.mem[w.r][PX(0, va)].perm = @ \ {"U"}]
uvmclear(s, pt, va) == uvmclear_pte(walk(s, pt, va, FALSE), va)

\* How much of the len bytes at va lie in va's page: n in the three copy loops.
in_page(va, len) ==
    LET n == PGSIZE - (va - PGROUNDDOWN(va)) IN IF n > len THEN len ELSE n
next_page(va) == PGROUNDDOWN(va) + PGSIZE

\* Page pa with c at its bytes i to i + n - 1, and those bytes.
filled(s, pa, i, n, c) ==
    [s EXCEPT !.mem[pa] = [j \in DOMAIN @ |-> IF j \in i..(i + n - 1) THEN c ELSE @[j]]]
bytes(s, pa, i, n) == [j \in 1..n |-> s.mem[pa][i + j - 1]]

\* The kernel stores len bytes at dstva.
RECURSIVE copyout(_, _, _, _)
copyout(s, pt, dstva, len) ==
    IF len = 0 THEN [s EXCEPT !.r = 1]
    ELSE IF walkaddr(s, pt, PGROUNDDOWN(dstva)) = 0 THEN [s EXCEPT !.r = 0]
    ELSE copyout(filled(s, walkaddr(s, pt, PGROUNDDOWN(dstva)),
                        dstva % PGSIZE, in_page(dstva, len), UserByte),
                 pt, next_page(dstva), len - in_page(dstva, len))

\* Whether copyin() succeeds, and the bytes it has then stored at dst.
RECURSIVE copyin(_, _, _, _, _)
copyin(s, pt, dst, srcva, len) ==
    IF len = 0 THEN [ok |-> TRUE, dst |-> dst]
    ELSE IF walkaddr(s, pt, PGROUNDDOWN(srcva)) = 0 THEN [ok |-> FALSE, dst |-> dst]
    ELSE copyin(s, pt,
                dst \o bytes(s, walkaddr(s, pt, PGROUNDDOWN(srcva)),
                             srcva % PGSIZE, in_page(srcva, len)),
                next_page(srcva), len - in_page(srcva, len))

\* The same for copyinstr(), whose inner loop ends at a NUL, which it copies.
RECURSIVE copyinstr(_, _, _, _, _)
copyinstr(s, pt, dst, srcva, max) ==
    LET null == SelectInSeq(dst, LAMBDA b : b = 0)
    IN  IF null > 0 THEN [ok |-> TRUE, dst |-> SubSeq(dst, 1, null)]
        ELSE IF max = 0 \/ walkaddr(s, pt, PGROUNDDOWN(srcva)) = 0
        THEN [ok |-> FALSE, dst |-> dst]
        ELSE copyinstr(s, pt,
                       dst \o bytes(s, walkaddr(s, pt, PGROUNDDOWN(srcva)),
                                    srcva % PGSIZE, in_page(srcva, max)),
                       next_page(srcva), max - in_page(srcva, max))

-----------------------------------------------------------------------------
(* proc.c *)

\* proc_pagetable(): the table, then the two mappings, undone on a failure.
pagetable_failed(s, pt) == [uvmfree(s, pt, 0) EXCEPT !.r = 0]

trapframe_mapped(m, pt) ==
    IF m.r = 0 THEN pagetable_failed(uvmunmap(m, pt, TRAMPOLINE, 1, FALSE), pt)
    ELSE [m EXCEPT !.r = pt]

\* mutant: the page table is forgotten when the trampoline cannot be mapped
trampoline_mapped_leak(m, pt, trapframe) ==
    IF m.r = 0 THEN m
    ELSE trapframe_mapped(mappages(m, pt, TRAPFRAME, trapframe, {"R", "W"}), pt)

trampoline_mapped(m, pt, trapframe) ==
    IF m.r = 0 THEN pagetable_failed(m, pt)
    ELSE trapframe_mapped(mappages(m, pt, TRAPFRAME, trapframe, {"R", "W"}), pt)

table_created(c, trapframe) ==
    IF c.r = 0 THEN c
    ELSE trampoline_mapped(mappages(c, c.r, TRAMPOLINE, trampoline, {"R", "X"}), c.r, trapframe)

proc_pagetable(s, trapframe) == table_created(uvmcreate(s), trapframe)

proc_freepagetable(s, pt, sz) ==
    uvmfree(uvmunmap(uvmunmap(s, pt, TRAMPOLINE, 1, FALSE), pt, TRAPFRAME, 1, FALSE), pt, sz)

\* The memory half of allocproc(): a trapframe and an empty page table, or
\* neither (np is Unused then).
Unused == [state |-> "UNUSED", pt |-> 0, sz |-> 0, trapframe |-> 0]

table_allocated(c, trapframe) ==
    IF c.r = 0 THEN [s |-> kfree(c, trapframe), np |-> Unused]
    ELSE [s |-> c, np |-> [state |-> "USED", pt |-> c.r, sz |-> 0, trapframe |-> trapframe]]

trapframe_allocated(k) ==
    IF k.r = 0 THEN [s |-> k, np |-> Unused]
    ELSE table_allocated(proc_pagetable(k, k.r), k.r)

allocproc(s) == trapframe_allocated(kalloc(s))

freeproc(s, p) == proc_freepagetable(kfree(s, p.trapframe), p.pt, p.sz)

-----------------------------------------------------------------------------
(* exec.c; x is exec()'s state: the memory, its pagetable, sz, sp and ok,   *)
(* FALSE once it has jumped to bad.                                         *)

Bad(x, s) == [x EXCEPT !.s = s, !.ok = FALSE]

RECURSIVE loadseg(_, _, _, _)
loadseg(s, pt, va, sz) ==
    IF sz = 0 THEN s
    ELSE IF walkaddr(s, pt, va) = 0 THEN Panic(s, TRUE)
    ELSE loadseg(filled(s, walkaddr(s, pt, va), 0, in_page(va, sz), FileByte),
                 pt, va + PGSIZE, sz - in_page(va, sz))

\* A program header, and the memory u that uvmalloc returns for it.
\* seg.whole: readi() finds all of the segment's bytes.
seg_allocated(x, u, seg) ==
    IF u.r = 0 THEN Bad(x, u)
    ELSE [x EXCEPT !.s = loadseg(u, x.pt, seg.vaddr, seg.filesz), !.sz = u.r, !.ok = seg.whole]

exec_seg(x, seg) ==
    IF ~x.ok THEN x
    ELSE IF seg.memsz < seg.filesz \/ seg.vaddr % PGSIZE # 0 THEN Bad(x, x.s)
    ELSE seg_allocated(x, uvmalloc(x.s, x.pt, x.sz, seg.vaddr + seg.memsz, seg.perm), seg)

stack_allocated(x, u) ==
    IF u.r = 0 THEN Bad(x, u)
    ELSE [x EXCEPT !.s = uvmclear(u, x.pt, u.r - 2 * PGSIZE), !.sz = u.r, !.sp = u.r]

exec_stack(x) ==
    IF ~x.ok THEN x
    ELSE stack_allocated([x EXCEPT !.sz = PGROUNDUP(@)],
                         uvmalloc(x.s, x.pt, PGROUNDUP(x.sz), PGROUNDUP(x.sz) + 2 * PGSIZE, {"W"}))

\* Push len bytes, an argument string or the array of pointers to them, at sp.
copied(x, sp, c) == [x EXCEPT !.s = c, !.sp = sp, !.ok = c.r # 0]

pushed(x, sp, len) ==
    IF sp < x.sz - PGSIZE THEN Bad(x, x.s) ELSE copied(x, sp, copyout(x.s, x.pt, sp, len))

exec_push(x, len) ==
    IF ~x.ok THEN x ELSE pushed(x, x.sp - len - ((x.sp - len) % ALIGN), len)

\* The end of exec(): the memory, and the process's page table and size.
exec_end(x, p) ==
    IF x.ok THEN [s |-> proc_freepagetable(x.s, p.pt, p.sz), pt |-> x.pt, sz |-> x.sz]
    ELSE [s |-> proc_freepagetable(x.s, x.pt, x.sz), pt |-> 0, sz |-> 0]

exec_load(c, p, e) ==
    IF c.r = 0 THEN [s |-> c, pt |-> 0, sz |-> 0]
    ELSE exec_end(exec_push(FoldLeft(exec_push,
                                     exec_stack(FoldLeft(exec_seg,
                                                         [s |-> c, pt |-> c.r, sz |-> 0, sp |-> 0,
                                                          ok |-> TRUE],
                                                         e.segs)),
                                     e.args),
                            Len(e.args) + 1),
                  p)

\* pt = 0 tells that it failed.
exec(s, p, e) ==
    IF e.elf THEN exec_load(proc_pagetable(s, p.trapframe), p, e)
    ELSE [s |-> s, pt |-> 0, sz |-> 0]

-----------------------------------------------------------------------------
(* The system calls. *)

s0 == [free |-> free, mem |-> mem, r |-> 0, panic |-> panic]

Return(p, s, proc1, ok) ==
    /\ free' = s.free /\ mem' = s.mem /\ panic' = s.panic
    /\ proc' = proc1
    /\ ret' = [p |-> p, ok |-> ok]

\* sz + n in 64 bits, of which the model keeps UINT64 values.
UINT64 == 2 ^ 16
add64(a, b) == (a + b) % UINT64

\* main(): kinit() frees every page; userinit() makes the first process, with
\* uvmfirst() for its one page.
Booted(s, np) ==
    /\ free = s.free /\ mem = s.mem /\ panic = s.panic
    /\ proc = [p \in Proc |-> IF p = initproc THEN [np EXCEPT !.sz = PGSIZE] ELSE Unused]

uvmfirst(k, np) ==
    Booted(mappages([k EXCEPT !.mem[k.r] = [Filled(0) EXCEPT ![0] = FileByte]], np.pt, 0, k.r,
                    {"R", "W", "X", "U"}), np)

userinit(a) == uvmfirst(kalloc(a.s), a.np)

Init ==
    /\ userinit(allocproc([free |-> [g \in Page |-> 1], r |-> 0, panic |-> FALSE,
                           mem |-> [g \in Page |-> Filled(FreedByte)]]))
    /\ ret = [p |-> initproc, ok |-> TRUE]

growproc(p, s, n) ==
    IF n > 0 /\ s.r = 0 THEN Return(p, s, proc, FALSE)
    ELSE Return(p, s, [proc EXCEPT ![p].sz = s.r], TRUE)

sys_sbrk(p) == \E n \in Sbrk :
    /\ proc[p].state = "USED"
    /\ proc[p].sz + n <= MaxSz
    /\ IF n > 0
       THEN growproc(p, uvmalloc(s0, proc[p].pt, proc[p].sz, add64(proc[p].sz, n), {"W"}), n)
       ELSE growproc(p, uvmdealloc(s0, proc[p].pt, proc[p].sz, add64(proc[p].sz, n)), n)

\* fork() with what allocproc() returned and, below, what uvmcopy() returned.
\* Without an UNUSED slot it returns -1 and changes nothing.
fork_copied(p, c, np) ==
    IF c.r = 0 THEN Return(p, freeproc(c, np), proc, FALSE)
    ELSE Return(p, [c EXCEPT !.mem[np.trapframe] = c.mem[proc[p].trapframe]],
                [proc EXCEPT ![CHOOSE q \in Proc : proc[q].state = "UNUSED"] =
                    [np EXCEPT !.sz = proc[p].sz]],
                TRUE)

fork_allocated(p, a) ==
    IF a.np = Unused THEN Return(p, a.s, proc, FALSE)
    ELSE fork_copied(p, uvmcopy(a.s, proc[p].pt, a.np.pt, 0, proc[p].sz), a.np)

fork(p) ==
    /\ proc[p].state = "USED"
    /\ \E q \in Proc : proc[q].state = "UNUSED"
    /\ fork_allocated(p, allocproc(s0))

exit(p) ==
    /\ proc[p].state = "USED" /\ p # initproc
    /\ Return(p, s0, [proc EXCEPT ![p].state = "ZOMBIE"], TRUE)

\* wait(addr) that finds the zombie pp; xstate takes two bytes.
wait_copied(p, pp, c) ==
    IF c.r = 0 THEN Return(p, c, proc, FALSE)
    ELSE Return(p, freeproc(c, proc[pp]), [proc EXCEPT ![pp] = Unused], TRUE)

wait(p) == \E pp \in Proc \ {p}, addr \in Addr \union {0} :
    /\ proc[p].state = "USED" /\ proc[pp].state = "ZOMBIE"
    /\ wait_copied(p, pp, IF addr = 0 THEN [s0 EXCEPT !.r = 1] ELSE copyout(s0, proc[p].pt, addr, 2))

\* One argument of sys_exec(): the page k for it, filled by fetchstr().
arg_page(v, k, len) ==
    IF k.r = 0 THEN [v EXCEPT !.ok = FALSE]
    ELSE [s |-> k, argv |-> Append(v.argv, k.r), ok |-> len > 0]
fetch_arg(v, len) == IF v.ok THEN arg_page(v, kalloc(v.s), len) ELSE v

exec_returned(p, x, argv) ==
    Return(p, FoldLeft(kfree, x.s, argv),
           IF x.pt # 0 THEN [proc EXCEPT ![p].pt = x.pt, ![p].sz = x.sz] ELSE proc, x.pt # 0)

args_fetched(p, v, e) ==
    IF v.ok /\ Len(e.args) < MAXARG THEN exec_returned(p, exec(v.s, proc[p], e), v.argv)
    ELSE Return(p, FoldLeft(kfree, v.s, v.argv), proc, FALSE)

sys_exec(p) == \E e \in Exec :
    /\ proc[p].state = "USED"
    /\ args_fetched(p, FoldLeft(fetch_arg, [s |-> s0, argv |-> <<>>, ok |-> TRUE], e.args), e)

\* The user program stores a byte where the hardware lets it.
store(p) == \E va \in Addr :
    /\ proc[p].state = "USED"
    /\ {"V", "U", "W"} \subseteq pte_of(s0, proc[p].pt, va).perm
    /\ Return(p, filled(s0, walkaddr(s0, proc[p].pt, va), va % PGSIZE, 1, UserByte), proc, TRUE)

Next == \E p \in Proc :
    sys_sbrk(p) \/ fork(p) \/ exit(p) \/ wait(p) \/ sys_exec(p) \/ store(p)

Spec == Init /\ [][Next]_vars

-----------------------------------------------------------------------------
(* Properties. *)

Live == {p \in Proc : proc[p].state # "UNUSED"}

\* The page-table pages below (and with) table t.
RECURSIVE Tables(_, _)
Tables(t, level) ==
    {t} \union (IF level = 0 THEN {}
                ELSE UNION {Tables(pte.pa, level - 1) : pte \in {e \in Range(mem[t]) : valid(e)}})
AllTables == UNION {Tables(proc[p].pt, LEVELS - 1) : p \in Live}

\* Everything that refers to page g: a process, by its root, or a valid PTE.
Holders(g) ==
    {p \in Live : proc[p].pt = g}
      \union {<<t, i>> \in AllTables \X (0..(ENTRIES - 1)) :
                 valid(mem[t][i]) /\ mem[t][i].pa = g}

\* The mappings of table t, whose first page is number v: <<page number, PTE>>.
RECURSIVE Mappings(_, _, _)
Mappings(t, level, v) ==
    LET first(i) == v + i * ENTRIES ^ level
        entries == {i \in DOMAIN mem[t] : valid(mem[t][i])}
    IN  IF level = 0 THEN {<<first(i), mem[t][i]>> : i \in entries}
        ELSE UNION {Mappings(mem[t][i].pa, level - 1, first(i)) : i \in entries}
Mapped(p) == Mappings(proc[p].pt, LEVELS - 1, 0)

\* What process p can read: the contents of its pages, by page number.
Image(p) ==
    LET user == {m \in Mapped(p) : {"U", "R"} \subseteq m[2].perm}
    IN  [v \in {m[1] : m \in user} |-> mem[(CHOOSE m \in user : m[1] = v)[2].pa]]

\* Types of the allocator's and the processes' fields.
TypeOK ==
    /\ free \in [Page -> 0..1]
    /\ DOMAIN mem = Page
    /\ proc \in [Proc -> [state : {"UNUSED", "USED", "ZOMBIE"}, pt : 0..NPAGE,
                          sz : 0..MAXVA, trapframe : 0..NPAGE]]

\* Every page is on the free list once, or is referred to exactly once: no call,
\* whichever of its kallocs fails, leaks a page, frees one twice or frees one in
\* use (uvmalloc, uvmcopy, proc_pagetable, fork, exec and sys_exec all undo).
PagesConserved == \A g \in Page : free[g] + Cardinality(Holders(g)) = 1

\* No call reaches a panic of vm.c, exec.c or kalloc.c: what uvmunmap, uvmcopy,
\* uvmclear and loadseg look up is mapped, what mappages maps is not, and
\* freewalk finds no leaf.
NoPanic == ~panic

\* A process has exactly the pages below p->sz, its own trapframe at TRAPFRAME
\* and the trampoline above it, the last two out of the user's reach.
SizeIsMapped ==
    \A p \in Live :
        LET high == {<<TRAPFRAME \div PGSIZE, [pa |-> proc[p].trapframe, perm |-> {"V", "R", "W"}]>>,
                     <<TRAMPOLINE \div PGSIZE, [pa |-> trampoline, perm |-> {"V", "R", "X"}]>>}
        IN  /\ high \subseteq Mapped(p)
            /\ {m[1] : m \in Mapped(p) \ high} = 0..(PGROUNDUP(proc[p].sz) \div PGSIZE - 1)

\* User memory never shows what a page held before it was allocated: uvmalloc
\* zeroes and uvmcopy overwrites what kalloc returns.
NothingStale ==
    \A p \in Live : \A page \in Range(Image(p)) :
                         Range(page) \intersect {FreedByte, JunkByte} = {}

\* A byte-by-byte definition of the three copies over the image: copyin and
\* copyout fail exactly when a byte is out of reach, copyinstr when it is
\* before the NUL or the NUL is not among the first max bytes.
CopyExact ==
    \A p \in Live : \A va \in CopyAddr, len \in {0, 1, PGSIZE + 1} :
        LET pgs == Image(p)
            img == [a \in {b \in 0..(MAXVA - 1) : b \div PGSIZE \in DOMAIN pgs} |->
                       pgs[a \div PGSIZE][a % PGSIZE]]
            reach == \A k \in 0..(len - 1) : va + k \in DOMAIN img
            in == copyin(s0, proc[p].pt, <<>>, va, len)
            out == copyout(s0, proc[p].pt, va, len)
            str == copyinstr(s0, proc[p].pt, <<>>, va, len)
            nulls == {k \in 0..(len - 1) : /\ \A j \in 0..k : va + j \in DOMAIN img
                                           /\ img[va + k] = 0}
            first == CHOOSE k \in nulls : \A j \in nulls : k <= j
        IN  /\ in.ok = reach /\ (out.r = 1) = reach /\ str.ok = (nulls # {})
            /\ reach => in.dst = [k \in 1..len |-> img[va + k - 1]]
            /\ str.ok => str.dst = [k \in 1..(first + 1) |-> img[va + k - 1]]
            /\ \A g \in Page : mem[g] # out.mem[g] =>
                  \E k \in 0..(len - 1) : g = walkaddr(s0, proc[p].pt, va + k)

\* A step changes the image of the process that makes the call and of no other,
\* and a call that fails changes nobody's, but for the part of the status that
\* wait's copyout stored below the end of the process; a forked child starts
\* with its parent's image.
ImagesKept ==
    [][/\ \A p \in Live \intersect Live' :
             ret'.p # p \/ (~ret'.ok /\ \A q \in Proc : proc[q].state # "ZOMBIE") =>
                Image(p)' = Image(p)
       /\ \A np \in Live' \ Live : Image(np)' = Image(ret'.p)]_vars

\* No page is lost, freed twice or used twice, and no panic() of vm.c is
\* reached, whichever allocation fails.
PagesSound == TypeOK /\ NoPanic /\ PagesConserved

\* An address space is what p->sz says, and shows nothing of earlier users.
SpacesSound == SizeIsMapped /\ NothingStale
=============================================================================
