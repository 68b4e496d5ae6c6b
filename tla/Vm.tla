----------------------------------- MODULE Vm ---------------------------------
(***************************************************************************)
(* Physical pages (kalloc.c), page tables and user memory (vm.c), and the    *)
(* calls that build, grow, copy, replace and drop a user image: sbrk(),      *)
(* fork(), exec(), exit() and wait().  Every kalloc() is a step of its own    *)
(* and may find no page, while other processes run calls of their own.  An   *)
(* address space is the record of its directory's entries: the directory     *)
(* page, the kernel's page tables, the user page tables and the user pages.  *)
(* What frees runs in one step.                                              *)
(***************************************************************************)
EXTENDS Integers, FiniteSets, FiniteSetsExt

CONSTANTS
    Proc,        \* processes
    Initial,     \* the one userinit() makes
    NPAGES,      \* pages of physical memory
    PGSIZE,      \* bytes in a page
    UPAGES,      \* user pages of an address space: KERNBASE / PGSIZE
    NPTE,        \* entries of a page table
    KTABLES,     \* page tables of the kernel part
    SbrkArgs,    \* arguments of sbrk()
    Buffers,     \* bytes of the buffers passed to the kernel
    Programs,    \* bytes of the segment of a program
    EmptyImage,  \* may a process give back its whole memory?
    MaxCalls     \* calls made altogether

ASSUME VmConstants ==
    /\ Initial \in Proc /\ SbrkArgs \subseteq Int
    /\ Programs \subseteq Nat /\ Buffers \subseteq 0 .. UPAGES * PGSIZE - 1
    /\ {NPAGES, PGSIZE, UPAGES, NPTE, KTABLES} \subseteq Nat \ {0}
    /\ EmptyImage \in BOOLEAN /\ MaxCalls \in Nat

VARIABLES
    free,     \* kmem.freelist
    data,     \* [Page -> what is in it]
    state,    \* of every process: "UNUSED", "EMBRYO", "RUNNING" or "ZOMBIE"
    kstack,   \* its kernel stack, or 0
    pgdir,    \* its address space
    sz,       \* its size in bytes
    new,      \* the address space exec() builds, or None
    at,       \* the step of its call, or "user"
    arg,      \* [Proc -> [from, a, to, np, mem]]: locals of the call
    made,     \* calls made
    img,      \* [Proc -> [user page -> what it should hold]] (history)
    panic
vars == <<free, data, state, kstack, pgdir, sz, new, at, arg, made, img, panic>>
procs == <<state, kstack>>

Page == 1 .. NPAGES
UPage == 0 .. UPAGES - 1
KERNBASE == UPAGES * PGSIZE
Uint == 2 * KERNBASE          \* addresses wrap around at twice KERNBASE
Table(a) == a \div NPTE
Junk == 9                     \* kfree() fills the page with it
Text == 7                     \* what loaduvm() reads from the file
Args == 8                     \* what exec() puts on the stack
PGROUNDUP(n) == (n + PGSIZE - 1) \div PGSIZE     \* as a page number

None == [dir |-> 0, kern |-> {}, tab |-> [t \in 0 .. Table(UPAGES - 1) |-> 0],
         pte |-> [a \in UPage |-> 0], guard |-> {}]
NoArg == [from |-> 0, a |-> 0, to |-> 0, np |-> Initial, mem |-> 0]
Least(S) == CHOOSE x \in S : \A y \in S : x <= y

\* The page kalloc() returns, if there is one.
Kalloc == Least(free)

\* kfree() of every page of S.
kfree(S) ==
    /\ free' = free \union S
    /\ data' = [x \in Page |-> IF x \in S THEN Junk ELSE data[x]]
    /\ panic' = (panic \/ S \cap free # {})

\* What freevm() frees: user pages, page tables and the directory.
Pages(as) ==
    ({as.dir} \union as.kern \union {as.tab[t] : t \in DOMAIN as.tab}
        \union {as.pte[a] : a \in UPage}) \ {0}

\* Fault: the first page is that of the new size, not the one behind it.
Fault_Gone(as, oldsz, newsz) ==
    {a \in UPage : newsz \div PGSIZE <= a /\ a * PGSIZE < oldsz /\ as.pte[a] # 0}
\* deallocuvm(): the user pages that go, and what is left.
Gone(as, oldsz, newsz) ==
    {a \in UPage : PGROUNDUP(newsz) <= a /\ a * PGSIZE < oldsz /\ as.pte[a] # 0}
deallocuvm(as, oldsz, newsz) ==
    [as EXCEPT !.pte = [a \in UPage |-> IF a \in Gone(as, oldsz, newsz) THEN 0 ELSE @[a]],
               !.guard = @ \ Gone(as, oldsz, newsz)]

\* userinit(): one process with one page.
Init ==
    LET all == 2 + KTABLES + 2 IN
    /\ free = Page \ 1 .. all
    /\ data = [x \in Page |-> IF x = all THEN Text ELSE Junk]
    /\ state = [p \in Proc |-> IF p = Initial THEN "RUNNING" ELSE "UNUSED"]
    /\ kstack = [p \in Proc |-> IF p = Initial THEN 1 ELSE 0]
    /\ pgdir = [p \in Proc |-> IF p # Initial THEN None
                ELSE [None EXCEPT !.dir = 2, !.kern = 3 .. 2 + KTABLES,
                                  !.tab[0] = all - 1, !.pte[0] = all]]
    /\ sz = [p \in Proc |-> IF p = Initial THEN PGSIZE ELSE 0]
    /\ new = [p \in Proc |-> None] /\ at = [p \in Proc |-> "user"] /\ arg = [p \in Proc |-> NoArg]
    /\ made = 0 /\ panic = FALSE
    /\ img = [p \in Proc |-> [a \in UPage |-> IF p = Initial /\ a = 0 THEN Text ELSE 0]]

Call(p) == state[p] = "RUNNING" /\ at[p] = "user" /\ made < MaxCalls /\ made' = made + 1
Goto(p, step) == at' = [at EXCEPT ![p] = step]
Return(p) == Goto(p, "user") /\ arg' = [arg EXCEPT ![p] = NoArg]

\* argptr(), and fetchint() for n = 4: a buffer of n bytes at i lies in the image.
InImage(p, i, n) == i < sz[p] /\ (i + n) % Uint <= sz[p]

\* A call such as read() stores into a buffer of the process, the guard page not
\* excepted; a page that is not there is a page fault in the kernel, a panic.
argptr(p) ==
    /\ Call(p)
    /\ \E i \in 0 .. Uint - 1, n \in Buffers :
         LET here == {a \in UPage : i < (a + 1) * PGSIZE /\ a * PGSIZE < i + n}
             dest == {pgdir[p].pte[a] : a \in here}
         IN /\ InImage(p, i, n)
            /\ data' = [x \in Page |-> IF x \in dest THEN 1 ELSE data[x]]
            /\ img' = [img EXCEPT ![p] = [a \in UPage |-> IF a \in here THEN 1 ELSE @[a]]]
            /\ panic' = (panic \/ 0 \in dest)
    /\ UNCHANGED <<free, procs, pgdir, sz, new, at, arg>>

\* sbrk(n): growproc() up, with allocuvm().
sbrk_up(p) ==
    /\ Call(p) /\ Goto(p, "sbrk")
    /\ \E n \in {n \in SbrkArgs : n > 0} :
         arg' = [arg EXCEPT ![p] = [NoArg EXCEPT !.from = sz[p], !.a = PGROUNDUP(sz[p]),
                                                 !.to = (sz[p] + n) % Uint]]
    /\ UNCHANGED <<free, data, procs, pgdir, sz, new, img, panic>>

\* sbrk(n): growproc() down.  A size below 0 wraps around and changes nothing;
\* size 0 is what deallocuvm() returns for failure, and p->sz is not set.
sbrk_down(p) ==
    /\ Call(p)
    /\ \E n \in {n \in SbrkArgs : n < 0} :
         LET newsz == (sz[p] + n) % Uint IN
         /\ newsz < sz[p] /\ (newsz = 0 => EmptyImage)
         /\ kfree({pgdir[p].pte[a] : a \in Gone(pgdir[p], sz[p], newsz)})
         /\ pgdir' = [pgdir EXCEPT ![p] = deallocuvm(@, sz[p], newsz)]
         /\ sz' = [sz EXCEPT ![p] = IF newsz = 0 THEN @ ELSE newsz]
    /\ UNCHANGED <<procs, new, at, arg, img>>

\* The address space that a call builds: growproc() its own, exec() and fork() a
\* new one.
Space(p) ==
    CASE at[p] = "sbrk" -> pgdir[p]
      [] at[p] \in {"fork", "copy"} -> pgdir[arg[p].np]
      [] OTHER -> new[p]
Becomes(p, as) ==
    CASE at[p] = "sbrk" -> pgdir' = [pgdir EXCEPT ![p] = as] /\ UNCHANGED new
      [] at[p] \in {"fork", "copy"} -> pgdir' = [pgdir EXCEPT ![arg[p].np] = as] /\ UNCHANGED new
      [] OTHER -> new' = [new EXCEPT ![p] = as] /\ UNCHANGED pgdir

\* The loops of allocuvm(), for growproc() and twice for exec(), and copyuvm().
Allocating(p) == at[p] \in {"sbrk", "segment", "stack"}
TooLarge(p) == Allocating(p) /\ arg[p].to >= KERNBASE
More(p) == ~TooLarge(p) /\ arg[p].a * PGSIZE < IF at[p] = "copy" THEN sz[p] ELSE arg[p].to
Untabled(p) == Space(p).tab[Table(arg[p].a)] = 0

\* A round of allocuvm(): mem = kalloc(), and zeroes.
allocuvm(p) ==
    /\ Allocating(p) /\ More(p) /\ arg[p].mem = 0 /\ free # {}
    /\ arg' = [arg EXCEPT ![p].mem = Kalloc]
    /\ free' = free \ {Kalloc}
    /\ data' = [data EXCEPT ![Kalloc] = 0]
    /\ UNCHANGED <<procs, pgdir, sz, new, at, made, img, panic>>

\* A round of copyuvm(): mem = kalloc(), and the bytes of the parent's page.
copyuvm(p) ==
    /\ at[p] = "copy" /\ More(p) /\ arg[p].mem = 0 /\ free # {}
    /\ LET old == pgdir[p].pte[arg[p].a] IN
       /\ data' = [data EXCEPT ![Kalloc] = IF old = 0 THEN Junk ELSE data[old]]
       /\ panic' = (panic \/ old = 0)
    /\ arg' = [arg EXCEPT ![p].mem = Kalloc]
    /\ free' = free \ {Kalloc}
    /\ UNCHANGED <<procs, pgdir, sz, new, at, made, img>>

\* mappages() of mem at user page a, with a page table if there is none.
mappages(p) ==
    LET as == Space(p)
        a == arg[p].a
    IN
    /\ arg[p].mem # 0 /\ (Untabled(p) => free # {})
    /\ Becomes(p, [as EXCEPT !.pte[a] = arg[p].mem,
                             !.tab[Table(a)] = IF Untabled(p) THEN Kalloc ELSE @,
                             !.guard = IF at[p] = "copy" THEN pgdir[p].guard \cap 0 .. a ELSE @])
    /\ free' = IF Untabled(p) THEN free \ {Kalloc} ELSE free
    /\ panic' = (panic \/ as.pte[a] # 0)
    /\ arg' = [arg EXCEPT ![p] = [@ EXCEPT !.a = a + 1, !.mem = 0]]
    /\ UNCHANGED <<data, procs, sz, at, made, img>>

\* Fault: the page is not freed when there is none for the page table.
Fault_Mem(p) == {}
\* kfree(mem), behind a mappages() that failed.
Mem(p) == {arg[p].mem} \ {0}

\* exec() that fails frees what it built; the old image is still there.
bad(p) ==
    /\ kfree(Pages(new[p]) \union Mem(p))
    /\ new' = [new EXCEPT ![p] = None]
    /\ Return(p)

\* Where kalloc() fails: for the page, or for the page table, with mem in hand.
NoMemory(p) == More(p) /\ free = {} /\ (arg[p].mem = 0 \/ Untabled(p))

\* allocuvm() without memory gives back what it has allocated.
allocuvm_fails(p) ==
    /\ Allocating(p) /\ (TooLarge(p) \/ NoMemory(p))
    /\ IF at[p] = "sbrk" THEN
         /\ kfree({pgdir[p].pte[a] : a \in Gone(pgdir[p], arg[p].to, arg[p].from)} \union Mem(p))
         /\ pgdir' = [pgdir EXCEPT ![p] = deallocuvm(@, arg[p].to, arg[p].from)]
         /\ UNCHANGED new /\ Return(p)
       ELSE bad(p) /\ UNCHANGED pgdir
    /\ UNCHANGED <<procs, sz, made, img>>

\* growproc() sets the size.
sbrk_done(p) ==
    /\ at[p] = "sbrk" /\ ~TooLarge(p) /\ ~More(p)
    /\ sz' = [sz EXCEPT ![p] = IF arg[p].to < @ THEN @ ELSE arg[p].to]
    /\ img' = [img EXCEPT ![p] = [a \in UPage |-> IF a >= PGROUNDUP(sz[p]) THEN 0 ELSE @[a]]]
    /\ Return(p)
    /\ UNCHANGED <<free, data, procs, pgdir, new, made, panic>>

\* exec() as far as setupkvm(); the file has one segment.
exec(p) ==
    /\ Call(p) /\ Goto(p, "exec")
    /\ \E n \in Programs : arg' = [arg EXCEPT ![p].to = n]
    /\ UNCHANGED <<free, data, procs, pgdir, sz, new, img, panic>>

\* loaduvm(), where readi() may fall short, and the size of the stack.
loaduvm(p) ==
    /\ at[p] = "segment" /\ ~TooLarge(p) /\ ~More(p)
    /\ LET n == PGROUNDUP(arg[p].to) IN
       \/ bad(p)
       \/ /\ data' = [x \in Page |-> IF \E a \in 0 .. n - 1 : x = new[p].pte[a] THEN Text ELSE data[x]]
          /\ arg' = [arg EXCEPT ![p] = [@ EXCEPT !.from = n * PGSIZE, !.a = n, !.to = (n + 2) * PGSIZE]]
          /\ Goto(p, "stack")
          /\ UNCHANGED <<free, new, panic>>
    /\ UNCHANGED <<procs, pgdir, sz, made, img>>

\* clearpteu() of the page below the stack, copyout() of the arguments, which
\* may not fit above it, and the commit to the new image.
commit(p) ==
    /\ at[p] = "stack" /\ ~TooLarge(p) /\ ~More(p)
    /\ LET top == arg[p].a - 1
           stack == new[p].pte[top]
           old == Pages(pgdir[p])
       IN \/ bad(p) /\ UNCHANGED <<pgdir, sz, img>>
          \/ /\ free' = free \union old
             /\ data' = [x \in Page |-> IF x \in old THEN Junk ELSE IF x = stack THEN Args ELSE data[x]]
             /\ panic' = (panic \/ old \cap free # {})
             /\ pgdir' = [pgdir EXCEPT ![p] = [new[p] EXCEPT !.guard = {top - 1}]]
             /\ new' = [new EXCEPT ![p] = None]
             /\ sz' = [sz EXCEPT ![p] = arg[p].to]
             /\ img' = [img EXCEPT ![p] =
                   [a \in UPage |-> IF a = top THEN Args ELSE IF a < top - 1 THEN Text ELSE 0]]
             /\ Return(p)
    /\ UNCHANGED <<procs, made>>

\* fork(): allocproc() with its kernel stack.
fork(p) ==
    /\ Call(p) /\ free # {}
    /\ \E np \in {q \in Proc : state[q] = "UNUSED"} :
         /\ state' = [state EXCEPT ![np] = "EMBRYO"]
         /\ kstack' = [kstack EXCEPT ![np] = Kalloc]
         /\ arg' = [arg EXCEPT ![p].np = np]
    /\ free' = free \ {Kalloc}
    /\ Goto(p, "fork")
    /\ UNCHANGED <<data, pgdir, sz, new, img, panic>>

\* copyuvm() failed: freevm(), and fork() gives back the kernel stack.
fork_fails(p) ==
    LET np == arg[p].np IN
    /\ kfree(Pages(pgdir[np]) \union Mem(p) \union {kstack[np]})
    /\ pgdir' = [pgdir EXCEPT ![np] = None]
    /\ kstack' = [kstack EXCEPT ![np] = 0]
    /\ state' = [state EXCEPT ![np] = "UNUSED"]
    /\ Return(p)

\* copyuvm() without memory.
copyuvm_fails(p) ==
    /\ at[p] = "copy" /\ NoMemory(p) /\ fork_fails(p)
    /\ UNCHANGED <<sz, new, made, img>>

\* setupkvm(), for exec() and copyuvm(): the directory, then the page tables of
\* the kernel; freevm() of what is there when one is missing.
setupkvm(p) ==
    LET as == Space(p)
        more == IF as.dir = 0 THEN [as EXCEPT !.dir = Kalloc] ELSE [as EXCEPT !.kern = @ \union {Kalloc}]
    IN
    /\ at[p] \in {"exec", "fork"} /\ free # {}
    /\ Becomes(p, more)
    /\ free' = free \ {Kalloc}
    /\ at' = [at EXCEPT ![p] = IF Cardinality(more.kern) < KTABLES THEN @
                               ELSE IF @ = "exec" THEN "segment" ELSE "copy"]
    /\ UNCHANGED <<data, procs, sz, arg, made, img, panic>>
setupkvm_fails(p) ==
    /\ free = {}
    /\ \/ at[p] = "exec" /\ bad(p) /\ UNCHANGED <<procs, pgdir>>
       \/ at[p] = "fork" /\ fork_fails(p) /\ UNCHANGED new
    /\ UNCHANGED <<sz, made, img>>
\* The end of fork().
fork_done(p) ==
    /\ at[p] = "copy" /\ ~More(p)
    /\ sz' = [sz EXCEPT ![arg[p].np] = sz[p]]
    /\ img' = [img EXCEPT ![arg[p].np] = img[p]]
    /\ state' = [state EXCEPT ![arg[p].np] = "RUNNING"]
    /\ Return(p)
    /\ UNCHANGED <<free, data, kstack, pgdir, new, made, panic>>

exit(p) ==
    /\ Call(p) /\ p # Initial
    /\ state' = [state EXCEPT ![p] = "ZOMBIE"]
    /\ UNCHANGED <<free, data, kstack, pgdir, sz, new, at, arg, img, panic>>

\* wait() frees the kernel stack and the image of a zombie.
wait(p) ==
    /\ Call(p)
    /\ \E z \in {q \in Proc : state[q] = "ZOMBIE"} :
         /\ kfree(Pages(pgdir[z]) \union {kstack[z]})
         /\ kstack' = [kstack EXCEPT ![z] = 0]
         /\ pgdir' = [pgdir EXCEPT ![z] = None]
         /\ state' = [state EXCEPT ![z] = "UNUSED"]
    /\ UNCHANGED <<sz, new, at, arg, img>>

Next == \E p \in Proc :
    \/ argptr(p) \/ sbrk_up(p) \/ sbrk_down(p) \/ sbrk_done(p)
    \/ setupkvm(p) \/ setupkvm_fails(p) \/ allocuvm(p) \/ mappages(p) \/ allocuvm_fails(p)
    \/ exec(p) \/ loaduvm(p) \/ commit(p)
    \/ fork(p) \/ copyuvm(p) \/ copyuvm_fails(p) \/ fork_done(p) \/ exit(p) \/ wait(p)

Spec == Init /\ [][Next]_vars

-----------------------------------------------------------------------------
\* Types of the variables.
TypeOK ==
    /\ free \subseteq Page /\ data \in [Page -> {0, 1, Text, Args, Junk}]
    /\ state \in [Proc -> {"UNUSED", "EMBRYO", "RUNNING", "ZOMBIE"}]
    /\ kstack \in [Proc -> 0 .. NPAGES] /\ sz \in [Proc -> 0 .. KERNBASE - 1]
    /\ \A p \in Proc : Pages(pgdir[p]) \subseteq Page /\ Pages(new[p]) \subseteq Page

\* Every page of memory is on the free list or in one place of one process:
\* no path of sbrk(), fork(), exec() or wait(), failing at any kalloc(), loses
\* a page, frees one twice or maps one into two images.
Places(as) ==
    Cardinality(as.kern) + Cardinality({a \in UPage : as.pte[a] # 0})
        + Cardinality({t \in DOMAIN as.tab : as.tab[t] # 0}) + (IF as.dir = 0 THEN 0 ELSE 1)
PagesOwned ==
    /\ TypeOK
    /\ Page = UNION ({free, {kstack[p] : p \in Proc} \ {0}}
                        \union {Pages(pgdir[p]) \union Pages(new[p]) \union ({arg[p].mem} \ {0}) : p \in Proc})
    /\ NPAGES = Cardinality(free)
         + MapThenSumSet(LAMBDA p : Places(pgdir[p]) + Places(new[p])
                                    + Cardinality({kstack[p], arg[p].mem} \ {0}), Proc)

\* A process in user mode has every page below its size and none above, with
\* what it wrote, inherited or loaded in it, whatever the other processes did
\* and whichever of its own calls failed half-way. The kernel relies on it: no
\* "remap", no "copyuvm: page not present", and no page fault on a buffer that
\* argptr() admitted.
Image ==
    /\ \A p \in Proc : state[p] = "RUNNING" /\ at[p] = "user" =>
         \A a \in UPage :
             IF a * PGSIZE < sz[p] THEN pgdir[p].pte[a] # 0 /\ data[pgdir[p].pte[a]] = img[p][a]
             ELSE pgdir[p].pte[a] = 0
    /\ ~panic

====
