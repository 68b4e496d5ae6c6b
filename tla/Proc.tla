--------------------------------- MODULE Proc ---------------------------------
(***************************************************************************)
(* proc.c: the life of processes.  fork (allocproc, kalloc, copyuvm and    *)
(* their failures), exit, wait, kill, sleeping and waking, the scheduler   *)
(* and preemption, and the killed tests of trap.c.                          *)
(*                                                                          *)
(* A critical section of ptable.lock is one step; module Sched looks inside *)
(* the lock.  What fork() does without the lock is a step of its own.       *)
(***************************************************************************)
EXTENDS Naturals, FiniteSets

CONSTANTS NPROC,     \* slots of ptable.proc
          NCPU,      \* processors
          MaxPid,    \* bound on nextpid
          Calls,     \* system calls that programs make
          KillArgs,  \* arguments that programs give to kill()
          MayFail    \* whether kalloc()/copyuvm() can run out of memory

ASSUME ProcConstants ==
    /\ NPROC \in Nat \ {0} /\ NCPU \in Nat \ {0} /\ MaxPid \in Nat \ {0}
    /\ Calls \subseteq {"fork", "wait", "kill", "read", "disk", "exit"}
    /\ KillArgs \subseteq Nat /\ MayFail \in BOOLEAN

VARIABLES
    state,     \* p->state
    pid,       \* p->pid, 0 in a free slot that was reaped or never used
    parent,    \* p->parent: a slot, 0 for none
    killed,    \* p->killed
    chan,      \* p->chan: 0, a slot (in wait) or IOChan
    kstack,    \* p->kstack points to a page
    pgdir,     \* p->pgdir: "none", "live", or "freed" (dangling)
    nextpid,
    pc,        \* what the thread of the slot is doing
    child,     \* fork()'s np, 0 when not forking
    arg,       \* kill()'s argument
    targets,   \* history: pids that kill() or a fault was really about
    missed,    \* history: slots that were killed already when they last fell asleep
               \* in a loop that looks at killed
    marked,    \* history: slots that kill() has marked when they were free or embryos
    panicked

vars == <<state, pid, parent, killed, chan, kstack, pgdir, nextpid, pc, child,
          arg, targets, missed, marked, panicked>>
history == <<targets, missed, marked>>

Slot == 1 .. NPROC
initproc == 1
IOChan == NPROC + 1    \* any channel other than those of wait()
Alive == {"RUNNABLE", "RUNNING", "SLEEPING"}
States == {"UNUSED", "EMBRYO", "ZOMBIE"} \union Alive
PC == {"none", "user", "fork", "kstack", "copyuvm", "publish", "wait", "kill", "exit",
       "read", "read_sleep", "disk", "disk_done"}

\* The calls of init.c: it reads no input and kills nobody.
Makes(p) == IF p = initproc THEN Calls \ {"read", "kill"} ELSE Calls

First(S) == CHOOSE s \in S : \A t \in S : s <= t

\* main() has run userinit(): init is the only process.
Init ==
    /\ state = [s \in Slot |-> IF s = initproc THEN "RUNNABLE" ELSE "UNUSED"]
    /\ pid = [s \in Slot |-> IF s = initproc THEN 1 ELSE 0]
    /\ parent = [s \in Slot |-> 0]
    /\ killed = [s \in Slot |-> FALSE]
    /\ chan = [s \in Slot |-> 0]
    /\ kstack = [s \in Slot |-> s = initproc]
    /\ pgdir = [s \in Slot |-> IF s = initproc THEN "live" ELSE "none"]
    /\ nextpid = 2
    /\ pc = [s \in Slot |-> IF s = initproc THEN "user" ELSE "none"]
    /\ child = [s \in Slot |-> 0]
    /\ arg = [s \in Slot |-> 0]
    /\ targets = {} /\ missed = {} /\ marked = {}
    /\ panicked = FALSE

\* The thread of slot p is executing at l.
At(p, l) == ~panicked /\ state[p] = "RUNNING" /\ pc[p] = l
Goto(p, l) == pc' = [pc EXCEPT ![p] = l]

-------------------------------------------------------------------------------
(* Processors.                                                             *)

scheduler(p) ==
    /\ ~panicked
    /\ state[p] = "RUNNABLE"
    /\ Cardinality({q \in Slot : state[q] = "RUNNING"}) < NCPU
    /\ state' = [state EXCEPT ![p] = "RUNNING"]
    /\ UNCHANGED <<pid, parent, killed, chan, kstack, pgdir, nextpid, pc, child, arg, history, panicked>>

\* yield() from the timer interrupt, in user space or in the kernel.  Who is on
\* the way into sleep() has a spinlock, and so interrupts off.
yield(p) ==
    /\ ~panicked
    /\ state[p] = "RUNNING" /\ pc[p] # "read_sleep"
    /\ state' = [state EXCEPT ![p] = "RUNNABLE"]
    /\ UNCHANGED <<pid, parent, killed, chan, kstack, pgdir, nextpid, pc, child, arg, history, panicked>>

-------------------------------------------------------------------------------
(* Traps (trap.c): a killed process leaves user space only to exit.        *)

syscall(p) ==
    /\ At(p, "user") /\ ~killed[p]
    /\ \E call \in Makes(p), n \in KillArgs :
         /\ call # "kill" => n = First(KillArgs)     \* the argument is kill's
         /\ call = "fork" => nextpid + Cardinality({q \in Slot : pc[q] = "fork"}) <= MaxPid
         /\ Goto(p, call)
         /\ arg' = [arg EXCEPT ![p] = IF call = "kill" THEN n ELSE 0]
    /\ UNCHANGED <<state, pid, parent, killed, chan, kstack, pgdir, nextpid, child, history, panicked>>

\* A fault in user space: the default case of trap().
fault(p) ==
    /\ At(p, "user") /\ ~killed[p]
    /\ killed' = [killed EXCEPT ![p] = TRUE]
    /\ targets' = targets \union {pid[p]}
    /\ UNCHANGED <<state, pid, parent, chan, kstack, pgdir, nextpid, pc, child, arg, missed, marked, panicked>>

trap_killed(p) ==
    /\ At(p, "user") /\ killed[p]
    /\ Goto(p, "exit")
    /\ UNCHANGED <<state, pid, parent, killed, chan, kstack, pgdir, nextpid, child, arg, history, panicked>>

-------------------------------------------------------------------------------
(* fork().                                                                 *)

\* allocproc() up to the release of ptable.lock.
allocproc(p) ==
    /\ At(p, "fork")
    /\ LET free == {s \in Slot : state[s] = "UNUSED"} IN
         \/ /\ free = {}
            /\ Goto(p, "user")
            /\ UNCHANGED <<state, pid, nextpid, child>>
         \/ /\ free # {}
            /\ state' = [state EXCEPT ![First(free)] = "EMBRYO"]
            /\ pid' = [pid EXCEPT ![First(free)] = nextpid]
            /\ nextpid' = nextpid + 1
            /\ child' = [child EXCEPT ![p] = First(free)]
            /\ Goto(p, "kstack")
    /\ UNCHANGED <<parent, killed, chan, kstack, pgdir, arg, history, panicked>>

\* The slot is given back without ptable.lock; pid and killed stay as they are.
Abandon(p) ==
    /\ state' = [state EXCEPT ![child[p]] = "UNUSED"]
    /\ child' = [child EXCEPT ![p] = 0]
    /\ Goto(p, "user")

alloc_kstack(p) ==
    /\ At(p, "kstack")
    /\ \/ /\ kstack' = [kstack EXCEPT ![child[p]] = TRUE]
          /\ Goto(p, "copyuvm")
          /\ UNCHANGED <<state, child>>
       \/ MayFail /\ Abandon(p) /\ UNCHANGED kstack
    /\ UNCHANGED <<pid, parent, killed, chan, pgdir, nextpid, arg, history, panicked>>

\* Fault: fork() does not free the kernel stack when copyuvm() fails.
Fault_copyuvm(p) ==
    /\ At(p, "copyuvm")
    /\ \/ /\ pgdir' = [pgdir EXCEPT ![child[p]] = "live"]
          /\ parent' = [parent EXCEPT ![child[p]] = p]
          /\ Goto(p, "publish")
          /\ UNCHANGED <<state, child>>
       \/ MayFail /\ Abandon(p) /\ UNCHANGED <<parent, pgdir>>
    /\ UNCHANGED <<pid, killed, chan, kstack, nextpid, arg, history, panicked>>

\* The rest of fork() up to the last critical section.
copyuvm(p) ==
    /\ At(p, "copyuvm")
    /\ \/ /\ pgdir' = [pgdir EXCEPT ![child[p]] = "live"]
          /\ parent' = [parent EXCEPT ![child[p]] = p]
          /\ Goto(p, "publish")
          /\ UNCHANGED <<state, child, kstack>>
       \/ /\ MayFail
          /\ pgdir' = [pgdir EXCEPT ![child[p]] = "none"]
          /\ kstack' = [kstack EXCEPT ![child[p]] = FALSE]
          /\ Abandon(p)
          /\ UNCHANGED parent
    /\ UNCHANGED <<pid, killed, chan, nextpid, arg, history, panicked>>

\* np->state = RUNNABLE under ptable.lock; the child starts in forkret().
publish(p) ==
    /\ At(p, "publish")
    /\ state' = [state EXCEPT ![child[p]] = "RUNNABLE"]
    /\ pc' = [pc EXCEPT ![p] = "user", ![child[p]] = "user"]
    /\ child' = [child EXCEPT ![p] = 0]
    /\ UNCHANGED <<pid, parent, killed, chan, kstack, pgdir, nextpid, arg, history, panicked>>

fork(p) == allocproc(p) \/ alloc_kstack(p) \/ copyuvm(p) \/ publish(p)

-------------------------------------------------------------------------------
(* Sleeping, wakeup(), wait(), exit(), kill().                             *)

\* wakeup1(c) applied to a table of states.
wakeup1(st, c) ==
    [s \in Slot |-> IF st[s] = "SLEEPING" /\ chan[s] = c THEN "RUNNABLE" ELSE st[s]]

\* A call that may wait for ever in a loop that looks at killed (piperead(),
\* pipewrite(), consoleread(), sys_sleep()): it has what it waits for, or it was
\* killed, or it goes on to sleep().  The test is made under the lock of the
\* object, not under ptable.lock.
read(p) ==
    /\ At(p, "read")
    /\ \/ Goto(p, "user")
       \/ ~killed[p] /\ Goto(p, "read_sleep")
    /\ chan' = [chan EXCEPT ![p] = 0]
    /\ UNCHANGED <<state, pid, parent, killed, kstack, pgdir, nextpid, child, arg, history, panicked>>

\* sleep(chan, lk) of that call, once it has ptable.lock.
read_sleep(p) ==
    /\ At(p, "read_sleep")
    /\ state' = [state EXCEPT ![p] = "SLEEPING"]
    /\ chan' = [chan EXCEPT ![p] = IOChan]
    /\ missed' = IF killed[p] THEN missed \union {p} ELSE missed \ {p}
    /\ Goto(p, "read")
    /\ UNCHANGED <<pid, parent, killed, kstack, pgdir, nextpid, child, arg, targets, marked, panicked>>

\* wakeup() by the other end of the pipe, the keyboard or the timer, if ever.
wakeup_read(p) ==
    /\ ~panicked
    /\ state[p] = "SLEEPING" /\ pc[p] = "read"
    /\ state' = [state EXCEPT ![p] = "RUNNABLE"]
    /\ UNCHANGED <<pid, parent, killed, chan, kstack, pgdir, nextpid, pc, child, arg, history, panicked>>

\* iderw(): a loop around sleep() that does not look at killed.
disk(p) ==
    /\ \/ /\ At(p, "disk")
          /\ state' = [state EXCEPT ![p] = "SLEEPING"]
          /\ chan' = [chan EXCEPT ![p] = IOChan]
          /\ UNCHANGED pc
       \/ /\ At(p, "disk_done")
          /\ chan' = [chan EXCEPT ![p] = 0]
          /\ Goto(p, "user")
          /\ UNCHANGED state
    /\ UNCHANGED <<pid, parent, killed, kstack, pgdir, nextpid, child, arg, history, panicked>>

\* ideintr() finishes the request of p and wakes it, if it is asleep.
ideintr(p) ==
    /\ ~panicked
    /\ pc[p] = "disk"
    /\ Goto(p, "disk_done")
    /\ state' = IF state[p] = "SLEEPING" THEN [state EXCEPT ![p] = "RUNNABLE"] ELSE state
    /\ UNCHANGED <<pid, parent, killed, chan, kstack, pgdir, nextpid, child, arg, history, panicked>>

\* Fault: the scan of the table stops one slot early.
Fault_Children(p) == {s \in Slot \ {NPROC} : parent[s] = p}

Children(p) == {s \in Slot : parent[s] = p}

\* wait() frees what the dead child left; pgdir is not cleared.
Freed(s) ==
    /\ kstack' = [kstack EXCEPT ![s] = FALSE]
    /\ pgdir' = [pgdir EXCEPT ![s] = "freed"]
    /\ pid' = [pid EXCEPT ![s] = 0]
    /\ parent' = [parent EXCEPT ![s] = 0]
    /\ state' = [state EXCEPT ![s] = "UNUSED"]
    /\ marked' = marked \ {s}

\* Fault: wait() leaves killed as it is.
Fault_Reap(s) == Freed(s) /\ UNCHANGED killed
Reap(s) == Freed(s) /\ killed' = [killed EXCEPT ![s] = FALSE]

\* One scan of wait()'s loop, from acquiring (or waking up with) ptable.lock
\* to the return or to sleep(curproc, &ptable.lock).
wait(p) ==
    /\ At(p, "wait")
    /\ LET dead == {s \in Children(p) : state[s] = "ZOMBIE"} IN
         \/ /\ dead # {}
            /\ Reap(First(dead))
            /\ chan' = [chan EXCEPT ![p] = 0]
            /\ Goto(p, "user")
         \/ /\ dead = {}
            /\ Children(p) = {} \/ killed[p]
            /\ chan' = [chan EXCEPT ![p] = 0]
            /\ Goto(p, "user")
            /\ UNCHANGED <<state, pid, parent, killed, kstack, pgdir, marked>>
         \/ /\ dead = {} /\ Children(p) # {} /\ ~killed[p]
            /\ chan' = [chan EXCEPT ![p] = p]
            /\ state' = [state EXCEPT ![p] = "SLEEPING"]
            /\ UNCHANGED <<pid, parent, killed, kstack, pgdir, marked, pc>>
    /\ UNCHANGED <<nextpid, child, arg, targets, missed, panicked>>

\* Fault: init is not woken for the dead children it is given.
Fault_ExitWakeups(p) == wakeup1(state, parent[p])

\* exit() wakes its parent, and init when it gets a dead child.
ExitWakeups(p) ==
    LET woken == wakeup1(state, parent[p]) IN
    IF \E s \in Children(p) : state[s] = "ZOMBIE" THEN wakeup1(woken, initproc) ELSE woken

\* Fault: the children keep the dead parent.
Fault_Reparent(p) == parent

\* exit() passes the children to init.
Reparent(p) == [s \in Slot |-> IF parent[s] = p THEN initproc ELSE parent[s]]

\* exit(): files and cwd are closed before the last critical section.
exit(p) ==
    /\ At(p, "exit")
    /\ \/ /\ p = initproc
          /\ panicked' = TRUE
          /\ UNCHANGED <<state, parent, pc>>
       \/ /\ p # initproc
          /\ state' = [ExitWakeups(p) EXCEPT ![p] = "ZOMBIE"]
          /\ parent' = Reparent(p)
          /\ Goto(p, "none")
          /\ UNCHANGED panicked
    /\ UNCHANGED <<pid, killed, chan, kstack, pgdir, nextpid, child, arg, history>>

\* Fault: a sleeping victim is left asleep.
Fault_KillWakes(s) == state

\* kill() wakes its victim, whatever it sleeps on.
KillWakes(s) == IF state[s] = "SLEEPING" THEN [state EXCEPT ![s] = "RUNNABLE"] ELSE state

\* kill(pid) takes the first slot with that pid, whatever its state.
kill(p) ==
    /\ At(p, "kill")
    /\ LET match == {s \in Slot : pid[s] = arg[p]} IN
         \/ /\ match = {}
            /\ UNCHANGED <<state, killed, targets, marked>>
         \/ /\ match # {}
            /\ killed' = [killed EXCEPT ![First(match)] = TRUE]
            /\ state' = KillWakes(First(match))
            /\ targets' = IF state[First(match)] = "UNUSED" THEN targets
                          ELSE targets \union {arg[p]}
            /\ marked' = IF state[First(match)] \in {"UNUSED", "EMBRYO"}
                         THEN marked \union {First(match)} ELSE marked
    /\ Goto(p, "user")
    /\ arg' = [arg EXCEPT ![p] = 0]
    /\ UNCHANGED <<pid, parent, chan, kstack, pgdir, nextpid, child, missed, panicked>>

\* panic() never returns.
panic == panicked /\ UNCHANGED vars

-------------------------------------------------------------------------------
Next ==
    \/ \E p \in Slot : \/ scheduler(p) \/ yield(p)
                       \/ syscall(p) \/ fault(p) \/ trap_killed(p)
                       \/ fork(p) \/ wait(p) \/ exit(p) \/ kill(p)
                       \/ read(p) \/ read_sleep(p) \/ wakeup_read(p)
                       \/ disk(p) \/ ideintr(p)
    \/ panic

Spec == Init /\ [][Next]_vars

-------------------------------------------------------------------------------
(* Properties.                                                             *)

\* Types of the state.  A slot is EMBRYO exactly while one fork() is filling
\* it (proc.c:88-98, 192-219), so that no slot is lost when fork() fails.
TypeOK ==
    /\ state \in [Slot -> States]
    /\ pid \in [Slot -> 0 .. MaxPid] /\ nextpid \in 2 .. MaxPid + 1
    /\ parent \in [Slot -> 0 .. NPROC] /\ child \in [Slot -> 0 .. NPROC]
    /\ killed \in [Slot -> BOOLEAN] /\ kstack \in [Slot -> BOOLEAN]
    /\ chan \in [Slot -> 0 .. IOChan]
    /\ pgdir \in [Slot -> {"none", "live", "freed"}]
    /\ pc \in [Slot -> PC]
    /\ arg \in [Slot -> {0} \union KillArgs]
    /\ targets \subseteq 0 .. MaxPid /\ missed \subseteq Slot /\ marked \subseteq Slot
    /\ panicked \in BOOLEAN
    /\ \A s \in Slot : state[s] = "EMBRYO" <=> \E p \in Slot : child[p] = s

\* proc.c:200, 255-262: every process but init has a parent that is still
\* able to call wait(); exit() hands orphans over before anyone can look.
ParentAlive ==
    \A s \in Slot \ {initproc} :
        state[s] \in Alive \union {"ZOMBIE"} =>
            parent[s] \in Slot /\ state[parent[s]] \in Alive

\* proc.c:252-262, 303-310: a process asleep in wait() has children, none of
\* them dead, and was not killed: no wakeup is ever missed.
WaitNotMissed ==
    \A p \in Slot :
        state[p] = "SLEEPING" /\ pc[p] = "wait" =>
            /\ Children(p) # {}
            /\ \A s \in Children(p) : state[s] # "ZOMBIE"
            /\ ~killed[p]

\* proc.c:94-98, 192-198, 287-299: a slot in use never runs on freed memory,
\* and a free slot owns no page: nothing leaks when fork() fails half way.
MemoryOwned ==
    /\ TypeOK
    /\ \A s \in Slot :
        /\ state[s] \in Alive \union {"ZOMBIE"} => kstack[s] /\ pgdir[s] = "live"
        /\ state[s] = "UNUSED" => ~kstack[s] /\ pgdir[s] # "live"

\* proc.c:476 "Kill the process with the given pid": whoever is marked killed
\* was asked for by its own pid, or misbehaved; no mark passes from a process to
\* the next one in its slot.  The exception are marks that kill() puts on a slot
\* without a process: on pid 0, on the pid that a failed fork() has left, and on a
\* child whose fork() fails afterwards.  allocproc() does not clear those.
KilledWasTargeted ==
    \A s \in Slot : state[s] \in Alive /\ killed[s] => pid[s] \in targets \/ s \in marked

-------------------------------------------------------------------------------
(* Liveness.  The scheduler's loop visits every runnable slot, and a thread *)
(* is not preempted for ever between two of its instructions: strong        *)
(* fairness.  The timer ticks on every processor: yield() is weakly fair.   *)
(* The disk answers.  Nothing makes a pipe, a key or a timeout come.  init.c *)
(* calls wait() again and again.                                            *)

Fairness ==
    /\ \A p \in Slot : /\ WF_vars(yield(p)) /\ WF_vars(ideintr(p))
                       /\ SF_vars(scheduler(p))
                       /\ SF_vars(fork(p) \/ wait(p) \/ exit(p) \/ kill(p) \/ trap_killed(p)
                                    \/ read(p) \/ read_sleep(p) \/ disk(p))
    /\ SF_vars(syscall(initproc) /\ pc'[initproc] = "wait")

LiveSpec == Spec /\ Fairness

\* proc.c:476-490, pipe.c:86, 107, console.c:246, sysproc.c:70: a process that
\* was killed exits, be it in user space, in wait() or asleep for something that
\* never comes.  One case is left out: the kill that comes between
\* the test of killed and sleep(), on another processor, finds the victim still
\* running and does not keep it from falling asleep.
KilledExits ==
    \A p \in Slot :
        state[p] \in Alive /\ killed[p] ~>
            \/ state[p] \notin Alive \/ panicked
            \/ state[p] = "SLEEPING" /\ pc[p] = "read" /\ p \in missed

\* proc.c:255-262, init.c: what is handed to init is reaped.
OrphansReaped ==
    \A p \in Slot :
        state[p] = "ZOMBIE" /\ parent[p] = initproc ~> state[p] = "UNUSED" \/ panicked
===============================================================================
