--------------------------------- MODULE Sched --------------------------------
(***************************************************************************)
(* Spinlocks, interrupts, context switches, sleep and wakeup (spinlock.c,  *)
(* sleeplock.c, scheduler/sched/yield/sleep/wakeup of proc.c, the timer     *)
(* branch of trap.c, sys_sleep) on several processors, step by step.        *)
(*                                                                          *)
(* A thread is a process or the scheduler loop of a processor.  code[t] is  *)
(* what t still has to do, a stack of instructions: a call pushes the body   *)
(* of the function, an interrupt pushes its handler.  The program of every   *)
(* process is a loop of system calls: one takes and gives back a sleep-lock, *)
(* the other is sys_sleep(1).  Nobody is killed here: kill() is in Proc.     *)
(***************************************************************************)
EXTENDS Naturals, Sequences

CONSTANTS CPU,      \* processors
          BootCPU,  \* the one with cpuid() = 0, which counts the ticks
          NPROC     \* processes

ASSUME SchedConstants == BootCPU \in CPU /\ NPROC \in Nat \ {0}

Proc == 1 .. NPROC
Thread == Proc \union CPU          \* a CPU stands for its scheduler loop
Lock == {"ptable", "lk", "tickslock"}
Chan == {"none", "sleeplock", "ticks"}

VARIABLES
    iflag,     \* per CPU: interrupts are enabled (FL_IF)
    ncli,      \* per CPU: depth of pushcli()
    intena,    \* per CPU: were interrupts enabled before pushcli()?
    cur,       \* per CPU: the thread it is executing
    cproc,     \* per CPU: c->proc (0 for none)
    lock,      \* per spinlock: the CPU that holds it, or "free"
    state,     \* p->state
    chan,      \* p->chan
    saved,     \* sched()'s local variable intena
    code,      \* what a thread has still to do
    owner,     \* the sleep-lock: 0 when lk->locked = 0, else the process
    elapsed,   \* sys_sleep(): ticks - ticks0 >= n
    panicked

cpuvars == <<iflag, ncli, intena>>
vars == <<cpuvars, cur, cproc, lock, state, chan, saved, code, owner, elapsed, panicked>>

-------------------------------------------------------------------------------
(* The code of the kernel, as sequences of instructions.                   *)

Acquire(l) == <<"acquire", l>>
Release(l) == <<"release", l>>
Do(i) == <<i, "">>

scheduler == <<Do("sti"), Acquire("ptable"), Do("scan")>>
sched == <<Do("swtch"), Do("resume")>>
yield == <<Acquire("ptable"), Do("yield")>> \o sched \o <<Release("ptable")>>

\* Fault: lk is released before ptable.lock is taken.
Fault_sleep(c, l) ==
    <<Release(l), Acquire("ptable"), <<"sleep", c>> >> \o sched
        \o <<Do("tidy up"), Release("ptable"), Acquire(l)>>

sleep(c, l) ==
    <<Acquire("ptable"), Release(l), <<"sleep", c>> >> \o sched
        \o <<Do("tidy up"), Release("ptable"), Acquire(l)>>
wakeup(c) == <<Acquire("ptable"), <<"wakeup1", c>>, Release("ptable")>>

\* acquiresleep(), the caller's critical section, releasesleep().
use_sleeplock ==
    <<Acquire("lk"), Do("while locked"), Do("locked = 1"), Release("lk"), Do("critical"),
      Acquire("lk"), Do("unlock")>> \o wakeup("sleeplock") \o <<Release("lk")>>

sys_sleep == <<Acquire("tickslock"), Do("ticks0"), Do("while ticks"), Release("tickslock")>>

\* trap() for IRQ_TIMER; only one processor counts ticks.
tick(c) ==
    IF c = BootCPU
    THEN <<Acquire("tickslock"), Do("ticks++")>> \o wakeup("ticks") \o <<Release("tickslock")>>
    ELSE <<>>
timer(c) == tick(c) \o <<Do("trap_yield"), Do("iret")>>

\* A new process starts in forkret(), and returns to user space by trapret.
forkret == <<Release("ptable"), Do("trapret"), Do("user")>>

-------------------------------------------------------------------------------
Init ==
    /\ iflag = [c \in CPU |-> FALSE]
    /\ ncli = [c \in CPU |-> 0]
    /\ intena = [c \in CPU |-> FALSE]
    /\ cur = [c \in CPU |-> c]
    /\ cproc = [c \in CPU |-> 0]
    /\ lock = [l \in Lock |-> "free"]
    /\ state = [p \in Proc |-> "RUNNABLE"]
    /\ chan = [p \in Proc |-> "none"]
    /\ saved = [p \in Proc |-> FALSE]
    /\ code = [t \in Thread |-> IF t \in CPU THEN scheduler ELSE forkret]
    /\ owner = 0
    /\ elapsed = [p \in Proc |-> TRUE]
    /\ panicked = FALSE

\* CPU c is about to execute instruction i.
At(c, i) == ~panicked /\ Head(code[cur[c]]) = i

\* The instruction is done; is becomes what comes before the rest.
Then(c, is) == code' = [code EXCEPT ![cur[c]] = is \o Tail(@)]

-------------------------------------------------------------------------------
(* spinlock.c.                                                             *)

\* acquire(), up to pushcli()'s cli(): eflags is read while an interrupt may
\* still come, and may be stale by the time it is used.
readeflags(c, l) ==
    /\ At(c, Acquire(l))
    /\ Then(c, << <<IF iflag[c] THEN "cli, was on" ELSE "cli, was off", l>> >>)
    /\ UNCHANGED <<cpuvars, cur, cproc, lock, state, chan, saved, owner, elapsed, panicked>>

\* Fault: cli() forgotten.
Fault_pushcli(c, l, wasOn) ==
    /\ At(c, <<IF wasOn THEN "cli, was on" ELSE "cli, was off", l>>)
    /\ intena' = [intena EXCEPT ![c] = IF ncli[c] = 0 THEN wasOn ELSE @]
    /\ ncli' = [ncli EXCEPT ![c] = @ + 1]
    /\ panicked' = (lock[l] = c)
    /\ Then(c, << <<"xchg", l>> >>)
    /\ UNCHANGED <<iflag, cur, cproc, lock, state, chan, saved, owner, elapsed>>

\* The rest of pushcli() and acquire()'s holding() test, then the atomic xchg.
pushcli(c, l, wasOn) ==
    /\ At(c, <<IF wasOn THEN "cli, was on" ELSE "cli, was off", l>>)
    /\ iflag' = [iflag EXCEPT ![c] = FALSE]
    /\ intena' = [intena EXCEPT ![c] = IF ncli[c] = 0 THEN wasOn ELSE @]
    /\ ncli' = [ncli EXCEPT ![c] = @ + 1]
    /\ panicked' = (lock[l] = c)
    /\ Then(c, << <<"xchg", l>> >>)
    /\ UNCHANGED <<cur, cproc, lock, state, chan, saved, owner, elapsed>>

xchg(c, l) ==
    /\ At(c, <<"xchg", l>>)
    /\ lock[l] = "free"
    /\ lock' = [lock EXCEPT ![l] = c]
    /\ Then(c, <<>>)
    /\ UNCHANGED <<cpuvars, cur, cproc, state, chan, saved, owner, elapsed, panicked>>

\* release(): the holding() test, the store, and popcli().
release(c, l) ==
    /\ At(c, Release(l))
    /\ panicked' = (lock[l] # c \/ iflag[c] \/ ncli[c] = 0)
    /\ lock' = [lock EXCEPT ![l] = "free"]
    /\ ncli' = [ncli EXCEPT ![c] = IF @ = 0 THEN 0 ELSE @ - 1]
    /\ iflag' = [iflag EXCEPT ![c] = @ \/ (ncli[c] = 1 /\ intena[c])]
    /\ Then(c, <<>>)
    /\ UNCHANGED <<intena, cur, cproc, state, chan, saved, owner, elapsed>>

-------------------------------------------------------------------------------
(* proc.c: the scheduler and the ways into it.                             *)

sti(c) ==
    /\ At(c, Do("sti"))
    /\ iflag' = [iflag EXCEPT ![c] = TRUE]
    /\ Then(c, <<>>)
    /\ UNCHANGED <<ncli, intena, cur, cproc, lock, state, chan, saved, owner, elapsed, panicked>>

\* Fault: the scan starts again at the first slot after every switch.
Fault_Ahead(c) == {p \in Proc : state[p] = "RUNNABLE"}

\* The scan of the table goes on behind the process that ran last.  (The code
\* clears c->proc first and keeps the place in a local variable; interrupts are
\* off and nobody reads c->proc in between.)
Ahead(c) == {p \in Proc : p > cproc[c] /\ state[p] = "RUNNABLE"}
Least(S) == CHOOSE p \in S : \A q \in S : p <= q

\* Fault: p->state = RUNNING forgotten.
Fault_scan(c) ==
    /\ At(c, Do("scan"))
    /\ Ahead(c) # {}
    /\ cproc' = [cproc EXCEPT ![c] = Least(Ahead(c))]
    /\ cur' = [cur EXCEPT ![c] = Least(Ahead(c))]
    /\ UNCHANGED <<cpuvars, lock, state, chan, saved, code, owner, elapsed, panicked>>

\* The body of scheduler()'s loop: pick the next RUNNABLE process and swtch()
\* to it with ptable.lock held, or end the pass.
scan(c) ==
    /\ At(c, Do("scan"))
    /\ \/ /\ Ahead(c) # {}
          /\ cproc' = [cproc EXCEPT ![c] = Least(Ahead(c))]
          /\ state' = [state EXCEPT ![Least(Ahead(c))] = "RUNNING"]
          /\ cur' = [cur EXCEPT ![c] = Least(Ahead(c))]
          /\ UNCHANGED code
       \/ /\ Ahead(c) = {}
          /\ cproc' = [cproc EXCEPT ![c] = 0]
          /\ Then(c, <<Release("ptable")>> \o scheduler)
          /\ UNCHANGED <<state, cur>>
    /\ UNCHANGED <<cpuvars, lock, chan, saved, owner, elapsed, panicked>>

\* yield() and sleep() change the state before they call sched().
do_yield(c) ==
    /\ At(c, Do("yield"))
    /\ state' = [state EXCEPT ![cproc[c]] = "RUNNABLE"]
    /\ Then(c, <<>>)
    /\ UNCHANGED <<cpuvars, cur, cproc, lock, chan, saved, owner, elapsed, panicked>>

do_sleep(c, ch) ==
    /\ At(c, <<"sleep", ch>>)
    /\ chan' = [chan EXCEPT ![cproc[c]] = ch]
    /\ state' = [state EXCEPT ![cproc[c]] = "SLEEPING"]
    /\ Then(c, <<>>)
    /\ UNCHANGED <<cpuvars, cur, cproc, lock, saved, owner, elapsed, panicked>>

\* sched(): its four panics, then swtch() to the scheduler of this CPU.
swtch(c) ==
    /\ At(c, Do("swtch"))
    /\ panicked' = (\/ lock["ptable"] # c \/ ncli[c] # 1
                    \/ state[cproc[c]] = "RUNNING" \/ iflag[c])
    /\ saved' = [saved EXCEPT ![cproc[c]] = intena[c]]
    /\ cur' = [cur EXCEPT ![c] = c]
    /\ Then(c, <<>>)
    /\ UNCHANGED <<cpuvars, cproc, lock, state, chan, owner, elapsed>>

\* Fault: intena is not restored.
Fault_resume(c) ==
    /\ At(c, Do("resume"))
    /\ Then(c, <<>>)
    /\ UNCHANGED <<cpuvars, cur, cproc, lock, state, chan, saved, owner, elapsed, panicked>>

\* swtch() returns in sched(), perhaps on another CPU.
resume(c) ==
    /\ At(c, Do("resume"))
    /\ intena' = [intena EXCEPT ![c] = saved[cproc[c]]]
    /\ Then(c, <<>>)
    /\ UNCHANGED <<iflag, ncli, cur, cproc, lock, state, chan, saved, owner, elapsed, panicked>>

\* The end of sleep(): p->chan = 0.
tidy_up(c) ==
    /\ At(c, Do("tidy up"))
    /\ chan' = [chan EXCEPT ![cproc[c]] = "none"]
    /\ Then(c, <<>>)
    /\ UNCHANGED <<cpuvars, cur, cproc, lock, state, saved, owner, elapsed, panicked>>

wakeup1(c, ch) ==
    /\ At(c, <<"wakeup1", ch>>)
    /\ state' = [p \in Proc |-> IF state[p] = "SLEEPING" /\ chan[p] = ch
                                THEN "RUNNABLE" ELSE state[p]]
    /\ Then(c, <<>>)
    /\ UNCHANGED <<cpuvars, cur, cproc, lock, chan, saved, owner, elapsed, panicked>>

-------------------------------------------------------------------------------
(* System calls.                                                           *)

syscall(c) ==
    /\ At(c, Do("user"))
    /\ \E f \in {use_sleeplock, sys_sleep} : Then(c, f \o <<Do("user")>>)
    /\ UNCHANGED <<cpuvars, cur, cproc, lock, state, chan, saved, owner, elapsed, panicked>>

\* Fault: if instead of while.
Fault_while_locked(c) ==
    /\ At(c, Do("while locked"))
    /\ Then(c, IF owner # 0 THEN sleep("sleeplock", "lk") ELSE <<>>)
    /\ UNCHANGED <<cpuvars, cur, cproc, lock, state, chan, saved, owner, elapsed, panicked>>

\* acquiresleep(): while(lk->locked) sleep(lk, &lk->lk); then lk->locked = 1.
while_locked(c) ==
    /\ At(c, Do("while locked"))
    /\ Then(c, IF owner # 0 THEN sleep("sleeplock", "lk") \o <<Do("while locked")>> ELSE <<>>)
    /\ UNCHANGED <<cpuvars, cur, cproc, lock, state, chan, saved, owner, elapsed, panicked>>

set_locked(c) ==
    /\ At(c, Do("locked = 1"))
    /\ owner' = cproc[c]
    /\ Then(c, <<>>)
    /\ UNCHANGED <<cpuvars, cur, cproc, lock, state, chan, saved, elapsed, panicked>>

\* The caller works on what the sleep-lock protects, interrupts enabled.
critical(c) ==
    /\ At(c, Do("critical"))
    /\ Then(c, <<>>)
    /\ UNCHANGED <<cpuvars, cur, cproc, lock, state, chan, saved, owner, elapsed, panicked>>

\* releasesleep(): lk->locked = 0.
unlock(c) ==
    /\ At(c, Do("unlock"))
    /\ owner' = 0
    /\ Then(c, <<>>)
    /\ UNCHANGED <<cpuvars, cur, cproc, lock, state, chan, saved, elapsed, panicked>>

\* sys_sleep(): ticks0 = ticks, then while(ticks - ticks0 < n) sleep(...).
ticks0(c) ==
    /\ At(c, Do("ticks0"))
    /\ elapsed' = [elapsed EXCEPT ![cproc[c]] = FALSE]
    /\ Then(c, <<>>)
    /\ UNCHANGED <<cpuvars, cur, cproc, lock, state, chan, saved, owner, panicked>>

while_ticks(c) ==
    /\ At(c, Do("while ticks"))
    /\ Then(c, IF elapsed[cproc[c]] THEN <<>>
               ELSE sleep("ticks", "tickslock") \o <<Do("while ticks")>>)
    /\ UNCHANGED <<cpuvars, cur, cproc, lock, state, chan, saved, owner, elapsed, panicked>>

-------------------------------------------------------------------------------
(* The timer interrupt.                                                    *)

\* The gate disables interrupts and trap() starts, on top of whatever the
\* thread was doing.
interrupt(c) ==
    /\ ~panicked /\ iflag[c]
    /\ iflag' = [iflag EXCEPT ![c] = FALSE]
    /\ code' = [code EXCEPT ![cur[c]] = timer(c) \o @]
    /\ UNCHANGED <<ncli, intena, cur, cproc, lock, state, chan, saved, owner, elapsed, panicked>>

count_tick(c) ==
    /\ At(c, Do("ticks++"))
    /\ elapsed' = [p \in Proc |-> TRUE]
    /\ Then(c, <<>>)
    /\ UNCHANGED <<cpuvars, cur, cproc, lock, state, chan, saved, owner, panicked>>

\* if(myproc() && myproc()->state == RUNNING) yield();
trap_yield(c) ==
    /\ At(c, Do("trap_yield"))
    /\ Then(c, IF cproc[c] # 0 /\ state[cproc[c]] = "RUNNING" THEN yield ELSE <<>>)
    /\ UNCHANGED <<cpuvars, cur, cproc, lock, state, chan, saved, owner, elapsed, panicked>>

\* iret, at the end of a handler or of trapret: back to code that ran, or in
\* the case of trapret will run, with interrupts enabled.
iret(c) ==
    /\ At(c, Do("iret")) \/ At(c, Do("trapret"))
    /\ iflag' = [iflag EXCEPT ![c] = TRUE]
    /\ Then(c, <<>>)
    /\ UNCHANGED <<ncli, intena, cur, cproc, lock, state, chan, saved, owner, elapsed, panicked>>

-------------------------------------------------------------------------------
Step(c) ==
    \/ \E l \in Lock : \/ readeflags(c, l) \/ xchg(c, l) \/ release(c, l)
                      \/ \E on \in BOOLEAN : pushcli(c, l, on)
    \/ sti(c) \/ scan(c) \/ do_yield(c) \/ swtch(c) \/ resume(c) \/ tidy_up(c)
    \/ \E ch \in Chan : do_sleep(c, ch) \/ wakeup1(c, ch)
    \/ syscall(c) \/ while_locked(c) \/ set_locked(c) \/ critical(c) \/ unlock(c)
    \/ ticks0(c) \/ while_ticks(c)
    \/ count_tick(c) \/ trap_yield(c) \/ iret(c)

Next == \E c \in CPU : Step(c) \/ interrupt(c)

Spec == Init /\ [][Next]_vars

-------------------------------------------------------------------------------
(* Properties.                                                             *)

Has(t, i) == \E k \in 1 .. Len(code[t]) : code[t][k] = i

Instr ==
    [1 .. 2 -> {"acquire", "cli, was on", "cli, was off", "xchg", "release", "sleep", "wakeup1", "", "sti", "scan",
                "yield", "swtch", "resume", "tidy up", "while locked", "locked = 1",
                "critical", "unlock", "ticks0", "while ticks", "ticks++", "trap_yield", "iret", "trapret",
                "user"} \union Lock \union Chan]

\* Types of the state.  A thread never runs out of code, and a CPU never
\* holds more than two spinlocks (one of them ptable.lock).
TypeOK ==
    /\ iflag \in [CPU -> BOOLEAN] /\ intena \in [CPU -> BOOLEAN] /\ ncli \in [CPU -> 0 .. 2]
    /\ cur \in [CPU -> Thread] /\ cproc \in [CPU -> 0 .. NPROC]
    /\ lock \in [Lock -> CPU \union {"free"}]
    /\ state \in [Proc -> {"RUNNABLE", "RUNNING", "SLEEPING"}]
    /\ chan \in [Proc -> Chan] /\ saved \in [Proc -> BOOLEAN]
    /\ code \in [Thread -> Seq(Instr) \ {<<>>}]
    /\ owner \in 0 .. NPROC /\ elapsed \in [Proc -> BOOLEAN] /\ panicked \in BOOLEAN

\* spinlock.c:28-29, 49-50, 119-122 and proc.c:371-378: none of the panics fires: no
\* CPU waits for a lock it holds, interrupts are off while one is held, and
\* sched() is entered with ptable.lock only, the state changed.
NoPanic == ~panicked

\* proc.c:336-346, 385-392: a process, hence its kernel stack, is executed by
\* one CPU at most, also while it is being switched out.
OneCpu == TypeOK /\ \A c, d \in CPU : cur[c] = cur[d] => c = d

\* sleeplock.c:22-42: at most one process is between acquiresleep() and
\* releasesleep(), and it is the one recorded in the lock.
InCritical(p) == Has(p, Do("critical")) /\ ~Has(p, Do("locked = 1"))
MutualExclusion == \A p \in Proc : InCritical(p) => owner = p

\* proc.c:428-438 "we can be guaranteed that we won't miss any wakeup": whoever
\* sleeps still has something to wait for, or the wakeup() is on its way.
Waking(ch, i) == \E t \in Thread : Has(t, <<"wakeup1", ch>>) /\ ~Has(t, i)
NoLostWakeup ==
    \A p \in Proc : state[p] = "SLEEPING" =>
        \/ chan[p] = "sleeplock" /\ (owner # 0 \/ Waking("sleeplock", Do("unlock")))
        \/ chan[p] = "ticks" /\ (~elapsed[p] \/ Waking("ticks", Do("ticks++")))

\* spinlock.c:104-125, proc.c:358-382: interrupts are enabled in user space and
\* under a sleep-lock, and disabled from the start of a handler to its iret,
\* whichever CPU the thread has moved to meanwhile.
InterruptsAsLeft ==
    \A c \in CPU :
        /\ Head(code[cur[c]]) \in {Do("user"), Do("critical")} => iflag[c] /\ ncli[c] = 0
        /\ Has(cur[c], Do("iret")) => ~iflag[c]

-------------------------------------------------------------------------------
(* Liveness.  Every CPU keeps executing and a spinning xchg wins in the end *)
(* (strong fairness of Step); the timer keeps ticking; and it does not tick *)
(* so fast that a thread never gets to an instruction of its own.           *)

OwnStep(t) == \E c \in CPU : cur[c] = t /\ ~Has(t, Do("iret")) /\ Step(c)

Fairness ==
    /\ \A c \in CPU : SF_vars(Step(c)) /\ SF_vars(interrupt(c))
    /\ \A t \in Thread : SF_vars(OwnStep(t))

LiveSpec == Spec /\ Fairness

\* proc.c:329-355: a runnable process gets a CPU.
RunnableRuns == \A p \in Proc : state[p] = "RUNNABLE" ~> state[p] = "RUNNING"

\* proc.c:417-474: a sleeping process is woken up.
SleeperWakes == \A p \in Proc : state[p] = "SLEEPING" ~> state[p] # "SLEEPING"

\* No process is left behind, runnable or asleep, by the scan of scheduler(), by
\* sleep() or by wakeup().
NobodyStarves == RunnableRuns /\ SleeperWakes
===============================================================================
