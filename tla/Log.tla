--------------------------------- MODULE Log ----------------------------------
(***************************************************************************)
(* log.c: the redo log of the file system, with the part of the buffer     *)
(* cache it depends on (a B_DIRTY buffer is pinned, bwrite clears B_DIRTY)  *)
(* and a disk whose unit of atomicity is one block.  The machine may lose   *)
(* power between any two steps, also while recovery is running.             *)
(*                                                                          *)
(* A critical section of log.lock is one step.  sleep(&log, &log.lock) puts *)
(* the thread in pc "asleep" until wakeup(&log).  log_write() tests log.lh.n *)
(* and log.outstanding BEFORE it takes the lock, so it is two steps.        *)
(***************************************************************************)
EXTENDS Naturals, Sequences, FiniteSets

CONSTANTS Proc,         \* kernel threads that use the file system
          Block,        \* home blocks (not the log area)
          Val,          \* block contents
          None,         \* no buffer / no block
          MAXOPBLOCKS,  \* param.h: what begin_op() reserves for one call
          LOGSIZE,      \* param.h: entries of struct logheader
          NLOG,         \* sb.nlog: blocks of the log area, header included
          OpBlocks      \* distinct blocks that a call really writes, at most

ASSUME LogConstants ==
    /\ MAXOPBLOCKS \in Nat \ {0}
    /\ LOGSIZE \in Nat /\ MAXOPBLOCKS <= LOGSIZE
    /\ NLOG \in Nat \ {0}
    /\ OpBlocks \in 1 .. MAXOPBLOCKS
    /\ Val # {} /\ None \notin Val /\ None \notin Block
    /\ IsFiniteSet(Proc)

VARIABLES
    home,         \* disk: home location of every block
    dlog,         \* disk: the data blocks of the log area
    dhead,        \* disk: block numbers in the log header (its n is Len)
    buf,          \* buffer cache: data of a block, None when not cached
    dirty,        \* blocks whose buffer has B_DIRTY set
    lh,           \* log.lh: block numbers logged in memory
    outstanding,  \* log.outstanding
    committing,   \* log.committing
    pc,           \* where each thread is
    hold,         \* the buffer whose sleep-lock a thread holds (or None)
    wrote,        \* blocks that the thread's current call has modified
    tail,         \* loop index of write_log() / install_trans()
    boot,         \* progress of initlog(): "read", "install", "clear", "up"
    panicked      \* log.c called panic()

disk == <<home, dlog, dhead>>
cache == <<buf, dirty>>
log == <<lh, outstanding, committing>>
vars == <<disk, cache, log, pc, hold, wrote, tail, boot, panicked>>

Slot == 1 .. LOGSIZE
InOp == {"op", "log_write"}                                   \* inside a call
InCommit == {"write_log", "write_head", "install", "clear", "committed"}
PC == {"idle", "begin_op", "asleep"} \union InOp \union InCommit

LoggedBlocks == {lh[i] : i \in 1 .. Len(lh)}
Reset(f, x) == [q \in DOMAIN f |-> x]

Init ==
    /\ home \in [Block -> Val]
    /\ dlog = [i \in Slot |-> CHOOSE v \in Val : TRUE]        \* mkfs zeroes it
    /\ dhead = <<>>
    /\ buf = [b \in Block |-> None]
    /\ dirty = {}
    /\ lh = <<>>
    /\ outstanding = 0
    /\ committing = FALSE
    /\ pc = [p \in Proc |-> "idle"]
    /\ hold = [p \in Proc |-> None]
    /\ wrote = [p \in Proc |-> {}]
    /\ tail = 0
    /\ boot = "read"
    /\ panicked = FALSE

Running == boot = "up" /\ ~panicked
Goto(p, l) == pc' = [pc EXCEPT ![p] = l]

-------------------------------------------------------------------------------
(* The buffer cache, as far as the log can see it.                         *)

\* What bread(b) returns: the cached data if there is any, else the disk's.
Contents(b) == IF buf[b] = None THEN home[b] ELSE buf[b]

Unlocked(b) == \A q \in Proc : hold[q] # b

\* bread() by a file-system call or by a read outside any call.
bread(p, b) ==
    /\ Running
    /\ pc[p] \in {"idle", "op"} /\ hold[p] = None
    /\ Unlocked(b)
    /\ hold' = [hold EXCEPT ![p] = b]
    /\ buf' = [buf EXCEPT ![b] = Contents(b)]
    /\ UNCHANGED <<disk, dirty, log, pc, wrote, tail, boot, panicked>>

\* brelse() of a buffer that was only read.
brelse(p) ==
    /\ Running
    /\ pc[p] \in {"idle", "op"} /\ hold[p] # None
    /\ hold' = [hold EXCEPT ![p] = None]
    /\ UNCHANGED <<disk, cache, log, pc, wrote, tail, boot, panicked>>

\* Fault: bget() ignores B_DIRTY.
Fault_recycle(b) ==
    /\ Running
    /\ buf[b] # None /\ Unlocked(b)
    /\ buf' = [buf EXCEPT ![b] = None]
    /\ UNCHANGED <<disk, dirty, log, pc, hold, wrote, tail, boot, panicked>>

\* bget() recycles a buffer for some other block: refcnt is 0 and B_DIRTY is
\* clear.
recycle(b) ==
    /\ Running
    /\ buf[b] # None /\ Unlocked(b) /\ b \notin dirty
    /\ buf' = [buf EXCEPT ![b] = None]
    /\ UNCHANGED <<disk, dirty, log, pc, hold, wrote, tail, boot, panicked>>

-------------------------------------------------------------------------------
(* begin_op(), log_write(), end_op().                                      *)

\* A file-system call starts; begin_op() has not got log.lock yet.
call(p) ==
    /\ Running
    /\ pc[p] = "idle" /\ hold[p] = None
    /\ Goto(p, "begin_op")
    /\ UNCHANGED <<disk, cache, log, hold, wrote, tail, boot, panicked>>

\* Fault: the blocks that are in the log already are not counted.
Fault_NoRoom == (outstanding + 1) * MAXOPBLOCKS > LOGSIZE
\* log.c:132: this call might exhaust the log.
NoRoom == Len(lh) + (outstanding + 1) * MAXOPBLOCKS > LOGSIZE

\* One turn of begin_op()'s loop, under log.lock.
begin_op(p) ==
    /\ Running
    /\ pc[p] = "begin_op"
    /\ \/ /\ committing \/ NoRoom
          /\ Goto(p, "asleep")
          /\ UNCHANGED outstanding
       \/ /\ ~committing /\ ~NoRoom
          /\ outstanding' = outstanding + 1
          /\ Goto(p, "op")
    /\ UNCHANGED <<disk, cache, lh, committing, hold, wrote, tail, boot, panicked>>

\* The call changes the data of the buffer it holds and calls log_write(),
\* which tests log.lh.n and log.outstanding without the lock.  A call changes
\* at most OpBlocks distinct blocks.
log_write_test(p, v) ==
    /\ Running
    /\ pc[p] = "op" /\ hold[p] # None
    /\ Cardinality(wrote[p] \union {hold[p]}) <= OpBlocks
    /\ buf' = [buf EXCEPT ![hold[p]] = v]
    /\ panicked' = (Len(lh) >= LOGSIZE \/ Len(lh) + 1 >= NLOG \/ outstanding < 1)
    /\ Goto(p, "log_write")
    /\ UNCHANGED <<disk, dirty, log, hold, wrote, tail, boot>>

\* The rest of log_write(), under log.lock, and the caller's brelse().
log_write(p) ==
    /\ Running
    /\ pc[p] = "log_write"
    /\ lh' = IF hold[p] \in LoggedBlocks THEN lh ELSE Append(lh, hold[p])
    /\ dirty' = dirty \union {hold[p]}
    /\ wrote' = [wrote EXCEPT ![p] = @ \union {hold[p]}]
    /\ hold' = [hold EXCEPT ![p] = None]
    /\ Goto(p, "op")
    /\ UNCHANGED <<disk, buf, outstanding, committing, tail, boot, panicked>>

\* Fault: wakeup(&log) forgotten.
Fault_WakeupAndGoto(p, l) == Goto(p, l)

\* wakeup(&log) together with the caller's own move to l.
WakeupAndGoto(p, l) ==
    pc' = [q \in Proc |-> IF q = p THEN l
                          ELSE IF pc[q] = "asleep" THEN "begin_op" ELSE pc[q]]

\* First critical section of end_op(); the last call out starts commit().
end_op(p) ==
    /\ Running
    /\ pc[p] = "op" /\ hold[p] = None
    /\ outstanding' = outstanding - 1
    /\ panicked' = committing
    /\ wrote' = [wrote EXCEPT ![p] = {}]
    /\ \/ /\ outstanding > 1
          /\ WakeupAndGoto(p, "idle")
          /\ UNCHANGED <<committing, tail>>
       \/ /\ outstanding = 1
          /\ committing' = TRUE
          /\ tail' = 0
          /\ Goto(p, IF lh = <<>> THEN "committed" ELSE "write_log")
    /\ UNCHANGED <<disk, cache, lh, hold, boot>>

-------------------------------------------------------------------------------
(* commit(), one disk write per step.                                      *)

\* One turn of write_log()'s loop: copy a cached block to the log area.
write_log(p) ==
    /\ Running
    /\ pc[p] = "write_log" /\ tail < Len(lh)
    /\ LET b == lh[tail + 1] IN
         /\ Unlocked(b)
         /\ dlog' = [dlog EXCEPT ![tail + 1] = Contents(b)]
         /\ buf' = [buf EXCEPT ![b] = Contents(b)]
    /\ tail' = tail + 1
    /\ IF tail + 1 = Len(lh) THEN Goto(p, "write_head") ELSE UNCHANGED pc
    /\ UNCHANGED <<home, dhead, dirty, log, hold, wrote, boot, panicked>>

\* The first write_head() of commit(): the true commit point.
write_head(p) ==
    /\ Running
    /\ pc[p] = "write_head"
    /\ dhead' = lh
    /\ tail' = 0
    /\ Goto(p, "install")
    /\ UNCHANGED <<home, dlog, cache, log, hold, wrote, boot, panicked>>

\* install_trans() copies one block from the log to its home and, through
\* bwrite(), clears B_DIRTY: the buffer is no longer pinned.
InstallOne ==
    LET b == lh[tail + 1] IN
      /\ Unlocked(b)
      /\ home' = [home EXCEPT ![b] = dlog[tail + 1]]
      /\ buf' = [buf EXCEPT ![b] = dlog[tail + 1]]
      /\ dirty' = dirty \ {b}
      /\ tail' = tail + 1

install_trans(p) ==
    /\ Running
    /\ pc[p] = "install" /\ tail < Len(lh)
    /\ InstallOne
    /\ IF tail + 1 = Len(lh) THEN Goto(p, "clear") ELSE UNCHANGED pc
    /\ UNCHANGED <<dlog, dhead, log, hold, wrote, boot, panicked>>

\* log.lh.n = 0 and the second write_head(): erase the transaction.
clear_head(p) ==
    /\ Running
    /\ pc[p] = "clear"
    /\ lh' = <<>>
    /\ dhead' = <<>>
    /\ tail' = 0
    /\ Goto(p, "committed")
    /\ UNCHANGED <<home, dlog, cache, outstanding, committing, hold, wrote, boot, panicked>>

\* Fault: log.committing is never reset.
Fault_end_commit(p) ==
    /\ Running
    /\ pc[p] = "committed"
    /\ WakeupAndGoto(p, "idle")
    /\ UNCHANGED <<disk, cache, log, hold, wrote, tail, boot, panicked>>

\* Second critical section of end_op().
end_commit(p) ==
    /\ Running
    /\ pc[p] = "committed"
    /\ committing' = FALSE
    /\ WakeupAndGoto(p, "idle")
    /\ UNCHANGED <<disk, cache, lh, outstanding, hold, wrote, tail, boot, panicked>>

-------------------------------------------------------------------------------
(* Power failure and recovery.                                             *)

crash ==
    /\ buf' = Reset(buf, None)
    /\ dirty' = {}
    /\ lh' = <<>>
    /\ outstanding' = 0
    /\ committing' = FALSE
    /\ pc' = Reset(pc, "idle")
    /\ hold' = Reset(hold, None)
    /\ wrote' = Reset(wrote, {})
    /\ tail' = 0
    /\ boot' = "read"
    /\ panicked' = FALSE
    /\ UNCHANGED disk

\* initlog() -> recover_from_log() -> read_head().
read_head ==
    /\ boot = "read"
    /\ lh' = dhead
    /\ boot' = IF dhead = <<>> THEN "clear" ELSE "install"
    /\ UNCHANGED <<disk, cache, outstanding, committing, pc, hold, wrote, tail, panicked>>

recover_install ==
    /\ boot = "install" /\ tail < Len(lh)
    /\ InstallOne
    /\ boot' = IF tail + 1 = Len(lh) THEN "clear" ELSE "install"
    /\ UNCHANGED <<dlog, dhead, log, pc, hold, wrote, panicked>>

recover_clear ==
    /\ boot = "clear"
    /\ lh' = <<>>
    /\ dhead' = <<>>
    /\ tail' = 0
    /\ boot' = "up"
    /\ UNCHANGED <<home, dlog, cache, outstanding, committing, pc, hold, wrote, panicked>>

recover_from_log == read_head \/ recover_install \/ recover_clear

-------------------------------------------------------------------------------
commit(p) == write_log(p) \/ write_head(p) \/ install_trans(p) \/ clear_head(p)

Next ==
    \/ \E p \in Proc : \/ call(p) \/ begin_op(p) \/ log_write(p) \/ end_op(p)
                       \/ commit(p) \/ end_commit(p) \/ brelse(p)
    \/ \E p \in Proc, b \in Block : bread(p, b)
    \/ \E p \in Proc, v \in Val : log_write_test(p, v)
    \/ \E b \in Block : recycle(b)
    \/ recover_from_log
    \/ crash

Spec == Init /\ [][Next]_vars

\* A thread that can run does run (the scheduler is round robin, and disk
\* writes complete) and a reader gives its buffer back.  The committing thread
\* is not promised that it finds the sleep-lock of a buffer free: acquiresleep()
\* has no queue, so its fairness is weak.
Fairness ==
    /\ \A p \in Proc : WF_vars(commit(p) \/ end_commit(p)) /\ WF_vars(brelse(p))
    /\ WF_vars(recover_from_log)

LiveSpec == Spec /\ Fairness

-------------------------------------------------------------------------------
(* Properties.                                                             *)

\* Types of the state; lh and dhead fit the array of struct logheader.
TypeOK ==
    /\ home \in [Block -> Val] /\ dlog \in [Slot -> Val]
    /\ dhead \in Seq(Block) /\ lh \in Seq(Block)
    /\ buf \in [Block -> Val \union {None}] /\ dirty \subseteq Block
    /\ outstanding \in 0 .. Cardinality(Proc) /\ committing \in BOOLEAN
    /\ pc \in [Proc -> PC] /\ hold \in [Proc -> Block \union {None}]
    /\ wrote \in [Proc -> SUBSET Block]
    /\ tail \in 0 .. Len(lh)
    /\ boot \in {"read", "install", "clear", "up"}
    /\ panicked \in BOOLEAN

\* log.c:218-221 and log.c:152: the three panics of the log never fire, as
\* long as a call stays within OpBlocks distinct blocks.
NoPanic == ~panicked

Active == {p \in Proc : pc[p] \in InOp}

\* Log entries that begin_op() set aside and that are not used yet: MAXOPBLOCKS
\* for every call in progress, less the blocks that the call has logged.
Reserved ==
    {x \in Active \X (1 .. MAXOPBLOCKS) : x[2] > Cardinality(wrote[x[1]])}

\* log.c:36, 132 and 218-230: the log, together with all that begin_op() has set
\* aside for the calls in progress, fits lh.block[], and what is logged fits the
\* log area, although log_write() tests the length before it takes log.lock.
LogBounded == Len(lh) + Cardinality(Reserved) <= LOGSIZE /\ Len(lh) < NLOG

\* log.c:125-174: a thread asleep in begin_op() always has somebody who will
\* call wakeup(&log): a call in progress or a commit.
NoLostWakeup == (\E p \in Proc : pc[p] = "asleep") => committing \/ outstanding > 0

\* What recover_from_log() would leave on the disk if power failed now.
Recovered ==
    [b \in Block |->
        IF \E i \in 1 .. Len(dhead) : dhead[i] = b
        THEN dlog[CHOOSE i \in 1 .. Len(dhead) : dhead[i] = b]
        ELSE home[b]]

\* What the file system sees through bread().
View == IF boot = "up" THEN [b \in Block |-> Contents(b)] ELSE Recovered

AD == INSTANCE AtomicDisk WITH
        durable <- Recovered,
        view <- View,
        active <- {p \in Proc : pc[p] \in InOp}

\* log.c:9-21 and log.c:98-100: the log implements an atomic disk.  Power
\* failures at any point, recovery included, lose whole groups of calls or
\* nothing; write_head() is the one step that makes a group durable.
ImplementsAtomicDisk == AD!ASpec

\* A reader has the buffer that the loops of commit() go on with.
Overtaken ==
    /\ \E p \in Proc : pc[p] \in {"write_log", "install"}
    /\ tail < Len(lh) /\ ~Unlocked(lh[tail + 1])

\* log.c:165-173: a commit that starts is finished, or power fails, or readers
\* take the buffer it waits for again and again, each of them giving it back.
CommitEnds == []<>~committing \/ ([]<>Overtaken /\ []<>~Overtaken)

-------------------------------------------------------------------------------
(* The inductive invariant behind NoPanic, LogBounded and NoLostWakeup.    *)

\* What no call ever uses of its reservation.
Slack == MAXOPBLOCKS - OpBlocks

\* A log of n blocks is that of a single call, or at least two calls have left
\* their slack: the admission of the second one counted both in full.
Fits(n) == n <= OpBlocks \/ n + 2 * Slack <= LOGSIZE

\* When the panics of log_write() cannot fire.  With the constants of the
\* source (MAXOPBLOCKS = 10, LOGSIZE = NLOG = 30) this says OpBlocks <= 9.
LogFits ==
    /\ OpBlocks < LOGSIZE /\ OpBlocks + 1 < NLOG
    /\ Slack > 0 /\ LOGSIZE + 1 < NLOG + 2 * Slack

CallsInv ==
    /\ outstanding = Cardinality(Active)
    /\ committing <=> \E p \in Proc : pc[p] \in InCommit
    /\ \A p, q \in Proc :
         pc[p] \in InCommit => pc[q] \notin InOp /\ (pc[q] \in InCommit => q = p)
    /\ boot # "up" => \A p \in Proc : pc[p] = "idle"
    /\ boot = "read" => tail = 0

EmptyInv ==
    /\ boot = "up" /\ ~committing /\ outstanding = 0 => lh = <<>>
    /\ \A p \in Proc : pc[p] = "committed" => lh = <<>>

WroteInv ==
    \A p \in Proc :
        /\ pc[p] \notin InOp => wrote[p] = {}
        /\ wrote[p] \subseteq LoggedBlocks
        /\ IsFiniteSet(wrote[p]) /\ Cardinality(wrote[p]) <= OpBlocks
        /\ pc[p] = "log_write" =>
             hold[p] # None /\ Cardinality(wrote[p] \union {hold[p]}) <= OpBlocks

RoomInv ==
    /\ Len(lh) + Cardinality(Reserved) <= LOGSIZE
    /\ \A p \in Proc : Active = {p} =>
         \/ Len(lh) <= Cardinality(wrote[p])
         \/ Len(lh) + Cardinality(Reserved) + Slack <= LOGSIZE
    /\ Fits(Len(lh))
    /\ Len(dhead) <= LOGSIZE /\ Fits(Len(dhead))

IInv == TypeOK /\ CallsInv /\ EmptyInv /\ WroteInv /\ RoomInv /\ NoLostWakeup
===============================================================================
