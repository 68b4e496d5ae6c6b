---------------------------------- MODULE Bio ---------------------------------
(***************************************************************************)
(* The buffer cache and the IDE driver (bio.c, ide.c): processes read,       *)
(* write and pin blocks while the disk works through a queue of requests.    *)
(*                                                                           *)
(* A step is a critical section of bcache.lock or idelock, or a step with    *)
(* the buffer's sleep-lock held.  A process has two hands, for the code that  *)
(* reads a second block while it has a first one: write_log(),                *)
(* install_trans(), bmap() and itrunc().  What log_write() does here is to    *)
(* mark a buffer dirty that is written later.                                *)
(***************************************************************************)
EXTENDS Naturals, Sequences, FiniteSets

CONSTANTS
    Proc, Block, Val,
    None,       \* no process, no block
    Nested,     \* <<k, l>>: block l is read while the buffer of k is held
    NBUF,       \* buffers
    LOGSIZE,    \* blocks the log keeps pinned at most
    ReadFails   \* may the disk report an error for a read? a set of booleans

\* The two hands of a process.
Hand == Proc \X {1, 2}

ASSUME BioConstants ==
    /\ NBUF \in Nat \ {0} /\ LOGSIZE \in Nat /\ ReadFails \subseteq BOOLEAN
    /\ IsFiniteSet(Hand) /\ None \notin Hand \union Block /\ Val # {}
    /\ Nested \subseteq Block \X Block

Buf == 1 .. NBUF

VARIABLES
    buf,       \* blockno, refcnt, B_VALID, B_DIRTY and data of every buffer
    lru,       \* the list of buffers, the most recently used first
    lock,      \* b->lock: the hand that holds it, or None
    idequeue,  \* requests, the active one first
    busy,      \* the disk is executing a command
    disk,
    pc, held,  \* what a hand does, and with which buffer
    panic,     \* the function that called panic(), or "none"
    written    \* what was last written to each block, by bwrite() or log_write()

vars == <<buf, lru, lock, idequeue, busy, disk, pc, held, panic, written>>

Init ==
    /\ disk \in [Block -> Val]
    /\ written = disk
    /\ buf = [b \in Buf |-> [blockno |-> None, refcnt |-> 0, valid |-> FALSE, dirty |-> FALSE,
                             data |-> CHOOSE v \in Val : TRUE]]
    /\ lru = [k \in Buf |-> NBUF + 1 - k]
    /\ lock = [b \in Buf |-> None]
    /\ idequeue = <<>>
    /\ busy = FALSE
    /\ pc = [h \in Hand |-> "idle"]
    /\ held = [h \in Hand |-> 0]
    /\ panic = "none"

\* Between two calls of bio.c; a process is in one call at a time.
Quiet == {"idle", "use"}
Other(h) == <<h[1], 3 - h[2]>>
At(h, l) == panic = "none" /\ pc[h] = l /\ pc[Other(h)] \in Quiet
Goto(h, l) == pc' = [pc EXCEPT ![h] = l]

-------------------------------------------------------------------------------
(* bio.c.                                                                  *)

\* Fault: bget() always takes another buffer.
Fault_Hits(k) == {}
Hits(k) == {b \in Buf : buf[b].blockno = k}

\* Fault: a dirty buffer is recycled.
Fault_Unused == {b \in Buf : buf[b].refcnt = 0}
\* Fault: only buffers that were never filled are taken.
Fault_NeverRead == {b \in Buf : buf[b].refcnt = 0 /\ ~buf[b].valid}
Unused == {b \in Buf : buf[b].refcnt = 0 /\ ~buf[b].dirty}

\* The unused buffer nearest to the end of the list.
Recycled == lru[CHOOSE i \in Buf : lru[i] \in Unused /\ \A j \in i + 1 .. NBUF : lru[j] \notin Unused]

\* bget() up to acquiresleep().  The second buffer is asked for with the first
\* in use, and the next first one when both are back.
bget(h, k) ==
    /\ At(h, "idle")
    /\ IF h[2] = 1 THEN pc[Other(h)] = "idle"
       ELSE pc[Other(h)] = "use" /\ <<buf[held[Other(h)]].blockno, k>> \in Nested
    /\ \/ /\ Hits(k) # {}
          /\ LET b == CHOOSE c \in Hits(k) : TRUE
             IN buf' = [buf EXCEPT ![b].refcnt = @ + 1] /\ held' = [held EXCEPT ![h] = b]
          /\ Goto(h, "acquiresleep")
          /\ UNCHANGED panic
       \/ /\ Hits(k) = {}
          /\ IF Unused = {} THEN panic' = "bget" /\ UNCHANGED <<buf, held, pc>>
             ELSE /\ UNCHANGED panic
                  /\ buf' = [buf EXCEPT ![Recycled] = [blockno |-> k, refcnt |-> 1, valid |-> FALSE,
                                                       dirty |-> FALSE, data |-> @.data]]
                  /\ held' = [held EXCEPT ![h] = Recycled]
                  /\ Goto(h, "acquiresleep")
    /\ UNCHANGED <<lru, lock, idequeue, busy, disk, written>>

\* The end of bget(), and the test in bread().
acquired(h) ==
    /\ At(h, "acquiresleep") /\ lock[held[h]] = None
    /\ lock' = [lock EXCEPT ![held[h]] = h]
    /\ Goto(h, IF buf[held[h]].valid THEN "use" ELSE "iderw")
    /\ UNCHANGED <<buf, lru, idequeue, busy, disk, held, panic, written>>

\* The caller changes the block and writes it, now or with the log.
bwrite(h, v) ==
    /\ At(h, "use")
    /\ buf' = [buf EXCEPT ![held[h]].data = v, ![held[h]].dirty = TRUE]
    /\ written' = [written EXCEPT ![buf[held[h]].blockno] = v]
    /\ Goto(h, "iderw")
    /\ UNCHANGED <<lru, lock, idequeue, busy, disk, held, panic>>

log_write(h, v) ==
    /\ At(h, "use")
    /\ buf[held[h]].dirty \/ Cardinality({b \in Buf : buf[b].dirty}) < LOGSIZE
    /\ buf' = [buf EXCEPT ![held[h]].data = v, ![held[h]].dirty = TRUE]
    /\ written' = [written EXCEPT ![buf[held[h]].blockno] = v]
    /\ Goto(h, "releasesleep")
    /\ UNCHANGED <<lru, lock, idequeue, busy, disk, held, panic>>

brelse(h) ==
    /\ At(h, "use") \/ At(h, "releasesleep")
    /\ lock' = [lock EXCEPT ![held[h]] = None]
    /\ Goto(h, "drop")
    /\ UNCHANGED <<buf, lru, idequeue, busy, disk, held, panic, written>>

\* The list with b moved to the front.
Front(b) ==
    LET i == CHOOSE k \in Buf : lru[k] = b
    IN [k \in Buf |-> IF k = 1 THEN b ELSE IF k <= i THEN lru[k - 1] ELSE lru[k]]

\* brelse() under bcache.lock: the last user moves the buffer to the front.
brelse_drop(h) ==
    /\ At(h, "drop")
    /\ buf' = [buf EXCEPT ![held[h]].refcnt = @ - 1]
    /\ lru' = IF buf[held[h]].refcnt = 1 THEN Front(held[h]) ELSE lru
    /\ held' = [held EXCEPT ![h] = 0]
    /\ Goto(h, "idle")
    /\ UNCHANGED <<lock, idequeue, busy, disk, panic, written>>

-------------------------------------------------------------------------------
(* ide.c.                                                                  *)

\* iderw(): append, start the disk if the queue was empty, sleep.
iderw(h) ==
    /\ At(h, "iderw")
    /\ panic' = IF lock[held[h]] \notin {h[1]} \X {1, 2} \/ (buf[held[h]].valid /\ ~buf[held[h]].dirty)
                THEN "iderw" ELSE "none"
    /\ idequeue' = Append(idequeue, held[h])
    /\ busy' = (busy \/ idequeue = <<>>)
    /\ Goto(h, "sleep")
    /\ UNCHANGED <<buf, lru, lock, disk, held, written>>

\* Fault: the next request of the queue is not started.
Fault_ideintr(fails) ==
    LET b == Head(idequeue) IN
    /\ panic = "none" /\ busy
    /\ idequeue' = Tail(idequeue)
    /\ buf' = [buf EXCEPT ![b].valid = TRUE, ![b].dirty = FALSE,
                          ![b].data = IF buf[b].dirty \/ fails THEN @ ELSE disk[buf[b].blockno]]
    /\ disk' = IF buf[b].dirty THEN [disk EXCEPT ![buf[b].blockno] = buf[b].data] ELSE disk
    /\ busy' = FALSE
    /\ pc' = [h \in Hand |-> IF pc[h] = "sleep" /\ held[h] = b THEN "awake" ELSE pc[h]]
    /\ UNCHANGED <<lru, lock, held, panic, written>>

\* The disk has executed the first request and interrupts: the data is read,
\* whoever sleeps on the buffer is woken, and the next request is started.
\* After an error the buffer is marked valid all the same.
ideintr(fails) ==
    LET b == Head(idequeue) IN
    /\ panic = "none" /\ busy
    /\ idequeue' = Tail(idequeue)
    /\ buf' = [buf EXCEPT ![b].valid = TRUE, ![b].dirty = FALSE,
                          ![b].data = IF buf[b].dirty \/ fails THEN @ ELSE disk[buf[b].blockno]]
    /\ disk' = IF buf[b].dirty THEN [disk EXCEPT ![buf[b].blockno] = buf[b].data] ELSE disk
    /\ busy' = (Tail(idequeue) # <<>>)
    /\ pc' = [h \in Hand |-> IF pc[h] = "sleep" /\ held[h] = b THEN "awake" ELSE pc[h]]
    /\ UNCHANGED <<lru, lock, held, panic, written>>

\* The loop in iderw() tests the flags again.
awake(h) ==
    /\ At(h, "awake")
    /\ Goto(h, IF buf[held[h]].valid /\ ~buf[held[h]].dirty THEN "use" ELSE "sleep")
    /\ UNCHANGED <<buf, lru, lock, idequeue, busy, disk, held, panic, written>>

-------------------------------------------------------------------------------
Step(h) == \/ \E v \in Val : bwrite(h, v) \/ log_write(h, v)
           \/ acquired(h) \/ iderw(h) \/ awake(h) \/ brelse(h) \/ brelse_drop(h)
\* panic() never returns.
halt == panic # "none" /\ UNCHANGED vars
Next == \/ halt
        \/ \E fails \in ReadFails : ideintr(fails)
        \/ \E h \in Hand : Step(h) \/ \E k \in Block : bget(h, k)
Spec == Init /\ [][Next]_vars

-------------------------------------------------------------------------------
\* The type invariant.
TypeOK ==
    /\ buf \in [Buf -> [blockno : Block \union {None}, refcnt : 0 .. Cardinality(Hand),
                        valid : BOOLEAN, dirty : BOOLEAN, data : Val]]
    /\ lru \in [Buf -> Buf] /\ \A b \in Buf : \E k \in Buf : lru[k] = b
    /\ lock \in [Buf -> Hand \union {None}]
    /\ disk \in [Block -> Val] /\ written \in [Block -> Val]
    /\ idequeue \in Seq(Buf) /\ busy \in BOOLEAN /\ panic \in {"none", "bget", "iderw"}
    /\ pc \in [Hand -> {"idle", "acquiresleep", "use", "iderw", "sleep", "awake",
                       "releasesleep", "drop"}]
    /\ held \in [Hand -> Buf \union {0}]

\* A block is cached at most once, so that the sleep-lock of its buffer
\* excludes everybody else from the block (bio.c: "Only one process at a time
\* can use a buffer"), and refcnt counts the processes that use or wait for it.
OneCopy ==
    /\ \A b, c \in Buf : buf[b].blockno = buf[c].blockno /\ buf[b].blockno # None => b = c
    /\ \A b \in Buf : buf[b].refcnt = Cardinality({h \in Hand : held[h] = b})

\* Whoever reads a block gets what was written to it last, through recycling,
\* pinning and the queue: a valid copy is that, and so is the disk where there
\* is no valid copy.
ReadsLastWrite ==
    \A k \in Block :
        IF \E b \in Hits(k) : buf[b].valid
        THEN \A b \in Hits(k) : buf[b].data = written[k]
        ELSE disk[k] = written[k]

\* The queue against the sleepers.
Queued ==
    /\ busy <=> idequeue # <<>>
    /\ \A h \in Hand : pc[h] = "sleep" => \E i \in 1 .. Len(idequeue) : idequeue[i] = held[h]
    /\ \A i, j \in 1 .. Len(idequeue) : idequeue[i] = idequeue[j] => i = j
    /\ \A i \in 1 .. Len(idequeue) : lock[idequeue[i]] # None

\* A process asleep in iderw() has its request in the queue, locked, and once
\* only; the disk works on the first request whenever there is one, so that an
\* interrupt is still to come for every sleeper; and iderw() always finds its
\* buffer locked and something to do (ide.c:142-145).
RequestsServed == Queued /\ panic # "iderw"

\* Dirty because of the log, and not of a bwrite() in progress.
Logged == {b \in Buf : buf[b].dirty /\ (lock[b] # None => pc[lock[b]] \notin {"iderw", "sleep"})}

\* bio.c:81-92: bget() gives up only when it has to: every buffer is then in some
\* process's hands or pinned by the log, and the log pins LOGSIZE at most.  No
\* reference and no B_DIRTY is ever left behind that would make the cache smaller.
FullWhenUsed ==
    /\ Cardinality(Logged) <= LOGSIZE
    /\ panic = "bget" => \A b \in Buf \ Logged : \E h \in Hand : held[h] = b

====
