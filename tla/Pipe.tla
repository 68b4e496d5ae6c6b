--------------------------------- MODULE Pipe ---------------------------------
(***************************************************************************)
(* pipe.c with the reference counts of file.c: processes that share the    *)
(* two ends of one pipe, read, write, sleep, are killed, and close.         *)
(*                                                                          *)
(* p->lock is explicit, and a byte copied is a step.  The uint counters     *)
(* nread and nwrite wrap around: they count modulo WRAP, as the machine's    *)
(* count modulo 2^32.                                                       *)
(***************************************************************************)
EXTENDS Naturals, Sequences, FiniteSets

CONSTANTS Proc, None,
          Byte,
          PIPESIZE,   \* capacity of the ring
          WRAP,       \* 2^32 in the machine
          MaxN,       \* largest count given to read() or write()
          FdSets,     \* the sets of ends that a process may start with
          Killable    \* processes that kill() may hit

ASSUME PipeConstants ==
    /\ PIPESIZE \in Nat \ {0} /\ MaxN \in Nat \ {0}
    /\ WRAP \in Nat /\ WRAP > PIPESIZE /\ WRAP % PIPESIZE = 0
    /\ FdSets \subseteq SUBSET {"r", "w"} /\ Killable \subseteq Proc
    /\ None \notin Proc /\ Byte # {}

VARIABLES
    data, nread, nwrite, readopen, writeopen,   \* struct pipe
    lock,      \* p->lock: the process that holds it, or None
    freed,     \* kfree(p) was done
    fd,        \* per process: the ends it has open, in {"r", "w"}
    pc,        \* what each process is doing
    left,      \* n - i of the call in progress
    killed

ring == <<data, nread, nwrite>>
ends == <<readopen, writeopen>>
vars == <<ring, ends, lock, freed, fd, pc, left, killed>>

\* pipewrite(): "write" waits for p->lock, "writing" holds it, "wsleep" sleeps
\* on nwrite; piperead(): "read", "reading", "copying", "rsleep"; pipeclose():
\* "close r", "close w".
PC == {"idle", "write", "writing", "wsleep", "read", "reading", "copying", "rsleep",
       "close r", "close w"}

Empty == nread = nwrite

Full == nwrite = (nread + PIPESIZE) % WRAP
Next1(n) == (n + 1) % WRAP

\* pipealloc() has run and fork() has spread the ends over the processes.
Init ==
    /\ data = [i \in 0 .. PIPESIZE - 1 |-> CHOOSE b \in Byte : TRUE]
    /\ nread = 0 /\ nwrite = 0
    /\ readopen = TRUE /\ writeopen = TRUE
    /\ lock = None
    /\ freed = FALSE
    /\ fd \in [Proc -> FdSets]
    /\ \A e \in {"r", "w"} : \E p \in Proc : e \in fd[p]
    /\ pc = [p \in Proc |-> "idle"]
    /\ left = [p \in Proc |-> 0]
    /\ killed = [p \in Proc |-> FALSE]

\* wakeup() of the processes at l, together with p's own move to m.
WakeupAndGoto(l, p, m) ==
    pc' = [q \in Proc |-> IF q = p THEN m
                          ELSE IF pc[q] = "wsleep" /\ l = "wsleep" THEN "write"
                          ELSE IF pc[q] = "rsleep" /\ l = "rsleep" THEN "read" ELSE pc[q]]
Goto(p, m) == pc' = [pc EXCEPT ![p] = m]
At(p, m) == pc[p] = m /\ lock = p

\* The call returns: p->lock is released.
Return(p) == lock' = None /\ left' = [left EXCEPT ![p] = 0]

-------------------------------------------------------------------------------
(* pipewrite().                                                            *)

sys_write(p) ==
    /\ pc[p] = "idle" /\ "w" \in fd[p] /\ ~killed[p]
    /\ \E n \in 0 .. MaxN : left' = [left EXCEPT ![p] = n]
    /\ Goto(p, "write")
    /\ UNCHANGED <<ring, ends, lock, freed, fd, killed>>

lock_write(p) ==
    /\ pc[p] = "write" /\ lock = None
    /\ lock' = p
    /\ Goto(p, "writing")
    /\ UNCHANGED <<ring, ends, freed, fd, left, killed>>

\* Fault: ++nwrite instead of nwrite++.
Fault_put(p) ==
    /\ At(p, "writing") /\ left[p] > 0 /\ ~Full
    /\ \E b \in Byte : data' = [data EXCEPT ![Next1(nwrite) % PIPESIZE] = b]
    /\ nwrite' = Next1(nwrite)
    /\ left' = [left EXCEPT ![p] = @ - 1]
    /\ UNCHANGED <<nread, ends, lock, freed, fd, pc, killed>>

put(p) ==
    /\ At(p, "writing") /\ left[p] > 0 /\ ~Full
    /\ \E b \in Byte : data' = [data EXCEPT ![nwrite % PIPESIZE] = b]
    /\ nwrite' = Next1(nwrite)
    /\ left' = [left EXCEPT ![p] = @ - 1]
    /\ UNCHANGED <<nread, ends, lock, freed, fd, pc, killed>>

write_fails(p) ==
    /\ At(p, "writing") /\ left[p] > 0 /\ Full
    /\ ~readopen \/ killed[p]
    /\ Return(p)
    /\ Goto(p, "idle")
    /\ UNCHANGED <<ring, ends, freed, fd, killed>>

write_sleeps(p) ==
    /\ At(p, "writing") /\ left[p] > 0 /\ Full
    /\ readopen /\ ~killed[p]
    /\ WakeupAndGoto("rsleep", p, "wsleep")
    /\ lock' = None
    /\ UNCHANGED <<ring, ends, freed, fd, left, killed>>

write_returns(p) ==
    /\ At(p, "writing") /\ left[p] = 0
    /\ WakeupAndGoto("rsleep", p, "idle")
    /\ Return(p)
    /\ UNCHANGED <<ring, ends, freed, fd, killed>>

pipewrite(p) ==
    lock_write(p) \/ put(p) \/ write_fails(p) \/ write_sleeps(p) \/ write_returns(p)

-------------------------------------------------------------------------------
(* piperead().                                                             *)

sys_read(p) ==
    /\ pc[p] = "idle" /\ "r" \in fd[p] /\ ~killed[p]
    /\ \E n \in 0 .. MaxN : left' = [left EXCEPT ![p] = n]
    /\ Goto(p, "read")
    /\ UNCHANGED <<ring, ends, lock, freed, fd, killed>>

lock_read(p) ==
    /\ pc[p] = "read" /\ lock = None
    /\ lock' = p
    /\ Goto(p, "reading")
    /\ UNCHANGED <<ring, ends, freed, fd, left, killed>>

read_waits(p) ==
    /\ At(p, "reading") /\ Empty /\ writeopen
    /\ \/ killed[p] /\ Goto(p, "idle") /\ Return(p)
       \/ ~killed[p] /\ Goto(p, "rsleep") /\ lock' = None /\ UNCHANGED left
    /\ UNCHANGED <<ring, ends, freed, fd, killed>>

start_copy(p) ==
    /\ At(p, "reading") /\ ~(Empty /\ writeopen)
    /\ Goto(p, "copying")
    /\ UNCHANGED <<ring, ends, lock, freed, fd, left, killed>>

get(p) ==
    /\ At(p, "copying") /\ left[p] > 0 /\ ~Empty
    /\ nread' = Next1(nread)
    /\ left' = [left EXCEPT ![p] = @ - 1]
    /\ UNCHANGED <<data, nwrite, ends, lock, freed, fd, pc, killed>>

read_returns(p) ==
    /\ At(p, "copying") /\ (left[p] = 0 \/ Empty)
    /\ WakeupAndGoto("wsleep", p, "idle")
    /\ Return(p)
    /\ UNCHANGED <<ring, ends, freed, fd, killed>>

piperead(p) == lock_read(p) \/ read_waits(p) \/ start_copy(p) \/ get(p) \/ read_returns(p)

-------------------------------------------------------------------------------
(* fileclose(), pipeclose(), kill().                                       *)

\* Fault: the reference count is not looked at.
Fault_LastRef(p, e) == TRUE

\* fileclose() under ftable.lock: drop the reference; the last one closes.
LastRef(p, e) == \A q \in Proc \ {p} : e \notin fd[q]

fileclose(p, e) ==
    /\ pc[p] = "idle" /\ e \in fd[p]
    /\ fd' = [fd EXCEPT ![p] = @ \ {e}]
    /\ Goto(p, IF ~LastRef(p, e) THEN "idle" ELSE IF e = "r" THEN "close r" ELSE "close w")
    /\ UNCHANGED <<ring, ends, lock, freed, left, killed>>

\* Fault: pipeclose() does not wake the readers.
Fault_pipeclose(p) ==
    /\ lock = None
    /\ \/ /\ pc[p] = "close w"
          /\ writeopen' = FALSE
          /\ freed' = ~readopen
          /\ UNCHANGED readopen
       \/ /\ pc[p] = "close r"
          /\ readopen' = FALSE
          /\ freed' = ~writeopen
          /\ UNCHANGED writeopen
    /\ Goto(p, "idle")
    /\ UNCHANGED <<ring, lock, fd, left, killed>>

pipeclose(p) ==
    /\ lock = None
    /\ \/ /\ pc[p] = "close w"
          /\ writeopen' = FALSE
          /\ freed' = ~readopen
          /\ WakeupAndGoto("rsleep", p, "idle")
          /\ UNCHANGED readopen
       \/ /\ pc[p] = "close r"
          /\ readopen' = FALSE
          /\ freed' = ~writeopen
          /\ WakeupAndGoto("wsleep", p, "idle")
          /\ UNCHANGED writeopen
    /\ UNCHANGED <<ring, lock, fd, left, killed>>

\* kill(): mark the process and wake it from whatever it sleeps on.
kill(p) ==
    /\ p \in Killable /\ ~killed[p]
    /\ killed' = [killed EXCEPT ![p] = TRUE]
    /\ pc' = [pc EXCEPT ![p] = IF @ = "wsleep" THEN "write"
                               ELSE IF @ = "rsleep" THEN "read" ELSE @]
    /\ UNCHANGED <<ring, ends, lock, freed, fd, left>>

-------------------------------------------------------------------------------
Next ==
    \/ \E p \in Proc : \/ sys_write(p) \/ pipewrite(p) \/ sys_read(p) \/ piperead(p)
                       \/ pipeclose(p) \/ kill(p)
    \/ \E p \in Proc, e \in {"r", "w"} : fileclose(p, e)

Spec == Init /\ [][Next]_vars

-------------------------------------------------------------------------------
(* Properties.                                                             *)

\* The number of bytes in the pipe, from counters that wrap around.
Count == (nwrite + WRAP - nread) % WRAP

\* Types of the state; the ring never holds more than PIPESIZE bytes.
TypeOK ==
    /\ data \in [0 .. PIPESIZE - 1 -> Byte]
    /\ nread \in 0 .. WRAP - 1 /\ nwrite \in 0 .. WRAP - 1 /\ Count <= PIPESIZE
    /\ readopen \in BOOLEAN /\ writeopen \in BOOLEAN /\ freed \in BOOLEAN
    /\ lock \in Proc \union {None}
    /\ fd \in [Proc -> SUBSET {"r", "w"}]
    /\ pc \in [Proc -> PC] /\ left \in [Proc -> 0 .. MaxN] /\ killed \in [Proc -> BOOLEAN]

\* pipe.c:70-74: the page is freed only when nobody is, or ever will be, inside
\* a call on the pipe: no process with a reference, none in a call.
NoUseAfterFree ==
    freed => \A p \in Proc : fd[p] = {} /\ pc[p] = "idle" /\ lock = None

\* pipe.c:106 "pipe-empty": a reader sleeps only while there is nothing to read
\* and a writer is left.
ReaderNotForgotten ==
    lock = None => \A p \in Proc : pc[p] = "rsleep" => Empty /\ writeopen

\* pipe.c:90, 95 and 106-112: as long as nobody has been killed, every byte put
\* in and every close of the write end reaches the readers that are asleep.
ReaderWoken == (\A q \in Proc : ~killed[q]) => ReaderNotForgotten

\* pipe.c:85-92 and 118: a writer sleeps only while the pipe is full and a
\* reader is left.
WriterNotForgotten ==
    lock = None => \A p \in Proc : pc[p] = "wsleep" => Full /\ readopen

Channel == INSTANCE ByteChannel WITH
             Capacity <- PIPESIZE,
             queue <- [i \in 1 .. Count |-> data[(nread + i - 1) % PIPESIZE]],
             readEnd <- readopen,
             writeEnd <- writeopen

\* pipe.c:78-121: bytes come out in the order they went in, none lost, none
\* twice, at most PIPESIZE in between, across the wrap of the counters and
\* with several readers and writers.
ImplementsChannel == Channel!CSpec

\* pipe.c:59-69: whoever sleeps on the pipe can still be woken. While a reader
\* sleeps, some process holds the write end, or is about to close it and wake the
\* readers; likewise the writers and the read end. So no close is the last one
\* and leaves somebody asleep for ever.
WakeupOwed ==
    lock = None =>
        \A <<asleep, end, close>> \in {<<"rsleep", "w", "close w">>, <<"wsleep", "r", "close r">>} :
            (\E p \in Proc : pc[p] = asleep) => \E q \in Proc : end \in fd[q] \/ pc[q] = close

\* pipe.c:59-121: nobody is left asleep on the pipe: no writer beside free space
\* or without a reader, no reader beside data until somebody is killed, and
\* none when the other end is closed for the last time.
NobodyForgotten == TypeOK /\ WriterNotForgotten /\ ReaderWoken /\ WakeupOwed
===============================================================================
