---------------------------------- MODULE File --------------------------------
(***************************************************************************)
(* Open files (file.c) and file descriptors (sysfile.c, and the parts of     *)
(* fork() and exit() that copy and close them), over the inode contents of   *)
(* module Inode.  A system call is a sequence of steps, one for every        *)
(* critical section; code[p] holds the steps left to process p, and f0, f1   *)
(* its local struct file pointers.  What is read from or written to a pipe   *)
(* is the subject of module Pipe: here a pipe has its two ends only.         *)
(***************************************************************************)
EXTENDS Mkfs

CONSTANTS
    Proc,          \* processes
    Initial,       \* the one that runs at first
    Byte,          \* [Proc -> Nat]: the byte a process writes
    NFILE,         \* entries of the file table
    NOFILE,        \* descriptors of a process
    NPIPE,         \* pages the pipes may take
    MAXOPBLOCKS,   \* blocks of a file system operation
    Modes,         \* of open(): <<readable, writable>>
    Counts,        \* byte counts of read() and write()
    MaxCalls       \* system calls made altogether

ASSUME FileConstants ==
    /\ Initial \in Proc /\ Byte \in [Proc -> Nat]
    /\ {NFILE, NOFILE, NPIPE, MAXOPBLOCKS, MaxCalls} \subseteq Nat

VARIABLES
    ftable,     \* the open files
    ofile,      \* [Proc -> [0 .. NOFILE - 1 -> 0 .. NFILE]], 0 for none
    fs,         \* the inode contents
    iref,       \* references to every inode
    linked,     \* the inodes that have a name
    typed,      \* the inodes that are not free on the disk (type # 0)
    pipes,      \* [1 .. NPIPE -> the ends that are open]
    alive,      \* processes that run
    code, f0, f1, ff, arg, r,   \* of every process: its steps and its locals
    made,       \* calls made
    bytes,      \* what was written to every inode (history)
    moved,      \* bytes moved through every open file (history)
    crossed,    \* inodes that two iput() left to each other (history)
    panic
vars == <<ftable, ofile, fs, iref, linked, typed, pipes, alive, code, f0, f1, ff, arg, r, made, bytes,
          moved, crossed, panic>>
calls == <<alive, arg, r, made, ff>>
content == <<fs, iref, linked, typed, bytes, crossed>>

FileId == 1 .. NFILE
Fd == 0 .. NOFILE - 1
Closed == [ref |-> 0, type |-> "FD_NONE", readable |-> FALSE, writable |-> FALSE, obj |-> 0, off |-> 0]

Init ==
    /\ ftable = [f \in FileId |-> Closed]
    /\ ofile = [p \in Proc |-> [d \in Fd |-> 0]]
    /\ fs = mkfs /\ iref = [i \in Inode |-> 0]
    /\ linked = 1 .. Len(Files) + 1 /\ typed = linked
    /\ pipes = [q \in 1 .. NPIPE |-> {}]
    /\ alive = {Initial}
    /\ code = [p \in Proc |-> <<>>]
    /\ f0 = [p \in Proc |-> 0] /\ f1 = [p \in Proc |-> 0] /\ ff = [p \in Proc |-> Closed]
    /\ arg = [p \in Proc |-> 0] /\ r = [p \in Proc |-> 0]
    /\ made = 0
    /\ bytes = [i \in Inode |-> Written0(i)] /\ moved = [f \in FileId |-> 0]
    /\ crossed = {} /\ panic = FALSE

At(p, step) == code[p] # <<>> /\ Head(code[p]) = step
Goto(p, steps) == code' = [code EXCEPT ![p] = steps \o Tail(@)]
Ends(p) == code' = [code EXCEPT ![p] = <<>>]
Call(p, steps) ==
    /\ p \in alive /\ code[p] = <<>> /\ made < MaxCalls
    /\ made' = made + 1
    /\ code' = [code EXCEPT ![p] = steps]

\* filealloc() and fdalloc() take the first free entry; 0 and -1 are failure.
FreeFiles == {f \in FileId : ftable[f].ref = 0}
FreeFds(p) == {d \in Fd : ofile[p][d] = 0}

\* ip->lock, for the calls that keep it from one step to the next: open() until
\* its file is filled in, fileread() and filewrite() until they have moved f->off.
\* Fault: the inode is unlocked too early.
Fault_Locked(i) == FALSE
Locked(i) == \E p \in Proc :
    \/ "opened" \in Range(code[p]) /\ arg[p] = i
    \/ At(p, "off") /\ ftable[f0[p]].obj = i

\* close(fd): the descriptor is gone before fileclose().
sys_close(p) ==
    /\ Call(p, <<"fileclose0">>)
    /\ \E d \in Fd \ FreeFds(p) :
         /\ ofile' = [ofile EXCEPT ![p][d] = 0]
         /\ f0' = [f0 EXCEPT ![p] = ofile[p][d]]
    /\ UNCHANGED <<ftable, content, pipes, alive, f1, ff, arg, r, moved, panic>>

\* What pipealloc(), sys_pipe() and sys_open() do with their files when a
\* later step fails.
failed(p) == (IF f0[p] # 0 THEN <<"fileclose0">> ELSE <<>>)
             \o (IF f1[p] # 0 THEN <<"fileclose1">> ELSE <<>>)

\* open() once namei() has found the inode or create() has taken the first free
\* one: it holds a reference and the lock.
sys_open(p) ==
    /\ Call(p, <<"filealloc0", "fdalloc", "opened">>)
    /\ \E i \in linked \union {i \in Inode \ typed : \A j \in Inode \ typed : i <= j} :
         /\ ~Locked(i)
         /\ linked' = linked \union {i} /\ typed' = typed \union {i}
         /\ iref' = [iref EXCEPT ![i] = @ + 1]
         /\ arg' = [arg EXCEPT ![p] = i]
    /\ UNCHANGED <<ftable, ofile, fs, pipes, alive, f0, f1, ff, r, bytes, moved, crossed, panic>>

\* pipe(): pipealloc() takes two files and a page, then come two descriptors.
sys_pipe(p) ==
    /\ Call(p, <<"filealloc0", "filealloc1", "pipealloc", "fdalloc0", "fdalloc1">>)
    /\ UNCHANGED <<ftable, ofile, content, pipes, alive, f0, f1, ff, arg, r, moved, panic>>

\* filealloc() leaves the fields other than ref as the last user left them.
filealloc(p) ==
    \E n \in {0, 1} :
        /\ At(p, IF n = 0 THEN "filealloc0" ELSE "filealloc1")
        /\ IF FreeFiles = {} THEN
             /\ code' = [code EXCEPT ![p] = IF "opened" \in Range(@) THEN <<"iput", "drop">> ELSE failed(p)]
             /\ UNCHANGED <<ftable, f0, f1, moved>>
           ELSE
             /\ ftable' = [ftable EXCEPT ![First(FreeFiles)].ref = 1]
             /\ moved' = [moved EXCEPT ![First(FreeFiles)] = 0]
             /\ f0' = IF n = 0 THEN [f0 EXCEPT ![p] = First(FreeFiles)] ELSE f0
             /\ f1' = IF n = 1 THEN [f1 EXCEPT ![p] = First(FreeFiles)] ELSE f1
             /\ Goto(p, <<>>)
        /\ UNCHANGED <<ofile, content, pipes, calls, panic>>

\* open(): the descriptor, or both the file and the inode are dropped.
fdalloc(p) ==
    /\ At(p, "fdalloc")
    /\ IF FreeFds(p) = {}
       THEN code' = [code EXCEPT ![p] = failed(p) \o <<"iput", "drop">>] /\ UNCHANGED ofile
       ELSE Goto(p, <<>>) /\ ofile' = [ofile EXCEPT ![p][First(FreeFds(p))] = f0[p]]
    /\ UNCHANGED <<ftable, content, pipes, calls, f0, f1, moved, panic>>

\* open() fills in the file behind its descriptor.
opened(p) ==
    /\ At(p, "opened")
    /\ \E m \in IF arg[p] = ROOTINO THEN {<<TRUE, FALSE>>} ELSE Modes :
         ftable' = [ftable EXCEPT ![f0[p]] = [ref |-> @.ref, type |-> "FD_INODE", obj |-> arg[p],
                                              off |-> 0, readable |-> m[1], writable |-> m[2]]]
    /\ Ends(p) /\ f0' = [f0 EXCEPT ![p] = 0] /\ arg' = [arg EXCEPT ![p] = 0]
    /\ UNCHANGED <<ofile, content, pipes, alive, f1, ff, r, made, moved, panic>>

\* The end of pipealloc(), where kalloc() may fail.
pipealloc(p) ==
    /\ At(p, "pipealloc")
    /\ \/ /\ code' = [code EXCEPT ![p] = failed(p)]
          /\ UNCHANGED <<ftable, pipes>>
       \/ \E q \in {q \in 1 .. NPIPE : pipes[q] = {}} :
            /\ pipes' = [pipes EXCEPT ![q] = {"read", "write"}]
            /\ ftable' = [ftable EXCEPT
                  ![f0[p]] = [@ EXCEPT !.type = "FD_PIPE", !.obj = q, !.readable = TRUE, !.writable = FALSE],
                  ![f1[p]] = [@ EXCEPT !.type = "FD_PIPE", !.obj = q, !.readable = FALSE, !.writable = TRUE]]
            /\ Goto(p, <<>>)
    /\ UNCHANGED <<ofile, content, calls, f0, f1, moved, panic>>

\* pipe(): fd0 = fdalloc(rf).
fdalloc0(p) ==
    /\ At(p, "fdalloc0")
    /\ IF FreeFds(p) = {}
       THEN code' = [code EXCEPT ![p] = failed(p)] /\ UNCHANGED <<ofile, arg>>
       ELSE /\ ofile' = [ofile EXCEPT ![p][First(FreeFds(p))] = f0[p]]
            /\ arg' = [arg EXCEPT ![p] = First(FreeFds(p))]
            /\ Goto(p, <<>>)
    /\ UNCHANGED <<ftable, content, pipes, alive, f0, f1, ff, r, made, moved, panic>>

\* pipe(): fd1 = fdalloc(wf), or fd0 is given back and both files are closed.
fdalloc1(p) ==
    /\ At(p, "fdalloc1")
    /\ arg' = [arg EXCEPT ![p] = 0]
    /\ IF FreeFds(p) = {}
       THEN /\ ofile' = [ofile EXCEPT ![p][arg[p]] = 0]
            /\ code' = [code EXCEPT ![p] = failed(p)]
            /\ UNCHANGED <<f0, f1>>
       ELSE /\ ofile' = [ofile EXCEPT ![p][First(FreeFds(p))] = f1[p]]
            /\ f0' = [f0 EXCEPT ![p] = 0] /\ f1' = [f1 EXCEPT ![p] = 0]
            /\ Ends(p)
    /\ UNCHANGED <<ftable, content, pipes, alive, ff, r, made, moved, panic>>

\* fileclose() under ftable.lock; the last close goes on with a copy of the file.
Local(p, n) == IF n = 0 THEN f0[p] ELSE f1[p]
LastClose(p, n) == ftable[Local(p, n)].ref = 1
Released(type) ==
    CASE type = "FD_PIPE" -> <<"pipeclose">>
      [] type = "FD_INODE" -> <<"iput", "drop">>
      [] OTHER -> <<>>
CloseStep(p, n, closed) ==
    /\ At(p, IF n = 0 THEN "fileclose0" ELSE "fileclose1")
    /\ panic' = (panic \/ ftable[Local(p, n)].ref < 1)
    /\ ff' = [ff EXCEPT ![p] = IF LastClose(p, n) THEN ftable[Local(p, n)] ELSE @]
    /\ ftable' = [ftable EXCEPT ![Local(p, n)] = closed]
    /\ Goto(p, IF ~LastClose(p, n) THEN <<>> ELSE Released(ftable[Local(p, n)].type))
    /\ f0' = IF n = 0 THEN [f0 EXCEPT ![p] = 0] ELSE f0
    /\ f1' = IF n = 1 THEN [f1 EXCEPT ![p] = 0] ELSE f1
    /\ UNCHANGED <<ofile, content, pipes, alive, arg, r, made, moved>>

\* Fault: the type of a closed file is left as it was.
Fault_fileclose(p) == \E n \in {0, 1} : CloseStep(p, n, [ftable[Local(p, n)] EXCEPT !.ref = @ - 1])
fileclose(p) ==
    \E n \in {0, 1} :
        CloseStep(p, n, [ftable[Local(p, n)] EXCEPT !.ref = @ - 1,
                                                    !.type = IF LastClose(p, n) THEN "FD_NONE" ELSE @])

\* A new operation on the disk.
Op == [fs EXCEPT !.logged = {}]

\* pipeclose() of one end.
pipeclose(p) ==
    /\ At(p, "pipeclose") /\ Goto(p, <<>>)
    /\ pipes' = [pipes EXCEPT ![ff[p].obj] = @ \ {IF ff[p].writable THEN "write" ELSE "read"}]
    /\ ff' = [ff EXCEPT ![p] = Closed]
    /\ UNCHANGED <<ftable, ofile, content, alive, f0, f1, arg, r, made, moved, panic>>

\* The test of iput(): no name and no other reference.
\* Fault: the content goes with the name, whoever has the file open.
Fault_Gone(i) == i \notin linked
Gone(i) == i \notin linked /\ iref[i] = 1

\* The inode iput() is called for, by fileclose() or by open() and unlink().
Ip(p) == IF ff[p].type = "FD_INODE" THEN ff[p].obj ELSE arg[p]

\* iput(), under ip->lock: the test, itrunc(), type = 0 and iupdate().
iput(p) ==
    /\ At(p, "iput") /\ ~Locked(Ip(p)) /\ Goto(p, <<>>)
    /\ IF Gone(Ip(p))
       THEN /\ fs' = itrunc(Op, Ip(p))
            /\ bytes' = [bytes EXCEPT ![Ip(p)] = <<>>]
            /\ typed' = typed \ {Ip(p)} /\ crossed' = crossed \ {Ip(p)}
       ELSE /\ crossed' = IF \E q \in Proc : At(q, "drop") /\ Ip(q) = Ip(p)
                         THEN crossed \union {Ip(p)} ELSE crossed
            /\ UNCHANGED <<fs, bytes, typed>>
    /\ UNCHANGED <<ftable, ofile, iref, linked, pipes, alive, f0, f1, ff, arg, r, made, moved, panic>>

\* iput(), once it has released ip->lock: ip->ref-- under icache.lock.
drop(p) ==
    /\ At(p, "drop") /\ Goto(p, <<>>)
    /\ iref' = [iref EXCEPT ![Ip(p)] = @ - 1]
    /\ ff' = [ff EXCEPT ![p] = Closed]
    /\ arg' = IF ff[p].type = "FD_INODE" THEN arg ELSE [arg EXCEPT ![p] = 0]
    /\ UNCHANGED <<ftable, ofile, fs, linked, typed, pipes, alive, f0, f1, r, made, bytes, moved, crossed, panic>>

\* unlink() of the only name of an inode; dirlookup() has taken a reference.
sys_unlink(p) ==
    /\ Call(p, <<"iput", "drop">>)
    /\ \E i \in linked \ {ROOTINO} :
         /\ ~Locked(i)
         /\ linked' = linked \ {i}
         /\ iref' = [iref EXCEPT ![i] = @ + 1]
         /\ arg' = [arg EXCEPT ![p] = i]
    /\ UNCHANGED <<ftable, ofile, fs, typed, pipes, alive, f0, f1, ff, r, bytes, moved, crossed, panic>>

\* dup(): fdalloc(), then filedup().
sys_dup(p) ==
    /\ Call(p, <<>>) /\ FreeFds(p) # {}
    /\ \E d \in Fd \ FreeFds(p) :
         /\ ofile' = [ofile EXCEPT ![p][First(FreeFds(p))] = ofile[p][d]]
         /\ ftable' = [ftable EXCEPT ![ofile[p][d]].ref = @ + 1]
         /\ panic' = (panic \/ ftable[ofile[p][d]].ref < 1)
    /\ UNCHANGED <<content, pipes, alive, f0, f1, ff, arg, r, moved>>

\* read() from an inode, with ip->lock but outside of a transaction: bmap() must
\* not allocate a block.
sys_read(p) ==
    /\ Call(p, <<"off">>)
    /\ \E d \in Fd \ FreeFds(p), n \in Counts :
         LET f == ofile[p][d]
             i == ftable[f].obj
             got == Len(readi(fs, i, ftable[f].off, n))
         IN /\ ftable[f].readable /\ ftable[f].type = "FD_INODE" /\ ~Locked(i)
            /\ fs' = Mapped(fs, i, ftable[f].off, got)
            /\ panic' = (panic \/ fs' # fs)
            /\ f0' = [f0 EXCEPT ![p] = f]
            /\ r' = [r EXCEPT ![p] = got]
            /\ moved' = [moved EXCEPT ![f] = @ + got]
    /\ UNCHANGED <<ftable, ofile, iref, linked, typed, bytes, crossed, pipes, alive, f1, ff, arg>>

\* write() of n bytes to an inode: filewrite() does it in pieces.
sys_write(p) ==
    /\ Call(p, <<"filewrite">>)
    /\ \E d \in Fd \ FreeFds(p), n \in Counts :
         /\ ftable[ofile[p][d]].writable /\ ftable[ofile[p][d]].type = "FD_INODE"
         /\ f0' = [f0 EXCEPT ![p] = ofile[p][d]]
         /\ arg' = [arg EXCEPT ![p] = n]
    /\ UNCHANGED <<ftable, ofile, content, pipes, alive, f1, ff, r, moved, panic>>

\* Fault: no room is left for the bitmap, the inode and the indirect block.
Fault_max == MAXOPBLOCKS * BSIZE
max == ((MAXOPBLOCKS - 1 - 1 - 2) \div 2) * BSIZE

\* One round of the loop of filewrite(): an operation of the log.
Overlay(s, off, n, v) ==
    [k \in 1 .. (IF off + n > Len(s) THEN off + n ELSE Len(s)) |->
        IF k \in off + 1 .. off + n THEN v ELSE s[k]]
filewrite(p) ==
    /\ At(p, "filewrite") /\ ~Locked(ftable[f0[p]].obj)
    /\ LET f == f0[p]
           i == ftable[f].obj
           off == ftable[f].off
           n1 == IF arg[p] > max THEN max ELSE arg[p]
           ok == Writable(fs, i, off, n1)
           n == IF ok THEN n1 ELSE 0
           done == ~ok \/ arg[p] = n1
       IN /\ fs' = writei(Op, i, off, n, Byte[p])
          /\ bytes' = [bytes EXCEPT ![i] = Overlay(@, off, n, Byte[p])]
          /\ r' = [r EXCEPT ![p] = n]
          /\ moved' = [moved EXCEPT ![f] = @ + n]
          /\ arg' = [arg EXCEPT ![p] = IF done THEN 0 ELSE @ - n]
          /\ code' = [code EXCEPT ![p] = IF done THEN <<"off">> ELSE <<"off", "filewrite">>]
    /\ UNCHANGED <<ftable, ofile, iref, linked, typed, crossed, pipes, alive, f0, f1, ff, made, panic>>

\* fileread() and filewrite(): f->off += r, and iunlock().
advance(p) ==
    /\ At(p, "off") /\ Goto(p, <<>>)
    /\ ftable' = [ftable EXCEPT ![f0[p]].off = @ + r[p]]
    /\ r' = [r EXCEPT ![p] = 0]
    /\ f0' = IF Len(code[p]) = 1 THEN [f0 EXCEPT ![p] = 0] ELSE f0
    /\ UNCHANGED <<ofile, content, pipes, alive, f1, ff, arg, made, moved, panic>>

\* fork(): every open descriptor of the parent is duplicated.
Uses(p, f) == Cardinality({d \in Fd : ofile[p][d] = f})
fork(p) ==
    /\ Call(p, <<>>)
    /\ \E q \in Proc \ alive :
         /\ alive' = alive \union {q}
         /\ ofile' = [ofile EXCEPT ![q] = ofile[p]]
    /\ ftable' = [f \in FileId |-> [ftable[f] EXCEPT !.ref = @ + Uses(p, f)]]
    /\ UNCHANGED <<content, pipes, f0, f1, ff, arg, r, moved, panic>>

\* exit() closes the descriptors one after the other.
exit(p) ==
    /\ Call(p, <<"exit">>)
    /\ UNCHANGED <<ftable, ofile, content, pipes, alive, f0, f1, ff, arg, r, moved, panic>>
exit_loop(p) ==
    /\ At(p, "exit")
    /\ IF FreeFds(p) = Fd
       THEN alive' = alive \ {p} /\ Ends(p) /\ UNCHANGED <<ofile, f0>>
       ELSE LET d == First(Fd \ FreeFds(p)) IN
            /\ ofile' = [ofile EXCEPT ![p][d] = 0]
            /\ f0' = [f0 EXCEPT ![p] = ofile[p][d]]
            /\ Goto(p, <<"fileclose0", "exit">>)
            /\ UNCHANGED alive
    /\ UNCHANGED <<ftable, content, pipes, f1, ff, arg, r, made, moved, panic>>

Next == \E p \in Proc :
    \/ sys_open(p) \/ sys_pipe(p) \/ sys_close(p) \/ sys_dup(p) \/ sys_read(p) \/ sys_write(p)
    \/ sys_unlink(p) \/ fork(p) \/ exit(p)
    \/ filealloc(p) \/ fdalloc(p) \/ opened(p) \/ pipealloc(p) \/ fdalloc0(p) \/ fdalloc1(p)
    \/ fileclose(p) \/ pipeclose(p) \/ iput(p) \/ drop(p) \/ filewrite(p) \/ advance(p) \/ exit_loop(p)

Spec == Init /\ [][Next]_vars

-----------------------------------------------------------------------------
\* Types of the variables.
TypeOK ==
    /\ ftable \in [FileId -> [ref : Nat, type : {"FD_NONE", "FD_PIPE", "FD_INODE"}, off : Nat,
                              readable : BOOLEAN, writable : BOOLEAN, obj : Nat]]
    /\ ofile \in [Proc -> [Fd -> 0 .. NFILE]]
    /\ fs.used \subseteq Block /\ fs.size \in [Inode -> 0 .. MAXFILE * BSIZE]
    /\ iref \in [Inode -> Nat] /\ linked \subseteq typed /\ typed \subseteq Inode /\ alive \subseteq Proc
    /\ pipes \in [1 .. NPIPE -> SUBSET {"read", "write"}]
    /\ f0 \in [Proc -> 0 .. NFILE] /\ f1 \in [Proc -> 0 .. NFILE]

\* The files open in a process' hands while a call has no descriptor for them.
InHand(p, f) ==
    (IF f0[p] = f /\ \A step \in {"opened", "fdalloc1", "filewrite", "off"} : ~At(p, step) THEN 1 ELSE 0)
        + (IF f1[p] = f THEN 1 ELSE 0)

\* ref of an open file is the number of descriptors of all processes that name
\* it and of the calls that still carry it, whichever of filealloc(), fdalloc()
\* and kalloc() failed on the way (filealloc(), filedup(), fileclose()).
FileRefs == \A f \in FileId :
    ftable[f].ref = MapThenSumSet(LAMBDA p : Uses(p, f) + InHand(p, f), Proc)

\* An inode is referenced once by every open file on it and once by every
\* open(), unlink() and last fileclose() under way: no error path of sys_open() and no
\* stale field of a reused struct file makes iput() run twice or not at all.
Carries(p, i) ==
    \/ Range(code[p]) \intersect {"opened", "drop"} # {} /\ arg[p] = i
    \/ "drop" \in Range(code[p]) /\ ff[p].type = "FD_INODE" /\ ff[p].obj = i
InodeRefs == \A i \in Inode :
    iref[i] = Cardinality({f \in FileId : ftable[f].ref > 0 /\ ftable[f].type = "FD_INODE" /\ ftable[f].obj = i})
              + Cardinality({p \in Proc : Carries(p, i)})

\* An end of a pipe is open as long as an open file stands for it or its
\* pipeclose() is under way, and no longer: a reader sees end of file exactly
\* when the last writer, in any process, is gone.
PipeEnds == \A q \in 1 .. NPIPE, w \in BOOLEAN :
    LET ends(x) == x.type = "FD_PIPE" /\ x.obj = q /\ x.writable = w IN
    (IF w THEN "write" ELSE "read") \in pipes[q]
        <=> \/ \E f \in FileId : ftable[f].ref > 0 /\ ends(ftable[f])
            \/ \E p \in Proc : At(p, "pipeclose") /\ ends(ff[p])

\* Whatever is counted for the descriptors of all processes is counted right:
\* files, inodes and ends of pipes, on every path through every call.
RefsCounted == TypeOK /\ FileRefs /\ InodeRefs /\ PipeEnds

\* Every read() and write() through an open file begins where the one before it
\* has ended, whichever of the processes that share the offset after fork() or
\* dup() made it: nothing is read twice and no write covers another.
SharedOffset == [][\A f \in FileId : moved'[f] > moved[f] => ftable[f].off = moved[f]]_vars

\* The blocks marked in the bitmap are those of the files, every one in one
\* place of one file; an inode that is free on the disk has none.
Places(i) == {<<k, 0>> : k \in {k \in 0 .. NDIRECT : fs.addrs[i][k] # 0}}
    \union IF fs.addrs[i][NDIRECT] = 0 THEN {}
           ELSE {<<NDIRECT + 1, k>> : k \in {k \in 0 .. NINDIRECT - 1 : fs.cont[fs.addrs[i][NDIRECT]][k] # 0}}
BlocksOwned ==
    /\ fs.used = UNION {Blocks(fs, i) : i \in Inode} \ {0}
    /\ Cardinality(fs.used) = MapThenSumSet(LAMBDA i : Cardinality(Places(i)), Inode)
    /\ \A i \in Inode \ typed : Places(i) = {}

\* Every block below the size of a file is there: readi(), which fileread()
\* calls outside of any transaction, never makes bmap() allocate one.
NoHoles == \A i \in Inode : \A bn \in Range(Touched(0, fs.size[i])) : Addr(fs, i, bn) # 0

\* fs.c:327-328 "If that was the last reference and the inode has no links to it,
\* free the inode (and its content) on disk": it does, unless two iput() have both
\* looked at ip->ref before either has counted it down.
FreedAtLast == \A i \in Inode : i \notin linked /\ iref[i] = 0 => i \notin typed \/ i \in crossed

\* Bitmap, addresses and sizes agree, nothing that is out of use keeps a block, and
\* nothing panics: no "freeing free block", no "filedup" or "fileclose" of a file that
\* is not open.
BlocksRight == BlocksOwned /\ NoHoles /\ FreedAtLast /\ ~panic /\ ~fs.panic

\* What readi() returns is what mkfs or the processes wrote, in whatever pieces,
\* and whichever blocks were freed and allocated again meanwhile; and no file is
\* cut short behind the offset of a process that has it open.
Contents ==
    /\ \A i \in Inode : readi(fs, i, 0, fs.size[i]) = bytes[i]
    /\ \A f \in FileId : ftable[f].ref > 0 /\ ftable[f].type = "FD_INODE" =>
         ftable[f].off <= fs.size[ftable[f].obj]

\* A piece of filewrite(), and the itrunc() of an iput(), log at most MAXOPBLOCKS
\* blocks, what begin_op() reserved, on a disk with one bitmap block.
OpFits == Cardinality(fs.logged) <= MAXOPBLOCKS

====
