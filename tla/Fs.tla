---------------------------------- MODULE Fs ----------------------------------
(***************************************************************************)
(* Inodes, directories and path names: the inode cache and the directory    *)
(* layer of fs.c, and the calls of sysfile.c that use them (link, unlink,    *)
(* open, mkdir, mknod, chdir, close).                                        *)
(*                                                                           *)
(* code[p] is what process p still has to do in the kernel, a sequence of    *)
(* steps <<function, register>>; the registers are the local variables that  *)
(* hold pointers into the inode cache.  A critical section that takes one    *)
(* sleep-lock, and inside it at most icache.lock, is one step: nobody can    *)
(* see its middle.  What holds a sleep-lock while it waits for another is    *)
(* several steps, and so is iput(), whose test and decrement are two         *)
(* critical sections.  Transactions and blocks are in Log and File.          *)
(***************************************************************************)
EXTENDS Naturals, Sequences, FiniteSets

CONSTANTS
    Proc,      \* processes
    Plain,     \* names other than "." and ".."
    NINODES,   \* inodes on the disk are 1 .. NINODES
    NINODE,    \* slots of the inode cache
    NOFILE,    \* open files of a process
    Calls,     \* the system calls processes make
    MaxCalls,  \* calls made in all
    Images     \* directory trees to start from

ROOTINO == 1
Inum == 1 .. NINODES
Slot == 1 .. NINODE
Name == Plain \union {".", ".."}
Reg == {"ip", "dp", "old"}
Type == {"free", "dir", "file", "dev"}

VARIABLES
    dinode,  \* on the disk: type and nlink of every inode
    ents,    \* on the disk: the inode each name of a directory refers to, or 0
    icache,  \* the cache: inum, ref, valid, and the copy of the inode
    lock,    \* ip->lock: the process that holds it, or "none"
    cwd,     \* current directories (slots)
    files,   \* the slots a process's open files refer to
    code,    \* what a process has still to do
    reg,     \* its pointers (0 for none)
    loc,     \* the other local variables: the call, the rest of the path, name
    made,    \* number of calls made
    panic    \* what panic() was called for, or ""

disk == <<dinode, ents>>
vars == <<disk, icache, lock, cwd, files, code, reg, loc, made, panic>>

-------------------------------------------------------------------------------
(* The calls, as sequences of steps.                                       *)

namei == << <<"namex", "ip">> >>
nameiparent == << <<"namex", "dp">> >>
iput(r) == << <<"iput", r>> >>
iunlockput(r) == << <<"iunlock", r>>, <<"iput", r>> >>
create == nameiparent \o << <<"create", "dp">> >>
bad == << <<"unlink ip", "ip">> >> \o iput("ip")

Body(op) ==
    CASE op = "link"   -> namei \o << <<"link", "ip">> >>
      [] op = "unlink" -> nameiparent \o << <<"unlink", "dp">> >>
      [] op \in {"open rd", "open rw"} -> namei \o << <<"open", "ip">> >>
      [] op = "chdir"  -> namei \o << <<"chdir", "ip">> >>
      [] op = "create" -> create \o << <<"opened", "ip">> >>
      [] op \in {"mkdir", "mknod"} -> create \o iunlockput("ip")

\* The type create() is called with.
NewType(op) == CASE op = "mkdir" -> "dir" [] op = "mknod" -> "dev" [] OTHER -> "file"

-------------------------------------------------------------------------------
(* The inode cache.                                                        *)

Least(S) == CHOOSE x \in S : \A y \in S : x <= y

\* Where iget(inum) finds or makes the entry: 0 when the cache is full.
Cached(inum) == {s \in Slot : icache[s].ref > 0 /\ icache[s].inum = inum}
Empty == {s \in Slot : icache[s].ref = 0}

\* Fault: the entry of an inode that is cached already is not looked for.
Fault_Where(inum) == IF Empty # {} THEN Least(Empty) ELSE 0
Where(inum) ==
    IF Cached(inum) # {} THEN Least(Cached(inum))
    ELSE IF Empty # {} THEN Least(Empty) ELSE 0

\* iget(inum), applied to the contents c of the cache.
iget(c, inum) ==
    LET s == Where(inum) IN
    [c EXCEPT ![s] = IF s \in Cached(inum) THEN [@ EXCEPT !.ref = @ + 1]
                     ELSE [@ EXCEPT !.inum = inum, !.ref = 1, !.valid = FALSE]]

\* What ilock() leaves in the entry: the inode is read if it is not valid.
Loaded(s) ==
    IF icache[s].valid THEN icache[s]
    ELSE [icache[s] EXCEPT !.valid = TRUE, !.type = dinode[icache[s].inum].type,
                           !.nlink = dinode[icache[s].inum].nlink]

\* Fault: iupdate() forgotten.
Fault_DiskLink(d, s, n) == d

\* ip->nlink changed to n and iupdate(): the cache is written through.
CacheLink(c, s, n) == [c EXCEPT ![s] = [Loaded(s) EXCEPT !.nlink = n]]
DiskLink(d, s, n) == [d EXCEPT ![icache[s].inum].nlink = n]

-------------------------------------------------------------------------------
NoLocals == [op |-> "", path |-> <<>>, new |-> <<>>, name |-> ""]

Init ==
    /\ \E image \in Images : dinode = image.dinode /\ ents = image.ents
    /\ icache = [s \in Slot |->
                   IF s = 1
                   THEN [inum |-> ROOTINO, ref |-> Cardinality(Proc), valid |-> FALSE,
                         type |-> "free", nlink |-> 0]
                   ELSE [inum |-> 0, ref |-> 0, valid |-> FALSE, type |-> "free", nlink |-> 0]]
    /\ lock = [s \in Slot |-> "none"]
    /\ cwd = [p \in Proc |-> 1]
    /\ files = [p \in Proc |-> <<>>]
    /\ code = [p \in Proc |-> <<>>]
    /\ reg = [p \in Proc |-> [r \in Reg |-> 0]]
    /\ loc = [p \in Proc |-> NoLocals]
    /\ made = 0
    /\ panic = ""

\* Process p is about to execute f.
At(p, f) == panic = "" /\ code[p] # <<>> /\ Head(code[p])[1] = f
Arg(p) == Head(code[p])[2]          \* the register the step works on
Ip(p) == reg[p][Arg(p)]             \* and the slot in it
Then(p, steps) == code' = [code EXCEPT ![p] = steps \o Tail(@)]
Return(p, steps) == code' = [code EXCEPT ![p] = steps]
End(p) == loc' = IF Tail(code[p]) = <<>> THEN [loc EXCEPT ![p] = NoLocals] ELSE loc

\* The steps that begin with ilock() of the inode in their register.
Locking == {"look", "link", "dirlink", "unlink ip", "unlink", "unlink entry", "create",
            "exists", "fill", "open", "chdir"}
ilock(p) == Ip(p) # 0 /\ lock[Ip(p)] = "none"

\* ilock() panics on an inode that is not allocated; msg is for the rest.
Panics(p, msg) == panic' = IF Loaded(Ip(p)).type = "free" THEN "ilock: no type" ELSE msg

Contents(p) == ents[icache[Ip(p)].inum]           \* the directory p looks at
Load(p) == [icache EXCEPT ![Ip(p)] = Loaded(Ip(p))]
Point(p, r, s) == reg' = [reg EXCEPT ![p][r] = s]
Got(inum) == IF Where(inum) = 0 THEN "iget: no inodes" ELSE ""

-------------------------------------------------------------------------------
(* A system call begins.                                                   *)

syscall(p, c) ==
    /\ panic = "" /\ code[p] = <<>> /\ made < MaxCalls
    /\ made' = made + 1
    /\ loc' = [loc EXCEPT ![p] = [op |-> c.op, path |-> c.path, new |-> c.new, name |-> ""]]
    /\ code' = [code EXCEPT ![p] = Body(c.op)]
    /\ UNCHANGED <<disk, icache, lock, cwd, files, reg, panic>>

\* sys_close() of the last reference to the file: fileclose() calls iput().
sys_close(p, k) ==
    /\ panic = "" /\ code[p] = <<>> /\ made < MaxCalls
    /\ made' = made + 1
    /\ files' = [files EXCEPT ![p] = SubSeq(@, 1, k - 1) \o SubSeq(@, k + 1, Len(@))]
    /\ Point(p, "old", files[p][k])
    /\ code' = [code EXCEPT ![p] = iput("old")]
    /\ UNCHANGED <<disk, icache, lock, cwd, loc, panic>>

\* A lookup returned 0: the call fails.  sys_link() has nlink to take back.
null(p) ==
    /\ \E f \in Locking : At(p, f)
    /\ Ip(p) = 0
    /\ Return(p, IF At(p, "dirlink") THEN bad ELSE <<>>)
    /\ UNCHANGED <<disk, icache, lock, cwd, files, reg, loc, made, panic>>

-------------------------------------------------------------------------------
(* namex().                                                                *)

\* From the root or the current directory.  "/" has no parent.
namex(p) ==
    LET path == loc[p].path
        absolute == path # <<>> /\ Head(path) = "/"
        rest == IF absolute THEN Tail(path) ELSE path
        s == IF absolute THEN Where(ROOTINO) ELSE cwd[p]
        none == rest = <<>> /\ Arg(p) = "dp"
    IN /\ At(p, "namex")
       /\ icache' = IF absolute THEN iget(icache, ROOTINO) ELSE [icache EXCEPT ![s].ref = @ + 1]
       /\ Point(p, IF none THEN "old" ELSE Arg(p), s)
       /\ loc' = [loc EXCEPT ![p].path = rest]
       /\ Then(p, IF none THEN iput("old")
                  ELSE IF rest = <<>> THEN <<>> ELSE << <<"look", Arg(p)>> >>)
       /\ panic' = IF absolute THEN Got(ROOTINO) ELSE ""
       /\ UNCHANGED <<disk, lock, cwd, files, made>>

\* One turn of the loop: ilock(), the tests, dirlookup() and iunlock().  The
\* directory is put after it is unlocked, and the next one is not locked yet.
look(p) ==
    LET name == Head(loc[p].path)
        rest == Tail(loc[p].path)
        stop == Arg(p) = "dp" /\ rest = <<>>
        isdir == Loaded(Ip(p)).type = "dir"
        next == IF isdir THEN Contents(p)[name] ELSE 0
    IN /\ At(p, "look") /\ ilock(p)
       /\ loc' = [loc EXCEPT ![p].path = rest, ![p].name = name]
       /\ \/ /\ isdir /\ stop
             /\ icache' = Load(p)
             /\ Then(p, <<>>) /\ Panics(p, "")
             /\ UNCHANGED reg
          \/ /\ ~(isdir /\ stop) /\ next = 0
             /\ icache' = Load(p)
             /\ reg' = [reg EXCEPT ![p]["old"] = Ip(p), ![p][Arg(p)] = 0]
             /\ Then(p, iput("old")) /\ Panics(p, "")
          \/ /\ ~stop /\ next # 0
             /\ icache' = iget(Load(p), next)
             /\ reg' = [reg EXCEPT ![p]["old"] = Ip(p), ![p][Arg(p)] = Where(next)]
             /\ Then(p, iput("old") \o IF rest = <<>> THEN <<>> ELSE << <<"look", Arg(p)>> >>)
             /\ Panics(p, Got(next))
       /\ UNCHANGED <<disk, lock, cwd, files, made>>

-------------------------------------------------------------------------------
(* iput().                                                                 *)

LastUse(s) == icache[s].valid /\ icache[s].nlink = 0 /\ icache[s].ref = 1

\* The test, under ip->lock; the lock is kept only to free the inode.
iput_test(p) ==
    /\ At(p, "iput") /\ lock[Ip(p)] = "none"
    /\ IF LastUse(Ip(p))
       THEN /\ lock' = [lock EXCEPT ![Ip(p)] = p]
            /\ Then(p, << <<"itrunc", Arg(p)>>, <<"ref--", Arg(p)>> >>)
       ELSE /\ Then(p, << <<"ref--", Arg(p)>> >>)
            /\ UNCHANGED lock
    /\ UNCHANGED <<disk, icache, cwd, files, reg, loc, made, panic>>

\* itrunc(), type = 0, iupdate(), valid = 0, releasesleep().
iput_free(p) ==
    /\ At(p, "itrunc")
    /\ dinode' = [dinode EXCEPT ![icache[Ip(p)].inum] = [type |-> "free", nlink |-> 0]]
    /\ ents' = [ents EXCEPT ![icache[Ip(p)].inum] = [n \in Name |-> 0]]
    /\ icache' = [icache EXCEPT ![Ip(p)].type = "free", ![Ip(p)].valid = FALSE]
    /\ lock' = [lock EXCEPT ![Ip(p)] = "none"]
    /\ Then(p, <<>>)
    /\ UNCHANGED <<cwd, files, reg, loc, made, panic>>

iput_drop(p) ==
    /\ At(p, "ref--")
    /\ icache' = [icache EXCEPT ![Ip(p)].ref = @ - 1]
    /\ Point(p, Arg(p), 0)
    /\ Then(p, <<>>) /\ End(p)
    /\ UNCHANGED <<disk, lock, cwd, files, made, panic>>

iunlock(p) ==
    /\ At(p, "iunlock")
    /\ lock' = [lock EXCEPT ![Ip(p)] = "none"]
    /\ Then(p, <<>>)
    /\ UNCHANGED <<disk, icache, cwd, files, reg, loc, made, panic>>

-------------------------------------------------------------------------------
(* sys_link().                                                             *)

\* Fault: the link is counted only after the new entry is there.
Fault_link(p) ==
    /\ At(p, "link") /\ ilock(p)
    /\ icache' = Load(p)
    /\ IF Loaded(Ip(p)).type = "dir"
       THEN Return(p, iput("ip")) /\ UNCHANGED <<dinode, loc>>
       ELSE /\ loc' = [loc EXCEPT ![p].path = loc[p].new]
            /\ Return(p, nameiparent \o << <<"dirlink", "dp">> >>)
            /\ UNCHANGED dinode
    /\ Panics(p, "")
    /\ UNCHANGED <<ents, lock, cwd, files, reg, made>>

\* nlink is raised first, so that the inode survives until the entry is there.
link(p) ==
    LET n == Loaded(Ip(p)).nlink + 1 IN
    /\ At(p, "link") /\ ilock(p)
    /\ IF Loaded(Ip(p)).type = "dir"
       THEN icache' = Load(p) /\ Return(p, iput("ip")) /\ UNCHANGED <<dinode, loc>>
       ELSE /\ icache' = CacheLink(icache, Ip(p), n)
            /\ dinode' = DiskLink(dinode, Ip(p), n)
            /\ loc' = [loc EXCEPT ![p].path = loc[p].new]
            /\ Return(p, nameiparent \o << <<"dirlink", "dp">> >>)
    /\ Panics(p, "")
    /\ UNCHANGED <<ents, lock, cwd, files, reg, made>>

\* dirlink() with dp locked; a name that is taken is put before dp is unlocked.
dirlink(p) ==
    LET i == Contents(p)[loc[p].name] IN
    /\ At(p, "dirlink") /\ ilock(p)
    /\ \/ /\ i # 0
          /\ lock' = [lock EXCEPT ![Ip(p)] = p]
          /\ icache' = iget(Load(p), i) /\ Panics(p, Got(i))
          /\ Point(p, "old", Where(i))
          /\ Return(p, iput("old") \o iunlockput("dp") \o bad)
          /\ UNCHANGED ents
       \/ /\ i = 0
          /\ ents' = [ents EXCEPT ![icache[Ip(p)].inum][loc[p].name] = icache[reg[p]["ip"]].inum]
          /\ icache' = Load(p)
          /\ Return(p, iput("dp") \o iput("ip")) /\ Panics(p, "")
          /\ UNCHANGED <<lock, reg>>
    /\ UNCHANGED <<dinode, cwd, files, loc, made>>

\* The label bad: ilock(), nlink--, iupdate(), iunlock().
link_bad(p) ==
    LET n == Loaded(Ip(p)).nlink - 1 IN
    /\ At(p, "unlink ip") /\ ilock(p)
    /\ icache' = CacheLink(icache, Ip(p), n)
    /\ dinode' = DiskLink(dinode, Ip(p), n)
    /\ Then(p, <<>>) /\ Panics(p, "")
    /\ UNCHANGED <<ents, lock, cwd, files, reg, loc, made>>

-------------------------------------------------------------------------------
(* sys_unlink().                                                           *)

unlink(p) ==
    LET i == IF loc[p].name \in {".", ".."} THEN 0 ELSE Contents(p)[loc[p].name] IN
    /\ At(p, "unlink") /\ ilock(p)
    /\ \/ /\ i = 0
          /\ icache' = Load(p)
          /\ Return(p, iput("dp")) /\ Panics(p, "")
          /\ UNCHANGED <<lock, reg>>
       \/ /\ i # 0
          /\ lock' = [lock EXCEPT ![Ip(p)] = p]
          /\ icache' = iget(Load(p), i) /\ Panics(p, Got(i))
          /\ Point(p, "ip", Where(i))
          /\ Return(p, << <<"unlink entry", "ip">> >>)
    /\ UNCHANGED <<disk, cwd, files, loc, made>>

isdirempty(i) == \A n \in Plain : ents[i][n] = 0

\* With both locked: the entry is erased, then dp is unlocked and put while
\* ip stays locked, then ip->nlink is lowered.
unlink_entry(p) ==
    LET ip == Loaded(Ip(p))
        s == reg[p]["dp"]
        d == IF ip.type = "dir" THEN icache[s].nlink - 1 ELSE icache[s].nlink
    IN /\ At(p, "unlink entry") /\ ilock(p)
       /\ Panics(p, IF ip.nlink < 1 THEN "unlink: nlink < 1" ELSE "")
       /\ \/ /\ ip.type = "dir" /\ ~isdirempty(ip.inum)
             /\ icache' = Load(p)
             /\ Return(p, iput("ip") \o iunlockput("dp"))
             /\ UNCHANGED <<disk, lock>>
          \/ /\ ip.type = "dir" => isdirempty(ip.inum)
             /\ ents' = [ents EXCEPT ![icache[s].inum][loc[p].name] = 0]
             /\ icache' = CacheLink(Load(p), s, d)
             /\ dinode' = DiskLink(dinode, s, d)
             /\ lock' = [lock EXCEPT ![Ip(p)] = p, ![s] = "none"]
             /\ Return(p, iput("dp") \o << <<"nlink--", "ip">> >> \o iput("ip"))
       /\ UNCHANGED <<cwd, files, reg, loc, made>>

\* ip->nlink--, iupdate(), iunlock().
unlink_ip(p) ==
    LET n == icache[Ip(p)].nlink - 1 IN
    /\ At(p, "nlink--")
    /\ icache' = CacheLink(icache, Ip(p), n)
    /\ dinode' = DiskLink(dinode, Ip(p), n)
    /\ lock' = [lock EXCEPT ![Ip(p)] = "none"]
    /\ Then(p, <<>>)
    /\ UNCHANGED <<ents, cwd, files, reg, loc, made, panic>>

-------------------------------------------------------------------------------
(* create(), sys_open(), sys_mkdir(), sys_mknod(), sys_chdir().            *)

Unused == {i \in Inum : dinode[i].type = "free"}

\* dirlookup() with dp locked.  dp stays locked while a new inode is made;
\* ialloc() marks the first free inode of the disk and gets it.
do_create(p) ==
    LET i == Contents(p)[loc[p].name]
        new == IF Unused # {} THEN Least(Unused) ELSE ROOTINO
    IN /\ At(p, "create") /\ ilock(p)
       /\ \/ /\ i # 0
             /\ icache' = iget(Load(p), i) /\ Panics(p, Got(i))
             /\ Point(p, "ip", Where(i))
             /\ Then(p, iput("dp") \o << <<"exists", "ip">> >>)
             /\ UNCHANGED <<dinode, lock>>
          \/ /\ i = 0
             /\ dinode' = [dinode EXCEPT ![new] = [type |-> NewType(loc[p].op), nlink |-> 0]]
             /\ icache' = iget(Load(p), new) /\ Panics(p, IF Unused = {} THEN "ialloc: no inodes" ELSE Got(new))
             /\ Point(p, "ip", Where(new))
             /\ lock' = [lock EXCEPT ![Ip(p)] = p]
             /\ Then(p, << <<"fill", "ip">> >>)
       /\ UNCHANGED <<ents, cwd, files, loc, made>>

\* The name was there: only open() takes it, and only if it is a file.
exists(p) ==
    /\ At(p, "exists") /\ ilock(p)
    /\ icache' = Load(p) /\ Panics(p, "")
    /\ IF NewType(loc[p].op) = "file" /\ Loaded(Ip(p)).type = "file"
       THEN lock' = [lock EXCEPT ![Ip(p)] = p] /\ Then(p, <<>>)
       ELSE Return(p, iput("ip")) /\ UNCHANGED lock
    /\ UNCHANGED <<disk, cwd, files, reg, loc, made>>

\* ilock(ip), nlink = 1, "." and "..", and the entry in dp, which is then
\* unlocked and put while ip stays locked.
fill(p) ==
    LET s == reg[p]["dp"]
        i == icache[Ip(p)].inum
        d == icache[s].inum
        n == IF NewType(loc[p].op) = "dir" THEN icache[s].nlink + 1 ELSE icache[s].nlink
        dots == IF NewType(loc[p].op) = "dir"
                THEN [ents[i] EXCEPT !["."] = i, ![".."] = d] ELSE ents[i]
    IN /\ At(p, "fill") /\ ilock(p)
       /\ ents' = [ents EXCEPT ![i] = dots, ![d][loc[p].name] = i]
       /\ icache' = CacheLink(CacheLink(icache, Ip(p), 1), s, n)
       /\ dinode' = DiskLink(DiskLink(dinode, Ip(p), 1), s, n)
       /\ lock' = [lock EXCEPT ![Ip(p)] = p, ![s] = "none"]
       /\ Then(p, iput("dp")) /\ Panics(p, "")
       /\ UNCHANGED <<cwd, files, reg, loc, made>>

\* open() without O_CREATE: a directory can be opened for reading only.
open(p) ==
    /\ At(p, "open") /\ ilock(p)
    /\ icache' = Load(p) /\ Panics(p, "")
    /\ IF Loaded(Ip(p)).type = "dir" /\ loc[p].op # "open rd"
       THEN Return(p, iput("ip")) /\ UNCHANGED lock
       ELSE lock' = [lock EXCEPT ![Ip(p)] = p] /\ Then(p, << <<"opened", "ip">> >>)
    /\ UNCHANGED <<disk, cwd, files, reg, loc, made>>

\* The end of sys_open(): a descriptor takes the reference over, or there is
\* none left and the inode is put.
opened(p) ==
    /\ At(p, "opened")
    /\ lock' = [lock EXCEPT ![Ip(p)] = "none"]
    /\ IF Len(files[p]) < NOFILE
       THEN /\ files' = [files EXCEPT ![p] = Append(@, Ip(p))]
            /\ Point(p, "ip", 0)
            /\ Then(p, <<>>) /\ End(p)
       ELSE Then(p, iput("ip")) /\ UNCHANGED <<files, reg, loc>>
    /\ UNCHANGED <<disk, icache, cwd, made, panic>>

\* Fault: iunlock(ip) forgotten.
Fault_chdir(p) ==
    /\ At(p, "chdir") /\ ilock(p)
    /\ icache' = Load(p) /\ Panics(p, "")
    /\ IF Loaded(Ip(p)).type # "dir"
       THEN Return(p, iput("ip")) /\ UNCHANGED <<cwd, lock, reg>>
       ELSE /\ reg' = [reg EXCEPT ![p]["old"] = cwd[p], ![p]["ip"] = 0]
            /\ lock' = [lock EXCEPT ![Ip(p)] = p]
            /\ cwd' = [cwd EXCEPT ![p] = Ip(p)]
            /\ Return(p, iput("old"))
    /\ UNCHANGED <<disk, files, loc, made>>

chdir(p) ==
    /\ At(p, "chdir") /\ ilock(p)
    /\ icache' = Load(p) /\ Panics(p, "")
    /\ IF Loaded(Ip(p)).type # "dir"
       THEN Return(p, iput("ip")) /\ UNCHANGED <<cwd, reg>>
       ELSE /\ reg' = [reg EXCEPT ![p]["old"] = cwd[p], ![p]["ip"] = 0]
            /\ cwd' = [cwd EXCEPT ![p] = Ip(p)]
            /\ Return(p, iput("old"))
    /\ UNCHANGED <<disk, lock, files, loc, made>>

-------------------------------------------------------------------------------
Step(p) ==
    \/ null(p) \/ namex(p) \/ look(p)
    \/ iput_test(p) \/ iput_free(p) \/ iput_drop(p) \/ iunlock(p)
    \/ link(p) \/ dirlink(p) \/ link_bad(p)
    \/ unlink(p) \/ unlink_entry(p) \/ unlink_ip(p)
    \/ do_create(p) \/ exists(p) \/ fill(p) \/ open(p) \/ opened(p) \/ chdir(p)

Next == \E p \in Proc :
    \/ Step(p)
    \/ \E c \in Calls : syscall(p, c)
    \/ \E k \in 1 .. Len(files[p]) : sys_close(p, k)

Spec == Init /\ [][Next]_vars

-------------------------------------------------------------------------------
\* The type invariant.
TypeOK ==
    /\ dinode \in [Inum -> [type : Type, nlink : Nat]]
    /\ ents \in [Inum -> [Name -> Inum \union {0}]]
    /\ icache \in [Slot -> [inum : Inum \union {0}, ref : Nat, valid : BOOLEAN,
                            type : Type, nlink : Nat]]
    /\ lock \in [Slot -> Proc \union {"none"}]
    /\ cwd \in [Proc -> Slot]
    /\ reg \in [Proc -> [Reg -> Slot \union {0}]]
    /\ \A p \in Proc : Len(files[p]) <= NOFILE /\ \A k \in 1 .. Len(files[p]) : files[p][k] \in Slot
    /\ panic \in STRING

\* The pointers to a slot: current directories, local variables, open files.
Pointers(s) ==
    Cardinality({p \in Proc : cwd[p] = s})
        + Cardinality({<<p, r>> \in Proc \X Reg : reg[p][r] = s})
        + Cardinality({<<p, k>> \in Proc \X (1 .. NOFILE) : k <= Len(files[p]) /\ files[p][k] = s})

\* ip->ref is the number of pointers to the entry (fs.c, "Referencing in
\* cache"), on every path through every call, the failing ones included; and
\* one inode never has two entries in use, so that ip->lock excludes everybody.
RefsCounted ==
    /\ TypeOK
    /\ \A s \in Slot : icache[s].ref = Pointers(s)
    /\ \A s, t \in Slot : /\ icache[s].ref > 0 /\ icache[t].ref > 0
                          /\ icache[s].inum = icache[t].inum
                          => s = t

\* The directories one can reach from the root.
SubDirs(S) == S \union {i \in Inum : /\ dinode[i].type = "dir"
                                     /\ \E d \in S, n \in Plain : ents[d][n] = i}
Tree == LET R[k \in 0 .. NINODES] == IF k = 0 THEN {ROOTINO} ELSE SubDirs(R[k - 1])
        IN R[NINODES]
Entries(i) == {<<d, n>> \in Tree \X (Name \ {"."}) : ents[d][n] = i}

\* A name in the tree never refers to an inode that is free, and nlink never
\* counts fewer links than there are entries, so that no iput() frees an inode
\* that still has a name: between the critical sections of link(), unlink(),
\* create() and iput() in any order, and for "..", which counts for the parent.
\* So no call panics whose path leads down from the root or from a directory that
\* is still in the tree.
NoDanglingName ==
    /\ \A i \in Inum : Entries(i) # {} =>
         dinode[i].type # "free" /\ dinode[i].nlink >= Cardinality(Entries(i))
    /\ panic = ""

\* An unlocked valid entry agrees with the disk (fs.c, iupdate(): "i-node cache
\* is write-through"): a slot that was recycled, or an inode number that was
\* freed and allocated again, never leaves an old copy behind.
CacheCoherent ==
    \A s \in Slot : icache[s].ref > 0 /\ icache[s].valid /\ lock[s] = "none" =>
        /\ dinode[icache[s].inum].type = icache[s].type
        /\ dinode[icache[s].inum].nlink = icache[s].nlink

\* The slot p waits for, and who keeps it from it.
Wants(p) == IF code[p] # <<>> /\ Head(code[p])[1] \in Locking \union {"iput"} THEN Ip(p) ELSE 0
Blocked(p, S) == Wants(p) # 0 /\ lock[Wants(p)] \in S

\* Concurrent link(), unlink() and create() never wait for each other for ever
\* (usertests.c:855, "another concurrent link/unlink/create test, to look for
\* deadlocks"): there is no group of processes each of which waits for an inode
\* that one of them has locked.
NoDeadlock == \A S \in SUBSET Proc \ {{}} : \E p \in S : ~Blocked(p, S)

\* Directories are locked before their entries: when processes wait for each
\* other in a circle, one of them does so in an iput() with an inode locked.
LockOrder ==
    \A S \in SUBSET Proc \ {{}} :
        \/ \E p \in S : ~Blocked(p, S)
        \/ \E p \in S : Head(code[p])[1] = "iput"
====
