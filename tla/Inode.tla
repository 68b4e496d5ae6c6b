--------------------------------- MODULE Inode --------------------------------
(***************************************************************************)
(* The content of inodes (fs.c): balloc, bfree, bmap, itrunc, readi and      *)
(* writei as operators on a file system                                      *)
(*   [used, cont, addrs, size, logged, panic]:                               *)
(* the blocks in use, what is in every block, addrs[] and size of every      *)
(* inode, the blocks log_write() was called for, and whether it panicked.    *)
(* A block holds bytes or, as the indirect block, block numbers.  All of it  *)
(* runs with ip->lock held; the bitmap block has a lock of its own.          *)
(***************************************************************************)
EXTENDS Naturals, Sequences, FiniteSets, SequencesExt

CONSTANTS
    Inode,       \* inodes
    BSIZE,       \* bytes in a block
    NDIRECT,     \* direct blocks of an inode
    NINDIRECT,   \* entries of the indirect block
    NBLOCKS      \* data blocks

ASSUME InodeConstants ==
    /\ BSIZE \in Nat \ {0} /\ NDIRECT \in Nat \ {0}
    /\ NINDIRECT \in Nat \ {0} /\ NBLOCKS \in Nat \ {0}

Block == 1 .. NBLOCKS
Bitmap == 0                  \* the bitmap block, and the block of the inodes
InodeBlock == NBLOCKS + 1
MAXFILE == NDIRECT + NINDIRECT
Zeroes == [j \in 0 .. (IF BSIZE > NINDIRECT THEN BSIZE ELSE NINDIRECT) - 1 |-> 0]

NewFs == [used |-> {}, cont |-> [b \in Block |-> Zeroes], logged |-> {}, panic |-> FALSE,
          addrs |-> [i \in Inode |-> [k \in 0 .. NDIRECT |-> 0]], size |-> [i \in Inode |-> 0]]

Free(fs) == Block \ fs.used
First(S) == CHOOSE b \in S : \A c \in S : b <= c

\* The block balloc() returns, and what it does: mark it and zero it.
Fresh(fs) == IF Free(fs) = {} THEN 1 ELSE First(Free(fs))
balloc(fs) ==
    [fs EXCEPT !.used = @ \union {Fresh(fs)}, !.cont[Fresh(fs)] = Zeroes,
               !.logged = @ \union {Bitmap, Fresh(fs)}, !.panic = @ \/ Free(fs) = {}]

bfree(fs, b) ==
    IF b = 0 THEN fs
    ELSE [fs EXCEPT !.used = @ \ {b}, !.logged = @ \union {Bitmap}, !.panic = @ \/ b \notin fs.used]

\* bmap() allocates the block, and the indirect block, if it is not there.
Direct(fs, i, k) ==
    IF fs.addrs[i][k] # 0 THEN fs ELSE [balloc(fs) EXCEPT !.addrs[i][k] = Fresh(fs)]
Indirect(fs, b, k) ==
    IF fs.cont[b][k] # 0 THEN fs
    ELSE [balloc(fs) EXCEPT !.cont[b][k] = Fresh(fs), !.logged = @ \union {b}]
bmap(fs, i, bn) ==
    IF bn < NDIRECT THEN Direct(fs, i, bn)
    ELSE LET d == Direct(fs, i, NDIRECT) IN Indirect(d, d.addrs[i][NDIRECT], bn - NDIRECT)

\* The address bmap() returns.
Addr(fs, i, bn) ==
    IF bn < NDIRECT THEN fs.addrs[i][bn] ELSE fs.cont[fs.addrs[i][NDIRECT]][bn - NDIRECT]

Touched(off, n) == [k \in 1 .. (off + n + BSIZE - 1) \div BSIZE - off \div BSIZE |->
                      off \div BSIZE + k - 1]

\* readi(): the bytes from off, at most n, or -1 behind the end of the file; it
\* calls bmap() for every block, holes included.
Mapped(fs, i, off, n) == FoldLeft(LAMBDA f, bn : bmap(f, i, bn), fs, Touched(off, n))
readi(fs, i, off, n) ==
    LET end == IF off + n > fs.size[i] THEN fs.size[i] ELSE off + n
        g == Mapped(fs, i, off, end - off)
    IN [k \in 1 .. end - off |->
          g.cont[Addr(g, i, (off + k - 1) \div BSIZE)][(off + k - 1) % BSIZE]]

\* The copy loop of writei(): n bytes v at off, one block after the other.
Writable(fs, i, off, n) == off <= fs.size[i] /\ off + n <= MAXFILE * BSIZE
Written(fs, i, off, n, v) ==
    LET put(f, bn) ==
            LET g == bmap(f, i, bn)
                b == Addr(g, i, bn)
                here == {j \in 0 .. BSIZE - 1 : bn * BSIZE + j \in off .. off + n - 1}
            IN [g EXCEPT !.cont[b] = [j \in DOMAIN @ |-> IF j \in here THEN v ELSE @[j]],
                         !.logged = @ \union {b}]
    IN FoldLeft(put, fs, Touched(off, n))

writei(fs, i, off, n, v) ==
    IF n > 0 /\ off + n > fs.size[i]
    THEN [Written(fs, i, off, n, v) EXCEPT !.size[i] = off + n, !.logged = @ \union {InodeBlock}]
    ELSE Written(fs, i, off, n, v)

\* Fault: the blocks named by the indirect block are not freed.
Fault_itrunc(fs, i) ==
    LET all == FoldLeft(LAMBDA f, k : bfree(f, fs.addrs[i][k - 1]), fs, [k \in 1 .. NDIRECT + 1 |-> k])
    IN [all EXCEPT !.addrs[i] = [k \in 0 .. NDIRECT |-> 0], !.size[i] = 0,
                   !.logged = @ \union {InodeBlock}]

\* The first loop of itrunc().
FreeDirect(fs, i) ==
    FoldLeft(LAMBDA f, k : bfree(f, fs.addrs[i][k - 1]), fs, [k \in 1 .. NDIRECT |-> k])

\* itrunc(): every block of the inode is freed, the indirect block last.
itrunc(fs, i) ==
    LET ind == fs.addrs[i][NDIRECT]
        all == IF ind = 0 THEN FreeDirect(fs, i)
               ELSE bfree(FoldLeft(LAMBDA f, k : bfree(f, fs.cont[ind][k - 1]), FreeDirect(fs, i),
                                   [k \in 1 .. NINDIRECT |-> k]), ind)
    IN [all EXCEPT !.addrs[i] = [k \in 0 .. NDIRECT |-> 0], !.size[i] = 0,
                   !.logged = @ \union {InodeBlock}]

\* The blocks of an inode, the indirect one included.
Blocks(fs, i) ==
    LET ind == fs.addrs[i][NDIRECT] IN
    {fs.addrs[i][k] : k \in 0 .. NDIRECT}
        \union IF ind = 0 THEN {} ELSE {fs.cont[ind][k] : k \in 0 .. NINDIRECT - 1}
====
