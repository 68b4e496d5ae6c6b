---------------------------------- MODULE Mkfs --------------------------------
(***************************************************************************)
(* The program that makes the first file system image (mkfs.c), as an        *)
(* operator: root directory, one entry and one inode for every file it is    *)
(* given, blocks handed out by a counter and a bitmap written at the end.    *)
(* A directory entry is one cell with the inode number; the image is that of *)
(* module Inode, and what the kernel reads from it is checked there.         *)
(***************************************************************************)
EXTENDS Inode

CONSTANT Files      \* bytes of the files put on the disk

ASSUME MkfsConstants == Files \in Seq(Nat) /\ 1 .. Len(Files) + 1 \subseteq Inode

ROOTINO == 1
FileByte == 3                                      \* what is in the files
HostFile(k) == [j \in 1 .. Files[k] |-> FileByte]

\* iappend(): block fbn of inode i, taken from freeblock if it is not there.
Allocated(im, i, k) ==
    IF im.fs.addrs[i][k] # 0 THEN im
    ELSE [im EXCEPT !.fs.addrs[i][k] = im.freeblock, !.freeblock = @ + 1]
Extended(im, i, fbn) ==
    IF fbn < NDIRECT THEN Allocated(im, i, fbn)
    ELSE LET m == Allocated(im, i, NDIRECT)
             ind == m.fs.addrs[i][NDIRECT]
         IN IF m.fs.cont[ind][fbn - NDIRECT] # 0 THEN m
            ELSE [m EXCEPT !.fs.cont[ind][fbn - NDIRECT] = m.freeblock, !.freeblock = @ + 1]

\* iappend(): the bytes p behind the end of inode i.
iappend(im, i, p) ==
    LET off == im.fs.size[i]
        put(m, fbn) ==
            LET g == Extended(m, i, fbn) IN
            [g EXCEPT !.fs.cont[Addr(g.fs, i, fbn)] =
                [j \in DOMAIN @ |-> IF fbn * BSIZE + j \in off .. off + Len(p) - 1
                                    THEN p[fbn * BSIZE + j - off + 1] ELSE @[j]]]
    IN [FoldLeft(put, im, Touched(off, Len(p))) EXCEPT !.fs.size[i] = off + Len(p)]

\* A file in the loop of main(): its entry, then its bytes, BSIZE at a time.
Added(im, k) ==
    LET s == HostFile(k)
        chunk(n) == SubSeq(s, (n - 1) * BSIZE + 1, IF n * BSIZE > Len(s) THEN Len(s) ELSE n * BSIZE)
    IN FoldLeft(LAMBDA m, n : iappend(m, k + 1, chunk(n)), iappend(im, ROOTINO, <<k + 1>>),
                [n \in 1 .. (Len(s) + BSIZE - 1) \div BSIZE |-> n])

\* main() fixes the size of the root directory.
Rounded(n) == (n \div BSIZE + 1) * BSIZE

\* main() and balloc(): the image; block 1 is the first behind the metadata.
mkfs ==
    LET dots == FoldLeft(LAMBDA m, n : iappend(m, ROOTINO, <<n>>), [fs |-> NewFs, freeblock |-> 1],
                         <<ROOTINO, ROOTINO>>)
        all == FoldLeft(Added, dots, [k \in 1 .. Len(Files) |-> k])
    IN [all.fs EXCEPT !.size[ROOTINO] = Rounded(@), !.used = 1 .. all.freeblock - 1]

\* What ought to be on it.
Entries == <<ROOTINO, ROOTINO>> \o [k \in 1 .. Len(Files) |-> k + 1]
Written0(i) ==
    CASE i = ROOTINO -> [j \in 1 .. mkfs.size[ROOTINO] |-> IF j <= Len(Entries) THEN Entries[j] ELSE 0]
      [] i \in 2 .. Len(Files) + 1 -> HostFile(i - 1)
      [] OTHER -> <<>>
====
