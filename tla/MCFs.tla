--------------------------------- MODULE MCFs ---------------------------------
EXTENDS Fs, TLC

Symmetry == Permutations(Proc)

Call(op, path, new) == [op |-> op, path |-> path, new |-> new]
NoEntries == [n \in Name |-> 0]
Free == [type |-> "free", nlink |-> 0]

\* What mkfs, mkdir a and a program that creates the file b leave behind.
DirAndFile ==
    [dinode |-> [i \in Inum |-> CASE i = 1 -> [type |-> "dir", nlink |-> 2]
                                  [] i = 2 -> [type |-> "dir", nlink |-> 1]
                                  [] i = 3 -> [type |-> "file", nlink |-> 1]
                                  [] OTHER -> Free],
     ents |-> [i \in Inum |->
                 CASE i = 1 -> [n \in Name |-> CASE n = "a" -> 2 [] n = "b" -> 3 [] OTHER -> 1]
                   [] i = 2 -> [n \in Name |-> CASE n = "." -> 2 [] n = ".." -> 1 [] OTHER -> 0]
                   [] OTHER -> NoEntries]]
MCImages == {DirAndFile}

MCCalls == {
    Call("link", <<"b">>, <<"a", "b">>), Call("link", <<"b">>, <<"b">>),
    Call("unlink", <<"b">>, <<>>), Call("unlink", <<"/", "a">>, <<>>),
    Call("unlink", <<"a", "b">>, <<>>),
    Call("create", <<"b">>, <<>>), Call("create", <<"/", "a", "b">>, <<>>),
    Call("open rd", <<"b">>, <<>>), Call("open rw", <<"a">>, <<>>),
    Call("mkdir", <<"a", "b">>, <<>>), Call("mknod", <<"a">>, <<>>),
    Call("chdir", <<"a">>, <<>>), Call("chdir", <<"b">>, <<>>),
    Call("unlink", <<"/">>, <<>>)}
====
