------------------------------- MODULE Terminal -------------------------------
(***************************************************************************)
(* A user at the console: the shell's main loop (sh.c) reads a line with      *)
(* gets() (ulib.c) from the console, forks a child that parses and runs it,   *)
(* and waits; runcmd() is run by a tree of processes.  A second process reads *)
(* the console too, in larger pieces.  A process is named by the path of      *)
(* forks that led to it; what its descriptors stand for is <<kind, path>>,    *)
(* where a pipe has the name of the process that made it.  A program whose    *)
(* standard input is a pipe ends at end of file, any other when it likes.     *)
(***************************************************************************)
EXTENDS Console, Shell, FiniteSets, TLC

CONSTANTS
    Lines,      \* lines that are there from the start
    LineMax     \* bytes of the shell's buffer

VARIABLES
    sh,         \* main(): "gets", "parse", "wait" or "exit"
    cmdline,    \* main()'s buf
    jobs,       \* lines run so far
    procs       \* [paths -> [pc, cmd, fds, forks, job]]
vars == <<consoleVars, sh, cmdline, jobs, procs>>

Tokens == SelectSeq(cmdline, LAMBDA c : c # "nl")
Closed == <<"closed", <<>>>>
Tty == <<"tty", <<>>>>
NoFds == [d \in 0 .. 4 |-> Closed]

Init ==
    \/ ConsoleInit /\ sh = "gets" /\ cmdline = <<>> /\ jobs = 0 /\ procs = <<>>
    \/ /\ cmdline \in Lines /\ sh = "parse" /\ jobs = 0 /\ procs = <<>>
       /\ buf = [k \in 0 .. INPUT_BUF - 1 |-> "0"] /\ r = 0 /\ w = 0 /\ e = 0
       /\ rd = [p \in Reader |-> Idle] /\ killed = Reader \ {"sh"} /\ typed = MaxKeys
       /\ line = <<>> /\ sent = <<>> /\ owed = 0

-----------------------------------------------------------------------------
(* Processes of runcmd().                                                    *)
Parent(x) == Front(x)
Child(x) == Append(x, procs[x].forks + 1)
New(cmd, fds, pc, job) == [pc |-> pc, cmd |-> cmd, fds |-> fds, forks |-> 0, job |-> job]
Becomes(x, rec) == procs' = [procs EXCEPT ![x] = rec]
Without(P, S) == [x \in DOMAIN P \ S |-> P[x]]

\* fork1(): the parent goes on at pc, the child with cmd.
fork1(x, pc, cmd, childpc, job) ==
    procs' = [procs EXCEPT ![x].forks = @ + 1, ![x].pc = pc]
             @@ (Child(x) :> New(cmd, procs[x].fds, childpc, job))

\* exit(): the descriptors are closed; init reaps what the parent does not.
Gone(P, x) ==
    LET orphans == {y \in DOMAIN P : Len(y) > 1 /\ Parent(y) = x /\ P[y].pc = "zombie"}
        waited == Len(x) = 1 \/ (Parent(x) \in DOMAIN P /\ P[Parent(x)].pc # "zombie")
    IN IF waited THEN [Without(P, orphans) EXCEPT ![x] = [@ EXCEPT !.pc = "zombie", !.fds = NoFds]]
       ELSE Without(P, orphans \union {x})
exit(x) == procs' = Gone(procs, x)

LeastFd(fds) == CHOOSE d \in 0 .. 4 : fds[d] = Closed /\ \A c \in 0 .. d - 1 : fds[c] # Closed
close(fds, d) == [fds EXCEPT ![d] = Closed]
dup(fds, d) == [fds EXCEPT ![LeastFd(fds)] = fds[d]]
open(fds, x) == [fds EXCEPT ![LeastFd(fds)] = <<"file", x>>]

runcmd(x) ==
    LET p == procs[x]
        c == p.cmd
    IN
    /\ p.pc = "run"
    /\ CASE c.type = "EXEC" -> IF c.argc = 0 THEN exit(x) ELSE Becomes(x, [p EXCEPT !.pc = "exec"])
         [] c.type = "REDIR" ->
              \/ Becomes(x, [p EXCEPT !.fds = open(close(@, c.fd), x), !.cmd = c.cmd])
              \/ exit(x)
         [] c.type = "LIST" -> fork1(x, "list", c.left, "run", p.job)
         [] c.type = "PIPE" ->
              Becomes(x, [p EXCEPT !.pc = "pipe", !.fds[3] = <<"read", x>>, !.fds[4] = <<"write", x>>])
         [] c.type = "BACK" ->
              procs' = Gone(procs @@ (Child(x) :> New(c.cmd, p.fds, "run", Child(x))), x)

\* Fault: the writer keeps the read end.
Fault_left(x) ==
    /\ procs[x].pc = "left"
    /\ Becomes(x, [procs[x] EXCEPT !.pc = "run", !.fds = close(dup(close(@, 1), 4), 4)])
\* The children of a pipe, before they run their commands.
left(x) ==
    /\ procs[x].pc = "left"
    /\ Becomes(x, [procs[x] EXCEPT !.pc = "run", !.fds = close(close(dup(close(@, 1), 4), 3), 4)])
right(x) ==
    /\ procs[x].pc = "right"
    /\ Becomes(x, [procs[x] EXCEPT !.pc = "run", !.fds = close(close(dup(close(@, 0), 3), 3), 4)])

\* Fault: the shell keeps the write end of the pipe it waits for.
Fault_pipe(x) ==
    LET p == procs[x] IN
    \/ p.pc = "pipe" /\ fork1(x, "pipe1", p.cmd.left, "left", p.job)
    \/ p.pc = "pipe1" /\ fork1(x, "pipe2", p.cmd.right, "right", p.job)
    \/ p.pc = "pipe2" /\ Becomes(x, [p EXCEPT !.pc = "wait2", !.fds = close(@, 3)])
\* The rest of case PIPE: fork both, close both ends.
pipe(x) ==
    LET p == procs[x] IN
    \/ p.pc = "pipe" /\ fork1(x, "pipe1", p.cmd.left, "left", p.job)
    \/ p.pc = "pipe1" /\ fork1(x, "pipe2", p.cmd.right, "right", p.job)
    \/ p.pc = "pipe2" /\ Becomes(x, [p EXCEPT !.pc = "wait2", !.fds = close(close(@, 3), 4)])

\* wait() takes any child that has ended.
Ended(x) == {y \in DOMAIN procs : y # <<>> /\ Parent(y) = x /\ procs[y].pc = "zombie"}

wait(x) ==
    LET p == procs[x] IN
    \E y \in Ended(x) :
        \/ p.pc = "list" /\ procs' = [Without(procs, {y}) EXCEPT ![x].pc = "run", ![x].cmd = p.cmd.right]
        \/ p.pc = "wait2" /\ procs' = [Without(procs, {y}) EXCEPT ![x].pc = "wait1"]
        \/ p.pc = "wait1" /\ procs' = Gone(Without(procs, {y}), x)

\* The program of a command ends; as a reader of a pipe, at end of file.
Writers(pi) == {x \in DOMAIN procs : \E d \in 0 .. 4 : procs[x].fds[d] = <<"write", pi>>}
program(x) ==
    /\ procs[x].pc = "exec"
    /\ procs[x].fds[0][1] = "read" => Writers(procs[x].fds[0][2]) = {}
    /\ exit(x)

Step == \E x \in DOMAIN procs :
    \/ runcmd(x) \/ left(x) \/ right(x) \/ pipe(x) \/ wait(x) \/ program(x)

-----------------------------------------------------------------------------
(* main().                                                                   *)
\* gets(): one byte at a time, as far as a newline, the end of file or the end
\* of the buffer; an empty line is the end of the shell.
gets ==
    /\ sh = "gets" /\ read("sh", 1)
    /\ UNCHANGED <<input, killed, typed, history, owed, sh, cmdline, jobs, procs>>
gets_byte ==
    /\ sh = "gets" /\ consoleread("sh")
    /\ LET got == IF Stops(1) = {} THEN <<>> ELSE <<Ready[1]>>
           more == IF got = <<"^D">> THEN cmdline ELSE cmdline \o got
       IN /\ cmdline' = more
          /\ sh' = IF got = <<>> THEN "gets"
                   ELSE IF got \in {<<"nl">>, <<"^D">>} \/ Len(more) + 1 >= LineMax
                   THEN (IF more = <<>> THEN "exit" ELSE "parse") ELSE "gets"
    /\ UNCHANGED <<jobs, procs>>

\* fork1(): the child parses the line, and exits if it cannot.
parse ==
    LET c == parsecmd(Tokens)
        tty == [d \in 0 .. 4 |-> IF d <= 2 THEN Tty ELSE Closed]
    IN
    /\ sh = "parse" /\ sh' = "wait"
    /\ jobs' = jobs + 1
    /\ procs' = procs @@ (<<jobs + 1>> :> IF c.ok THEN New(c.cmd, tty, "run", <<>>)
                                          ELSE New(c.cmd, NoFds, "zombie", <<>>))
    /\ UNCHANGED <<consoleVars, cmdline>>

\* wait() for the child; background commands are not children of the shell.
main_wait ==
    /\ sh = "wait" /\ procs[<<jobs>>].pc = "zombie"
    /\ procs' = Without(procs, {<<jobs>>})
    /\ sh' = "gets" /\ cmdline' = <<>>
    /\ UNCHANGED <<consoleVars, jobs>>

\* init.c: wait() returns the shell, and init starts another one; what the old
\* one left in the background runs on.
init ==
    /\ sh = "exit" /\ sh' = "gets" /\ cmdline' = <<>>
    /\ UNCHANGED <<consoleVars, jobs, procs>>

\* The other reader of the console.
other(n) ==
    /\ \/ read("cat", n) /\ UNCHANGED <<input, killed, typed, history, owed>>
       \/ consoleread("cat")
       \/ kill("cat")
    /\ UNCHANGED <<sh, cmdline, jobs, procs>>

CONSTANT ReadSize     \* of the other reader
Next ==
    \/ gets \/ gets_byte \/ parse \/ main_wait \/ init
    \/ Step /\ UNCHANGED <<consoleVars, sh, cmdline, jobs>>
    \/ \E c \in Key : consoleintr(c) /\ UNCHANGED <<sh, cmdline, jobs, procs>>
    \/ other(ReadSize)

\* Processes are scheduled: a step of runcmd(), of main()'s wait() and of init
\* that stays possible is taken, the exit of a program included: programs end once
\* their input does.  Nothing makes the user type.
Fairness == /\ WF_vars(Step /\ UNCHANGED <<consoleVars, sh, cmdline, jobs>>)
            /\ WF_vars(main_wait \/ init)
LiveSpec == Init /\ [][Next]_vars /\ Fairness

-----------------------------------------------------------------------------
\* Types of the variables, and the order of the indices of the ring.
TypeOK ==
    /\ ConsoleTypeOK
    /\ sh \in {"gets", "parse", "wait", "exit"} /\ Len(cmdline) <= LineMax
    /\ \A x \in DOMAIN procs : procs[x].pc \in
          {"run", "exec", "list", "left", "right", "pipe", "pipe1", "pipe2", "wait2", "wait1", "zombie"}

\* parsecmd() builds the tree the grammar gives the line, and rejects the rest.
ParserRight == sh = "parse" => Right(Tokens)

\* A program starts with descriptors 0, 1 and 2 and no others: no end of a pipe
\* of runcmd() leaks into a command, whatever surrounds it.
CleanDescriptors ==
    /\ TypeOK
    /\ \A x \in DOMAIN procs : procs[x].pc = "exec" =>
         /\ procs[x].fds[3] = Closed /\ procs[x].fds[4] = Closed
         /\ \A d \in 0 .. 2 : procs[x].fds[d] # Closed


\* Every line whose programs end, and every shell, comes to its end and is followed
\* by a prompt: a pipeline does not wait for an end of file that the shell itself
\* keeps away.
JobsEnd == sh \in {"wait", "exit"} ~> sh = "gets"
====
