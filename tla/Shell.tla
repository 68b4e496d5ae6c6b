--------------------------------- MODULE Shell --------------------------------
(***************************************************************************)
(* The parser of the shell (sh.c).  A command line is a sequence of tokens:  *)
(* gettoken() skips white space and takes a word "a" or one of the symbols.  *)
(* The parse functions return [cmd, rest, ok]: the command, the tokens left, *)
(* and whether panic() was not called.  A command is a record of its type.   *)
(***************************************************************************)
EXTENDS Naturals, Sequences, SequencesExt

CONSTANT MAXARGS       \* words of a command, the terminating 0 included

execcmd(n) == [type |-> "EXEC", argc |-> n]
redircmd(cmd, fd) == [type |-> "REDIR", cmd |-> cmd, fd |-> fd]
pipecmd(left, right) == [type |-> "PIPE", left |-> left, right |-> right]
listcmd(left, right) == [type |-> "LIST", left |-> left, right |-> right]
backcmd(cmd) == [type |-> "BACK", cmd |-> cmd]

peek(s, toks) == s # <<>> /\ Head(s) \in toks
Parsed(cmd, s, ok) == [cmd |-> cmd, rest |-> s, ok |-> ok]
Failed(s) == Parsed(execcmd(0), s, FALSE)

\* Redirections wrap around a command, the last one outermost; fds is the
\* sequence of descriptors they redirect.
Wrapped(cmd, fds) == FoldLeft(redircmd, cmd, fds)

\* parseredirs(): the descriptors of the redirections at the head of s.
RECURSIVE parseredirs(_, _)
parseredirs(fds, s) ==
    IF ~peek(s, {"<", ">"}) THEN [fds |-> fds, rest |-> s, ok |-> TRUE]
    ELSE IF ~peek(Tail(s), {"a"}) THEN [fds |-> fds, rest |-> s, ok |-> FALSE]
    ELSE parseredirs(Append(fds, IF Head(s) = "<" THEN 0 ELSE 1), Tail(Tail(s)))

\* The loop of parseexec() with argc words so far.
RECURSIVE Words(_, _, _)
Words(argc, fds, s) ==
    IF s = <<>> \/ peek(s, {"|", ")", "&", ";"}) THEN Parsed(Wrapped(execcmd(argc), fds), s, TRUE)
    ELSE IF Head(s) # "a" \/ argc + 1 >= MAXARGS THEN Failed(s)
    ELSE LET rs == parseredirs(fds, Tail(s)) IN
         IF rs.ok THEN Words(argc + 1, rs.fds, rs.rest) ELSE Failed(s)

\* Is the next token tok, and has the parser not given up?
After(c, tok) == c.ok /\ peek(c.rest, {tok})

RECURSIVE parseline(_), parsepipe(_), parseexec(_)

\* parseblock(): a line in parentheses, and redirections of all of it.
parseblock(s) ==
    LET c == parseline(Tail(s))
        rs == parseredirs(<<>>, Tail(c.rest))
    IN IF ~After(c, ")") \/ ~rs.ok THEN Failed(s) ELSE Parsed(Wrapped(c.cmd, rs.fds), rs.rest, TRUE)

parseexec(s) ==
    IF peek(s, {"("}) THEN parseblock(s)
    ELSE LET rs == parseredirs(<<>>, s) IN
         IF rs.ok THEN Words(0, rs.fds, rs.rest) ELSE Failed(s)

\* Fault: pipes group to the left, from the first two commands on.
Fault_parsepipe(s) ==
    LET c == parseexec(s)
        d == parseexec(Tail(c.rest))
    IN IF After(c, "|") THEN Parsed(pipecmd(c.cmd, d.cmd), d.rest, d.ok) ELSE c
parsepipe(s) ==
    LET c == parseexec(s)
        d == parsepipe(Tail(c.rest))
    IN IF After(c, "|") THEN Parsed(pipecmd(c.cmd, d.cmd), d.rest, d.ok) ELSE c

\* The loop of parseline() over "&".
RECURSIVE Backs(_)
Backs(c) == IF After(c, "&") THEN Backs(Parsed(backcmd(c.cmd), Tail(c.rest), TRUE)) ELSE c

parseline(s) ==
    LET c == Backs(parsepipe(s))
        d == parseline(Tail(c.rest))
    IN IF After(c, ";") THEN Parsed(listcmd(c.cmd, d.cmd), d.rest, d.ok) ELSE c

\* parsecmd(): the line must be used up.
parsecmd(s) == LET c == parseline(s) IN IF c.ok /\ c.rest = <<>> THEN c ELSE Failed(s)

-----------------------------------------------------------------------------
(* The grammar the parser is checked against, read off a line as a whole: it  *)
(* is split at its first ";" outside parentheses, then "&"s are taken from    *)
(* the end, then it is split at the first "|".                               *)
Number(s, tok) == Len(SelectSeq(s, LAMBDA t : t = tok))
Level(s, k) == Number(SubSeq(s, 1, k), "(") = Number(SubSeq(s, 1, k), ")")
Outside(s, tok) == {k \in 1 .. Len(s) : s[k] = tok /\ Level(s, k)}
FirstOf(S) == CHOOSE k \in S : \A j \in S : k <= j
Before(s, k) == SubSeq(s, 1, k - 1)
Behind(s, k) == SubSeq(s, k + 1, Len(s))
None == [type |-> "none"]
Both(make(_, _), c, d) == IF None \in {c, d} THEN None ELSE make(c, d)

\* Every redirection of s has its file.
Signs(s) == SelectSeq(s, LAMBDA t : t \in {"<", ">"})
Fds(s) == [k \in 1 .. Len(Signs(s)) |-> IF Signs(s)[k] = "<" THEN 0 ELSE 1]
Filed(s) == \A k \in 1 .. Len(s) : s[k] \in {"<", ">"} => k < Len(s) /\ s[k + 1] = "a"

RECURSIVE Line(_)
Command(s) ==
    IF s # <<>> /\ s[1] = "(" THEN
        LET ends == Outside(s, ")") IN
        IF ends = {} THEN None
        ELSE LET k == FirstOf(ends)
                 c == Line(SubSeq(s, 2, k - 1))
                 rest == Behind(s, k)
             IN IF c # None /\ Filed(rest) /\ Range(rest) \subseteq {"<", ">", "a"}
                   /\ Len(rest) = 2 * Len(Signs(rest))
                THEN Wrapped(c, Fds(rest)) ELSE None
    ELSE LET words == Number(s, "a") - Len(Signs(s)) IN
         IF Range(s) \subseteq {"<", ">", "a"} /\ Filed(s) /\ words < MAXARGS
         THEN Wrapped(execcmd(words), Fds(s)) ELSE None
RECURSIVE Pipe(_)
Pipe(s) == IF Outside(s, "|") = {} THEN Command(s)
           ELSE LET k == FirstOf(Outside(s, "|")) IN Both(pipecmd, Command(Before(s, k)), Pipe(Behind(s, k)))
RECURSIVE Job(_)
Job(s) == IF s # <<>> /\ Last(s) = "&" THEN LET c == Job(Front(s)) IN IF c = None THEN None ELSE backcmd(c)
          ELSE Pipe(s)
Line(s) == IF Outside(s, ";") = {} THEN Job(s)
           ELSE LET k == FirstOf(Outside(s, ";")) IN Both(listcmd, Job(Before(s, k)), Line(Behind(s, k)))

\* parsecmd() accepts the lines of the grammar, with their command trees, and
\* no others.
Right(s) == LET c == parsecmd(s) IN IF c.ok THEN Line(s) = c.cmd ELSE Line(s) = None
====
