-------------------------------- MODULE Console -------------------------------
(***************************************************************************)
(* Console input (console.c): consoleintr() edits a line in a ring of         *)
(* INPUT_BUF keys with the indices r <= w <= e, consoleread() takes finished   *)
(* lines out of it.  Both run under cons.lock: an interrupt takes one step    *)
(* for a key, a reader one step from a wakeup to the next sleep().  What the  *)
(* keys should come to is kept in line and sent, by the rule of a line that   *)
(* is edited until it is sent.                                               *)
(***************************************************************************)
EXTENDS Integers, Sequences, SequencesExt

CONSTANTS
    Key,         \* keys of the keyboard or serial line
    Reader,      \* processes that read the console
    INPUT_BUF,   \* keys in the ring
    MaxKeys      \* keys typed altogether

ASSUME ConsoleConstants == INPUT_BUF \in Nat \ {0} /\ MaxKeys \in Nat

VARIABLES
    buf, r, w, e,   \* struct input
    rd,             \* [Reader -> [st, n, target]]: locals of consoleread()
    killed,         \* readers that were killed
    typed,          \* keys typed
    line, sent,     \* the line being edited, and the keys sent and not yet taken (history)
    owed            \* ^Ds taken less reads that returned 0 (history)
input == <<buf, r, w, e>>
history == <<line, sent>>
consoleVars == <<buf, r, w, e, rd, killed, typed, line, sent, owed>>

Idle == [st |-> "idle", n |-> 0, target |-> 0]

ConsoleInit ==
    /\ buf = [k \in 0 .. INPUT_BUF - 1 |-> "0"] /\ r = 0 /\ w = 0 /\ e = 0
    /\ rd = [p \in Reader |-> Idle] /\ killed = {}
    /\ typed = 0 /\ line = <<>> /\ sent = <<>> /\ owed = 0

At(k) == buf[k % INPUT_BUF]

\* The number of keys ^U takes back: as far as w or the last newline.
Kill == CHOOSE k \in 0 .. e - w :
    /\ \A j \in e - k .. e - 1 : At(j) # "nl"
    /\ k = e - w \/ At(e - k - 1) = "nl"

\* Fault: a full ring does not send the line.
Fault_Sends(c) == c \in {"nl", "^D"}
Sends(c) == c \in {"nl", "^D"} \/ e + 1 = r + INPUT_BUF

wakeup == rd' = [p \in Reader |-> IF rd[p].st = "sleep" THEN [rd[p] EXCEPT !.st = "run"] ELSE rd[p]]

\* What ^U and ^H take back.
Erases(c) == IF c = "^U" THEN Kill ELSE IF e # w THEN 1 ELSE 0

\* consoleintr() with the next key.
consoleintr(c) ==
    /\ typed < MaxKeys /\ typed' = typed + 1
    /\ CASE c \in {"^U", "^H"} ->
              /\ e' = e - Erases(c)
              /\ line' = IF c = "^U" \/ line = <<>> THEN <<>> ELSE Front(line)
              /\ UNCHANGED <<buf, r, w, rd, sent>>
         [] c \notin {"^U", "^H"} /\ e - r < INPUT_BUF ->
              /\ buf' = [buf EXCEPT ![e % INPUT_BUF] = c]
              /\ e' = e + 1
              /\ IF Sends(c) THEN w' = e + 1 /\ wakeup ELSE UNCHANGED <<w, rd>>
              /\ IF c \in {"nl", "^D"} \/ Len(sent) + Len(line) + 1 = INPUT_BUF
                 THEN sent' = sent \o Append(line, c) /\ line' = <<>>
                 ELSE line' = Append(line, c) /\ UNCHANGED sent
              /\ UNCHANGED r
         [] OTHER -> UNCHANGED <<input, rd, history>>
    /\ UNCHANGED <<killed, owed>>

\* read() of n bytes from the console; a killed process does not come back.
read(p, n) ==
    /\ rd[p].st = "idle" /\ p \notin killed
    /\ rd' = [rd EXCEPT ![p] = [st |-> "run", n |-> n, target |-> n]]

\* Where consoleread() stops: behind the n-th key, a newline or ^D, if it is there.
Ready == [k \in 1 .. w - r |-> At(r + k - 1)]
Stops(n) == {k \in 1 .. Len(Ready) : k = n \/ Ready[k] \in {"nl", "^D"}}
Stop(n) == CHOOSE k \in Stops(n) : \A j \in Stops(n) : k <= j

\* Fault: ^D is taken even if keys come before it.
Fault_Takes(p) == IF Stops(rd[p].n) = {} THEN Len(Ready) ELSE Stop(rd[p].n)
\* The keys it takes; ^D behind others is left for the next read().
Takes(p) ==
    LET n == rd[p].n IN
    IF Stops(n) = {} THEN Len(Ready)
    ELSE IF Ready[Stop(n)] = "^D" /\ n - (Stop(n) - 1) < rd[p].target THEN Stop(n) - 1
    ELSE Stop(n)

\* consoleread(): the keys it got so far count against n.
consoleread(p) ==
    LET k == Takes(p) IN
    /\ rd[p].st = "run"
    /\ r' = r + k
    /\ sent' = SubSeq(sent, k + 1, Len(sent))
    /\ rd' = [rd EXCEPT ![p] = IF Stops(@.n) # {} \/ p \in killed THEN Idle
                                ELSE [@ EXCEPT !.st = "sleep", !.n = @ - k]]
    /\ LET zero == Stops(rd[p].n) # {} /\ rd[p].n = rd[p].target /\ Ready[1] = "^D" IN
       owed' = owed + (IF k > 0 /\ Ready[k] = "^D" THEN 1 ELSE 0) - (IF zero THEN 1 ELSE 0)
    /\ UNCHANGED <<buf, w, e, killed, typed, line>>

\* kill() makes the reader return -1 at its next look at an empty ring.
kill(p) ==
    /\ p \notin killed /\ rd[p].st # "idle"
    /\ killed' = killed \union {p}
    /\ rd' = [rd EXCEPT ![p].st = "run"]
    /\ UNCHANGED <<input, typed, history, owed>>

-----------------------------------------------------------------------------
\* r, w and e are in order and within a ring of each other.
ConsoleTypeOK ==
    /\ r <= w /\ w <= e /\ e <= r + INPUT_BUF
    /\ buf \in [0 .. INPUT_BUF - 1 -> Key \union {"0"}]
    /\ \A p \in Reader : rd[p].st \in {"idle", "run", "sleep"}

\* The readers can take exactly the keys that were sent and not taken before,
\* in order: nothing the user erased, nothing overwritten in the ring.
LineDiscipline == sent = Ready /\ line = [k \in 1 .. e - w |-> At(w + k - 1)]

\* A reader sleeps only while there is nothing to read.
ReaderAwake == \A p \in Reader : rd[p].st = "sleep" => r = w

\* Every ^D makes exactly one read() return 0, however the keys before it were
\* divided among the reads: the end of file is neither missed nor seen twice.
EndOfFile == owed = 0

\* What is sent reaches the readers: a finished line wakes them up, an end of
\* file ends one read (consoleintr(), consoleread()).
ReadersServed == ReaderAwake /\ EndOfFile
====
