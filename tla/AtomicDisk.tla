------------------------------ MODULE AtomicDisk ------------------------------
(***************************************************************************)
(* What the logging layer promises to the file system (the comment at the  *)
(* top of log.c): the blocks of a disk change durably only in whole         *)
(* transactions, taken when no file-system call is half way through, and a  *)
(* power failure takes every block back to the last transaction.            *)
(***************************************************************************)
CONSTANTS Proc,     \* kernel threads that run file-system calls
          Block,    \* home blocks of the file system
          Val       \* block contents

VARIABLES durable,  \* what the disk holds once recovery has run
          view,     \* what bread() shows to the file system
          active    \* threads between begin_op() and end_op()

avars == <<durable, view, active>>

ATypeOK ==
    /\ durable \in [Block -> Val]
    /\ view \in [Block -> Val]
    /\ active \subseteq Proc

AInit ==
    /\ durable \in [Block -> Val]
    /\ view = durable
    /\ active = {}

ABegin(p) ==
    /\ p \notin active
    /\ active' = active \union {p}
    /\ UNCHANGED <<durable, view>>

AWrite(p, b, v) ==
    /\ p \in active
    /\ view' = [view EXCEPT ![b] = v]
    /\ UNCHANGED <<durable, active>>

AEnd(p) ==
    /\ p \in active
    /\ active' = active \ {p}
    /\ UNCHANGED <<durable, view>>

\* The whole group of finished calls becomes durable in one step.
ACommit ==
    /\ active = {}
    /\ durable' = view
    /\ UNCHANGED <<view, active>>

\* Power failure: every unfinished call, and every call of a group that was
\* not committed, disappears completely.
ACrash ==
    /\ view' = durable
    /\ active' = {}
    /\ UNCHANGED durable

ANext ==
    \/ \E p \in Proc : ABegin(p) \/ AEnd(p)
    \/ \E p \in Proc, b \in Block, v \in Val : AWrite(p, b, v)
    \/ ACommit
    \/ ACrash

ASpec == AInit /\ [][ANext]_avars
===============================================================================
