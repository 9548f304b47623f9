----------------------------- MODULE AtomicDisk -----------------------------
(***************************************************************************)
(* What the log of kernel/log.c promises to the file system above it.      *)
(*                                                                         *)
(* File-system calls run concurrently between begin_op() and end_op().     *)
(* They see each other's writes at once, in memory.  A crash takes the     *)
(* memory back to the last durable state, and a durable state is one in    *)
(* which no call was half way: the updates of a call reach the disk all    *)
(* together or not at all.                                                 *)
(***************************************************************************)

CONSTANTS Proc,    \* the processes that make file-system calls
          Block,   \* the home block numbers
          Val      \* what a block can contain

VARIABLES mem,       \* what bread() returns for each block
          durable,   \* what each block holds after a crash and recovery
          active     \* the processes between begin_op() and end_op()

vars == <<mem, durable, active>>

Init == /\ mem \in [Block -> Val]
        /\ durable = mem
        /\ active = {}

Begin(p) == /\ p \notin active
            /\ active' = active \cup {p}
            /\ UNCHANGED <<mem, durable>>

Write(p, b, v) == /\ p \in active
                  /\ mem' = [mem EXCEPT ![b] = v]
                  /\ UNCHANGED <<durable, active>>

End(p) == /\ p \in active
          /\ active' = active \ {p}
          /\ UNCHANGED <<mem, durable>>

\* Group commit: everything written so far, at a moment with no call open.
Commit == /\ active = {}
          /\ durable' = mem
          /\ UNCHANGED <<mem, active>>

Crash == /\ mem' = durable
         /\ active' = {}
         /\ UNCHANGED durable

Next == \/ \E p \in Proc : Begin(p) \/ End(p)
        \/ \E p \in Proc, b \in Block, v \in Val : Write(p, b, v)
        \/ Commit
        \/ Crash

Spec == Init /\ [][Next]_vars
=============================================================================
