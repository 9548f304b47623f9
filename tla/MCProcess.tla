----------------------------- MODULE MCProcess ------------------------------
(* Instances of Process for TLC. *)
EXTENDS Process
CONSTANTS c1, c2
CpuSymmetry == {[c \in {c1, c2} |-> c], [c \in {c1, c2} |-> IF c = c1 THEN c2 ELSE c1]}
Boot == <<0>>
Chain(n) == [s \in 1..n |-> s - 1]
Chain3 == Chain(3)
Chain4 == Chain(4)
=============================================================================
