----------------------------- MODULE ByteQueue ------------------------------
(* What a pipe promises: bytes come out once, in the order they went in.   *)
EXTENDS Naturals, Sequences

CONSTANTS Byte, Capacity

VARIABLES queue,   \* the bytes written and not yet read
          out      \* the byte read last

Init == queue = <<>> /\ out \in Byte

Put(b) == Len(queue) < Capacity /\ queue' = Append(queue, b) /\ UNCHANGED out

Get == queue # <<>> /\ out' = Head(queue) /\ queue' = Tail(queue)

Next == Get \/ \E b \in Byte : Put(b)

Spec == Init /\ [][Next]_<<queue, out>>
=============================================================================
