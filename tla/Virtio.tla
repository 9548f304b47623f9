------------------------------- MODULE Virtio -------------------------------
(***************************************************************************)
(* The disk driver of kernel/virtio_disk.c and, as its environment, the    *)
(* device: descriptors, the avail and used rings, the interrupt and its    *)
(* acknowledgement.  vdisk_lock makes each stretch of virtio_disk_rw       *)
(* between two sleeps one step; the interrupt handler takes several,       *)
(* because the device goes on while it runs.  A process asks for one       *)
(* buffer at a time, so b is named by the process.  A ring slot or a       *)
(* descriptor that nobody reads again is cleared where it is read last.    *)
(***************************************************************************)
EXTENDS Integers, FiniteSetsExt

CONSTANTS Proc, NoProc,
          NUM,       \* descriptors, and slots of a ring (8)
          RingMod,   \* values of a ring index (2^16), a multiple of NUM
          Statuses   \* what the device may report of a request: 0, or an error

ConstantsOK ==
  /\ NUM \in Nat \ {0} /\ RingMod \in Nat \ {0} /\ RingMod % NUM = 0
  /\ NoProc \notin Proc /\ 0 \in Statuses

VARIABLES
  free,                \* disk.free
  chain,               \* chain[i]: the request described from descriptor i on
  info, status,        \* disk.info[i].b and .status: 0, or an error
  avail, availIdx,     \* the avail ring and avail[1]
  used, usedId,        \* the used ring and used->id
  used_idx,            \* disk.used_idx
  busy,                \* b->disk, by process
  pc,                  \* idle, free (asleep on free[0]), retry, wait (asleep on b), woken
  seen, inflight,      \* device: next avail entry, chains it works on
  done,                \* device: the request of a process was carried out
  isr,                 \* device: INTERRUPT_STATUS, which raises the interrupt
  intr                 \* virtio_disk_intr: off, drain, ack, panic (with vdisk_lock held)

rings  == <<avail, availIdx, used, usedId, used_idx>>
device == <<seen, inflight, done, isr>>
vars   == <<free, chain, info, status, rings, busy, pc, device, intr>>

Desc == 0..NUM - 1
Nothing == [req |-> NoProc, rest |-> {}]
FreeDescs == {i \in Desc : free[i]}

\* alloc_desc, three times: the lowest ones.
Lowest3(S) ==
  LET a == Min(S)  b == Min(S \ {a})  c == Min(S \ {a, b}) IN <<a, b, c>>

\* wakeup(&disk.free[0]).
WakeFree(f) == [p \in Proc |-> IF f[p] = "free" THEN "retry" ELSE f[p]]

AllocFails_keeps(p) ==
  /\ free' = [i \in Desc |-> FALSE]
  /\ pc' = [pc EXCEPT ![p] = "free"]

\* alloc3_desc gets fewer than three, gives them back (waking everyone else
\* who waits for descriptors) and its caller sleeps.
AllocFails(p) ==
  /\ pc' = [IF FreeDescs = {} THEN pc ELSE WakeFree(pc) EXCEPT ![p] = "free"]
  /\ UNCHANGED free

\* virtio_disk_rw up to the sleep for the answer.
Submit(p) ==
  /\ pc[p] \in {"idle", "retry"} /\ intr = "off"
  /\ IF Cardinality(FreeDescs) >= 3
     THEN LET idx == Lowest3(FreeDescs) IN
          /\ free' = [i \in Desc |-> free[i] /\ i \notin {idx[1], idx[2], idx[3]}]
          /\ chain' = [chain EXCEPT ![idx[1]] = [req |-> p, rest |-> {idx[2], idx[3]}]]
          /\ info' = [info EXCEPT ![idx[1]] = p] /\ status' = [status EXCEPT ![idx[1]] = 0]
          /\ busy' = [busy EXCEPT ![p] = TRUE]
          /\ avail' = [avail EXCEPT ![availIdx % NUM] = idx[1]]
          /\ availIdx' = (availIdx + 1) % RingMod
          /\ pc' = [pc EXCEPT ![p] = "wait"]
     ELSE /\ AllocFails(p)
          /\ UNCHANGED <<chain, info, status, busy, avail, availIdx>>
  /\ UNCHANGED <<used, usedId, used_idx, device, intr>>

ReturnIf(p, finished) ==
  /\ pc[p] = "woken" /\ intr = "off"
  /\ IF ~finished THEN pc' = [pc EXCEPT ![p] = "wait"] /\ UNCHANGED <<free, info, chain, done>>
     ELSE \E h \in {i \in Desc : info[i] = p} :
            /\ free' = [i \in Desc |-> free[i] \/ i \in {h} \cup chain[h].rest]
            /\ info' = [info EXCEPT ![h] = NoProc]
            /\ chain' = [chain EXCEPT ![h] = Nothing]
            /\ done' = [done EXCEPT ![p] = FALSE]
            /\ pc' = WakeFree([pc EXCEPT ![p] = "idle"])
  /\ UNCHANGED <<status, rings, busy, seen, inflight, isr, intr>>

\* The sleep for the answer returns: free the chain, or sleep again.
Return(p) == ReturnIf(p, ~busy[p])

\* kill() makes a sleeper runnable although nothing has happened.
Kill(p) ==
  /\ pc[p] \in {"free", "wait"}
  /\ pc' = [pc EXCEPT ![p] = IF @ = "free" THEN "retry" ELSE "woken"]
  /\ UNCHANGED <<free, chain, info, status, rings, busy, device, intr>>
-----------------------------------------------------------------------------
(* virtio_disk_intr, with vdisk_lock held.                                 *)

IntrEnter ==
  /\ isr /\ intr = "off" /\ intr' = "drain"
  /\ UNCHANGED <<free, chain, info, status, rings, busy, pc, device>>

\* One round of the loop: the completed request's process is woken.
Serve(next) ==
  LET id == used[used_idx]  p == info[id] IN
  /\ intr = "drain" /\ used_idx % NUM # usedId % NUM
  /\ IF status[id] # 0
     THEN intr' = "panic" /\ UNCHANGED <<busy, pc, used, used_idx>>
     ELSE /\ busy' = [busy EXCEPT ![p] = FALSE]
          /\ pc' = [pc EXCEPT ![p] = IF @ = "wait" THEN "woken" ELSE @]
          /\ used' = [used EXCEPT ![used_idx] = 0]
          /\ used_idx' = next
          /\ UNCHANGED intr
  /\ UNCHANGED <<free, chain, info, status, avail, availIdx, usedId, device>>

IntrServe_catches_up == Serve(usedId % NUM)
IntrServe == Serve((used_idx + 1) % NUM)

IntrDrained ==
  /\ intr = "drain" /\ used_idx % NUM = usedId % NUM /\ intr' = "ack"
  /\ UNCHANGED <<free, chain, info, status, rings, busy, pc, device>>

IntrAck ==
  /\ intr = "ack" /\ intr' = "off" /\ isr' = FALSE
  /\ UNCHANGED <<free, chain, info, status, rings, busy, pc, seen, inflight, done>>
-----------------------------------------------------------------------------
(* The device: it takes requests in order and finishes them in any order,  *)
(* with success or an error.                                               *)

DevTake ==
  /\ seen # availIdx
  /\ inflight' = inflight \cup {avail[seen % NUM]}
  /\ avail' = [avail EXCEPT ![seen % NUM] = 0]
  /\ seen' = (seen + 1) % RingMod
  /\ UNCHANGED <<free, chain, info, status, availIdx, used, usedId, used_idx, busy, pc, done, isr, intr>>

DevFinish(i, st) ==
  /\ i \in inflight
  /\ status' = [status EXCEPT ![i] = st]
  /\ inflight' = inflight \ {i}
  /\ done' = [done EXCEPT ![chain[i].req] = TRUE]
  /\ used' = [used EXCEPT ![usedId % NUM] = i]
  /\ usedId' = (usedId + 1) % RingMod
  /\ isr' = TRUE
  /\ UNCHANGED <<free, chain, info, avail, availIdx, used_idx, busy, pc, seen, intr>>
-----------------------------------------------------------------------------
\* virtio_disk_init.
Init ==
  /\ free = [i \in Desc |-> TRUE]
  /\ chain = [i \in Desc |-> Nothing]
  /\ info = [i \in Desc |-> NoProc] /\ status = [i \in Desc |-> 0]
  /\ avail = [i \in Desc |-> 0] /\ availIdx = 0
  /\ used = [i \in Desc |-> 0] /\ usedId = 0 /\ used_idx = 0
  /\ busy = [p \in Proc |-> FALSE] /\ pc = [p \in Proc |-> "idle"]
  /\ seen = 0 /\ inflight = {} /\ done = [p \in Proc |-> FALSE] /\ isr = FALSE
  /\ intr = "off"

Handler == IntrEnter \/ IntrServe \/ IntrDrained \/ IntrAck
Device  == DevTake \/ \E i \in Desc, st \in Statuses : DevFinish(i, st)
Next    == Handler \/ Device \/ \E p \in Proc : Submit(p) \/ Return(p) \/ Kill(p)

Spec == Init /\ [][Next]_vars
-----------------------------------------------------------------------------
TypeOK ==
  /\ free \in [Desc -> BOOLEAN]
  /\ chain \in [Desc -> [req : Proc \cup {NoProc}, rest : SUBSET Desc]]
  /\ info \in [Desc -> Proc \cup {NoProc}] /\ status \in [Desc -> Statuses]
  /\ avail \in [Desc -> Desc] /\ used \in [Desc -> Desc] /\ used_idx \in Desc
  /\ {availIdx, usedId, seen} \subseteq 0..RingMod - 1
  /\ busy \in [Proc -> BOOLEAN] /\ done \in [Proc -> BOOLEAN] /\ isr \in BOOLEAN
  /\ pc \in [Proc -> {"idle", "free", "retry", "wait", "woken"}]
  /\ inflight \subseteq Desc /\ intr \in {"off", "drain", "ack", "panic"}

Heads == {i \in Desc : info[i] # NoProc}
Chain(h) == {h} \cup chain[h].rest

\* Every descriptor is free or in exactly one live request: none is lost when
\* an allocation fails half way, and none is freed twice.
DescriptorsConserved ==
  /\ \A h, k \in Heads : h # k => Chain(h) \cap Chain(k) = {}
  /\ {i \in Desc : ~free[i]} = UNION {Chain(h) : h \in Heads}

\* While the device may still read a request, its three descriptors and the
\* header on the requester's kernel stack are left alone.
DeviceReadsLiveRequests ==
  \A i \in inflight : i \in Heads /\ info[i] = chain[i].req /\ busy[info[i]]
                      /\ pc[info[i]] \in {"wait", "woken"}

\* In any step: virtio_disk_rw returns only after the device has carried out its request,
\* however the process was woken.
ReturnsWhenDone ==
  \A p \in Proc : pc[p] = "woken" /\ pc'[p] = "idle" => done[p]

-----------------------------------------------------------------------------
(* Where a request is: the invariant behind the properties above.          *)

\* Requests that the device has not taken, and answers not yet served.
Waiting == (availIdx - seen) % RingMod
Given(k) == avail[(seen + k) % NUM]
Answers == ((usedId % NUM) - used_idx) % NUM
Answer(k) == used[(used_idx + k) % NUM]

InRw(p) == pc[p] \in {"wait", "woken"}

\* A request has at least two descriptors, and a process has one request
\* while it is in virtio_disk_rw, to be carried out or carried out.
RequestInv ==
  /\ \A h \in Heads : chain[h].req = info[h] /\ h \notin chain[h].rest /\ chain[h].rest # {}
  /\ \A h, k \in Heads : info[h] = info[k] => h = k
CallInv ==
  \A p \in Proc : /\ InRw(p) <=> \E h \in Heads : info[h] = p
                  /\ InRw(p) <=> busy[p] \/ done[p]

\* The rings hold each request once and never fill up.
RingInv ==
  /\ Waiting < NUM /\ Answers < NUM
  /\ \A k \in 0..Waiting - 1 :
       /\ Given(k) \in Heads \ inflight /\ busy[info[Given(k)]] /\ ~done[info[Given(k)]]
       /\ \A j \in 0..k - 1 : Given(j) # Given(k)
  /\ \A h \in inflight : h \in Heads /\ busy[info[h]] /\ ~done[info[h]]
  /\ \A k \in 0..Answers - 1 :
       /\ Answer(k) \in Heads /\ busy[info[Answer(k)]] /\ done[info[Answer(k)]]
       /\ \A j \in 0..k - 1 : Answer(j) # Answer(k)

\* A request that has not been answered is on a ring or in the device: no
\* index that wraps, and no second interrupt, makes the driver overlook one.
NoRequestLost ==
  \A h \in Heads : busy[info[h]] =>
    \/ h \in inflight
    \/ \E k \in 0..Waiting - 1 : h = Given(k)
    \/ \E k \in 0..Answers - 1 : h = Answer(k)

VirtioInv == TypeOK /\ DescriptorsConserved /\ RequestInv /\ CallInv /\ RingInv /\ NoRequestLost

\* What the driver promises.
DiskRight ==
  /\ [](TypeOK /\ DescriptorsConserved /\ DeviceReadsLiveRequests /\ NoRequestLost)
  /\ [][ReturnsWhenDone]_vars
=============================================================================
