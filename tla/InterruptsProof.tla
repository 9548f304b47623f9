-------------------------- MODULE InterruptsProof ---------------------------
(***************************************************************************)
(* Spinlocks, traps and context switches keep their promises for any       *)
(* number of CPUs and threads.  The argument is local: a step changes one  *)
(* CPU and the context it runs, or hands p->lock between a thread and the  *)
(* scheduler of that CPU, and what a thread saves in sched is what the     *)
(* next CPU needs.                                                         *)
(***************************************************************************)
EXTENDS Interrupts, FiniteSetTheorems, TLAPS

CpuRec == [noff : Int, intena : BOOLEAN, intr : BOOLEAN, stvec : {"uservec", "kernelvec"}, on : Ctx]
CtxRec == [mode : Modes, trap : BOOLEAN, held : SUBSET Lock, want : Lock \cup {None},
           sleep : Lock \cup {None}, out : BOOLEAN, intena : BOOLEAN]

Types ==
  /\ lk \in [Lock -> Cpu \cup {None}]
  /\ cpu \in [Cpu -> CpuRec] /\ th \in [Ctx -> CtxRec]
  /\ \A c \in Cpu : cpu[c].on \in Thread \cup {Idle(c)}
  /\ panic \in BOOLEAN

Inv == Types /\ SwitchInv

\* push_off and pop_off, field by field.
LEMMA PushOffIs ==
  \A k \in CpuRec :
    /\ PushOff(k) \in CpuRec /\ PushOff(k).on = k.on /\ PushOff(k).stvec = k.stvec
    /\ PushOff(k).noff = k.noff + 1 /\ PushOff(k).intr = FALSE
    /\ PushOff(k).intena = IF k.noff = 0 THEN k.intr ELSE k.intena
<1> TAKE k \in CpuRec
<1> DEFINE i == IF k.noff = 0 THEN k.intr ELSE k.intena
<1>1. PushOff(k) = [k EXCEPT !.intr = FALSE, !.intena = i, !.noff = k.noff + 1]
  BY DEF PushOff, CpuRec
<1>2. k.intena \in BOOLEAN /\ k.intr \in BOOLEAN /\ k.noff \in Int
  BY DEF CpuRec
<1>3. i \in BOOLEAN
  BY <1>2, Zenon
<1>4. k.noff + 1 \in Int
  BY <1>2
<1> HIDE DEF i
<1>5. PushOff(k) \in CpuRec
  BY Zenon, <1>1, <1>3, <1>4 DEF CpuRec
<1>6. /\ PushOff(k).on = k.on /\ PushOff(k).stvec = k.stvec /\ PushOff(k).intena = i
      /\ PushOff(k).noff = k.noff + 1 /\ PushOff(k).intr = FALSE
  BY <1>1 DEF CpuRec
<1> QED
  BY <1>5, <1>6 DEF i

LEMMA PopOffIs ==
  \A k \in CpuRec :
    /\ PopOff(k) \in CpuRec /\ PopOff(k).on = k.on /\ PopOff(k).stvec = k.stvec
    /\ PopOff(k).noff = k.noff - 1 /\ PopOff(k).intena = k.intena
    /\ PopOff(k).intr <=> (k.noff = 1 /\ k.intena)
<1> TAKE k \in CpuRec
<1> DEFINE i == k.noff = 1 /\ k.intena
<1>1. PopOff(k) = [k EXCEPT !.noff = k.noff - 1, !.intr = i]
  BY DEF PopOff, CpuRec
<1>2. i \in BOOLEAN
  BY Zenon
<1>3. k.noff - 1 \in Int
  BY DEF CpuRec
<1> HIDE DEF i
<1>4. PopOff(k) \in CpuRec
  BY Zenon, <1>1, <1>2, <1>3 DEF CpuRec
<1>5. /\ PopOff(k).on = k.on /\ PopOff(k).stvec = k.stvec /\ PopOff(k).intr = i
      /\ PopOff(k).noff = k.noff - 1 /\ PopOff(k).intena = k.intena
  BY <1>1 DEF CpuRec
<1> QED
  BY Zenon, <1>4, <1>5 DEF i

\* Contexts are threads and schedulers, and a thread is not a scheduler.
LEMMA Contexts ==
  ASSUME ConstantsOK
  PROVE  /\ Thread \subseteq Ctx /\ Thread \subseteq Lock /\ None \notin Lock
         /\ \A c \in Cpu : Idle(c) \in Ctx /\ Idle(c) \notin Thread /\ Idle(c) \notin Lock
         /\ \A c, d \in Cpu : c # d => Idle(c) # Idle(d)
         /\ \A c, d \in Cpu : c # d => Idle(d) \notin Thread \cup {Idle(c)}
BY DEF ConstantsOK, Ctx, Lock, Idle

\* A step of the context that c runs, without a switch: what holds of c, of
\* its context and of the locks afterwards is all there is to show.
LEMMA LocalStep ==
  ASSUME ConstantsOK, Inv, NEW c \in Cpu,
         cpu' \in [Cpu -> CpuRec], th' \in [Ctx -> CtxRec], lk' \in [Lock -> Cpu \cup {None}],
         ~panic', panic' \in BOOLEAN,
         \A d \in Cpu : d # c => cpu'[d] = cpu[d],
         \A u \in Ctx : u # cpu[c].on => th'[u] = th[u],
         cpu'[c].on = cpu[c].on,
         RunsWell(cpu'[c], th'[cpu[c].on]), HeldWell(th'[cpu[c].on]),
         SleepWell(cpu[c].on, th'[cpu[c].on]), SwitchWell(cpu[c].on, th'[cpu[c].on]),
         \A l \in Lock : lk'[l] = c <=> l \in th'[cpu[c].on].held,
         \A l \in Lock, d \in Cpu : d # c => (lk'[l] = d <=> lk[l] = d)
  PROVE  Inv'
<1> DEFINE t == cpu[c].on
<1>1. t \in Ctx /\ t \in Thread \cup {Idle(c)}
  BY DEF Inv, Types, CpuRec
<1>2. \A d \in Cpu : cpu'[d].on = cpu[d].on
  OBVIOUS
<1>3. \A d \in Cpu : d # c => cpu[d].on # t /\ cpu[d].on \in Ctx
  BY DEF Inv, SwitchInv, CpuInv, Types, CpuRec
<1>4. \A d \in Cpu : d # c => th'[cpu[d].on] = th[cpu[d].on]
  BY <1>3
<1>5. Types'
  BY <1>2 DEF Inv, Types
<1>6. CpuInv'
  <2> SUFFICES ASSUME NEW d \in Cpu
               PROVE  /\ RunsWell(cpu'[d], th'[cpu'[d].on]) /\ HeldWell(th'[cpu'[d].on])
                      /\ SleepWell(cpu'[d].on, th'[cpu'[d].on]) /\ SwitchWell(cpu'[d].on, th'[cpu'[d].on])
                      /\ \A l \in Lock : lk'[l] = d <=> l \in th'[cpu'[d].on].held
                      /\ \A e \in Cpu : d # e => cpu'[d].on # cpu'[e].on
    BY DEF CpuInv, On
  <2>1. \A e \in Cpu : d # e => cpu'[d].on # cpu'[e].on
    BY <1>2 DEF Inv, SwitchInv, CpuInv
  <2>2. CASE d = c
    BY <1>2, <2>1, <2>2
  <2>3. CASE d # c
    BY <1>2, <1>4, <2>1, <2>3 DEF Inv, SwitchInv, CpuInv, On
  <2> QED
    BY <2>2, <2>3
<1>7. ParkedInv'
  <2>1. ASSUME NEW u \in Thread, \A d \in Cpu : cpu'[d].on # u PROVE Parked(th'[u])
    <3>1. u # t /\ u \in Ctx
      BY <1>2, <2>1, Contexts
    <3> QED
      BY <1>2, <2>1, <3>1 DEF Inv, SwitchInv, ParkedInv
  <2>2. ASSUME NEW d \in Cpu
        PROVE  /\ th'[Idle(d)].mode = "scheduler"
               /\ cpu'[d].on # Idle(d) =>
                    /\ th'[Idle(d)].held = {} /\ th'[Idle(d)].want = None
                    /\ th'[Idle(d)].sleep = None /\ ~th'[Idle(d)].trap
    <3>1. CASE Idle(d) = t
      <4>1. d = c
        BY <1>1, <3>1, Contexts
      <4> QED
        BY SMTT(40), <1>2, <3>1, <4>1, Contexts DEF SwitchWell
    <3>2. CASE Idle(d) # t
      <4>1. th'[Idle(d)] = th[Idle(d)]
        BY <3>2, Contexts
      <4> QED
        BY SMTT(40), <1>2, <4>1 DEF Inv, SwitchInv, ParkedInv
    <3> QED
      BY SMTT(40), <3>1, <3>2
  <2> QED
    BY SMTT(40), <2>1, <2>2 DEF ParkedInv, Parked
<1> QED
  BY <1>5, <1>6, <1>7 DEF Inv, SwitchInv

\* What the invariant says of the CPU c and of the context it runs.
LEMMA Known ==
  ASSUME ConstantsOK, Inv, NEW c \in Cpu
  PROVE  /\ cpu[c].on \in Ctx /\ cpu[c].on \in Thread \cup {Idle(c)}
         /\ cpu[c] \in CpuRec /\ On(c) \in CtxRec /\ ~panic
         /\ RunsWell(cpu[c], On(c)) /\ HeldWell(On(c)) /\ SleepWell(cpu[c].on, On(c)) /\ SwitchWell(cpu[c].on, On(c))
         /\ IsFiniteSet(On(c).held) /\ Cardinality(On(c).held) \in Nat /\ cpu[c].noff \in Nat
         /\ \A l \in Lock : lk[l] = c <=> l \in On(c).held
<1>1. cpu[c].on \in Ctx /\ cpu[c].on \in Thread \cup {Idle(c)} /\ cpu[c] \in CpuRec
  BY DEF Inv, Types, CpuRec
<1>2. On(c) \in CtxRec
  BY <1>1 DEF Inv, Types, On
<1>3. /\ RunsWell(cpu[c], On(c)) /\ HeldWell(On(c)) /\ SleepWell(cpu[c].on, On(c)) /\ SwitchWell(cpu[c].on, On(c)) /\ ~panic
      /\ \A l \in Lock : lk[l] = c <=> l \in On(c).held
  BY DEF Inv, SwitchInv, CpuInv
<1>4. IsFiniteSet(On(c).held) /\ Cardinality(On(c).held) \in Nat
  BY <1>3, FS_CardinalityType DEF HeldWell
<1>5. cpu[c].noff \in Nat
  BY <1>3, <1>4 DEF RunsWell
<1> QED
  BY <1>1, <1>2, <1>3, <1>4, <1>5

\* acquire up to the swap, called by sleep or not.
LEMMA SpinStep ==
  ASSUME ConstantsOK, Inv, NEW c \in Cpu, NEW l \in Lock, NEW q \in Lock \cup {None},
         Spin(c, l, q), On(c).want = None, On(c).sleep = None, l \notin On(c).held,
         InKernel(c) \/ cpu[c].on = Idle(c),
         q # None => /\ l = cpu[c].on /\ l \in Thread /\ ~On(c).trap /\ On(c).mode \in {"kernel", "forkret"}
                     /\ q \in {ConsLock, UartLock} /\ On(c).held \subseteq {ConsLock, UartLock}
                     /\ q = ConsLock => UartLock \notin On(c).held
  PROVE  Inv'
<1> DEFINE t == cpu[c].on
           k == cpu[c]
           x == On(c)
           y == th'[t]
<1>1. /\ t \in Ctx /\ t \in Thread \cup {Idle(c)} /\ k \in CpuRec /\ x \in CtxRec /\ ~panic
      /\ RunsWell(k, x) /\ HeldWell(x) /\ SleepWell(t, x) /\ SwitchWell(t, x)
      /\ Cardinality(x.held) \in Nat /\ \A m \in Lock : lk[m] = c <=> m \in x.held
  BY Known
<1>2. cpu' = [cpu EXCEPT ![c] = PushOff(cpu[c])] /\ UNCHANGED lk
      /\ th' = [th EXCEPT ![t].want = l, ![t].sleep = q] /\ panic' = (panic \/ lk[l] = c)
  BY DEF Spin
<1>3. x.want = None /\ l \notin x.held /\ x.sleep = None
  OBVIOUS
<1>4. ~panic' /\ panic' \in BOOLEAN
  BY Zenon, <1>1, <1>2, <1>3
<1>5. /\ cpu' \in [Cpu -> CpuRec] /\ cpu'[c] = PushOff(k)
      /\ \A d \in Cpu : d # c => cpu'[d] = cpu[d]
  BY <1>2, PushOffIs DEF Inv, Types
<1>6. /\ th' \in [Ctx -> CtxRec] /\ \A u \in Ctx : u # t => th'[u] = th[u]
      /\ y.want = l /\ y.held = x.held /\ y.trap = x.trap /\ y.mode = x.mode /\ y.out = x.out
      /\ y.sleep = q
  <2>1. th' = [th EXCEPT ![t] = [x EXCEPT !.want = l, !.sleep = q]] /\ x = th[t]
    BY ZenonT(40), <1>1, <1>2 DEF Inv, Types, CtxRec, On
  <2> HIDE DEF x
  <2>2. [x EXCEPT !.want = l, !.sleep = q] \in CtxRec
    BY ZenonT(40), <1>1 DEF CtxRec
  <2>3. th' \in [Ctx -> CtxRec] /\ (\A u \in Ctx : u # t => th'[u] = th[u])
        /\ y = [x EXCEPT !.want = l, !.sleep = q]
    BY <1>1, <2>1, <2>2 DEF Inv, Types
  <2>4. /\ y.want = l /\ y.held = x.held /\ y.trap = x.trap /\ y.mode = x.mode /\ y.out = x.out
        /\ y.sleep = q
    BY <1>1, <2>3 DEF CtxRec
  <2> QED
    BY <2>3, <2>4
<1>7. l # None
  BY Contexts
<1>8. x.trap \/ x.mode \in {"kernel", "forkret", "scheduler"}
  BY <1>1, Contexts DEF InKernel, SwitchWell
<1>9. q # None => /\ l = t /\ t \in Thread /\ ~x.trap /\ x.mode \in {"kernel", "forkret"}
                  /\ q \in {ConsLock, UartLock} /\ x.held \subseteq {ConsLock, UartLock}
                  /\ q = ConsLock => UartLock \notin x.held
  OBVIOUS
<1> HIDE DEF x, y, k, t
<1>10. /\ cpu'[c].noff = k.noff + 1 /\ cpu'[c].intr = FALSE /\ cpu'[c].stvec = k.stvec
       /\ cpu'[c].intena = (IF k.noff = 0 THEN k.intr ELSE k.intena) /\ cpu'[c].on = k.on
  BY <1>1, <1>5, PushOffIs
<1>11. RunsWell(cpu'[c], y)
  <2>1. cpu'[c].noff = Cardinality(y.held) + (IF y.want = None THEN 0 ELSE 1) /\ k.noff \in Nat
    BY <1>1, <1>3, <1>6, <1>7, <1>10 DEF RunsWell
  <2>2. k.noff = 0 /\ x.trap => ~k.intr
    BY <1>1 DEF RunsWell
  <2>3. x.trap => ~cpu'[c].intena
    BY <1>1, <1>10, <2>1, <2>2 DEF RunsWell
  <2>4. x.mode = "kernel" /\ ~x.trap => cpu'[c].intena
    BY <1>1, <1>10 DEF RunsWell
  <2> QED
    BY SMTT(40), <1>1, <1>6, <1>8, <1>10, <2>1, <2>3, <2>4 DEF RunsWell
<1>12. HeldWell(y) /\ SwitchWell(t, y)
  BY SMTT(40), <1>1, <1>3, <1>6 DEF HeldWell, SwitchWell
<1>13. SleepWell(t, y)
  <2>1. x.mode # "panicked"
    BY <1>1, <1>3, Contexts DEF SleepWell, Lock
  <2>2. CASE q = None
    BY <1>6, <2>1, <2>2 DEF SleepWell
  <2>3. CASE q # None
    BY <1>3, <1>6, <1>9, <2>1, <2>3 DEF SleepWell
  <2> QED
    BY <2>2, <2>3
<1>14. lk' \in [Lock -> Cpu \cup {None}]
  BY <1>2 DEF Inv, Types
<1>15. /\ cpu'[c].on = t /\ \A m \in Lock : lk'[m] = c <=> m \in y.held
       /\ \A m \in Lock, d \in Cpu : d # c => (lk'[m] = d <=> lk[m] = d)
  BY SMTT(40), <1>1, <1>2, <1>6, <1>10 DEF k, t
<1> QED
  BY ZenonT(40), <1>4, <1>5, <1>6, <1>11, <1>12, <1>13, <1>14, <1>15, LocalStep DEF y, t

\* acquire: no caller asks for a lock it holds.
LEMMA AcquireStep ==
  ASSUME ConstantsOK, Inv, NEW c \in Cpu, NEW l \in Lock, Acquire(c, l)
  PROVE  Inv'
<1>1. Takes(c, l) /\ Spin(c, l, None)
  BY DEF Acquire
<1>2. On(c).want = None /\ On(c).sleep = None /\ (InKernel(c) \/ cpu[c].on = Idle(c))
  BY <1>1 DEF Takes
<1>3. l \notin On(c).held
  BY <1>1 DEF Takes, ConstantsOK
<1> QED
  BY <1>1, <1>2, <1>3, SpinStep

\* sleep takes p->lock under the lock it is called with.
LEMMA SleepStep ==
  ASSUME ConstantsOK, Inv, NEW c \in Cpu, NEW q \in Lock, Sleep(c, q)
  PROVE  Inv'
<1>1. /\ cpu[c].on \in Thread /\ InKernel(c) /\ ~On(c).trap /\ On(c).want = None
      /\ On(c).sleep = None /\ q \in On(c).held /\ On(c).held \subseteq {ConsLock, UartLock}
      /\ UartLock \in On(c).held => q = UartLock
      /\ Spin(c, cpu[c].on, q)
  BY DEF Sleep
<1>2. cpu[c].on \in Lock /\ cpu[c].on \notin On(c).held
  BY <1>1, Contexts DEF ConstantsOK
<1>3. On(c).mode \in {"kernel", "forkret"}
  BY <1>1 DEF InKernel
<1>4. q = ConsLock => UartLock \notin On(c).held
  BY <1>1 DEF ConstantsOK
<1> QED
  BY <1>1, <1>2, <1>3, <1>4, SpinStep

\* The swap.
LEMMA TestAndSetStep ==
  ASSUME ConstantsOK, Inv, NEW c \in Cpu, TestAndSet(c)
  PROVE  Inv'
<1> DEFINE t == cpu[c].on
           k == cpu[c]
           x == On(c)
           l == x.want
           y == th'[t]
<1>1. /\ t \in Ctx /\ t \in Thread \cup {Idle(c)} /\ k \in CpuRec /\ x \in CtxRec /\ ~panic
      /\ RunsWell(k, x) /\ HeldWell(x) /\ SleepWell(t, x) /\ SwitchWell(t, x) /\ IsFiniteSet(x.held)
      /\ Cardinality(x.held) \in Nat /\ \A m \in Lock : lk[m] = c <=> m \in x.held
  BY Known
<1>2. /\ l # None /\ lk[l] = None /\ lk' = [lk EXCEPT ![l] = c] /\ UNCHANGED <<cpu, panic>>
      /\ th' = [th EXCEPT ![t].want = None, ![t].held = @ \cup {l}]
  BY DEF TestAndSet, Swap
<1>3. l \in Lock /\ l \notin x.held
  BY <1>1, <1>2 DEF HeldWell
<1>4. /\ th' \in [Ctx -> CtxRec] /\ \A u \in Ctx : u # t => th'[u] = th[u]
      /\ y.want = None /\ y.held = x.held \cup {l} /\ y.trap = x.trap /\ y.mode = x.mode
      /\ y.out = x.out /\ y.sleep = x.sleep
  BY ZenonT(40), <1>1, <1>2, <1>3 DEF Inv, Types, CtxRec, On
<1> HIDE DEF x, y, k, t, l
<1>5. Cardinality(y.held) = Cardinality(x.held) + 1
  <2>1. IsFiniteSet(x.held)
    BY <1>1
  <2>2. Cardinality(x.held \cup {l}) = IF l \in x.held THEN Cardinality(x.held) ELSE Cardinality(x.held) + 1
    BY Zenon, <2>1, FS_AddElement
  <2> QED
    BY <1>3, <1>4, <2>2
<1>6. RunsWell(cpu'[c], y)
  <2>1. cpu'[c] = k
    BY <1>2 DEF k
  <2>2. k.noff = Cardinality(y.held) + (IF y.want = None THEN 0 ELSE 1)
    BY <1>1, <1>2, <1>4, <1>5 DEF RunsWell, l
  <2> QED
    BY <1>1, <1>4, <2>1, <2>2 DEF RunsWell
<1>7. HeldWell(y)
  BY <1>1, <1>4, FS_AddElement DEF HeldWell
<1>8. SleepWell(t, y) /\ SwitchWell(t, y)
  <2>1. x.sleep # None => l = t /\ t \notin x.held
    BY <1>1, <1>2 DEF SleepWell, l
  <2>2. x.mode # "panicked"
    BY <1>1, <1>2, Contexts DEF SleepWell, l, Lock
  <2>3. x.sleep # None => /\ t \in Thread /\ ~x.trap /\ x.mode \in {"kernel", "forkret", "panicked"}
                          /\ x.sleep \in {ConsLock, UartLock} /\ x.held \subseteq {t, ConsLock, UartLock}
                          /\ x.sleep = ConsLock => UartLock \notin x.held
    BY <1>1 DEF SleepWell
  <2>4. t \in Thread => t # UartLock
    BY DEF ConstantsOK
  <2>5. SleepWell(t, y)
    BY <1>4, <2>1, <2>2, <2>3, <2>4 DEF SleepWell
  <2> QED
    BY <1>1, <1>4, <2>5 DEF SwitchWell
<1>9. /\ lk' \in [Lock -> Cpu \cup {None}]
      /\ \A m \in Lock : lk'[m] = c <=> m \in y.held
      /\ \A m \in Lock, d \in Cpu : d # c => (lk'[m] = d <=> lk[m] = d)
  BY <1>1, <1>2, <1>3, <1>4 DEF Inv, Types, ConstantsOK
<1> QED
  BY Zenon, <1>1, <1>2, <1>4, <1>6, <1>7, <1>8, <1>9, LocalStep DEF y, t, k, x, Inv, Types

\* release: the checks in it pass, and the last one restores intena.
LEMMA ReleaseStep ==
  ASSUME ConstantsOK, Inv, NEW c \in Cpu, NEW l \in Lock, Release(c, l)
  PROVE  Inv'
<1> DEFINE t == cpu[c].on
           k == cpu[c]
           x == On(c)
           y == th'[t]
<1>1. /\ t \in Ctx /\ t \in Thread \cup {Idle(c)} /\ k \in CpuRec /\ x \in CtxRec /\ ~panic
      /\ RunsWell(k, x) /\ HeldWell(x) /\ SleepWell(t, x) /\ SwitchWell(t, x) /\ IsFiniteSet(x.held)
      /\ Cardinality(x.held) \in Nat /\ \A m \in Lock : lk[m] = c <=> m \in x.held
  BY Known
<1>2. /\ l \in x.held /\ x.want = None /\ (x.sleep # None => l = x.sleep)
      /\ panic' = (panic \/ lk[l] # c \/ k.intr \/ k.noff < 1)
      /\ lk' = [lk EXCEPT ![l] = None] /\ cpu' = [cpu EXCEPT ![c] = PopOff(cpu[c])]
      /\ th' = [th EXCEPT ![t].held = @ \ {l}]
  BY DEF Release
<1>3. /\ th' \in [Ctx -> CtxRec] /\ \A u \in Ctx : u # t => th'[u] = th[u]
      /\ y.want = None /\ y.held = x.held \ {l} /\ y.trap = x.trap /\ y.mode = x.mode
      /\ y.out = x.out /\ y.sleep = x.sleep
  <2>1. th' = [th EXCEPT ![t] = [x EXCEPT !.held = x.held \ {l}]] /\ x = th[t]
    BY Zenon, <1>1, <1>2 DEF Inv, Types, CtxRec, On
  <2>2. x.held \ {l} \in SUBSET Lock
    BY <1>1 DEF CtxRec
  <2> HIDE DEF x
  <2>3. [x EXCEPT !.held = x.held \ {l}] \in CtxRec
    BY ZenonT(40), <1>1, <2>2 DEF CtxRec
  <2>4. th' \in [Ctx -> CtxRec] /\ (\A u \in Ctx : u # t => th'[u] = th[u])
        /\ y = [x EXCEPT !.held = x.held \ {l}]
    BY <1>1, <2>1, <2>3 DEF Inv, Types
  <2>5. /\ y.want = x.want /\ y.held = x.held \ {l} /\ y.trap = x.trap /\ y.mode = x.mode
        /\ y.out = x.out /\ y.sleep = x.sleep
    BY <1>1, <2>4 DEF CtxRec
  <2> QED
    BY <1>2, <2>4, <2>5
<1>4. /\ cpu' \in [Cpu -> CpuRec] /\ cpu'[c] = PopOff(k)
      /\ \A d \in Cpu : d # c => cpu'[d] = cpu[d]
  BY <1>2, PopOffIs DEF Inv, Types
<1> HIDE DEF x, y, k, t
<1>5. Cardinality(y.held) = Cardinality(x.held) - 1 /\ Cardinality(y.held) \in Nat
  <2>1. IsFiniteSet(x.held \ {l}) /\ Cardinality(x.held \ {l}) =
          IF l \in x.held THEN Cardinality(x.held) - 1 ELSE Cardinality(x.held)
    BY ZenonT(40), <1>1, FS_RemoveElement
  <2>2. Cardinality(x.held \ {l}) \in Nat
    BY <2>1, FS_CardinalityType
  <2> QED
    BY <1>1, <1>2, <1>3, <2>1, <2>2
<1>6. /\ cpu'[c].noff = k.noff - 1 /\ cpu'[c].intena = k.intena /\ cpu'[c].stvec = k.stvec
      /\ cpu'[c].intr <=> (k.noff = 1 /\ k.intena)
      /\ cpu'[c].on = k.on
  BY <1>1, <1>4, PopOffIs
<1>7. k.noff = Cardinality(x.held) /\ k.noff >= 1 /\ k.noff \in Nat /\ ~k.intr
  BY <1>1, <1>2, <1>3, <1>5 DEF RunsWell
<1>8. ~panic' /\ panic' \in BOOLEAN
  <2>1. lk[l] = c /\ ~k.intr /\ ~panic
    BY <1>1, <1>2, <1>7
  <2>2. ~(k.noff < 1)
    BY <1>7
  <2>3. panic' = (panic \/ lk[l] # c \/ k.intr \/ k.noff < 1)
    BY <1>2
  <2> QED
    BY <2>1, <2>2, <2>3, Zenon
<1>9. /\ x.mode # "panicked"
      /\ x.trap \/ x.mode \in {"kernel", "forkret", "scheduler"}
  <2>1. x.mode # "panicked"
    BY <1>1, <1>2, Contexts DEF SleepWell, Lock, ConstantsOK
  <2> QED
    BY <1>1, <1>7, <2>1 DEF RunsWell
<1>10. RunsWell(cpu'[c], y)
  <2>1. cpu'[c].noff = Cardinality(y.held) + (IF y.want = None THEN 0 ELSE 1)
    BY <1>3, <1>5, <1>6, <1>7
  <2>2. x.trap => ~k.intena
    BY <1>1, <1>7 DEF RunsWell
  <2>3. x.mode = "kernel" /\ ~x.trap => k.intena
    BY <1>1, <1>7 DEF RunsWell
  <2>4. cpu'[c].noff > 0 \/ x.trap => ~cpu'[c].intr
    BY <1>6, <1>7, <2>2
  <2>5. x.mode = "kernel" /\ ~x.trap => IF cpu'[c].noff = 0 THEN cpu'[c].intr ELSE cpu'[c].intena
    BY <1>6, <1>7, <2>3
  <2>6. x.mode # "new" /\ x.mode # "leaving"
    BY <1>1, <1>9 DEF RunsWell
  <2> QED
    BY <1>1, <1>3, <1>6, <1>9, <2>1, <2>2, <2>4, <2>5, <2>6 DEF RunsWell
<1>11. HeldWell(y)
  BY <1>1, <1>3, FS_RemoveElement DEF HeldWell
<1>12. SleepWell(t, y) /\ SwitchWell(t, y)
  <2>1. ASSUME x.sleep = None PROVE SleepWell(t, y)
    BY <1>3, <1>9, <2>1 DEF SleepWell
  <2>2. ASSUME x.sleep # None PROVE SleepWell(t, y)
    <3>1. /\ t \in Thread /\ ~x.trap /\ x.mode \in {"kernel", "forkret", "panicked"}
          /\ x.sleep \in {ConsLock, UartLock} /\ x.held \subseteq {t, ConsLock, UartLock}
          /\ x.sleep = ConsLock => UartLock \notin x.held
          /\ IF t \in x.held THEN x.want = None ELSE x.want = t
      BY <1>1, <2>2 DEF SleepWell
    <3>2. l # t
      BY <1>2, <2>2, <3>1 DEF ConstantsOK
    <3>3. t \in x.held
      BY <1>2, <3>1, Contexts
    <3> QED
      BY <1>3, <1>9, <3>1, <3>2, <3>3 DEF SleepWell
  <2>3. SleepWell(t, y)
    BY <2>1, <2>2
  <2> QED
    BY <1>1, <1>3, <2>3 DEF SwitchWell
<1>13. /\ lk' \in [Lock -> Cpu \cup {None}]
       /\ \A m \in Lock : lk'[m] = c <=> m \in y.held
       /\ \A m \in Lock, d \in Cpu : d # c => (lk'[m] = d <=> lk[m] = d)
  BY <1>1, <1>2, <1>3 DEF Inv, Types, ConstantsOK
<1> QED
  BY ZenonT(40), <1>3, <1>4, <1>6, <1>8, <1>10, <1>11, <1>12, <1>13, LocalStep DEF y, t, k, x

\* intr_on at the top of the scheduler's loop.
LEMMA IntrOnStep ==
  ASSUME ConstantsOK, Inv, NEW c \in Cpu, IntrOn(c)
  PROVE  Inv'
<1> DEFINE t == cpu[c].on
           k == cpu[c]
           x == On(c)
           j == cpu'[c]
<1>1. /\ t \in Ctx /\ k \in CpuRec /\ x \in CtxRec /\ ~panic
      /\ RunsWell(k, x) /\ HeldWell(x) /\ SleepWell(t, x) /\ SwitchWell(t, x)
      /\ \A m \in Lock : lk[m] = c <=> m \in x.held
  BY Known
<1>2. /\ t = Idle(c) /\ x.held = {} /\ x.want = None /\ ~x.trap
      /\ cpu' = [cpu EXCEPT ![c].intr = TRUE] /\ UNCHANGED <<lk, th, panic>>
  BY DEF IntrOn
<1>3. /\ cpu' \in [Cpu -> CpuRec] /\ \A d \in Cpu : d # c => cpu'[d] = cpu[d]
      /\ j.noff = k.noff /\ j.intena = k.intena /\ j.stvec = k.stvec /\ j.on = k.on /\ j.intr = TRUE
  BY Zenon, <1>1, <1>2 DEF Inv, Types, CpuRec
<1>4. th' \in [Ctx -> CtxRec] /\ lk' \in [Lock -> Cpu \cup {None}] /\ panic' \in BOOLEAN
      /\ th'[t] = x
  BY <1>2 DEF Inv, Types, On
<1> HIDE DEF t, k, x, j
<1>5. k.noff = 0 /\ x.mode = "scheduler"
  <2>1. Cardinality({}) = 0
    BY FS_EmptySet
  <2> QED
    BY <1>1, <1>2, <2>1, Contexts DEF RunsWell, SwitchWell
<1>6. RunsWell(j, x)
  BY <1>1, <1>2, <1>3, <1>5 DEF RunsWell
<1>7. /\ \A m \in Lock : lk'[m] = c <=> m \in x.held
      /\ \A m \in Lock, d \in Cpu : d # c => (lk'[m] = d <=> lk[m] = d)
  BY <1>1, <1>2
<1>8. j.on = t /\ ~panic' /\ \A u \in Ctx : th'[u] = th[u]
  BY <1>1, <1>2, <1>3 DEF k, t
<1> QED
  BY ZenonT(40), <1>1, <1>3, <1>4, <1>6, <1>7, <1>8, LocalStep DEF t, j

\* A system call: stvec is uservec, and interrupts come on.
LEMMA SyscallStep ==
  ASSUME ConstantsOK, Inv, NEW c \in Cpu, Syscall(c)
  PROVE  Inv'
<1> DEFINE t == cpu[c].on
           k == cpu[c]
           x == On(c)
           j == cpu'[c]
           y == th'[t]
<1>1. /\ t \in Ctx /\ k \in CpuRec /\ x \in CtxRec /\ ~panic
      /\ RunsWell(k, x) /\ HeldWell(x) /\ SleepWell(t, x) /\ SwitchWell(t, x) /\ k.noff \in Nat
      /\ \A m \in Lock : lk[m] = c <=> m \in x.held
  BY Known
<1>2. /\ x.mode = "user" /\ ~x.trap
      /\ cpu' = [cpu EXCEPT ![c].stvec = "kernelvec", ![c].intr = TRUE]
      /\ th' = [th EXCEPT ![t].mode = "kernel"]
      /\ panic' = (panic \/ k.stvec # "uservec") /\ UNCHANGED lk
  BY DEF Syscall
<1>3. /\ cpu' \in [Cpu -> CpuRec] /\ \A d \in Cpu : d # c => cpu'[d] = cpu[d]
      /\ j.noff = k.noff /\ j.intena = k.intena /\ j.stvec = "kernelvec" /\ j.on = k.on /\ j.intr = TRUE
  BY Zenon, <1>1, <1>2 DEF Inv, Types, CpuRec
<1>4. /\ th' \in [Ctx -> CtxRec] /\ \A u \in Ctx : u # t => th'[u] = th[u]
      /\ y.want = x.want /\ y.held = x.held /\ y.trap = x.trap /\ y.mode = "kernel" /\ y.out = x.out
      /\ y.sleep = x.sleep
  BY SMTT(40), <1>1, <1>2 DEF Inv, Types, CtxRec, On, Modes
<1>5. lk' \in [Lock -> Cpu \cup {None}]
  BY <1>2 DEF Inv, Types
<1> HIDE DEF t, k, x, j, y
<1>6. k.noff = 0 /\ k.stvec = "uservec"
  BY <1>1, <1>2 DEF RunsWell
<1>7. ~panic' /\ panic' \in BOOLEAN
  BY Zenon, <1>1, <1>2, <1>6
<1>8. RunsWell(j, y)
  <2>1. j.noff = Cardinality(y.held) + (IF y.want = None THEN 0 ELSE 1) /\ j.noff = 0
    BY <1>1, <1>3, <1>4, <1>6 DEF RunsWell
  <2> QED
    BY <1>2, <1>3, <1>4, <2>1 DEF RunsWell
<1>9. HeldWell(y) /\ SleepWell(t, y) /\ SwitchWell(t, y)
  BY <1>1, <1>2, <1>4 DEF HeldWell, SleepWell, SwitchWell
<1>10. /\ \A m \in Lock : lk'[m] = c <=> m \in y.held
       /\ \A m \in Lock, d \in Cpu : d # c => (lk'[m] = d <=> lk[m] = d)
  BY <1>1, <1>2, <1>4
<1>11. j.on = t
  BY <1>3 DEF k, t
<1> QED
  BY ZenonT(40), <1>3, <1>4, <1>5, <1>7, <1>8, <1>9, <1>10, <1>11, LocalStep DEF t, j, y

\* An interrupt: stvec is of the mode it comes from.
LEMMA InterruptStep ==
  ASSUME ConstantsOK, Inv, NEW c \in Cpu, Interrupt(c)
  PROVE  Inv'
<1> DEFINE t == cpu[c].on
           k == cpu[c]
           x == On(c)
           j == cpu'[c]
           y == th'[t]
<1>1. /\ t \in Ctx /\ k \in CpuRec /\ x \in CtxRec /\ ~panic
      /\ RunsWell(k, x) /\ HeldWell(x) /\ SleepWell(t, x) /\ SwitchWell(t, x) /\ k.noff \in Nat
      /\ \A m \in Lock : lk[m] = c <=> m \in x.held
      /\ IsFiniteSet(x.held) /\ Cardinality(x.held) \in Nat
  BY Known
<1>2. /\ k.intr
      /\ cpu' = [cpu EXCEPT ![c].intr = FALSE, ![c].stvec = "kernelvec"]
      /\ th' = [th EXCEPT ![t].trap = TRUE]
      /\ panic' = (panic \/ k.stvec # IF x.mode = "user" THEN "uservec" ELSE "kernelvec") /\ UNCHANGED lk
  BY DEF Interrupt
<1>3. /\ cpu' \in [Cpu -> CpuRec] /\ \A d \in Cpu : d # c => cpu'[d] = cpu[d]
      /\ j.noff = k.noff /\ j.intena = k.intena /\ j.stvec = "kernelvec" /\ j.on = k.on /\ j.intr = FALSE
  BY Zenon, <1>1, <1>2 DEF Inv, Types, CpuRec
<1>4. /\ th' \in [Ctx -> CtxRec] /\ \A u \in Ctx : u # t => th'[u] = th[u]
      /\ y.want = x.want /\ y.held = x.held /\ y.trap = TRUE /\ y.mode = x.mode /\ y.out = x.out
      /\ y.sleep = x.sleep
  BY Zenon, <1>1, <1>2 DEF Inv, Types, CtxRec, On
<1>5. lk' \in [Lock -> Cpu \cup {None}]
  BY <1>2 DEF Inv, Types
<1> HIDE DEF t, k, x, j, y
<1>6. k.noff = 0 /\ ~x.trap /\ x.mode \notin {"leaving", "new"}
  BY <1>1, <1>2 DEF RunsWell
<1>7. x.held = {} /\ x.want = None
  <2>1. Cardinality(x.held) = 0 /\ x.want = None
    BY <1>1, <1>6 DEF RunsWell
  <2> QED
    BY <1>1, <2>1, FS_EmptySet
<1>8. x.sleep = None /\ x.mode # "panicked"
  BY <1>1, <1>7, Contexts DEF SleepWell
<1>9. k.stvec = IF x.mode = "user" THEN "uservec" ELSE "kernelvec"
  BY <1>1, <1>6 DEF RunsWell
<1>10. ~panic' /\ panic' \in BOOLEAN
  BY Zenon, <1>1, <1>2, <1>9
<1>11. RunsWell(j, y)
  <2>1. j.noff = Cardinality(y.held) + (IF y.want = None THEN 0 ELSE 1) /\ j.noff = 0
    BY <1>1, <1>3, <1>4, <1>6 DEF RunsWell
  <2> QED
    BY <1>3, <1>4, <1>6, <1>8, <2>1 DEF RunsWell
<1>12. HeldWell(y) /\ SleepWell(t, y) /\ SwitchWell(t, y)
  BY <1>1, <1>4, <1>8 DEF HeldWell, SleepWell, SwitchWell
<1>13. /\ \A m \in Lock : lk'[m] = c <=> m \in y.held
       /\ \A m \in Lock, d \in Cpu : d # c => (lk'[m] = d <=> lk[m] = d)
  BY <1>1, <1>2, <1>4
<1>14. j.on = t
  BY <1>3 DEF k, t
<1> QED
  BY ZenonT(40), <1>3, <1>4, <1>5, <1>10, <1>11, <1>12, <1>13, <1>14, LocalStep DEF t, j, y

\* kerneltrap returns.
LEMMA KernelTrapRetStep ==
  ASSUME ConstantsOK, Inv, NEW c \in Cpu, KernelTrapRet(c)
  PROVE  Inv'
<1> DEFINE t == cpu[c].on
           k == cpu[c]
           x == On(c)
           j == cpu'[c]
           y == th'[t]
<1>1. /\ t \in Ctx /\ k \in CpuRec /\ x \in CtxRec /\ ~panic
      /\ RunsWell(k, x) /\ HeldWell(x) /\ SleepWell(t, x) /\ SwitchWell(t, x)
      /\ \A m \in Lock : lk[m] = c <=> m \in x.held
  BY Known
<1>2. /\ x.trap /\ x.held = {} /\ x.want = None /\ x.mode # "user"
      /\ cpu' = [cpu EXCEPT ![c].intr = TRUE] /\ th' = [th EXCEPT ![t].trap = FALSE]
      /\ UNCHANGED <<lk, panic>>
  BY DEF KernelTrapRet, InHandler
<1>3. /\ cpu' \in [Cpu -> CpuRec] /\ \A d \in Cpu : d # c => cpu'[d] = cpu[d]
      /\ j.noff = k.noff /\ j.intena = k.intena /\ j.stvec = k.stvec /\ j.on = k.on /\ j.intr = TRUE
  BY Zenon, <1>1, <1>2 DEF Inv, Types, CpuRec
<1>4. /\ th' \in [Ctx -> CtxRec] /\ \A u \in Ctx : u # t => th'[u] = th[u]
      /\ y.want = x.want /\ y.held = x.held /\ y.trap = FALSE /\ y.mode = x.mode /\ y.out = x.out
      /\ y.sleep = x.sleep
  BY Zenon, <1>1, <1>2 DEF Inv, Types, CtxRec, On
<1>5. lk' \in [Lock -> Cpu \cup {None}] /\ panic' \in BOOLEAN
  BY <1>2 DEF Inv, Types
<1> HIDE DEF t, k, x, j, y
<1>6. k.noff = 0
  <2>1. Cardinality({}) = 0
    BY FS_EmptySet
  <2> QED
    BY <1>1, <1>2, <2>1 DEF RunsWell
<1>7. RunsWell(j, y)
  <2>1. j.noff = Cardinality(y.held) + (IF y.want = None THEN 0 ELSE 1) /\ j.noff = 0
    BY SMTT(40), <1>1, <1>3, <1>4, <1>6 DEF RunsWell
  <2>2. x.mode # "leaving" /\ x.mode # "new" /\ k.stvec = "kernelvec"
    BY <1>1, <1>2 DEF RunsWell
  <2> QED
    BY <1>2, <1>3, <1>4, <2>1, <2>2 DEF RunsWell
<1>8. HeldWell(y) /\ SleepWell(t, y) /\ SwitchWell(t, y)
  BY <1>1, <1>2, <1>4 DEF HeldWell, SleepWell, SwitchWell
<1>9. /\ \A m \in Lock : lk'[m] = c <=> m \in y.held
      /\ \A m \in Lock, d \in Cpu : d # c => (lk'[m] = d <=> lk[m] = d)
  BY <1>1, <1>2, <1>4
<1>10. j.on = t /\ ~panic'
  BY <1>1, <1>2, <1>3 DEF k, t
<1> QED
  BY ZenonT(40), <1>3, <1>4, <1>5, <1>7, <1>8, <1>9, <1>10, LocalStep DEF t, j, y

\* usertrapret, up to the sret.
LEMMA UserTrapRetStep ==
  ASSUME ConstantsOK, Inv, NEW c \in Cpu, UserTrapRet(c)
  PROVE  Inv'
<1> DEFINE t == cpu[c].on
           k == cpu[c]
           x == On(c)
           j == cpu'[c]
           y == th'[t]
<1>1. /\ t \in Ctx /\ k \in CpuRec /\ x \in CtxRec /\ ~panic
      /\ RunsWell(k, x) /\ HeldWell(x) /\ SleepWell(t, x) /\ SwitchWell(t, x)
      /\ \A m \in Lock : lk[m] = c <=> m \in x.held
  BY Known
<1>2. /\ t \in Thread /\ x.held = {} /\ x.want = None
      /\ cpu' = [cpu EXCEPT ![c] = Leaving(cpu[c])]
      /\ th' = [th EXCEPT ![t].mode = "leaving", ![t].trap = FALSE]
      /\ UNCHANGED <<lk, panic>>
  BY DEF UserTrapRet
<1>3. /\ cpu' \in [Cpu -> CpuRec] /\ \A d \in Cpu : d # c => cpu'[d] = cpu[d]
      /\ j.noff = k.noff /\ j.stvec = "uservec" /\ j.on = k.on /\ j.intr = FALSE
  BY Zenon, <1>1, <1>2 DEF Inv, Types, CpuRec, Leaving
<1>4. /\ th' \in [Ctx -> CtxRec] /\ \A u \in Ctx : u # t => th'[u] = th[u]
      /\ y.want = x.want /\ y.held = x.held /\ y.trap = FALSE /\ y.mode = "leaving" /\ y.out = x.out
      /\ y.sleep = x.sleep
  BY SMTT(40), <1>1, <1>2 DEF Inv, Types, CtxRec, On, Modes
<1>5. lk' \in [Lock -> Cpu \cup {None}] /\ panic' \in BOOLEAN
  BY <1>2 DEF Inv, Types
<1> HIDE DEF t, k, x, j, y
<1>6. j.noff = 0 /\ j.noff = Cardinality(y.held) + (IF y.want = None THEN 0 ELSE 1)
  <2>1. Cardinality({}) = 0
    BY FS_EmptySet
  <2>2. k.noff = Cardinality(x.held) + (IF x.want = None THEN 0 ELSE 1)
    BY <1>1 DEF RunsWell
  <2> QED
    BY <1>2, <1>3, <1>4, <2>1, <2>2
<1>7. RunsWell(j, y)
  BY <1>3, <1>4, <1>6 DEF RunsWell
<1>8. HeldWell(y) /\ SleepWell(t, y) /\ SwitchWell(t, y)
  <2>1. x.sleep = None
    BY SMTT(40), <1>1, <1>2, Contexts DEF SleepWell
  <2> QED
    BY SMTT(40), <1>1, <1>2, <1>4, <2>1 DEF HeldWell, SleepWell, SwitchWell
<1>9. /\ \A m \in Lock : lk'[m] = c <=> m \in y.held
      /\ \A m \in Lock, d \in Cpu : d # c => (lk'[m] = d <=> lk[m] = d)
  BY SMTT(40), <1>1, <1>2, <1>4
<1>10. j.on = t /\ ~panic'
  BY <1>1, <1>2, <1>3 DEF k, t
<1> QED
  BY ZenonT(40), <1>3, <1>4, <1>5, <1>7, <1>8, <1>9, <1>10, LocalStep DEF t, j, y

\* The sret of userret.
LEMMA SretStep ==
  ASSUME ConstantsOK, Inv, NEW c \in Cpu, Sret(c)
  PROVE  Inv'
<1> DEFINE t == cpu[c].on
           k == cpu[c]
           x == On(c)
           j == cpu'[c]
           y == th'[t]
<1>1. /\ t \in Ctx /\ k \in CpuRec /\ x \in CtxRec /\ ~panic
      /\ RunsWell(k, x) /\ HeldWell(x) /\ SleepWell(t, x) /\ SwitchWell(t, x) /\ k.noff \in Nat
      /\ \A m \in Lock : lk[m] = c <=> m \in x.held
  BY Known
<1>2. /\ x.mode = "leaving"
      /\ cpu' = [cpu EXCEPT ![c].intr = TRUE] /\ th' = [th EXCEPT ![t].mode = "user"]
      /\ UNCHANGED <<lk, panic>>
  BY DEF Sret
<1>3. /\ cpu' \in [Cpu -> CpuRec] /\ \A d \in Cpu : d # c => cpu'[d] = cpu[d]
      /\ j.noff = k.noff /\ j.stvec = k.stvec /\ j.on = k.on /\ j.intr = TRUE
  BY Zenon, <1>1, <1>2 DEF Inv, Types, CpuRec
<1>4. /\ th' \in [Ctx -> CtxRec] /\ \A u \in Ctx : u # t => th'[u] = th[u]
      /\ y.want = x.want /\ y.held = x.held /\ y.trap = x.trap /\ y.mode = "user" /\ y.out = x.out
      /\ y.sleep = x.sleep
  BY ZenonT(40), <1>1, <1>2 DEF Inv, Types, CtxRec, On, Modes
<1>5. lk' \in [Lock -> Cpu \cup {None}] /\ panic' \in BOOLEAN
  BY <1>2 DEF Inv, Types
<1> HIDE DEF t, k, x, j, y
<1>6. ~x.trap /\ k.noff = 0 /\ k.stvec = "uservec"
  BY SMTT(40), <1>1, <1>2 DEF RunsWell
<1>7. RunsWell(j, y)
  <2>1. j.noff = 0 /\ j.noff = Cardinality(y.held) + (IF y.want = None THEN 0 ELSE 1)
    BY <1>1, <1>3, <1>4, <1>6 DEF RunsWell
  <2> QED
    BY SMTT(40), <1>3, <1>4, <1>6, <2>1 DEF RunsWell
<1>8. HeldWell(y) /\ SleepWell(t, y) /\ SwitchWell(t, y)
  BY <1>1, <1>2, <1>4 DEF HeldWell, SleepWell, SwitchWell
<1>9. /\ \A m \in Lock : lk'[m] = c <=> m \in y.held
      /\ \A m \in Lock, d \in Cpu : d # c => (lk'[m] = d <=> lk[m] = d)
  BY <1>1, <1>2, <1>4
<1>10. j.on = t /\ ~panic'
  BY <1>1, <1>2, <1>3 DEF k, t
<1> QED
  BY ZenonT(40), <1>3, <1>4, <1>5, <1>7, <1>8, <1>9, <1>10, LocalStep DEF t, j, y

\* sched, when its checks pass: the thread is parked with its intena, and the
\* scheduler of the same CPU holds p->lock.
LEMMA SchedSwitches ==
  ASSUME ConstantsOK, Inv, NEW c \in Cpu, Sched(c), cpu[c].noff = 1, ~cpu[c].intr, lk[cpu[c].on] = c
  PROVE  Inv'
<1> DEFINE t == cpu[c].on
           s == Idle(c)
           k == cpu[c]
           x == On(c)
           z == th[s]
           j == cpu'[c]
<1>1. /\ t \in Ctx /\ k \in CpuRec /\ x \in CtxRec /\ ~panic
      /\ RunsWell(k, x) /\ HeldWell(x) /\ SleepWell(t, x) /\ SwitchWell(t, x)
      /\ \A m \in Lock : lk[m] = c <=> m \in x.held
  BY SMTT(40), Known
<1>2. t \in Thread /\ t \in x.held /\ x.want = None /\ x.mode # "panicked"
  BY Zenon DEF Sched, CallsSched
<1>3. /\ th' = [th EXCEPT ![t].held = {}, ![t].sleep = None, ![t].out = TRUE,
                           ![t].intena = k.intena, ![s].held = {t}]
       /\ cpu' = [cpu EXCEPT ![c].on = s] /\ UNCHANGED <<lk, panic>>
  <2>1. ~(lk[t] # c \/ k.noff # 1 \/ k.intr)
    OBVIOUS
  <2> QED
    BY Zenon, <2>1 DEF Sched
<1>4. s \in Ctx /\ s # t /\ t \in Lock /\ s \notin Thread /\ z \in CtxRec
  BY SMTT(40), <1>2, Contexts DEF Inv, Types
<1>5. z.held = {} /\ z.want = None /\ z.sleep = None /\ ~z.trap /\ z.mode = "scheduler"
  BY <1>4 DEF Inv, SwitchInv, ParkedInv
<1>6. /\ cpu' \in [Cpu -> CpuRec] /\ \A d \in Cpu : d # c => cpu'[d] = cpu[d]
      /\ j.noff = k.noff /\ j.intena = k.intena /\ j.stvec = k.stvec /\ j.on = s /\ j.intr = k.intr
  BY SMTT(40), <1>1, <1>4, <1>3 DEF Inv, Types, CpuRec
<1>7. k.intena \in BOOLEAN
  BY <1>1 DEF CpuRec
<1>8. th' = [[th EXCEPT ![t] = [x EXCEPT !.held = {}, !.sleep = None, !.out = TRUE, !.intena = k.intena]]
                 EXCEPT ![s] = [z EXCEPT !.held = {t}]]
  BY ZenonT(60), <1>1, <1>4, <1>3 DEF Inv, Types, CtxRec, On
<1>9. /\ [x EXCEPT !.held = {}, !.sleep = None, !.out = TRUE, !.intena = k.intena] \in CtxRec
      /\ [z EXCEPT !.held = {t}] \in CtxRec
  BY Zenon, <1>1, <1>4, <1>7 DEF CtxRec
<1>10. th' \in [Ctx -> CtxRec] /\ \A u \in Ctx : u # t /\ u # s => th'[u] = th[u]
  BY SMTT(40), <1>1, <1>4, <1>8, <1>9 DEF Inv, Types
<1>11. /\ th'[t] = [x EXCEPT !.held = {}, !.sleep = None, !.out = TRUE, !.intena = k.intena]
       /\ th'[s] = [z EXCEPT !.held = {t}]
  BY <1>1, <1>4, <1>8 DEF Inv, Types
<1> DEFINE y == th'[t]
           w == th'[s]
<1>12. /\ y.held = {} /\ y.want = None /\ y.trap = x.trap /\ y.mode = x.mode /\ y.intena = k.intena
       /\ w.held = {t} /\ w.want = None /\ w.trap = z.trap /\ w.mode = "scheduler"
       /\ y.sleep = None /\ w.sleep = None
  <2> HIDE DEF x, z, y, w, k, t, s
  <2>1. y = [x EXCEPT !.held = {}, !.sleep = None, !.out = TRUE, !.intena = k.intena] /\ w = [z EXCEPT !.held = {t}]
    BY <1>11 DEF y, w
  <2>2. /\ y.held = {} /\ y.want = x.want /\ y.trap = x.trap /\ y.mode = x.mode
        /\ y.intena = k.intena /\ y.sleep = None
    BY <1>1, <2>1 DEF CtxRec
  <2>3. w.held = {t} /\ w.want = z.want /\ w.trap = z.trap /\ w.mode = z.mode /\ w.sleep = z.sleep
    BY SMTT(40), <1>4, <2>1 DEF CtxRec
  <2> QED
    BY <1>2, <1>5, <2>2, <2>3
<1> HIDE DEF k, x, z, j, y, w
<1>13. Cardinality({t}) = 1
  BY Zenon, FS_Singleton
<1>14. k.noff = 1 /\ ~k.intr /\ lk[t] = c
  BY DEF k
<1>15. x.trap \/ x.mode \in {"kernel", "forkret"}
  BY <1>1, <1>2, <1>14 DEF RunsWell, SwitchWell
<1>16. ~panic' /\ panic' \in BOOLEAN
  BY SMTT(40), <1>1, <1>3 DEF Inv, Types
<1>17. x.held = {t}
  <2>1. Cardinality(x.held) = 1 /\ IsFiniteSet(x.held)
    <3>1. k.noff = Cardinality(x.held) + 0
      BY SMTT(40), <1>1, <1>2 DEF RunsWell
    <3>2. IsFiniteSet(x.held) /\ Cardinality(x.held) \in Nat
      BY <1>1, FS_CardinalityType DEF HeldWell
    <3> QED
      BY <1>14, <3>1, <3>2
  <2>2. PICK e : x.held = {e}
    BY <2>1, FS_Singleton
  <2> QED
    BY SMTT(40), <1>2, <2>2
<1>18. Parked(y)
  <2>1. x.mode # "leaving" /\ x.mode # "new" /\ x.mode # "scheduler" /\ x.mode \in Modes
    BY ZenonT(40), <1>1, <1>2, <1>15 DEF RunsWell, SwitchWell, CtxRec
  <2>2. x.trap => ~k.intena
    BY SMTT(40), <1>1, <1>14 DEF RunsWell
  <2>3. x.mode = "kernel" /\ ~x.trap => k.intena
    BY <1>1, <1>14 DEF RunsWell
  <2> QED
    BY SMTT(40), <1>2, <1>12, <1>15, <2>1, <2>2, <2>3 DEF Parked, Modes
<1>19. RunsWell(j, w)
  <2>1. k.stvec = "kernelvec"
    <3>1. x.mode # "leaving"
      BY <1>1, <1>15 DEF RunsWell
    <3> QED
      BY SMTT(40), <1>1, <1>15, <3>1 DEF RunsWell
  <2>2. j.noff = Cardinality(w.held) + (IF w.want = None THEN 0 ELSE 1)
    BY <1>6, <1>12, <1>13, <1>14
  <2> QED
    BY SMTT(40), <1>5, <1>6, <1>12, <1>14, <2>1, <2>2 DEF RunsWell
<1>20. HeldWell(w) /\ SleepWell(s, w) /\ SwitchWell(s, w)
  <2>1. IsFiniteSet({t})
    BY Zenon, FS_Singleton
  <2> QED
    BY <1>4, <1>12, <2>1 DEF HeldWell, SleepWell, SwitchWell
<1>21. \A d \in Cpu : d # c => /\ cpu'[d].on = cpu[d].on /\ cpu[d].on # t /\ cpu[d].on # s
                               /\ th'[cpu[d].on] = th[cpu[d].on]
  <2> SUFFICES ASSUME NEW d \in Cpu, d # c
               PROVE  /\ cpu'[d].on = cpu[d].on /\ cpu[d].on # t /\ cpu[d].on # s
                      /\ th'[cpu[d].on] = th[cpu[d].on]
    OBVIOUS
  <2>1. cpu[d].on \in Ctx /\ cpu[d].on \in Thread \cup {Idle(d)} /\ cpu[d].on # t
    BY DEF Inv, Types, CpuRec, SwitchInv, CpuInv
  <2>2. cpu[d].on # s
    BY <2>1, Contexts
  <2> QED
    BY <1>6, <1>10, <2>1, <2>2
<1>22. Types'
  <2>1. lk' \in [Lock -> Cpu \cup {None}]
    BY SMTT(40), <1>3 DEF Inv, Types
  <2>2. \A d \in Cpu : cpu'[d].on \in Thread \cup {Idle(d)}
    BY <1>6, <1>21 DEF Inv, Types, j
  <2> QED
    BY <1>6, <1>10, <1>16, <2>1, <2>2 DEF Types
<1>23. CpuInv'
  <2> SUFFICES ASSUME NEW d \in Cpu
               PROVE  /\ RunsWell(cpu'[d], th'[cpu'[d].on]) /\ HeldWell(th'[cpu'[d].on])
                      /\ SleepWell(cpu'[d].on, th'[cpu'[d].on]) /\ SwitchWell(cpu'[d].on, th'[cpu'[d].on])
                      /\ \A l \in Lock : lk'[l] = d <=> l \in th'[cpu'[d].on].held
                      /\ \A e \in Cpu : d # e => cpu'[d].on # cpu'[e].on
    BY <1>16 DEF CpuInv, On
  <2>1. \A e \in Cpu : d # e => cpu'[d].on # cpu'[e].on
    BY <1>6, <1>21 DEF Inv, SwitchInv, CpuInv, j
  <2>2. CASE d = c
    <3>1. cpu'[d] = j /\ cpu'[d].on = s /\ th'[cpu'[d].on] = w
      BY <1>6, <2>2 DEF j, w
    <3>2. \A l \in Lock : lk'[l] = d <=> l \in w.held
      BY <1>1, <1>12, <1>17, <1>3, <2>2
    <3> QED
      BY <1>19, <1>20, <2>1, <3>1, <3>2
  <2>3. CASE d # c
    <3>1. cpu'[d] = cpu[d] /\ th'[cpu'[d].on] = On(d) /\ lk' = lk
      BY Zenon, <1>6, <1>21, <1>3, <2>3 DEF On
    <3>2. /\ RunsWell(cpu[d], On(d)) /\ HeldWell(On(d)) /\ SleepWell(cpu[d].on, On(d)) /\ SwitchWell(cpu[d].on, On(d))
          /\ \A l \in Lock : lk[l] = d <=> l \in On(d).held
      BY Known
    <3> QED
      BY <2>1, <3>1, <3>2
  <2> QED
    BY <2>2, <2>3
<1>24. ParkedInv'
  <2>1. ASSUME NEW u \in Thread, \A d \in Cpu : cpu'[d].on # u PROVE Parked(th'[u])
    <3>1. CASE u = t
      BY <1>18, <3>1 DEF y
    <3>2. CASE u # t
      <4>1. \A d \in Cpu : cpu[d].on # u
        BY <1>21, <2>1, <3>2
      <4>2. th'[u] = th[u]
        BY <1>4, <1>10, <3>2, Contexts
      <4> QED
        BY <4>1, <4>2 DEF Inv, SwitchInv, ParkedInv
    <3> QED
      BY <3>1, <3>2
  <2>2. ASSUME NEW d \in Cpu
        PROVE  /\ th'[Idle(d)].mode = "scheduler"
               /\ cpu'[d].on # Idle(d) =>
                    /\ th'[Idle(d)].held = {} /\ th'[Idle(d)].want = None
                    /\ th'[Idle(d)].sleep = None /\ ~th'[Idle(d)].trap
    <3>1. CASE d = c
      BY <1>6, <1>12, <3>1 DEF w, j
    <3>2. CASE d # c
      <4>1. Idle(d) \in Ctx /\ Idle(d) # t /\ Idle(d) # s
        BY <1>2, <3>2, Contexts DEF s
      <4>2. th'[Idle(d)] = th[Idle(d)]
        BY <1>10, <4>1
      <4> QED
        BY <1>21, <3>2, <4>2 DEF Inv, SwitchInv, ParkedInv
    <3> QED
      BY <3>1, <3>2
  <2> QED
    BY <2>1, <2>2 DEF ParkedInv, Parked
<1> QED
  BY <1>22, <1>23, <1>24 DEF Inv, SwitchInv

\* sched, when a check fails: the caller is sleep, called by uartputc under
\* the cons.lock of consolewrite.
LEMMA SchedPanics ==
  ASSUME ConstantsOK, Inv, NEW c \in Cpu, Sched(c),
         cpu[c].noff # 1 \/ cpu[c].intr \/ lk[cpu[c].on] # c
  PROVE  Inv'
<1> DEFINE t == cpu[c].on
           k == cpu[c]
           x == On(c)
           y == th'[t]
<1>1. /\ t \in Ctx /\ k \in CpuRec /\ x \in CtxRec /\ ~panic
      /\ RunsWell(k, x) /\ HeldWell(x) /\ SleepWell(t, x) /\ SwitchWell(t, x)
      /\ Cardinality(x.held) \in Nat /\ \A m \in Lock : lk[m] = c <=> m \in x.held
  BY Known
<1>2. /\ t \in Thread /\ t \in x.held /\ x.want = None /\ x.mode # "panicked"
      /\ IF x.sleep = None THEN x.held = {t} ELSE x.sleep \notin x.held
  BY Zenon DEF Sched, CallsSched
<1>3. th' = [th EXCEPT ![t].mode = "panicked"] /\ UNCHANGED <<lk, panic, cpu>>
  <2>1. lk[t] # c \/ k.noff # 1 \/ k.intr
    OBVIOUS
  <2> QED
    BY Zenon, <2>1 DEF Sched
<1>4. /\ th' \in [Ctx -> CtxRec] /\ \A u \in Ctx : u # t => th'[u] = th[u]
      /\ y.want = x.want /\ y.held = x.held /\ y.trap = x.trap /\ y.mode = "panicked" /\ y.out = x.out
      /\ y.sleep = x.sleep
  BY SMTT(40), <1>1, <1>3 DEF Inv, Types, CtxRec, On, Modes
<1>5. k.noff # 1 \/ k.intr \/ lk[t] # c
  OBVIOUS
<1>6. t \in Lock
  BY <1>2, Contexts
<1> HIDE DEF t, k, x, y
<1>7. k.noff = Cardinality(x.held) /\ k.noff \in Nat
  BY <1>1, <1>2 DEF RunsWell
<1>8. lk[t] = c
  BY <1>1, <1>2, <1>6
<1>9. x.held # {t}
  <2> SUFFICES ASSUME x.held = {t} PROVE FALSE
    OBVIOUS
  <2>1. Cardinality({t}) = 1
    BY Zenon, FS_Singleton
  <2>2. k.noff = 1
    BY <1>7, <2>1
  <2> QED
    BY <1>1, <1>5, <1>8, <2>2 DEF RunsWell
<1>10. k.noff > 0
  <2>1. Cardinality(x.held) # 0
    BY <1>1, <1>2, FS_EmptySet DEF HeldWell
  <2> QED
    BY <1>7, <2>1
<1>11. x.sleep = UartLock /\ x.held = {t, ConsLock} /\ ~x.trap /\ x.mode \in {"kernel", "forkret"}
  BY <1>1, <1>2, <1>9 DEF SleepWell
<1>12. RunsWell(k, y)
  <2>1. k.noff = Cardinality(y.held) + (IF y.want = None THEN 0 ELSE 1)
    BY <1>1, <1>4 DEF RunsWell
  <2>2. ~k.intr /\ k.stvec = "kernelvec"
    BY <1>1, <1>10, <1>11 DEF RunsWell
  <2> QED
    BY SMTT(40), <1>4, <1>10, <1>11, <2>1, <2>2 DEF RunsWell
<1>13. HeldWell(y) /\ SwitchWell(t, y)
  BY <1>1, <1>2, <1>4 DEF HeldWell, SwitchWell
<1>14. SleepWell(t, y)
  <2>1. UartLock # ConsLock /\ t # UartLock /\ UartLock # None
    BY <1>2, Contexts DEF ConstantsOK, Lock
  <2> QED
    BY <1>2, <1>4, <1>11, <2>1 DEF SleepWell
<1>15. /\ lk' \in [Lock -> Cpu \cup {None}] /\ cpu' \in [Cpu -> CpuRec] /\ panic' \in BOOLEAN /\ ~panic'
       /\ cpu'[c] = k /\ cpu'[c].on = t /\ \A d \in Cpu : cpu'[d] = cpu[d]
  BY <1>1, <1>3 DEF Inv, Types, k, t
<1>16. /\ \A m \in Lock : lk'[m] = c <=> m \in y.held
       /\ \A m \in Lock, d \in Cpu : d # c => (lk'[m] = d <=> lk[m] = d)
  BY <1>1, <1>4, <1>3
<1> QED
  BY ZenonT(40), <1>4, <1>12, <1>13, <1>14, <1>15, <1>16, LocalStep DEF t, y

\* The scheduler switches to a thread that waits in sched or has never run:
\* no other CPU runs it, and its own intena comes back.
LEMMA DispatchStep ==
  ASSUME ConstantsOK, Inv, NEW c \in Cpu, NEW t \in Thread, Dispatch(c, t)
  PROVE  Inv'
<1> DEFINE s == Idle(c)
           k == cpu[c]
           x == On(c)
           z == th[t]
           j == cpu'[c]
           m == IF z.mode = "new" THEN "forkret" ELSE z.mode
           i == Restored(c, t)
<1>1. /\ k \in CpuRec /\ x \in CtxRec /\ ~panic
      /\ RunsWell(k, x) /\ HeldWell(x) /\ SleepWell(cpu[c].on, x) /\ SwitchWell(cpu[c].on, x)
      /\ \A l \in Lock : lk[l] = c <=> l \in x.held
  BY Known
<1>2. /\ cpu[c].on = s /\ x.held = {t} /\ ~x.trap /\ x.want = None /\ z.out
      /\ th' = [th EXCEPT ![s].held = {}, ![t].held = {t}, ![t].out = FALSE,
                          ![t].mode = IF @ = "new" THEN "forkret" ELSE @]
      /\ cpu' = [cpu EXCEPT ![c].on = t, ![c].intena = i] /\ UNCHANGED <<lk, panic>>
  BY DEF Dispatch
<1>3. s \in Ctx /\ s # t /\ t \in Lock /\ t \in Ctx /\ s \notin Thread /\ z \in CtxRec /\ x = th[s]
  BY <1>2, Contexts DEF Inv, Types, On
<1>4. \A d \in Cpu : cpu[d].on # t
  BY SMTT(40), <1>2, Known DEF On, SwitchWell
<1>5. Parked(z)
  BY <1>4 DEF Inv, SwitchInv, ParkedInv
<1>6. i = (IF z.mode = "new" THEN k.intena ELSE z.intena) /\ i \in BOOLEAN
  <2>1. i = (IF z.mode = "new" THEN k.intena ELSE z.intena)
    BY DEF Restored
  <2>2. k.intena \in BOOLEAN /\ z.intena \in BOOLEAN
    BY <1>1, <1>3 DEF CpuRec, CtxRec
  <2> QED
    BY <2>1, <2>2, Zenon
<1> HIDE DEF i
<1>7. /\ cpu' \in [Cpu -> CpuRec] /\ \A d \in Cpu : d # c => cpu'[d] = cpu[d]
      /\ j.noff = k.noff /\ j.intena = i /\ j.stvec = k.stvec /\ j.on = t /\ j.intr = k.intr
  BY ZenonT(40), <1>1, <1>2, <1>3, <1>6 DEF Inv, Types, CpuRec
<1>8. th' = [[th EXCEPT ![s] = [x EXCEPT !.held = {}]]
                 EXCEPT ![t] = [z EXCEPT !.held = {t}, !.out = FALSE, !.mode = m]]
  BY Zenon, <1>2, <1>3 DEF Inv, Types, CtxRec
<1>9. m \in Modes
  BY <1>3 DEF CtxRec, Modes
<1> HIDE DEF m, z, x
<1>10. [x EXCEPT !.held = {}] \in CtxRec /\ [z EXCEPT !.held = {t}, !.out = FALSE, !.mode = m] \in CtxRec
  BY Zenon, <1>1, <1>3, <1>9 DEF CtxRec
<1>11. th' \in [Ctx -> CtxRec] /\ \A u \in Ctx : u # t /\ u # s => th'[u] = th[u]
  BY Zenon, <1>3, <1>8, <1>10 DEF Inv, Types
<1> DEFINE y == th'[t]
           w == th'[s]
<1>12. w = [x EXCEPT !.held = {}] /\ y = [z EXCEPT !.held = {t}, !.out = FALSE, !.mode = m]
  BY Zenon, <1>3, <1>8 DEF Inv, Types
<1> HIDE DEF y, w, j, k, s
<1>13. /\ y.held = {t} /\ y.want = z.want /\ y.trap = z.trap /\ y.mode = m
       /\ w.held = {} /\ w.want = x.want /\ w.trap = x.trap /\ w.mode = x.mode
       /\ y.out = FALSE /\ y.sleep = z.sleep /\ w.sleep = x.sleep
  BY <1>1, <1>3, <1>12 DEF CtxRec
<1>14. x.want = None /\ ~x.trap /\ x.mode = "scheduler" /\ x.sleep = None
  BY <1>1, <1>2, <1>3 DEF SleepWell, SwitchWell
<1>15. Cardinality({t}) = 1
  BY Zenon, FS_Singleton
<1>16. k.noff = 1 /\ ~k.intr /\ k.stvec = "kernelvec"
  <2>1. k.noff = Cardinality(x.held) + (IF x.want = None THEN 0 ELSE 1)
    BY <1>1 DEF RunsWell
  <2>2. k.noff = 1
    BY <1>2, <1>14, <1>15, <2>1
  <2> QED
    BY <1>1, <1>14, <2>2 DEF RunsWell
<1>17. RunsWell(j, y)
  <2>1. j.noff = Cardinality(y.held) + (IF y.want = None THEN 0 ELSE 1)
    BY <1>5, <1>7, <1>13, <1>15, <1>16 DEF Parked
  <2>2. m \in {"kernel", "forkret"} \/ (m = "user" /\ z.trap)
    BY <1>5 DEF Parked, m
  <2>3. z.trap => ~i
    BY <1>5, <1>6 DEF Parked
  <2>4. m = "kernel" /\ ~z.trap => i
    BY <1>5, <1>6 DEF Parked, m
  <2> QED
    BY SMTT(40), <1>7, <1>13, <1>16, <2>1, <2>2, <2>3, <2>4 DEF RunsWell
<1>18. y.want = None /\ y.mode \notin {"scheduler", "panicked"} /\ y.sleep = None
  BY <1>5, <1>13 DEF Parked, m
<1>19. HeldWell(y) /\ SleepWell(t, y) /\ SwitchWell(t, y)
  <2>1. IsFiniteSet({t})
    BY Zenon, FS_Singleton
  <2> QED
    BY <1>13, <1>18, <2>1 DEF HeldWell, SleepWell, SwitchWell
<1>20. \A d \in Cpu : d # c => /\ cpu'[d].on = cpu[d].on /\ cpu[d].on # s
                               /\ th'[cpu[d].on] = th[cpu[d].on]
  <2> SUFFICES ASSUME NEW d \in Cpu, d # c
               PROVE  /\ cpu'[d].on = cpu[d].on /\ cpu[d].on # s
                      /\ th'[cpu[d].on] = th[cpu[d].on]
    OBVIOUS
  <2>1. cpu[d].on \in Ctx /\ cpu[d].on # cpu[c].on
    BY DEF Inv, Types, CpuRec, SwitchInv, CpuInv
  <2> QED
    BY SMTT(40), <1>2, <1>4, <1>7, <1>11, <2>1
<1>21. Types'
  <2>1. lk' \in [Lock -> Cpu \cup {None}] /\ panic' \in BOOLEAN
    BY <1>2 DEF Inv, Types
  <2>2. \A d \in Cpu : cpu'[d].on \in Thread \cup {Idle(d)}
    BY <1>7, <1>20 DEF Inv, Types, j
  <2> QED
    BY <1>7, <1>11, <2>1, <2>2 DEF Types
<1>22. ~panic'
  BY <1>1, <1>2
<1>23. CpuInv'
  <2> SUFFICES ASSUME NEW d \in Cpu
               PROVE  /\ RunsWell(cpu'[d], th'[cpu'[d].on]) /\ HeldWell(th'[cpu'[d].on])
                      /\ SleepWell(cpu'[d].on, th'[cpu'[d].on]) /\ SwitchWell(cpu'[d].on, th'[cpu'[d].on])
                      /\ \A l \in Lock : lk'[l] = d <=> l \in th'[cpu'[d].on].held
                      /\ \A e \in Cpu : d # e => cpu'[d].on # cpu'[e].on
    BY Zenon, <1>22 DEF CpuInv, On
  <2>1. \A e \in Cpu : d # e => cpu'[d].on # cpu'[e].on
    BY <1>4, <1>7, <1>20 DEF Inv, SwitchInv, CpuInv, j
  <2>2. CASE d = c
    <3>1. cpu'[d] = j /\ cpu'[d].on = t /\ th'[cpu'[d].on] = y
      BY <1>7, <2>2 DEF j, y
    <3>2. \A l \in Lock : lk'[l] = d <=> l \in y.held
      BY <1>1, <1>2, <1>13, <2>2
    <3> QED
      BY <1>17, <1>19, <2>1, <3>1, <3>2
  <2>3. CASE d # c
    <3>1. cpu'[d] = cpu[d] /\ th'[cpu'[d].on] = On(d) /\ lk' = lk
      BY ZenonT(40), <1>2, <1>7, <1>20, <2>3 DEF On
    <3>2. /\ RunsWell(cpu[d], On(d)) /\ HeldWell(On(d)) /\ SleepWell(cpu[d].on, On(d)) /\ SwitchWell(cpu[d].on, On(d))
          /\ \A l \in Lock : lk[l] = d <=> l \in On(d).held
      BY Known
    <3> QED
      BY <2>1, <3>1, <3>2
  <2> QED
    BY <2>2, <2>3
<1>24. ParkedInv'
  <2>1. ASSUME NEW u \in Thread, \A d \in Cpu : cpu'[d].on # u PROVE Parked(th'[u])
    <3>1. u # t /\ u # s /\ u \in Ctx
      BY <1>3, <1>7, <2>1, Contexts DEF j
    <3>2. \A d \in Cpu : cpu[d].on # u
      BY Zenon, <1>2, <1>20, <2>1, <3>1
    <3> QED
      BY <1>11, <3>1, <3>2 DEF Inv, SwitchInv, ParkedInv
  <2>2. ASSUME NEW d \in Cpu
        PROVE  /\ th'[Idle(d)].mode = "scheduler"
               /\ cpu'[d].on # Idle(d) =>
                    /\ th'[Idle(d)].held = {} /\ th'[Idle(d)].want = None
                    /\ th'[Idle(d)].sleep = None /\ ~th'[Idle(d)].trap
    <3>1. CASE d = c
      BY <1>13, <1>14, <3>1 DEF w, s
    <3>2. CASE d # c
      <4>1. Idle(d) \in Ctx /\ Idle(d) # t /\ Idle(d) # s
        BY <3>2, Contexts DEF s
      <4>2. th'[Idle(d)] = th[Idle(d)]
        BY <1>11, <4>1
      <4> QED
        BY <1>20, <3>2, <4>2 DEF Inv, SwitchInv, ParkedInv
    <3> QED
      BY <3>1, <3>2
  <2> QED
    BY <2>1, <2>2 DEF ParkedInv, Parked
<1> QED
  BY <1>21, <1>23, <1>24 DEF Inv, SwitchInv

-----------------------------------------------------------------------------
\* The state after boot.
LEMMA InitInv ==
  ASSUME ConstantsOK, Init
  PROVE  Inv
<1> USE DEF Init
<1>1. Cardinality({}) = 0
  BY FS_EmptySet
<1>2. \A c \in Cpu :
        /\ cpu[c] = [noff |-> 0, intena |-> FALSE, intr |-> FALSE, stvec |-> "kernelvec", on |-> Idle(c)]
        /\ Idle(c) \in Ctx /\ Idle(c) \notin Thread
  BY Contexts
<1>3. \A t \in Ctx :
        /\ th[t].held = {} /\ th[t].want = None /\ th[t].trap = FALSE /\ th[t].sleep = None
        /\ th[t].mode = IF t \in Thread THEN "new" ELSE "scheduler"
  OBVIOUS
<1>4. Types
  <2>1. lk \in [Lock -> Cpu \cup {None}] /\ panic \in BOOLEAN
    BY Zenon
  <2>2. cpu \in [Cpu -> CpuRec]
    BY <1>2 DEF CpuRec
  <2>3. ASSUME NEW t \in Ctx PROVE th[t] \in CtxRec
    <3>1. (t \in Thread) \in BOOLEAN
      OBVIOUS
    <3>2. (IF t \in Thread THEN "new" ELSE "scheduler") \in Modes
      BY DEF Modes
    <3> QED
      BY <3>1, <3>2 DEF CtxRec
  <2>4. th \in [Ctx -> CtxRec]
    BY <2>3
  <2>5. \A c \in Cpu : cpu[c].on \in Thread \cup {Idle(c)}
    BY <1>2
  <2> QED
    BY <2>1, <2>2, <2>4, <2>5 DEF Types
<1>5. CpuInv
  <2> SUFFICES ASSUME NEW c \in Cpu
               PROVE  /\ RunsWell(cpu[c], On(c)) /\ HeldWell(On(c)) /\ SleepWell(cpu[c].on, On(c)) /\ SwitchWell(cpu[c].on, On(c))
                      /\ \A l \in Lock : lk[l] = c <=> l \in On(c).held
                      /\ \A d \in Cpu : c # d => cpu[c].on # cpu[d].on
    BY Zenon DEF CpuInv
  <2>1. /\ cpu[c].noff = 0 /\ cpu[c].intr = FALSE /\ cpu[c].stvec = "kernelvec"
        /\ cpu[c].on = Idle(c) /\ On(c) = th[Idle(c)]
    BY Zenon, <1>2 DEF On
  <2>2. /\ On(c).held = {} /\ On(c).want = None /\ On(c).trap = FALSE /\ On(c).mode = "scheduler"
        /\ On(c).sleep = None
    BY <1>2, <1>3, <2>1
  <2>3. RunsWell(cpu[c], On(c))
    <3> HIDE DEF Init
    <3> DEFINE k == cpu[c]
               x == On(c)
    <3>1. k.noff = Cardinality(x.held) + (IF x.want = None THEN 0 ELSE 1)
      BY <1>1, <2>1, <2>2
    <3>2. /\ k.noff = 0 /\ k.intr = FALSE /\ k.stvec = "kernelvec"
          /\ x.trap = FALSE /\ x.mode = "scheduler"
      BY <2>1, <2>2
    <3> HIDE DEF k, x
    <3>3. RunsWell(k, x)
      BY <3>1, <3>2 DEF RunsWell
    <3> QED
      BY <3>3 DEF k, x
  <2>4. HeldWell(On(c)) /\ SleepWell(cpu[c].on, On(c)) /\ SwitchWell(cpu[c].on, On(c))
    BY <1>2, <2>1, <2>2, FS_EmptySet DEF HeldWell, SleepWell, SwitchWell
  <2>5. \A l \in Lock : lk[l] = c <=> l \in On(c).held
    BY <2>2 DEF ConstantsOK
  <2>6. \A d \in Cpu : c # d => cpu[c].on # cpu[d].on
    BY <1>2, Contexts
  <2> QED
    BY <2>3, <2>4, <2>5, <2>6
<1>6. ParkedInv
  <2>1. ASSUME NEW t \in Thread PROVE Parked(th[t])
    <3>1. t \in Ctx
      BY Contexts
    <3> QED
      BY <1>3, <3>1 DEF Parked
  <2>2. \A c \in Cpu : th[Idle(c)].mode = "scheduler" /\ cpu[c].on = Idle(c)
    BY <1>2, <1>3
  <2> QED
    BY Zenon, <2>1, <2>2 DEF ParkedInv
<1> QED
  BY <1>4, <1>5, <1>6 DEF Inv, SwitchInv

\* Every step keeps the invariant.
LEMMA InvStep ==
  ASSUME ConstantsOK, Inv, [Next]_vars
  PROVE  Inv'
<1>1. CASE UNCHANGED vars
  <2> USE <1>1 DEF vars
  <2>1. Types'
    BY DEF Inv, Types
  <2>2. CpuInv'
    BY DEF Inv, SwitchInv, CpuInv, On
  <2>3. ParkedInv'
    BY DEF Inv, SwitchInv, ParkedInv
  <2> QED
    BY <2>1, <2>2, <2>3 DEF Inv, SwitchInv
<1>2. CASE Next
  BY <1>2, AcquireStep, SleepStep, TestAndSetStep, ReleaseStep, SchedSwitches, SchedPanics, DispatchStep, IntrOnStep, SyscallStep,
     InterruptStep, KernelTrapRetStep, UserTrapRetStep, SretStep DEF Next
<1> QED
  BY <1>1, <1>2

\* A lock is held by the context that runs on the CPU lk->cpu names, and by
\* nobody else.
LEMMA InvOneHolder ==
  ASSUME ConstantsOK, Inv
  PROVE  OneHolder
<1> SUFFICES ASSUME NEW l \in Lock
             PROVE  /\ Cardinality({t \in Ctx : l \in th[t].held}) = (IF lk[l] = None THEN 0 ELSE 1)
                    /\ \A c \in Cpu : lk[l] = c <=> l \in On(c).held
  BY DEF OneHolder
<1> DEFINE H == {t \in Ctx : l \in th[t].held}
<1>1. \A c \in Cpu : lk[l] = c <=> l \in On(c).held
  BY DEF Inv, SwitchInv, CpuInv
<1>2. \A t \in H : \E c \in Cpu : cpu[c].on = t /\ lk[l] = c
  <2> SUFFICES ASSUME NEW t \in Ctx, l \in th[t].held
               PROVE  \E c \in Cpu : cpu[c].on = t /\ lk[l] = c
    OBVIOUS
  <2>1. \E c \in Cpu : cpu[c].on = t
    <3>1. CASE t \in Thread
      BY <3>1 DEF Inv, SwitchInv, ParkedInv, Parked
    <3>2. CASE \E c \in Cpu : t = Idle(c)
      BY <3>2 DEF Inv, SwitchInv, ParkedInv
    <3> QED
      BY <3>1, <3>2 DEF Ctx
  <2> QED
    BY <1>1, <2>1 DEF On
<1>3. CASE lk[l] = None
  <2>1. H = {}
    BY <1>2, <1>3 DEF ConstantsOK
  <2> QED
    BY Zenon, <1>1, <1>3, <2>1, FS_EmptySet
<1>4. CASE lk[l] # None
  <2>1. PICK c \in Cpu : lk[l] = c
    BY <1>4 DEF Inv, Types
  <2>2. cpu[c].on \in Ctx
    BY Known
  <2>3. H = {cpu[c].on}
    BY <1>1, <1>2, <2>1, <2>2 DEF On
  <2> QED
    BY Zenon, <1>1, <1>4, <2>3, FS_Singleton
<1> QED
  BY <1>3, <1>4

\* Spinlocks, interrupts and sched, for any number of CPUs and threads: a
\* lock has one holder, on the CPU that lk->cpu names, although p->lock is
\* taken by one context and released by another; nothing that holds a lock
\* can be interrupted and no check of acquire, release, pop_off or the trap
\* handlers fails; a handler keeps interrupts off until it returns; a system
\* call without a lock has them on, wherever sched moved it; and the only call
\* of sched that panics is the sleep of uartputc under cons.lock.
THEOREM LocksAreRight ==
  ASSUME ConstantsOK
  PROVE  Spec => []LocksRight
<1>1. Init => Inv
  BY InitInv
<1>2. Inv /\ [Next]_vars => Inv'
  BY InvStep
<1>3. Inv => LocksRight
  <2> SUFFICES ASSUME Inv PROVE LocksRight
    OBVIOUS
  <2>1. OneHolder
    BY InvOneHolder
  <2>2. ASSUME NEW c \in Cpu
        PROVE  /\ cpu[c].noff \in Nat /\ cpu[c].on \in Thread \cup {Idle(c)}
               /\ cpu[c].noff = Cardinality(On(c).held) + (IF On(c).want = None THEN 0 ELSE 1)
               /\ cpu[c].noff > 0 \/ On(c).trap => ~cpu[c].intr
               /\ On(c).mode = "kernel" /\ ~On(c).trap /\ cpu[c].noff = 0 => cpu[c].intr
    BY Known DEF RunsWell
  <2>3. TypeOK
    <3>1. \A t \in Ctx : th[t].mode \in Modes
      BY DEF Inv, Types, CtxRec
    <3> QED
      BY <2>2, <3>1 DEF TypeOK, Inv, Types
  <2>4. LocksMaskInterrupts
    BY <2>2 DEF LocksMaskInterrupts, Inv, SwitchInv, CpuInv
  <2>5. HandlerStaysOff
    BY <2>2 DEF HandlerStaysOff
  <2>6. InterruptsComeBack
    <3> SUFFICES ASSUME NEW c \in Cpu, On(c).mode = "kernel", ~On(c).trap, On(c).held = {},
                        On(c).want = None
                 PROVE  cpu[c].intr
      BY DEF InterruptsComeBack
    <3>1. Cardinality({}) = 0
      BY FS_EmptySet
    <3>2. cpu[c].noff = Cardinality(On(c).held) + (IF On(c).want = None THEN 0 ELSE 1)
      BY <2>2
    <3>3. cpu[c].noff = 0
      BY <3>1, <3>2
    <3>4. On(c).mode = "kernel" /\ ~On(c).trap /\ cpu[c].noff = 0 => cpu[c].intr
      BY <2>2
    <3> QED
      BY <3>3, <3>4
  <2>7. OnlyConsoleWritePanics
    <3> SUFFICES ASSUME NEW t \in Ctx, th[t].mode = "panicked"
                 PROVE  th[t].sleep = UartLock /\ th[t].held = {t, ConsLock}
      BY DEF OnlyConsoleWritePanics
    <3>1. PICK c \in Cpu : cpu[c].on = t
      <4>1. CASE t \in Thread
        BY <4>1 DEF Inv, SwitchInv, ParkedInv, Parked
      <4>2. CASE \E c \in Cpu : t = Idle(c)
        BY <4>2 DEF Inv, SwitchInv, ParkedInv
      <4> QED
        BY <4>1, <4>2 DEF Ctx
    <3>2. SleepWell(cpu[c].on, On(c))
      BY Known
    <3> QED
      BY <3>1, <3>2 DEF On, SleepWell
  <2> QED
    BY <2>1, <2>3, <2>4, <2>5, <2>6, <2>7 DEF LocksRight
<1> QED
  BY <1>1, <1>2, <1>3, PTL DEF Spec
=============================================================================
