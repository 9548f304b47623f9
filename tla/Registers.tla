----------------------------- MODULE Registers ------------------------------
(***************************************************************************)
(* The registers across traps and context switches: uservec and userret of *)
(* kernel/trampoline.S, kernelvec and timervec of kernel/kernelvec.S,      *)
(* swtch of kernel/swtch.S, and the fields of struct trapframe that        *)
(* usertrapret fills in.  Threads move between CPUs while switched out.    *)
(* A value is <<owner, what>>: what the owner's code had put there.        *)
(***************************************************************************)
EXTENDS Integers, Sequences, FiniteSets

CONSTANTS Cpu, Thread, None

\* The order of the registers in struct trapframe (from offset 40) and in
\* kernelvec's frame (from 0), and of struct context.
TrapRegs == <<"ra", "sp", "gp", "tp", "t0", "t1", "t2", "s0", "s1", "a0", "a1", "a2", "a3", "a4",
              "a5", "a6", "a7", "s2", "s3", "s4", "s5", "s6", "s7", "s8", "s9", "s10", "s11",
              "t3", "t4", "t5", "t6">>
Context == <<"ra", "sp", "s0", "s1", "s2", "s3", "s4", "s5", "s6", "s7", "s8", "s9", "s10", "s11">>
Reg == {TrapRegs[i] : i \in DOMAIN TrapRegs}
CalleeSaved == {Context[i] : i \in DOMAIN Context}
Field == [kernel_satp |-> 0, kernel_sp |-> 8, kernel_trap |-> 16, epc |-> 24, kernel_hartid |-> 32]

VARIABLES
  reg,    \* the registers of each CPU
  sscratch,
  at,     \* "user", "kernel", "trap" (in kerneltrap) or "scheduler"
  on,     \* the thread on the CPU, or None
  tf,     \* p->trapframe: the word at each offset
  stack,  \* the frame kernelvec pushed on a thread's kernel stack
  ctx,    \* p->context
  out,    \* where a switched-out thread will continue, or None
  sched,  \* c->context
  sip     \* software interrupt pending, raised by timervec

vars == <<reg, sscratch, at, on, tf, stack, ctx, out, sched, sip>>

\* sd and ld of a list of registers, at consecutive words from base on.
Store(regs, list, base) ==
  [o \in {base + 8 * (i - 1) : i \in DOMAIN list} |-> regs[list[(o - base) \div 8 + 1]]]
Load(regs, list, base, mem, S) ==
  [r \in Reg |-> IF r \notin S THEN regs[r]
                 ELSE mem[base + 8 * ((CHOOSE i \in DOMAIN list : list[i] = r) - 1)]]
Over(f, g) == [o \in DOMAIN f \cup DOMAIN g |-> IF o \in DOMAIN g THEN g[o] ELSE f[o]]

Values(t, where) == [r \in Reg |-> <<t, where, r>>]
Hart(c) == <<c, "hart", "tp">>
\* C code: it may use every register but sp, its stack, and tp, the hart id.
CCode(t, regs) == [Values(t, "kernel") EXCEPT !["sp"] = regs["sp"], !["tp"] = regs["tp"]]
\* After a call: callee-saved registers, and the others from the stack.
Resume(who, where, regs) ==
  [r \in Reg |-> IF r \in CalleeSaved \cup {"tp"} THEN regs[r] ELSE <<who, where, r>>]
-----------------------------------------------------------------------------
\* uservec: a0 is swapped with sscratch, everything is saved, then the
\* kernel's stack and hart id are loaded from the trapframe.
UserVec(c) ==
  LET t == on[c] IN
  /\ at[c] = "user"
  /\ tf' = [tf EXCEPT ![t] = Over(@, Store(reg[c], TrapRegs, 40))]
  /\ reg' = [reg EXCEPT ![c] =
       CCode(t, [@ EXCEPT !["sp"] = tf[t][Field.kernel_sp], !["tp"] = tf[t][Field.kernel_hartid]])]
  /\ sscratch' = [sscratch EXCEPT ![c] = reg[c]["a0"]]
  /\ at' = [at EXCEPT ![c] = "kernel"]
  /\ UNCHANGED <<on, stack, ctx, out, sched, sip>>

\* usertrapret's kernel_hartid: r_tp() on the CPU it runs on.
Hartid(c, t) == reg[c]["tp"]

\* The registers that userret loads: a0 last, through sscratch.
Restores == Reg

\* usertrapret and userret.
UserRet(c) ==
  LET t == on[c]
      frame == Over(tf[t], [o \in {Field.kernel_satp, Field.kernel_sp, Field.kernel_trap, Field.kernel_hartid} |->
                             IF o = Field.kernel_hartid THEN Hartid(c, t) ELSE <<t, "kernel", "sp">>])
  IN
  /\ at[c] = "kernel"
  /\ tf' = [tf EXCEPT ![t] = frame]
  /\ reg' = [reg EXCEPT ![c] = Load(@, TrapRegs, 40, frame, Restores)]
  /\ sscratch' = [sscratch EXCEPT ![c] = <<t, "TRAPFRAME", "a0">>]
  /\ at' = [at EXCEPT ![c] = "user"]
  /\ UNCHANGED <<on, stack, ctx, out, sched, sip>>

\* timervec, in machine mode and at any point: a0 to a3 go through the
\* scratch area, and a software interrupt is raised.
TimerVec(c) ==
  LET list == <<"a1", "a2", "a3">>
      used == [reg[c] EXCEPT !["a0"] = <<c, "mscratch", "a0">>, !["a1"] = <<c, "mtimecmp", "a1">>,
                             !["a2"] = <<c, "interval", "a2">>, !["a3"] = <<c, "mtimecmp", "a3">>]
      back == Load(used, list, 0, Store(reg[c], list, 0), {"a1", "a2", "a3"})
  IN
  /\ ~sip[c]
  /\ reg' = [reg EXCEPT ![c] = [back EXCEPT !["a0"] = reg[c]["a0"]]]
  /\ sip' = [sip EXCEPT ![c] = TRUE]
  /\ UNCHANGED <<sscratch, at, on, tf, stack, ctx, out, sched>>

\* kernelvec: an interrupt of kernel code pushes all registers.
KernelVec(c) ==
  LET t == on[c] IN
  /\ at[c] = "kernel" /\ sip[c]
  /\ stack' = [stack EXCEPT ![t] = Store(reg[c], TrapRegs, 0)]
  /\ reg' = [reg EXCEPT ![c] = [Values(t, "trap") EXCEPT !["tp"] = reg[c]["tp"]]]
  /\ sip' = [sip EXCEPT ![c] = FALSE]
  /\ at' = [at EXCEPT ![c] = "trap"]
  /\ UNCHANGED <<sscratch, on, tf, ctx, out, sched>>

Pops_all == Reg
\* All but tp, in case we moved CPUs.
Pops == Reg \ {"tp"}

KernelVecRet(c) ==
  LET t == on[c] IN
  /\ at[c] = "trap"
  /\ reg' = [reg EXCEPT ![c] = Load(@, TrapRegs, 0, stack[t], Pops)]
  /\ stack' = [stack EXCEPT ![t] = <<>>]
  /\ at' = [at EXCEPT ![c] = "kernel"]
  /\ UNCHANGED <<sscratch, on, tf, ctx, out, sched, sip>>

\* The registers swtch loads.
Switched == CalleeSaved

\* swtch from a thread to its CPU's scheduler ...
SwtchOut(c) ==
  LET t == on[c] IN
  /\ at[c] \in {"kernel", "trap"}
  /\ ctx' = [ctx EXCEPT ![t] = Store(reg[c], Context, 0)]
  /\ reg' = [reg EXCEPT ![c] = Resume(c, "kernel", Load(@, Context, 0, sched[c], Switched))]
  /\ out' = [out EXCEPT ![t] = at[c]]
  /\ on' = [on EXCEPT ![c] = None] /\ at' = [at EXCEPT ![c] = "scheduler"]
  /\ UNCHANGED <<sscratch, tf, stack, sched, sip>>

\* ... and back, from whichever scheduler finds it RUNNABLE.
SwtchIn(c, t) ==
  LET loaded == Load(reg[c], Context, 0, ctx[t], Switched) IN
  /\ at[c] = "scheduler" /\ out[t] # None
  /\ sched' = [sched EXCEPT ![c] = Store(reg[c], Context, 0)]
  /\ reg' = [reg EXCEPT ![c] = Resume(t, out[t], loaded)]
  /\ at' = [at EXCEPT ![c] = out[t]] /\ on' = [on EXCEPT ![c] = t]
  /\ out' = [out EXCEPT ![t] = None]
  /\ ctx' = [ctx EXCEPT ![t] = <<>>]
  /\ UNCHANGED <<sscratch, tf, stack, sip>>

\* Each thread has been in the kernel, with user registers in its trapframe.
Init ==
  /\ reg = [c \in Cpu |-> [Values(c, "kernel") EXCEPT !["tp"] = Hart(c)]]
  /\ sscratch = [c \in Cpu |-> None]
  /\ at = [c \in Cpu |-> "scheduler"] /\ on = [c \in Cpu |-> None]
  /\ tf = [t \in Thread |-> Store(Values(t, "user"), TrapRegs, 40)]
  /\ stack = [t \in Thread |-> <<>>]
  /\ ctx = [t \in Thread |-> Store(Values(t, "kernel"), Context, 0)]
  /\ out = [t \in Thread |-> "kernel"]
  /\ sched = [c \in Cpu |-> Store(Values(c, "kernel"), Context, 0)]
  /\ sip = [c \in Cpu |-> FALSE]

Next ==
  \E c \in Cpu : \/ UserVec(c) \/ UserRet(c) \/ TimerVec(c) \/ KernelVec(c) \/ KernelVecRet(c)
                 \/ SwtchOut(c) \/ \E t \in Thread : SwtchIn(c, t)

Spec == Init /\ [][Next]_vars
-----------------------------------------------------------------------------
TypeOK ==
  /\ at \in [Cpu -> {"user", "kernel", "trap", "scheduler"}] /\ on \in [Cpu -> Thread \cup {None}]
  /\ \A c \in Cpu : DOMAIN reg[c] = Reg /\ (at[c] = "scheduler" <=> on[c] = None)

\* A user program finds all its registers after every trap, whatever ran
\* meanwhile and on whichever CPU it comes back.
UserRegistersKept == \A c \in Cpu : at[c] = "user" => reg[c] = Values(on[c], "user")

\* In the kernel tp is the hart id of the CPU it runs on, which cpuid() and
\* so every use of mycpu() reads: user code, an interrupted frame and a
\* context all came with the tp of some other CPU.
TpIsHartid == \A c \in Cpu : at[c] # "user" => reg[c]["tp"] = Hart(c)

\* Kernel code that was interrupted or switched out goes on with its own
\* registers.
KernelRegistersKept ==
  \A c \in Cpu :
    /\ at[c] \in {"kernel", "trap"} => \A r \in Reg \ {"tp"} : reg[c][r] = <<on[c], at[c], r>>
    /\ at[c] = "scheduler" => \A r \in CalleeSaved : reg[c][r] = <<c, "kernel", r>>
=============================================================================
