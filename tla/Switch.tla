------------------------------- MODULE Switch -------------------------------
(***************************************************************************)
(* Processes, the context switch and interrupt masking of the riria kernel *)
(* (kernel/system/process.c, kernel/arch/x86_64/irq.c and the assembly in  *)
(* kernel/system/asm), on its single CPU.  The order in which processes    *)
(* take turns is left open here: process_schedule may pick any process     *)
(* that is runnable.  Module Process adds the linked list that picks.      *)
(*                                                                         *)
(* A step is a stretch of kernel code that no interrupt can split: either  *)
(* interrupts are masked all through it, or what it does between two       *)
(* interrupts is seen by nobody else.                                      *)
(***************************************************************************)
EXTENDS Integers, Sequences

CONSTANTS
  MaxPid,       \* bound on next_pid
  BootEntries,  \* kernel processes kmain creates after the idle process
  MaxSleep,     \* bound on the argument of process_sleep
  FsBases       \* thread pointers user programs install

(***************************************************************************)
(* entry.c creates the shell last (lines 55-61); it is the only kernel     *)
(* process that spawns user processes.                                     *)
(***************************************************************************)
ASSUME SwitchAssumption ==
  /\ MaxPid \in Nat
  /\ BootEntries \in Seq({"info", "shell"})
  /\ \A i \in 1 .. Len(BootEntries) - 1 : BootEntries[i] # "shell"
  /\ MaxSleep \in Nat
  /\ FsBases \subseteq Nat

Pid == 0 .. MaxPid
Idle == 0     \* the process whose context is kmain itself
None == -1    \* the null pointer; as a stack, the boot loader's stack

VARIABLES
  proc,          \* the process_t of every pid
  process_head,  \* the node of the current process
  next_pid,
  boot,          \* number of processes kmain has created
  cpu,           \* registers that the switch saves, loads or relies on
  sync,          \* sync_depth and sync_was_enabled
  user_fs,       \* history: the FS base each user program believes it has
  overlapped     \* history: a user program started while another was preempted

vars == <<proc, process_head, next_pid, boot, cpu, sync, user_fs, overlapped>>

(***************************************************************************)
(* A saved context is what krsp points to: whose code resumes there, how   *)
(* it left the CPU, and on which kernel stack the frame lies.              *)
(***************************************************************************)
Context == [who : Pid, where : {"fresh_kernel", "fresh_user", "irq_user",
            "irq_kernel", "yield", "exit"}, stack : Pid \cup {None}]

NoContext == [who |-> Idle, where |-> "fresh_kernel", stack |-> None]

(***************************************************************************)
(* wake_in is wake_at - ticks, cut off at 0: the scheduler only asks       *)
(* whether wake_at > ticks.                                                *)
(***************************************************************************)
Process_t == [state : {"none", "ready", "dead", "freed"},
              entry : {"forever", "info", "shell", "user"},
              wake_in : 0 .. MaxSleep, krsp : Context, fsbase : FsBases \cup {0}]

NoProcess == [state |-> "none", entry |-> "forever", wake_in |-> 0,
              krsp |-> NoContext, fsbase |-> 0]

NewProcess(p, e) ==
  [state |-> "ready", entry |-> e, wake_in |-> 0, fsbase |-> 0,
   krsp |-> [who |-> p, stack |-> p,
             where |-> IF e = "user" THEN "fresh_user" ELSE "fresh_kernel"]]

IsUser(pr) == pr.entry = "user"

\* The pagemap of a process: its own for a user process, else kernel_pagemap.
Pagemap(pr, p) == IF IsUser(pr) THEN p ELSE None

-----------------------------------------------------------------------------
(* IRQ_OFF and IRQ_RES: a nesting counter around cli and sti. *)

\* Mutant: the flag at entry is not looked at.
int_disableAssumesOn(c, s) ==
  [depth |-> s.depth + 1, was |-> IF s.depth = 0 THEN TRUE ELSE s.was]

int_disable(c, s) ==
  [depth |-> s.depth + 1, was |-> IF s.depth = 0 THEN c.if ELSE s.was]

int_resume(s) == IF s.depth = 0 THEN s ELSE [s EXCEPT !.depth = @ - 1]

\* Whether int_resume executes sti.
Resumes(s) == s.depth = 1 /\ s.was

\* An IRQ_OFF ... IRQ_RES pair: what it leaves in the interrupt flag.
PairedIf(c, s) == s.depth = 0 /\ c.if

-----------------------------------------------------------------------------
\* Mutant: a new user process is entered without swapgs.
ContinueNoSwapgs(x, c, s) ==
  LET user == x.where \in {"fresh_user", "irq_user"}
      irq  == x.where \in {"irq_user", "irq_kernel"}
  IN [c EXCEPT !.who = x.who, !.mode = IF user THEN "user" ELSE "kernel",
               !.stack = IF user THEN None ELSE x.stack,
               !.if = user \/ irq \/ Resumes(s), !.isr = @ /\ ~irq]

(***************************************************************************)
(* The CPU after process_switch has loaded context x (or process_schedule  *)
(* returns to x without a switch).  Every way on goes through one IRQ_RES; *)
(* iretq then restores the interrupted flags, switch_to_user sets IF after *)
(* a swapgs, and irq_handler acknowledges the timer once more.             *)
(***************************************************************************)
Continue(x, c, s) ==
  LET user == x.where \in {"fresh_user", "irq_user"}
      irq  == x.where \in {"irq_user", "irq_kernel"}
      swap == x.where = "fresh_user"
  IN [who   |-> x.who,
      mode  |-> IF user THEN "user" ELSE "kernel",
      stack |-> IF user THEN None ELSE x.stack,
      if    |-> user \/ irq \/ Resumes(s),
      isr   |-> c.isr /\ ~irq,
      cr3   |-> c.cr3,
      rsp0  |-> c.rsp0,
      fs    |-> c.fs,
      gs    |-> IF swap THEN c.kgs ELSE c.gs,
      kgs   |-> IF swap THEN c.gs ELSE c.kgs]

\* Mutant: CR3 is not loaded for a kernel process.
LoadKeepsCr3(pr, p, c) ==
  [c EXCEPT !.cr3 = IF IsUser(pr) THEN p ELSE @, !.rsp0 = p, !.gs = p,
            !.fs = IF IsUser(pr) THEN pr.fsbase ELSE c.fs]

\* The registers process_schedule loads for process p before process_switch.
Load(pr, p, c) ==
  [c EXCEPT !.cr3 = Pagemap(pr, p), !.rsp0 = p, !.gs = p,
            !.fs = IF IsUser(pr) THEN pr.fsbase ELSE c.fs]

(***************************************************************************)
(* A call of process_schedule: the CPU and the interrupt counter at the    *)
(* call, the processes, and the context that process_switch would save.    *)
(***************************************************************************)
Call(c, s, P, ctx) == [cpu |-> c, sync |-> s, proc |-> P, ctx |-> ctx]

\* Mutant: the FS base is not saved.
SaveNoFs(pr, call) == [pr EXCEPT !.krsp = call.ctx]

\* What the switch stores in the process_t it leaves.
Save(pr, call) ==
  [pr EXCEPT !.krsp = call.ctx,
             !.fsbase = IF IsUser(pr) THEN call.cpu.fs ELSE pr.fsbase]

(***************************************************************************)
(* History: context x starts a user program, and another one that has run  *)
(* before is among the processes P that can run again.                     *)
(***************************************************************************)
Overlaps(x, P) ==
  /\ x.where = "fresh_user"
  /\ \E p \in Pid : P[p].state = "ready" /\ P[p].krsp.where = "irq_user"

(***************************************************************************)
(* The part of process_schedule after process_reap (result R) and the skip *)
(* loop (result q), with interrupts off and the timer acknowledged.        *)
(***************************************************************************)
Dispatch(call, R, q) ==
  LET s1   == int_disable(call.cpu, call.sync)
      c1   == [call.cpu EXCEPT !.isr = FALSE]
      prev == process_head
  IN /\ process_head' = q
     /\ sync' = int_resume(s1)
     /\ IF q = prev
        THEN /\ proc' = R
             /\ cpu' = Continue(call.ctx, c1, s1)
             /\ UNCHANGED overlapped
        ELSE /\ proc' = [R EXCEPT ![prev] = Save(R[prev], call)]
             /\ cpu' = Continue(R[q].krsp, Load(R[q], q, c1), s1)
             /\ overlapped' = (overlapped \/ Overlaps(R[q].krsp, proc'))

\* process_reap: the dead are freed, except the process it runs in.
Reaped(P) ==
  [p \in Pid |-> IF P[p].state = "dead" /\ p # process_head
                 THEN [P[p] EXCEPT !.state = "freed"] ELSE P[p]]

Runnable(P) == {p \in Pid : P[p].state = "ready" /\ P[p].wake_in = 0}

process_schedule(call) ==
  \E q \in Runnable(call.proc) : Dispatch(call, Reaped(call.proc), q)

-----------------------------------------------------------------------------
(***************************************************************************)
(* The PIT fires every millisecond: IF is cleared by the interrupt gate, a *)
(* trap from user mode lands on the stack in the TSS, _pit_handler counts  *)
(* the tick and process_schedule runs.  Before the first process exists    *)
(* the handler changes nothing that is modelled.                           *)
(***************************************************************************)
TimerEnabled == cpu.if /\ ~cpu.isr /\ process_head # None

TimerCall ==
  Call([cpu EXCEPT !.if = FALSE, !.isr = TRUE], sync,
       [p \in Pid |-> [proc[p] EXCEPT !.wake_in = IF @ > 0 THEN @ - 1 ELSE 0]],
       [who |-> cpu.who,
        where |-> IF cpu.mode = "user" THEN "irq_user" ELSE "irq_kernel",
        stack |-> IF cpu.mode = "user" THEN cpu.rsp0 ELSE cpu.stack])

TimerIRQ ==
  /\ TimerEnabled
  /\ process_schedule(TimerCall)
  /\ UNCHANGED <<next_pid, boot, user_fs>>

\* A kernel process other than idle is running its entry function.
KernelCode == cpu.mode = "kernel" /\ process_head \notin {None, Idle}

\* process_sleep: the wake-up time is set, then the process yields.
SleepCall(ms) ==
  Call(cpu, sync, [proc EXCEPT ![process_head].wake_in = ms],
       [who |-> cpu.who, where |-> "yield", stack |-> cpu.stack])

process_sleep(ms) ==
  /\ KernelCode
  /\ process_schedule(SleepCall(ms))
  /\ UNCHANGED <<next_pid, boot, user_fs>>

\* process_exit, called with the given CPU state on the given stack.
ExitCall(c, s, stack) ==
  Call(c, s, [proc EXCEPT ![process_head].state = "dead"],
       [who |-> cpu.who, where |-> "exit", stack |-> stack])

\* process_entry: the entry function of a kernel process returned.
EntryReturns ==
  /\ KernelCode
  /\ process_schedule(ExitCall(cpu, sync, cpu.stack))
  /\ UNCHANGED <<next_pid, boot, user_fs>>

\* The stack of a system call: syscall_trap swaps GS and loads krsp of the
\* process that GS then points to.
SyscallStack == IF cpu.kgs = None THEN None ELSE proc[cpu.kgs].krsp.stack

\* SYSCALL_EXIT: syscall_handler's IRQ_OFF precedes process_exit and its IRQ_RES
\* is never reached.
SyscallExitCall ==
  LET c == [cpu EXCEPT !.if = FALSE, !.gs = cpu.kgs, !.kgs = cpu.gs]
  IN ExitCall(c, int_disable(c, sync), SyscallStack)

syscall_exit ==
  /\ cpu.mode = "user"
  /\ process_schedule(SyscallExitCall)
  /\ UNCHANGED <<next_pid, boot, user_fs>>

(***************************************************************************)
(* A fault of a user program that nothing serves: the trap comes through   *)
(* an interrupt gate on the TSS stack, vmm_pagefault or panic pairs its    *)
(* IRQ_OFF and calls process_exit.                                         *)
(***************************************************************************)
UserFaultCall ==
  LET c == [cpu EXCEPT !.if = FALSE]
  IN ExitCall(c, int_resume(int_disable(c, sync)), cpu.rsp0)

UserFault ==
  /\ cpu.mode = "user"
  /\ process_schedule(UserFaultCall)
  /\ UNCHANGED <<next_pid, boot, user_fs>>

syscall_write_fsbase(v) ==
  /\ cpu.mode = "user"
  /\ cpu' = [cpu EXCEPT !.fs = v]
  /\ user_fs' = [user_fs EXCEPT ![cpu.who] = v]
  /\ UNCHANGED <<proc, process_head, next_pid, boot, sync, overlapped>>

-----------------------------------------------------------------------------
\* What process_create and process_create_user share; p gets the next pid.
AddProcess(e) ==
  /\ next_pid \in Pid
  /\ proc' = [proc EXCEPT ![next_pid] = NewProcess(next_pid, e)]
  /\ process_head' = IF process_head = None THEN next_pid ELSE process_head
  /\ next_pid' = next_pid + 1
  /\ sync' = [sync EXCEPT !.was = IF sync.depth = 0 THEN cpu.if ELSE @]

\* kmain creates the idle process, then the processes of BootEntries.
BootEntry == IF boot = 0 THEN "forever" ELSE BootEntries[boot]

KmainCreates == cpu.who = Idle /\ boot <= Len(BootEntries)

(***************************************************************************)
(* process_create by kmain.  Its mallocs may grow the heap, and then       *)
(* pmm_allocate runs an IRQ_OFF ... IRQ_RES pair; with a leaked sync_depth *)
(* that pair would leave kmain with interrupts off.                        *)
(***************************************************************************)
process_create ==
  /\ KmainCreates
  /\ AddProcess(BootEntry)
  /\ boot' = boot + 1
  /\ cpu' = [cpu EXCEPT !.if = PairedIf(cpu, sync)]
  /\ UNCHANGED <<user_fs, overlapped>>

\* process_spawn_elf in the shell: page allocations, then process_create_user.
process_create_user ==
  /\ KernelCode
  /\ proc[process_head].entry = "shell"
  /\ AddProcess("user")
  /\ cpu' = [cpu EXCEPT !.if = PairedIf(cpu, sync)]
  /\ UNCHANGED <<boot, user_fs, overlapped>>

-----------------------------------------------------------------------------
\* kmain after irq_install (IRQ_ON): no process yet, interrupts on.
Init ==
  /\ proc = [p \in Pid |-> NoProcess]
  /\ process_head = None
  /\ next_pid = 0
  /\ boot = 0
  /\ cpu = [who |-> Idle, mode |-> "kernel", stack |-> None, if |-> TRUE,
            isr |-> FALSE, cr3 |-> None, rsp0 |-> None, fs |-> 0,
            gs |-> None, kgs |-> None]
  /\ sync = [depth |-> 0, was |-> TRUE]
  /\ user_fs = [p \in Pid |-> 0]
  /\ overlapped = FALSE

Next ==
  \/ TimerIRQ
  \/ \E ms \in 0 .. MaxSleep : process_sleep(ms)
  \/ EntryReturns
  \/ syscall_exit
  \/ UserFault
  \/ \E v \in FsBases : syscall_write_fsbase(v)
  \/ process_create
  \/ process_create_user

Spec == Init /\ [][Next]_vars
-----------------------------------------------------------------------------
(* Properties. *)

CpuType ==
  [who : Pid, mode : {"user", "kernel"}, stack : Pid \cup {None},
   if : BOOLEAN, isr : BOOLEAN, cr3 : Pid \cup {None}, rsp0 : Pid \cup {None},
   fs : FsBases \cup {0}, gs : Pid \cup {None}, kgs : Pid \cup {None}]

\* Type correctness: sync_depth never goes negative, pids stay in range.
TypeOK ==
  /\ proc \in [Pid -> Process_t]
  /\ process_head \in Pid \cup {None}
  /\ next_pid \in 0 .. MaxPid + 1
  /\ boot \in 0 .. Len(BootEntries) + 1
  /\ cpu \in CpuType
  /\ sync \in [depth : Nat, was : BOOLEAN]
  /\ user_fs \in [Pid -> FsBases \cup {0}]
  /\ overlapped \in BOOLEAN

(***************************************************************************)
(* process_get_current() (process.c 309-313) names the process whose code  *)
(* is executing, and that process is neither dead nor freed: process_exit  *)
(* never returns to its caller and process_reap never frees the process    *)
(* it runs in.                                                             *)
(***************************************************************************)
CurrentIsRunning ==
  process_head # None =>
    cpu.who = process_head /\ proc[process_head].state = "ready"

(***************************************************************************)
(* A process runs in its own address space, and a user process is          *)
(* interrupted onto its own kernel stack (process.c 266-269): the pagemap  *)
(* and the TSS follow every switch, also the ones that skip the loads.     *)
(***************************************************************************)
OwnAddressSpace ==
  process_head # None =>
    /\ cpu.cr3 = Pagemap(proc[process_head], process_head)
    /\ cpu.mode = "user" => cpu.rsp0 = process_head

(***************************************************************************)
(* A user program finds in FS what it last wrote there with                *)
(* syscall_write_fsbase, however often it was preempted (process.c         *)
(* 271-279; fxsave and fxrstor move the FPU state on the same lines).      *)
(***************************************************************************)
FsBasePreserved == cpu.mode = "user" => cpu.fs = user_fs[cpu.who]

(***************************************************************************)
(* The masking discipline the kernel's data structures rely on: user       *)
(* programs and idle can always be preempted, every other kernel process   *)
(* runs with interrupts off until it sleeps or exits, because IRQ_RES in   *)
(* process_entry or at the end of process_schedule never executes sti.     *)
(***************************************************************************)
PreemptionDiscipline ==
  cpu.if <=> cpu.mode = "user" \/ cpu.who = Idle

(***************************************************************************)
(* No process that can still run has its frames, or will have them at its  *)
(* next interrupt or system call, on a stack that process_reap returned to *)
(* the heap or that another such process uses.  An interrupt comes on the  *)
(* stack in the TSS, a system call on that of the process GS names: the    *)
(* property covers it until two user programs have overlapped, when GS may *)
(* name the other one, dead or alive (SyscallFindsCurrent).                *)
(***************************************************************************)
StacksOf(p) ==
  IF p # process_head THEN {proc[p].krsp.stack}
  ELSE IF cpu.mode = "kernel" THEN {cpu.stack}
  ELSE {cpu.rsp0} \cup (IF overlapped THEN {} ELSE {SyscallStack})

StacksSafe ==
  process_head # None =>
    \A p \in {x \in Pid : proc[x].state = "ready"} : \A s \in StacksOf(p) :
      /\ s # None => proc[s].state = "ready"
      /\ \A q \in {x \in Pid : proc[x].state = "ready"} : s \in StacksOf(q) => p = q

(***************************************************************************)
(* syscall_trap (syscall.S 9-14) finds the running process through GS: in  *)
(* user mode the inactive GS base is the current process_t.                *)
(***************************************************************************)
SyscallFindsCurrent == cpu.mode = "user" => cpu.kgs = process_head
-----------------------------------------------------------------------------
(***************************************************************************)
(* The inductive invariant.  It adds to the properties above where the     *)
(* saved context of every suspended process lies and how it resumes, that  *)
(* idle is always there to be picked, and that no user process exists, so  *)
(* that no IRQ_OFF has leaked, before kmain is done creating processes.    *)
(***************************************************************************)
Home(p) == IF p = Idle THEN None ELSE p

LeftAs(pr, p) ==
  IF p = Idle THEN {"irq_kernel"}
  ELSE IF IsUser(pr) THEN {"fresh_user", "irq_user"}
  ELSE {"fresh_kernel", "yield"}

SuspendedOK(p) ==
  /\ proc[p].krsp.who = p
  /\ proc[p].krsp.stack = Home(p)
  /\ proc[p].krsp.where \in LeftAs(proc[p], p)
  /\ IsUser(proc[p]) => proc[p].fsbase = user_fs[p]

RunningOK ==
  /\ proc[Idle].state = "ready" /\ proc[Idle].wake_in = 0
  /\ proc[Idle].entry = "forever"
  /\ cpu.mode = (IF IsUser(proc[process_head]) THEN "user" ELSE "kernel")
  /\ cpu.mode = "kernel" => cpu.stack = Home(process_head)

BootOK ==
  /\ process_head = None <=> boot = 0
  /\ process_head = None <=> next_pid = 0
  /\ boot <= Len(BootEntries) =>
       /\ sync.depth = 0
       /\ \A p \in Pid : proc[p].entry \notin {"shell", "user"}
  /\ process_head = None =>
       /\ cpu.who = Idle /\ cpu.mode = "kernel" /\ cpu.stack = None
       /\ cpu.cr3 = None

IInv ==
  /\ TypeOK
  /\ BootOK
  /\ \A p \in Pid : proc[p].state = "none" <=> p >= next_pid
  /\ \A p \in Pid : p >= next_pid => user_fs[p] = 0
  /\ process_head # None => RunningOK
  /\ \A p \in Pid : proc[p].state = "ready" /\ p # process_head => SuspendedOK(p)
  /\ ~cpu.isr
  /\ CurrentIsRunning
  /\ OwnAddressSpace
  /\ FsBasePreserved
  /\ PreemptionDiscipline

\* Next to it, what a system call finds: the stack of a user process is its own, and
\* GS names the one that runs or was preempted, as long as there was never another.
GsInv ==
  /\ \A p \in Pid : proc[p].state = "ready" /\ IsUser(proc[p]) => proc[p].krsp.stack = p
  /\ ~overlapped =>
       \A p \in Pid : /\ proc[p].state = "ready" /\ IsUser(proc[p])
                      /\ p = process_head \/ proc[p].krsp.where = "irq_user"
                      => cpu.kgs = p
=============================================================================
