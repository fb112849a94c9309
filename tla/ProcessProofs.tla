--------------------------- MODULE ProcessProofs ----------------------------
(***************************************************************************)
(* The context switch keeps its promises for every number of processes,    *)
(* every list of kernel processes kmain creates (the shell last) and every *)
(* scheduling order.                                                       *)
(*                                                                         *)
(* The run queue stays one ring, its scheduler implements Switch and takes *)
(* the processes in turn, for every number of processes; provided that no  *)
(* kernel process ends while kmain still creates others (~EarlyReturn).    *)
(***************************************************************************)
EXTENDS Process, TLAPS

\* The solver is given more time when it is slow to answer.
USE SMTT(10), SMTT(20), SMTT(40)

-----------------------------------------------------------------------------
(* The context switch. *)

(***************************************************************************)
(* What every caller of process_schedule establishes: interrupts are off,  *)
(* the current process keeps its registers, and the context to save is the *)
(* current process's own, unless that process is exiting.                  *)
(***************************************************************************)
CallOK(call) ==
  /\ process_head \in Pid
  /\ call.cpu \in CpuType /\ ~call.cpu.if
  /\ call.sync \in [depth : Nat, was : BOOLEAN]
  /\ boot <= Len(BootEntries) => call.sync.depth = 0
  /\ call.proc \in [Pid -> Process_t]
  /\ \A p \in Pid : /\ call.proc[p].entry = proc[p].entry
                    /\ call.proc[p].krsp = proc[p].krsp
                    /\ call.proc[p].fsbase = proc[p].fsbase
                    /\ p # process_head => call.proc[p].state = proc[p].state
  /\ call.proc[process_head].state \in {"ready", "dead"}
  /\ call.proc[Idle].state = "ready" /\ call.proc[Idle].wake_in = 0
  /\ call.ctx \in Context
  /\ call.proc[process_head].state = "ready" =>
       /\ call.ctx.who = process_head
       /\ call.ctx.stack = Home(process_head)
       /\ call.ctx.where \in LeftAs(proc[process_head], process_head)
  /\ IsUser(proc[process_head]) => call.cpu.fs = user_fs[process_head]
  /\ call.cpu.cr3 = Pagemap(proc[process_head], process_head)
  /\ IsUser(proc[process_head]) => call.cpu.rsp0 = process_head

\* IRQ_RES at the end of process_schedule does not turn interrupts on.
LEMMA NoSti ==
  ASSUME NEW call, CallOK(call)
  PROVE  LET s1 == int_disable(call.cpu, call.sync)
         IN /\ s1 \in [depth : Nat, was : BOOLEAN]
            /\ ~Resumes(s1)
            /\ int_resume(s1) \in [depth : Nat, was : BOOLEAN]
            /\ int_resume(s1).depth = call.sync.depth
  BY DEF CallOK, int_disable, Resumes, int_resume, CpuType

\* What the switch saves of the process it leaves.
LEMMA SaveType ==
  ASSUME NEW call, call.ctx \in Context, call.cpu.fs \in FsBases \cup {0},
         NEW pr \in Process_t
  PROVE  LET old == Save(pr, call)
         IN /\ old \in Process_t
            /\ old.entry = pr.entry /\ old.state = pr.state
            /\ old.wake_in = pr.wake_in /\ old.krsp = call.ctx
            /\ old.fsbase = IF IsUser(pr) THEN call.cpu.fs ELSE pr.fsbase
  BY ZenonT(30) DEF Save, Process_t

\* Resuming a context that lies where IInv says it does.
LEMMA ContinueOK ==
  ASSUME NEW q \in Pid, NEW pr \in Process_t, q = Idle => ~IsUser(pr),
         NEW x \in Context, x.who = q, x.stack = Home(q), x.where \in LeftAs(pr, q),
         NEW c \in CpuType, ~c.isr, NEW s, ~Resumes(s)
  PROVE  LET n == Continue(x, c, s)
         IN /\ n \in CpuType /\ n.who = q /\ ~n.isr
            /\ n.mode = IF IsUser(pr) THEN "user" ELSE "kernel"
            /\ n.mode = "kernel" => n.stack = Home(q)
            /\ n.if <=> n.mode = "user" \/ q = Idle
            /\ n.cr3 = c.cr3 /\ n.rsp0 = c.rsp0 /\ n.fs = c.fs
  BY ZenonT(30) DEF Continue, CpuType, Context, LeftAs, Home

(***************************************************************************)
(* process_schedule, whoever it picks among the runnable processes, leaves *)
(* the invariant true.                                                     *)
(***************************************************************************)
LEMMA DispatchInv ==
  ASSUME IInv, NEW call, CallOK(call), process_schedule(call),
         UNCHANGED <<next_pid, boot, user_fs>>
  PROVE  IInv'
<1> DEFINE R == Reaped(call.proc)
           s1 == int_disable(call.cpu, call.sync)
           c1 == [call.cpu EXCEPT !.isr = FALSE]
<1>1. PICK q \in Runnable(call.proc) : Dispatch(call, R, q)
  BY Zenon DEF process_schedule
<1>2. /\ q \in Pid /\ call.proc[q].state = "ready" /\ call.proc[q].wake_in = 0
      /\ process_head \in Pid
  BY <1>1, Zenon DEF Runnable, CallOK
<1>3. R \in [Pid -> Process_t]
  BY DEF Reaped, CallOK, Process_t
<1>4. \A p \in Pid : /\ R[p].entry = proc[p].entry
                     /\ R[p].krsp = proc[p].krsp
                     /\ R[p].fsbase = proc[p].fsbase
                     /\ R[p].wake_in = call.proc[p].wake_in
                     /\ R[p].state = "ready" <=> call.proc[p].state = "ready"
                     /\ R[p].state = "none" <=> proc[p].state = "none"
  BY DEF Reaped, CallOK, Process_t, IInv, CurrentIsRunning, None, Pid
<1>5. /\ s1 \in [depth : Nat, was : BOOLEAN] /\ ~Resumes(s1)
      /\ sync' \in [depth : Nat, was : BOOLEAN] /\ sync'.depth = call.sync.depth
  BY <1>1, NoSti, Zenon DEF Dispatch
<1>6. /\ c1 \in CpuType /\ ~c1.isr /\ c1.cr3 = call.cpu.cr3
      /\ c1.rsp0 = call.cpu.rsp0 /\ c1.fs = call.cpu.fs
  BY ZenonT(30) DEF CallOK, CpuType
<1>7. process_head' = q
  BY <1>1, Zenon DEF Dispatch
<1>8. q = Idle => ~IsUser(proc[q])
  BY <1>2 DEF IInv, RunningOK, CallOK, IsUser, None, Pid
<1> DEFINE Picked ==
      /\ cpu' \in CpuType /\ cpu'.who = q /\ ~cpu'.isr
      /\ cpu'.mode = IF IsUser(proc[q]) THEN "user" ELSE "kernel"
      /\ cpu'.mode = "kernel" => cpu'.stack = Home(q)
      /\ cpu'.if <=> cpu'.mode = "user" \/ q = Idle
      /\ cpu'.cr3 = Pagemap(proc[q], q)
      /\ IsUser(proc[q]) => cpu'.rsp0 = q /\ cpu'.fs = user_fs[q]
<1> DEFINE Kept(p) ==
      /\ proc'[p] \in Process_t
      /\ proc'[p].entry = proc[p].entry
      /\ proc'[p].state = R[p].state
      /\ proc'[p].wake_in = R[p].wake_in
      /\ proc'[p].state = "ready" /\ p # q =>
           /\ proc'[p].krsp.who = p
           /\ proc'[p].krsp.stack = Home(p)
           /\ proc'[p].krsp.where \in LeftAs(proc[p], p)
           /\ IsUser(proc[p]) => proc'[p].fsbase = user_fs[p]
<1>9. Picked
  <2>1. CASE q = process_head
    <3>1. cpu' = Continue(call.ctx, c1, s1)
      BY <1>1, <2>1, Zenon DEF Dispatch
    <3>2. /\ call.ctx.who = q /\ call.ctx.stack = Home(q) /\ call.ctx \in Context
          /\ call.ctx.where \in LeftAs(proc[q], q)
      BY <1>2, <2>1, Zenon DEF CallOK
    <3>3. proc[q] \in Process_t
      BY <1>2, Zenon DEF IInv, TypeOK
    <3>4. /\ c1.cr3 = Pagemap(proc[q], q)
          /\ IsUser(proc[q]) => c1.rsp0 = q /\ c1.fs = user_fs[q]
      BY <1>6, <2>1, Zenon DEF CallOK
    <3> HIDE DEF c1, s1
    <3> QED
      BY <1>2, <1>5, <1>6, <1>8, <3>1, <3>2, <3>3, <3>4, ContinueOK
  <2>2. CASE q # process_head
    <3> DEFINE c2 == Load(R[q], q, c1)
    <3>1. cpu' = Continue(R[q].krsp, c2, s1)
      BY <1>1, <2>2, Zenon DEF Dispatch
    <3>2. /\ R[q].krsp.who = q /\ R[q].krsp.stack = Home(q) /\ R[q].krsp \in Context
          /\ R[q].krsp.where \in LeftAs(proc[q], q)
          /\ IsUser(proc[q]) => R[q].fsbase = user_fs[q]
      BY <1>2, <1>3, <1>4, <2>2 DEF CallOK, IInv, SuspendedOK, Process_t
    <3>3. proc[q] \in Process_t
      BY <1>2, Zenon DEF IInv, TypeOK
    <3>4. /\ c2 \in CpuType /\ ~c2.isr /\ c2.cr3 = Pagemap(R[q], q)
          /\ c2.rsp0 = q /\ c2.fs = IF IsUser(R[q]) THEN R[q].fsbase ELSE c1.fs
      BY <1>2, <1>3, <1>6, ZenonT(30) DEF Load, CpuType, Process_t, Pagemap
    <3>5. /\ c2.cr3 = Pagemap(proc[q], q)
          /\ IsUser(proc[q]) => c2.rsp0 = q /\ c2.fs = user_fs[q]
      BY <1>2, <1>4, <3>2, <3>4, Zenon DEF Pagemap, IsUser
    <3> HIDE DEF c2, s1
    <3> QED
      BY <1>2, <1>5, <1>8, <3>1, <3>2, <3>3, <3>4, <3>5, ContinueOK
  <2> QED
    BY <2>1, <2>2, Zenon
<1>10. ASSUME NEW p \in Pid PROVE Kept(p)
  <2>1. CASE p = process_head /\ q # process_head
    <3> DEFINE old == Save(R[p], call)
    <3>1. proc'[p] = old
      BY <1>1, <1>2, <1>3, <2>1, Zenon DEF Dispatch
    <3>2. /\ call.ctx \in Context /\ call.cpu.fs \in FsBases \cup {0}
          /\ R[p] \in Process_t
      BY <1>3, Zenon DEF CallOK, CpuType
    <3>3. /\ old \in Process_t
          /\ old.entry = R[p].entry /\ old.state = R[p].state
          /\ old.wake_in = R[p].wake_in /\ old.krsp = call.ctx
          /\ old.fsbase = IF IsUser(R[p]) THEN call.cpu.fs ELSE R[p].fsbase
      BY <3>2, SaveType, Zenon
    <3> HIDE DEF old
    <3> QED
      BY <1>4, <2>1, <3>1, <3>3 DEF CallOK, IsUser
  <2>2. CASE p # process_head \/ q = process_head
    <3>1. proc'[p] = R[p] /\ (p # process_head \/ p = q)
      BY <1>1, <1>2, <1>3, <2>2, Zenon DEF Dispatch
    <3>2. R[p].state = "ready" /\ p # q => SuspendedOK(p)
      BY <1>4, <3>1 DEF CallOK, IInv
    <3> QED
      BY <1>3, <1>4, <3>1, <3>2, Zenon DEF SuspendedOK
  <2> QED
    BY <2>1, <2>2, Zenon
<1>11. proc' \in [Pid -> Process_t]
  BY <1>1, <1>3, <1>10, <1>2, Zenon DEF Dispatch
<1>0. overlapped' \in BOOLEAN
  BY <1>1, Zenon DEF Dispatch, IInv, TypeOK
<1> HIDE DEF R, s1, c1
<1>12. TypeOK'
  BY <1>0, <1>2, <1>5, <1>7, <1>9, <1>11, Zenon DEF IInv, TypeOK
<1>13. BootOK'
  BY <1>2, <1>5, <1>7, <1>10 DEF IInv, BootOK, CallOK, None, Pid
<1>14. /\ \A p \in Pid : proc'[p].state = "none" <=> p >= next_pid'
       /\ \A p \in Pid : p >= next_pid' => user_fs'[p] = 0
  BY <1>4, <1>10 DEF IInv
<1>15. (process_head # None => RunningOK)'
  <2>1. Idle \in Pid /\ process_head # None
    BY <1>2, SwitchAssumption DEF Pid, Idle, None
  <2>2. /\ proc'[Idle].state = "ready" /\ proc'[Idle].wake_in = 0
        /\ proc'[Idle].entry = "forever"
    BY <1>4, <1>10, <2>1 DEF IInv, RunningOK, CallOK
  <2> QED
    BY <1>2, <1>7, <1>9, <1>10, <2>2 DEF RunningOK, IsUser
<1>16. (\A p \in Pid : proc[p].state = "ready" /\ p # process_head => SuspendedOK(p))'
  BY <1>7, <1>10 DEF SuspendedOK, IsUser, LeftAs
<1>17. CurrentIsRunning' /\ OwnAddressSpace'
  BY <1>2, <1>4, <1>7, <1>9, <1>10
     DEF CurrentIsRunning, OwnAddressSpace, Pagemap, IsUser
<1>18. FsBasePreserved' /\ PreemptionDiscipline' /\ ~cpu'.isr
  BY <1>9, Zenon DEF FsBasePreserved, PreemptionDiscipline
<1> QED
  BY <1>12, <1>13, <1>14, <1>15, <1>16, <1>17, <1>18, Zenon DEF IInv
-----------------------------------------------------------------------------
(* Every caller of process_schedule meets CallOK. *)

\* The frame that a timer interrupt leaves behind is one a switch can resume.
LEMMA TimerCallOK ==
  ASSUME IInv, TimerEnabled
  PROVE  CallOK(TimerCall)
<1> DEFINE P == [p \in Pid |-> [proc[p] EXCEPT !.wake_in = IF @ > 0 THEN @ - 1 ELSE 0]]
           c == [cpu EXCEPT !.if = FALSE, !.isr = TRUE]
<1>1. Idle \in Pid /\ process_head \in Pid /\ process_head # None
  BY SwitchAssumption DEF TimerEnabled, IInv, TypeOK, Pid, Idle
<1>2. \A p \in Pid : /\ P[p] \in Process_t
                     /\ P[p].entry = proc[p].entry /\ P[p].state = proc[p].state
                     /\ P[p].krsp = proc[p].krsp /\ P[p].fsbase = proc[p].fsbase
                     /\ proc[p].wake_in = 0 => P[p].wake_in = 0
  BY SwitchAssumption DEF IInv, TypeOK, Process_t
<1>3. /\ c \in CpuType /\ ~c.if /\ c.fs = cpu.fs /\ c.cr3 = cpu.cr3 /\ c.rsp0 = cpu.rsp0
  BY ZenonT(30) DEF IInv, TypeOK, CpuType
<1>4. /\ TimerCall.cpu = c /\ TimerCall.sync = sync /\ TimerCall.proc = P
      /\ TimerCall.ctx.who = cpu.who
      /\ TimerCall.ctx.where = IF cpu.mode = "user" THEN "irq_user" ELSE "irq_kernel"
      /\ TimerCall.ctx.stack = IF cpu.mode = "user" THEN cpu.rsp0 ELSE cpu.stack
      /\ TimerCall.ctx \in Context
  BY Zenon DEF TimerCall, Call, IInv, TypeOK, CpuType, Context
<1> HIDE DEF P, c
<1>5. /\ cpu.who = process_head /\ (cpu.mode = "user" <=> IsUser(proc[process_head]))
      /\ (cpu.mode = "user" => process_head # Idle /\ cpu.rsp0 = process_head)
      /\ (cpu.mode # "user" => process_head = Idle /\ cpu.stack = None)
  BY <1>1, Zenon DEF IInv, RunningOK, CurrentIsRunning, OwnAddressSpace,
              PreemptionDiscipline, TimerEnabled, Home, IsUser, TypeOK, CpuType
<1>6. P \in [Pid -> Process_t]
  BY <1>2, Zenon DEF P
<1> QED
  BY <1>1, <1>2, <1>3, <1>4, <1>5, <1>6
     DEF CallOK, IInv, TypeOK, BootOK, RunningOK, CurrentIsRunning,
         OwnAddressSpace, FsBasePreserved, Home, LeftAs

\* So is the one process_sleep leaves behind.
LEMMA SleepCallOK ==
  ASSUME IInv, KernelCode, NEW ms \in 0 .. MaxSleep
  PROVE  CallOK(SleepCall(ms))
<1> DEFINE P == [proc EXCEPT ![process_head].wake_in = ms]
<1>1. Idle \in Pid /\ process_head \in Pid /\ process_head # None
      /\ process_head # Idle /\ cpu.mode = "kernel"
  BY SwitchAssumption DEF KernelCode, IInv, TypeOK, Pid, Idle
<1>2. \A p \in Pid : /\ P[p] \in Process_t
                     /\ P[p].entry = proc[p].entry /\ P[p].state = proc[p].state
                     /\ P[p].krsp = proc[p].krsp /\ P[p].fsbase = proc[p].fsbase
                     /\ p # process_head => P[p].wake_in = proc[p].wake_in
  BY <1>1 DEF IInv, TypeOK, Process_t
<1>3. P \in [Pid -> Process_t]
  BY <1>2, ZenonT(30) DEF IInv, TypeOK
<1>4. /\ SleepCall(ms).cpu = cpu /\ SleepCall(ms).sync = sync
      /\ SleepCall(ms).proc = P
      /\ SleepCall(ms).ctx = [who |-> cpu.who, where |-> "yield", stack |-> cpu.stack]
      /\ SleepCall(ms).ctx \in Context
  BY Zenon DEF SleepCall, Call, IInv, TypeOK, CpuType, Context
<1>5. /\ cpu.who = process_head /\ ~IsUser(proc[process_head]) /\ ~cpu.if
      /\ cpu.stack = Home(process_head)
  BY <1>1, Zenon DEF IInv, RunningOK, CurrentIsRunning, PreemptionDiscipline
<1> HIDE DEF P
<1> QED
  BY <1>1, <1>2, <1>3, <1>4, <1>5
     DEF CallOK, IInv, TypeOK, BootOK, RunningOK, CurrentIsRunning,
         OwnAddressSpace, LeftAs

\* process_exit leaves a dead process and a state the switch accepts.
LEMMA ExitCallOK ==
  ASSUME IInv, process_head \notin {None, Idle},
         NEW c \in CpuType, ~c.if, c.fs = cpu.fs, c.cr3 = cpu.cr3, c.rsp0 = cpu.rsp0,
         NEW s \in [depth : Nat, was : BOOLEAN],
         boot <= Len(BootEntries) => s.depth = 0,
         NEW stack \in Pid \cup {None}
  PROVE  CallOK(ExitCall(c, s, stack))
<1> DEFINE P == [proc EXCEPT ![process_head].state = "dead"]
           X == ExitCall(c, s, stack)
<1>1. Idle \in Pid /\ process_head \in Pid
  BY SwitchAssumption DEF IInv, TypeOK, Pid, Idle
<1>2. \A p \in Pid : /\ P[p] \in Process_t
                     /\ P[p].entry = proc[p].entry
                     /\ P[p].krsp = proc[p].krsp /\ P[p].fsbase = proc[p].fsbase
                     /\ P[p].wake_in = proc[p].wake_in
                     /\ P[p].state = IF p = process_head THEN "dead" ELSE proc[p].state
  <2> TAKE p \in Pid
  <2>1. proc \in [Pid -> Process_t] /\ proc[p] \in Process_t
    BY Zenon DEF IInv, TypeOK
  <2>2. CASE p = process_head
    <3>1. P[p] = [proc[p] EXCEPT !.state = "dead"]
      BY <2>1, <2>2, Zenon
    <3> QED BY <2>1, <2>2, <3>1, Zenon DEF Process_t
  <2>3. CASE p # process_head
    <3>1. P[p] = proc[p]
      BY <2>1, <2>3, Zenon
    <3> QED BY <2>1, <2>3, <3>1, Zenon
  <2> QED BY <2>2, <2>3, Zenon
<1>3. P \in [Pid -> Process_t]
  BY <1>2, Zenon DEF IInv, TypeOK
<1>4. X.cpu = c /\ X.sync = s /\ X.proc = P /\ X.ctx \in Context
  BY Zenon DEF ExitCall, Call, IInv, TypeOK, CpuType, Context
<1>5. /\ c.cr3 = Pagemap(proc[process_head], process_head)
      /\ IsUser(proc[process_head]) =>
           c.fs = user_fs[process_head] /\ c.rsp0 = process_head
  BY <1>1, Zenon DEF IInv, RunningOK, CurrentIsRunning, OwnAddressSpace, FsBasePreserved
<1> HIDE DEF P, X
<1>6. CallOK(X)
  BY <1>1, <1>2, <1>3, <1>4, <1>5, Zenon DEF CallOK, IInv, RunningOK
<1> QED
  BY <1>6, Zenon DEF X

\* In user mode the current process is a user process, and kmain is done.
LEMMA UserMode ==
  ASSUME IInv, cpu.mode = "user"
  PROVE  /\ process_head \in Pid /\ process_head \notin {None, Idle}
         /\ cpu.who = process_head /\ IsUser(proc[process_head])
         /\ ~(boot <= Len(BootEntries))
  BY SwitchAssumption, Zenon DEF IInv, TypeOK, BootOK, RunningOK, CurrentIsRunning, IsUser, Pid, None, Idle

\* The interrupt counter keeps its type.
LEMMA MaskType ==
  ASSUME NEW c, c.if \in BOOLEAN, NEW s \in [depth : Nat, was : BOOLEAN]
  PROVE  /\ int_disable(c, s) \in [depth : Nat, was : BOOLEAN]
         /\ int_resume(int_disable(c, s)) \in [depth : Nat, was : BOOLEAN]
  BY DEF int_disable, int_resume

\* The end of a kernel process, in process_entry, is such an exit.
LEMMA EntryReturnsOK ==
  ASSUME IInv, KernelCode
  PROVE  CallOK(ExitCall(cpu, sync, cpu.stack))
<1>1. /\ process_head \notin {None, Idle} /\ cpu \in CpuType /\ cpu.who = process_head
      /\ sync \in [depth : Nat, was : BOOLEAN] /\ cpu.mode = "kernel"
      /\ boot <= Len(BootEntries) => sync.depth = 0
  BY Zenon DEF KernelCode, IInv, TypeOK, BootOK, CurrentIsRunning
<1>2. ~cpu.if /\ cpu.stack \in Pid \cup {None}
  BY <1>1, Zenon DEF IInv, PreemptionDiscipline, CpuType
<1> QED
  BY <1>1, <1>2, ExitCallOK, Zenon

\* SYSCALL_EXIT is such an exit.
LEMMA SyscallExitOK ==
  ASSUME IInv, cpu.mode = "user"
  PROVE  CallOK(SyscallExitCall)
<1> DEFINE c == [cpu EXCEPT !.if = FALSE, !.gs = cpu.kgs, !.kgs = cpu.gs]
           st == SyscallStack
<1>1. /\ process_head \notin {None, Idle} /\ ~(boot <= Len(BootEntries))
  BY UserMode, Zenon
<1>2. /\ c \in CpuType /\ ~c.if /\ c.fs = cpu.fs /\ c.cr3 = cpu.cr3
      /\ c.rsp0 = cpu.rsp0
  BY ZenonT(30) DEF IInv, TypeOK, CpuType
<1>3. int_disable(c, sync) \in [depth : Nat, was : BOOLEAN]
  <2> HIDE DEF c
  <2>1. c.if \in BOOLEAN /\ sync \in [depth : Nat, was : BOOLEAN]
    BY <1>2, Zenon DEF IInv, TypeOK, CpuType
  <2> QED
    BY <2>1, MaskType
<1>4. st \in Pid \cup {None}
  BY Zenon DEF SyscallStack, IInv, TypeOK, CpuType, Process_t, Context
<1>5. SyscallExitCall = ExitCall(c, int_disable(c, sync), st)
  BY Zenon DEF SyscallExitCall
<1> HIDE DEF c, st
<1> QED
  BY <1>1, <1>2, <1>3, <1>4, <1>5, ExitCallOK, Zenon

\* The end of a program after a fault is such an exit.
LEMMA UserFaultOK ==
  ASSUME IInv, cpu.mode = "user"
  PROVE  CallOK(UserFaultCall)
<1> DEFINE c == [cpu EXCEPT !.if = FALSE]
           s == int_resume(int_disable(c, sync))
<1>1. /\ process_head \notin {None, Idle} /\ ~(boot <= Len(BootEntries))
  BY UserMode, Zenon
<1>2. /\ c \in CpuType /\ ~c.if /\ c.fs = cpu.fs /\ c.cr3 = cpu.cr3
      /\ c.rsp0 = cpu.rsp0
  BY ZenonT(30) DEF IInv, TypeOK, CpuType
<1>3. s \in [depth : Nat, was : BOOLEAN]
  <2> HIDE DEF c
  <2>1. c.if \in BOOLEAN /\ sync \in [depth : Nat, was : BOOLEAN]
    BY <1>2, Zenon DEF IInv, TypeOK, CpuType
  <2> QED
    BY <2>1, MaskType
<1>4. cpu.rsp0 \in Pid \cup {None}
  BY Zenon DEF IInv, TypeOK, CpuType
<1>5. UserFaultCall = ExitCall(c, s, cpu.rsp0)
  BY Zenon DEF UserFaultCall
<1> HIDE DEF c, s
<1> QED
  BY <1>1, <1>2, <1>3, <1>4, <1>5, ExitCallOK
-----------------------------------------------------------------------------
(* The steps that do not schedule. *)

\* syscall_write_fsbase preserves the invariant.
LEMMA WriteFsBaseInv ==
  ASSUME IInv, NEW v \in FsBases, syscall_write_fsbase(v)
  PROVE  IInv'
<1>1. /\ process_head \in Pid /\ process_head \notin {None, Idle}
      /\ cpu.who = process_head /\ IsUser(proc[process_head]) /\ cpu.mode = "user"
  BY UserMode, Zenon DEF syscall_write_fsbase
<1>2. /\ cpu' \in CpuType /\ cpu'.fs = v /\ cpu'.who = cpu.who /\ cpu'.mode = cpu.mode
      /\ cpu'.stack = cpu.stack /\ cpu'.if = cpu.if /\ cpu'.isr = cpu.isr
      /\ cpu'.cr3 = cpu.cr3 /\ cpu'.rsp0 = cpu.rsp0
  BY Zenon DEF syscall_write_fsbase, IInv, TypeOK, CpuType
<1>3. /\ user_fs' \in [Pid -> FsBases \cup {0}] /\ user_fs'[process_head] = v
      /\ \A p \in Pid : p # process_head => user_fs'[p] = user_fs[p]
  BY <1>1, Zenon DEF syscall_write_fsbase, IInv, TypeOK
<1>4. UNCHANGED <<proc, process_head, next_pid, boot, sync, overlapped>>
  BY Zenon DEF syscall_write_fsbase
<1>5. TypeOK' /\ BootOK'
  BY <1>1, <1>2, <1>3, <1>4, Zenon DEF IInv, TypeOK, BootOK
<1>6. ~(process_head >= next_pid)
  BY <1>1, Zenon DEF IInv, CurrentIsRunning
<1>7. (\A p \in Pid : proc[p].state = "ready" /\ p # process_head => SuspendedOK(p))'
  BY <1>3, <1>4 DEF IInv, SuspendedOK, IsUser, LeftAs
<1>8. (process_head # None => RunningOK)'
  BY <1>2, <1>4, Zenon DEF IInv, RunningOK, IsUser
<1>9. CurrentIsRunning' /\ OwnAddressSpace' /\ FsBasePreserved' /\ PreemptionDiscipline'
  BY <1>1, <1>2, <1>3, <1>4, Zenon DEF IInv, CurrentIsRunning, OwnAddressSpace,
     FsBasePreserved, PreemptionDiscipline, Pagemap, IsUser
<1> QED
  BY <1>2, <1>3, <1>4, <1>5, <1>6, <1>7, <1>8, <1>9, Zenon DEF IInv

\* A new process is a well-formed suspended process.
LEMMA NewProcessOK ==
  ASSUME NEW p \in Pid, NEW e \in {"forever", "info", "shell", "user"}
  PROVE  LET n == NewProcess(p, e)
         IN /\ n \in Process_t /\ n.state = "ready" /\ n.entry = e /\ n.wake_in = 0
            /\ n.krsp.who = p /\ n.krsp.stack = p /\ n.fsbase = 0
            /\ n.krsp.where = IF e = "user" THEN "fresh_user" ELSE "fresh_kernel"
  BY SwitchAssumption DEF NewProcess, Process_t, Context

(***************************************************************************)
(* Adding a process keeps the invariant, if the interrupt flag keeps its   *)
(* value and the new process does not spawn others before kmain is done.   *)
(***************************************************************************)
LEMMA AddProcessInv ==
  ASSUME IInv, NEW e \in {"forever", "info", "shell", "user"}, AddProcess(e),
         cpu' = [cpu EXCEPT !.if = PairedIf(cpu, sync)], PairedIf(cpu, sync) = cpu.if,
         UNCHANGED <<user_fs, overlapped>>, boot' \in 0 .. Len(BootEntries) + 1,
         boot' # 0, boot' <= Len(BootEntries) =>
           boot <= Len(BootEntries) /\ e \notin {"shell", "user"},
         process_head = None => e = "forever"
  PROVE  IInv'
<1> DEFINE n == NewProcess(next_pid, e)
<1>1. /\ next_pid \in Pid /\ Idle \in Pid
      /\ n \in Process_t /\ n.state = "ready" /\ n.entry = e /\ n.wake_in = 0
      /\ n.krsp.who = next_pid /\ n.krsp.stack = next_pid /\ n.fsbase = 0
      /\ n.krsp.where = IF e = "user" THEN "fresh_user" ELSE "fresh_kernel"
  BY NewProcessOK, SwitchAssumption DEF AddProcess, Pid, Idle
<1>2. /\ proc' = [proc EXCEPT ![next_pid] = n]
      /\ process_head' = IF process_head = None THEN next_pid ELSE process_head
      /\ next_pid' = next_pid + 1
  BY Zenon DEF AddProcess
<1> HIDE DEF n
<1>3. /\ proc' \in [Pid -> Process_t] /\ proc'[next_pid] = n
      /\ \A p \in Pid : p # next_pid => proc'[p] = proc[p]
  BY <1>1, <1>2, Zenon DEF IInv, TypeOK
<1>4. /\ cpu' = cpu
  BY DEF IInv, TypeOK, CpuType
<1>5. sync' \in [depth : Nat, was : BOOLEAN] /\ sync'.depth = sync.depth
  BY Zenon DEF AddProcess, IInv, TypeOK, CpuType
<1>6. /\ next_pid' \in 0 .. MaxPid + 1 /\ next_pid' # 0 /\ process_head' \in Pid
      /\ process_head' # None /\ process_head # next_pid
      /\ process_head = None <=> next_pid = 0
  BY <1>1, <1>2, SwitchAssumption
     DEF IInv, TypeOK, BootOK, Pid, None, CurrentIsRunning
<1>7. TypeOK'
  BY <1>3, <1>4, <1>5, <1>6, Zenon DEF IInv, TypeOK
<1>8. BootOK'
  BY <1>1, <1>3, <1>5, <1>6, Zenon DEF IInv, BootOK
<1>9. /\ \A p \in Pid : proc'[p].state = "none" <=> p >= next_pid'
      /\ \A p \in Pid : p >= next_pid' => user_fs'[p] = 0
  BY <1>1, <1>2, <1>3 DEF IInv, Pid
<1>10. (process_head # None => RunningOK)'
  <2>1. CASE process_head = None
    BY <1>1, <1>2, <1>3, <1>4, <1>6, <2>1, Zenon DEF IInv, BootOK, RunningOK, IsUser, Home, Idle
  <2>2. CASE process_head # None
    BY <1>1, <1>2, <1>3, <1>4, <1>6, <2>2, Zenon DEF IInv, TypeOK, RunningOK, IsUser, Idle
  <2> QED
    BY <2>1, <2>2, Zenon
<1>11. (\A p \in Pid : proc[p].state = "ready" /\ p # process_head => SuspendedOK(p))'
  <2> SUFFICES ASSUME NEW p \in Pid, proc'[p].state = "ready", p # process_head'
               PROVE  SuspendedOK(p)'
    BY Zenon
  <2>1. CASE p = next_pid
    BY <1>1, <1>2, <1>3, <1>6, <2>1
       DEF IInv, SuspendedOK, Home, LeftAs, IsUser, Idle, Pid
  <2>2. CASE p # next_pid
    BY <1>2, <1>3, <2>2 DEF IInv, SuspendedOK, LeftAs, IsUser, BootOK, Pid, None
  <2> QED
    BY <2>1, <2>2, Zenon
<1>12. CurrentIsRunning' /\ OwnAddressSpace'
  <2>1. CASE process_head = None
    BY <1>1, <1>2, <1>3, <1>4, <1>6, <2>1, Zenon DEF IInv, BootOK, CurrentIsRunning, OwnAddressSpace, Pagemap, IsUser, Idle
  <2>2. CASE process_head # None
    BY <1>1, <1>2, <1>3, <1>4, <1>6, <2>2, Zenon DEF IInv, TypeOK, CurrentIsRunning, OwnAddressSpace, Pagemap, IsUser
  <2> QED
    BY <2>1, <2>2, Zenon
<1>13. FsBasePreserved' /\ PreemptionDiscipline' /\ ~cpu'.isr
  BY <1>4, Zenon DEF IInv, FsBasePreserved, PreemptionDiscipline
<1> QED
  BY <1>7, <1>8, <1>9, <1>10, <1>11, <1>12, <1>13, Zenon DEF IInv
-----------------------------------------------------------------------------
\* kmain's state after irq_install satisfies the inductive invariant.
THEOREM InitInv == Init => IInv
<1> SUFFICES ASSUME Init PROVE IInv
  BY Zenon
<1>0. overlapped \in BOOLEAN
  BY Zenon DEF Init
<1>1. TypeOK
  BY <1>0, SwitchAssumption DEF Init, TypeOK, Process_t, NoProcess, NoContext, Context,
                               CpuType, Pid, Idle, None
<1> QED
  BY <1>1, SwitchAssumption
     DEF Init, IInv, BootOK, NoProcess, CurrentIsRunning, OwnAddressSpace,
         FsBasePreserved, PreemptionDiscipline, Pid, Idle, None

\* Every kernel step, at any interrupt, preserves the inductive invariant.
THEOREM NextInv == IInv /\ [Next]_vars => IInv'
<1> SUFFICES ASSUME IInv, [Next]_vars PROVE IInv'
  BY Zenon
<1>1. CASE TimerIRQ
  BY <1>1, TimerCallOK, DispatchInv, Zenon DEF TimerIRQ
<1>2. ASSUME NEW ms \in 0 .. MaxSleep, process_sleep(ms) PROVE IInv'
  BY <1>2, SleepCallOK, DispatchInv, Zenon DEF process_sleep
<1>3. CASE EntryReturns
  BY <1>3, EntryReturnsOK, DispatchInv, Zenon DEF EntryReturns
<1>4. CASE syscall_exit
  BY <1>4, SyscallExitOK, DispatchInv, Zenon DEF syscall_exit
<1>5. CASE UserFault
  BY <1>5, UserFaultOK, DispatchInv, Zenon DEF UserFault
<1>6. ASSUME NEW v \in FsBases, syscall_write_fsbase(v) PROVE IInv'
  BY <1>6, WriteFsBaseInv, Zenon
<1>7. CASE process_create
  <2>1. cpu.who = Idle /\ boot <= Len(BootEntries) /\ sync.depth = 0
    BY <1>7, Zenon DEF process_create, KmainCreates, IInv, BootOK
  <2>2. /\ BootEntry \in {"forever", "info", "shell", "user"}
        /\ boot' <= Len(BootEntries) => BootEntry \notin {"shell", "user"}
    BY <1>7, <2>1, SwitchAssumption DEF process_create, BootEntry, IInv, TypeOK
  <2>3. PairedIf(cpu, sync) = cpu.if
    BY <2>1, Zenon DEF PairedIf, IInv, TypeOK, CpuType
  <2>4. process_head = None => BootEntry = "forever"
    BY Zenon DEF IInv, BootOK, BootEntry
  <2>5. boot' \in 0 .. Len(BootEntries) + 1 /\ boot' # 0
    BY <1>7, <2>1, SwitchAssumption DEF process_create, IInv, TypeOK
  <2> QED
    BY <1>7, <2>1, <2>2, <2>3, <2>4, <2>5, AddProcessInv, Zenon DEF process_create
<1>8. CASE process_create_user
  <2>1. /\ process_head \in Pid /\ process_head # None /\ process_head # Idle
        /\ proc[process_head].entry = "shell" /\ cpu.mode = "kernel"
        /\ cpu.who = process_head
    BY <1>8, Zenon DEF process_create_user, KernelCode, IInv, TypeOK, CurrentIsRunning
  <2>2. /\ ~(boot <= Len(BootEntries)) /\ boot' = boot
        /\ boot' \in 0 .. Len(BootEntries) + 1 /\ boot' # 0
    BY <1>8, <2>1, Zenon DEF process_create_user, IInv, TypeOK, BootOK
  <2>3. PairedIf(cpu, sync) = cpu.if
    BY <2>1, Zenon DEF PairedIf, IInv, TypeOK, CpuType, PreemptionDiscipline
  <2> QED
    BY <1>8, <2>1, <2>2, <2>3, AddProcessInv, Zenon DEF process_create_user
<1>9. CASE UNCHANGED vars
  BY <1>9, Zenon DEF vars, IInv, TypeOK, BootOK, RunningOK, SuspendedOK, CurrentIsRunning,
     OwnAddressSpace, FsBasePreserved, PreemptionDiscipline, Home, LeftAs, Pagemap,
     IsUser
<1> QED
  BY <1>1, <1>2, <1>3, <1>4, <1>5, <1>6, <1>7, <1>8, <1>9 DEF Next

\* The inductive invariant holds in every reachable state.
THEOREM Invariance == Spec => []IInv
  BY InitInv, NextInv, PTL DEF Spec

\* Type correctness of the processes, the CPU registers and the mask counter.
THEOREM TypeCorrect == Spec => []TypeOK
<1>1. IInv => TypeOK
  BY Zenon DEF IInv
<1> QED
  BY <1>1, Invariance, PTL

(***************************************************************************)
(* process_get_current names the process that executes, and it is alive,   *)
(* for any number of processes and any scheduling order.                   *)
(***************************************************************************)
THEOREM CurrentRuns == Spec => []CurrentIsRunning
<1>1. IInv => CurrentIsRunning
  BY Zenon DEF IInv
<1> QED
  BY <1>1, Invariance, PTL

\* process_schedule keeps CR3 and the TSS on the process that executes.
THEOREM AddressSpaces == Spec => []OwnAddressSpace
<1>1. IInv => OwnAddressSpace
  BY Zenon DEF IInv
<1> QED
  BY <1>1, Invariance, PTL

\* A user program always finds in FS what it wrote there.
THEOREM ThreadPointers == Spec => []FsBasePreserved
<1>1. IInv => FsBasePreserved
  BY Zenon DEF IInv
<1> QED
  BY <1>1, Invariance, PTL

(***************************************************************************)
(* Exactly user programs and idle run with interrupts on: what makes the   *)
(* kernel's critical sections in other processes atomic.                   *)
(***************************************************************************)
THEOREM Preemption == Spec => []PreemptionDiscipline
<1>1. IInv => PreemptionDiscipline
  BY Zenon DEF IInv
<1> QED
  BY <1>1, Invariance, PTL

-----------------------------------------------------------------------------
(* The stack of a system call. *)

(***************************************************************************)
(* What the callers of process_schedule leave of GS: only an exiting user  *)
(* process has swapped it, and nobody else resumes by entering a program.  *)
(***************************************************************************)
GsCall(call) ==
  /\ \/ call.cpu.kgs = cpu.kgs
     \/ call.proc[process_head].state = "dead" /\ IsUser(proc[process_head])
  /\ call.proc[process_head].state = "ready" => call.ctx.where # "fresh_user"

\* The switch loads GS and enters a new program with swapgs.
LEMMA SwitchedGs ==
  ASSUME NEW x, NEW c \in CpuType, NEW s, NEW pr, NEW q
  PROVE  /\ x.where = "fresh_user" => Continue(x, Load(pr, q, [c EXCEPT !.isr = FALSE]), s).kgs = q
         /\ x.where # "fresh_user" =>
              /\ Continue(x, Load(pr, q, [c EXCEPT !.isr = FALSE]), s).kgs = c.kgs
              /\ Continue(x, [c EXCEPT !.isr = FALSE], s).kgs = c.kgs
  BY ZenonT(30) DEF Continue, Load, CpuType

\* Switching keeps GS on the one user program that runs or was preempted.
LEMMA DispatchGs ==
  ASSUME IInv, GsInv, NEW call, CallOK(call), GsCall(call), process_schedule(call),
         overlapped \in BOOLEAN
  PROVE  GsInv'
<1> DEFINE R == Reaped(call.proc)
           h == process_head
<1>1. PICK q \in Runnable(call.proc) : Dispatch(call, R, q)
  BY Zenon DEF process_schedule
<1>2. /\ q \in Pid /\ call.proc[q].state = "ready" /\ h \in Pid
      /\ call.cpu \in CpuType /\ call.ctx \in Context
  BY <1>1, Zenon DEF Runnable, CallOK
<1>3. R \in [Pid -> Process_t] /\ proc \in [Pid -> Process_t]
  <2>1. R \in [Pid -> Process_t]
    BY DEF Reaped, CallOK, Process_t
  <2> QED BY <2>1, Zenon DEF IInv, TypeOK
<1>4. proc[h].state = "ready"
  BY <1>2, SwitchAssumption DEF IInv, CurrentIsRunning, None, Pid
<1>5. \A p \in Pid : /\ R[p].entry = proc[p].entry /\ R[p].krsp = proc[p].krsp
                     /\ R[p].state = "ready" => call.proc[p].state = "ready" /\ proc[p].state = "ready"
  BY <1>4 DEF Reaped, CallOK, Process_t
<1>6. process_head' = q
  BY <1>1, Zenon DEF Dispatch
<1> HIDE DEF R
<1>7. ASSUME q # h
      PROVE  /\ \A p \in Pid \ {h} : proc'[p] = R[p]
             /\ proc'[h].entry = proc[h].entry /\ proc'[h].state = R[h].state
             /\ proc'[h].krsp = call.ctx
             /\ overlapped' = (overlapped \/ Overlaps(R[q].krsp, proc'))
             /\ R[q].krsp.where = "fresh_user" => cpu'.kgs = q
             /\ R[q].krsp.where # "fresh_user" => cpu'.kgs = call.cpu.kgs
  <2>1. /\ proc' = [R EXCEPT ![h] = Save(R[h], call)]
        /\ cpu' = Continue(R[q].krsp, Load(R[q], q, [call.cpu EXCEPT !.isr = FALSE]),
                           int_disable(call.cpu, call.sync))
        /\ overlapped' = (overlapped \/ Overlaps(R[q].krsp, proc'))
    BY <1>1, <1>7, Zenon DEF Dispatch
  <2>2. proc'[h] = Save(R[h], call) /\ \A p \in Pid \ {h} : proc'[p] = R[p]
    BY <1>2, <1>3, <2>1, Zenon
  <2>3. /\ Save(R[h], call).entry = R[h].entry /\ Save(R[h], call).state = R[h].state
        /\ Save(R[h], call).krsp = call.ctx
    <3>1. R[h] \in Process_t
      BY <1>2, <1>3
    <3> QED BY <3>1, Zenon DEF Save, Process_t
  <2>4. /\ R[q].krsp.where = "fresh_user" => cpu'.kgs = q
        /\ R[q].krsp.where # "fresh_user" => cpu'.kgs = call.cpu.kgs
    BY <1>2, <2>1, SwitchedGs
  <2> QED BY <1>2, <1>5, <2>1, <2>2, <2>3, <2>4, Zenon
<1>8. ASSUME q = h
      PROVE  proc' = R /\ overlapped' = overlapped /\ cpu'.kgs = cpu.kgs
  <2>1. /\ proc' = R /\ overlapped' = overlapped
        /\ cpu' = Continue(call.ctx, [call.cpu EXCEPT !.isr = FALSE], int_disable(call.cpu, call.sync))
    BY <1>1, <1>8, Zenon DEF Dispatch
  <2>2. call.cpu.kgs = cpu.kgs /\ call.ctx.where # "fresh_user"
    BY <1>2, <1>8, Zenon DEF GsCall
  <2> QED BY <1>2, <2>1, <2>2, SwitchedGs
<1>9. ASSUME NEW p \in Pid, proc'[p].state = "ready", IsUser(proc'[p])
      PROVE  /\ proc[p].state = "ready" /\ call.proc[p].state = "ready" /\ IsUser(proc[p])
             /\ p # h \/ q = h => proc'[p].krsp = proc[p].krsp
             /\ p = h /\ q # h => proc'[p].krsp = call.ctx
  <2>1. CASE p # h \/ q = h
    BY <1>5, <1>7, <1>8, <1>9, <2>1, Zenon DEF IsUser
  <2>2. CASE p = h /\ q # h
    BY <1>5, <1>7, <1>9, <2>2, Zenon DEF IsUser
  <2> QED BY <2>1, <2>2
<1>10. ASSUME NEW p \in Pid, proc'[p].state = "ready", IsUser(proc'[p])
       PROVE  proc'[p].krsp.stack = p
  <2>1. CASE p # h \/ q = h
    BY <1>9, <1>10, <2>1, Zenon DEF GsInv
  <2>2. CASE p = h /\ q # h
    <3>1. p # Idle
      BY <1>9, <1>10, <2>2, SwitchAssumption DEF IInv, RunningOK, IsUser, None, Pid
    <3> QED BY <1>9, <1>10, <2>2, <3>1, Zenon DEF CallOK, Home
  <2> QED BY <2>1, <2>2
<1>11. ASSUME ~overlapped', NEW p \in Pid, proc'[p].state = "ready", IsUser(proc'[p]),
              p = q \/ proc'[p].krsp.where = "irq_user"
       PROVE  cpu'.kgs = p
  <2>1. proc[p].state = "ready" /\ call.proc[p].state = "ready" /\ IsUser(proc[p])
    BY <1>9, <1>11, Zenon
  <2>2. CASE q = h
    <3>1. p = h \/ proc[p].krsp.where = "irq_user"
      BY <1>9, <1>11, <2>2, Zenon
    <3> QED BY <1>8, <1>11, <2>1, <2>2, <3>1, Zenon DEF GsInv
  <2>3. CASE q # h /\ R[q].krsp.where = "fresh_user"
    BY <1>7, <1>11, <2>3, Zenon DEF Overlaps
  <2>4. CASE q # h /\ R[q].krsp.where # "fresh_user"
    <3>1. ~overlapped /\ cpu'.kgs = call.cpu.kgs
      BY <1>7, <1>11, <2>4, Zenon
    <3>2. cpu.kgs = p
      <4>1. CASE p = h
        BY <2>1, <3>1, <4>1, Zenon DEF GsInv
      <4>2. CASE p = q
        <5>1. SuspendedOK(p) /\ R[p].krsp = proc[p].krsp
          BY <1>5, <2>1, <2>4, <4>2, Zenon DEF IInv
        <5>2. p # Idle
          BY <1>2, <2>1, SwitchAssumption DEF IInv, RunningOK, IsUser, None, Pid
        <5>3. proc[p].krsp.where = "irq_user"
          BY <2>1, <2>4, <4>2, <5>1, <5>2, Zenon DEF SuspendedOK, LeftAs
        <5> QED BY <2>1, <3>1, <5>3, Zenon DEF GsInv
      <4>3. CASE p # h /\ p # q
        BY <1>9, <1>11, <2>1, <3>1, <4>3, Zenon DEF GsInv
      <4> QED BY <4>1, <4>2, <4>3
    <3>3. CASE call.cpu.kgs = cpu.kgs
      BY <3>1, <3>2, <3>3
    <3>4. CASE call.proc[h].state = "dead" /\ IsUser(proc[h])
      <4>1. cpu.kgs = h
        BY <1>2, <1>4, <3>1, <3>4, Zenon DEF GsInv
      <4> QED BY <2>1, <3>2, <3>4, <4>1
    <3> QED BY <3>3, <3>4, Zenon DEF GsCall
  <2> QED BY <2>2, <2>3, <2>4
<1> QED BY <1>6, <1>10, <1>11, Zenon DEF GsInv

\* An exit that leaves the swapped GS alone, or is that of a user process.
LEMMA ExitGs ==
  ASSUME IInv, process_head \in Pid, NEW c, NEW s, NEW stack,
         c.kgs = cpu.kgs \/ IsUser(proc[process_head])
  PROVE  GsCall(ExitCall(c, s, stack))
<1> DEFINE X == ExitCall(c, s, stack)
<1>1. X.cpu = c /\ X.proc = [proc EXCEPT ![process_head].state = "dead"]
  BY Zenon DEF ExitCall, Call
<1>2. X.proc[process_head].state = "dead"
  BY <1>1 DEF IInv, TypeOK, Process_t
<1> HIDE DEF X
<1>3. GsCall(X)
  BY <1>1, <1>2 DEF GsCall
<1> QED BY <1>3 DEF X

\* A new process has not run yet.
LEMMA AddedGs ==
  ASSUME IInv, GsInv, NEW e \in {"forever", "info", "shell", "user"}, AddProcess(e),
         cpu' = [cpu EXCEPT !.if = PairedIf(cpu, sync)], UNCHANGED overlapped,
         process_head = None => e = "forever"
  PROVE  GsInv'
<1> DEFINE n == NewProcess(next_pid, e)
<1>1. /\ next_pid \in Pid /\ n.entry = e /\ n.krsp.stack = next_pid
      /\ n.krsp.where = IF e = "user" THEN "fresh_user" ELSE "fresh_kernel"
  BY NewProcessOK DEF AddProcess
<1>2. /\ proc' = [proc EXCEPT ![next_pid] = n]
      /\ process_head' = IF process_head = None THEN next_pid ELSE process_head
  BY Zenon DEF AddProcess
<1> HIDE DEF n
<1>3. proc'[next_pid] = n /\ \A p \in Pid : p # next_pid => proc'[p] = proc[p]
  BY <1>1, <1>2, Zenon DEF IInv, TypeOK
<1>4. cpu'.kgs = cpu.kgs
  BY Zenon DEF IInv, TypeOK, CpuType
<1>5. process_head # None => process_head # next_pid
  BY <1>1 DEF IInv, CurrentIsRunning, Pid
<1>6. \A p \in Pid : p # next_pid /\ p = process_head' => p = process_head
  BY <1>2, Zenon
<1>7. next_pid = process_head' => e = "forever"
  BY <1>2, <1>5, Zenon
<1>8. ASSUME NEW p \in Pid, proc'[p].state = "ready", IsUser(proc'[p])
      PROVE  /\ proc'[p].krsp.stack = p
             /\ ~overlapped' /\ (p = process_head' \/ proc'[p].krsp.where = "irq_user") => cpu'.kgs = p
  <2>1. CASE p = next_pid
    BY <1>1, <1>3, <1>7, <1>8, <2>1, Zenon DEF IsUser
  <2>2. CASE p # next_pid
    BY <1>3, <1>4, <1>6, <1>8, <2>2, Zenon DEF GsInv
  <2> QED BY <2>1, <2>2
<1> QED BY <1>8, Zenon DEF GsInv

LEMMA NextGs == IInv /\ GsInv /\ [Next]_vars => GsInv'
<1> SUFFICES ASSUME IInv, GsInv, [Next]_vars PROVE GsInv'
  BY Zenon
<1>0. overlapped \in BOOLEAN /\ cpu \in CpuType
  BY Zenon DEF IInv, TypeOK
<1>1. CASE TimerIRQ
  <2>1. GsCall(TimerCall)
    <3>1. TimerCall.cpu.kgs = cpu.kgs
      BY <1>0, Zenon DEF TimerCall, Call, CpuType
    <3>2. TimerCall.ctx.where # "fresh_user"
      BY Zenon DEF TimerCall, Call
    <3> QED BY <3>1, <3>2, Zenon DEF GsCall
  <2> QED BY <1>0, <1>1, <2>1, TimerCallOK, DispatchGs, Zenon DEF TimerIRQ
<1>2. ASSUME NEW ms \in 0 .. MaxSleep, process_sleep(ms) PROVE GsInv'
  <2>1. GsCall(SleepCall(ms))
    BY Zenon DEF GsCall, SleepCall, Call
  <2> QED BY <1>0, <1>2, <2>1, SleepCallOK, DispatchGs, Zenon DEF process_sleep
<1>3. CASE EntryReturns
  <2>1. process_head \in Pid
    BY <1>3, Zenon DEF EntryReturns, KernelCode, IInv, TypeOK
  <2>2. GsCall(ExitCall(cpu, sync, cpu.stack))
    BY <2>1, ExitGs, Zenon
  <2> QED BY <1>0, <1>3, <2>2, EntryReturnsOK, DispatchGs, Zenon DEF EntryReturns
<1>4. CASE syscall_exit
  <2>1. cpu.mode = "user" /\ process_schedule(SyscallExitCall)
    BY <1>4, Zenon DEF syscall_exit
  <2>2. process_head \in Pid /\ IsUser(proc[process_head])
    BY <2>1, UserMode, Zenon
  <2>3. GsCall(SyscallExitCall)
    BY <2>2, ExitGs, Zenon DEF SyscallExitCall
  <2> QED BY <1>0, <2>1, <2>3, SyscallExitOK, DispatchGs, Zenon
<1>5. CASE UserFault
  <2>1. cpu.mode = "user" /\ process_schedule(UserFaultCall)
    BY <1>5, Zenon DEF UserFault
  <2>2. process_head \in Pid /\ IsUser(proc[process_head])
    BY <2>1, UserMode, Zenon
  <2>3. GsCall(UserFaultCall)
    BY <2>2, ExitGs, Zenon DEF UserFaultCall
  <2> QED BY <1>0, <2>1, <2>3, UserFaultOK, DispatchGs, Zenon
<1>6. ASSUME NEW v \in FsBases, syscall_write_fsbase(v) PROVE GsInv'
  <2>1. UNCHANGED <<proc, process_head, overlapped>> /\ cpu'.kgs = cpu.kgs
    BY <1>0, <1>6, Zenon DEF syscall_write_fsbase, CpuType
  <2> QED BY <2>1, Zenon DEF GsInv, IsUser
<1>7. CASE process_create
  <2>1. BootEntry \in {"forever", "info", "shell", "user"}
    BY <1>7, SwitchAssumption DEF process_create, KmainCreates, BootEntry, IInv, TypeOK
  <2>2. process_head = None => BootEntry = "forever"
    BY Zenon DEF IInv, BootOK, BootEntry
  <2> QED BY <1>7, <2>1, <2>2, AddedGs, Zenon DEF process_create
<1>8. CASE process_create_user
  BY <1>8, AddedGs, Zenon DEF process_create_user, KernelCode
<1>9. CASE UNCHANGED vars
  BY <1>9, Zenon DEF vars, GsInv, IsUser
<1> QED
  BY <1>1, <1>2, <1>3, <1>4, <1>5, <1>6, <1>7, <1>8, <1>9 DEF Next

\* A process that can run has its frames on its own stack.
LEMMA OwnStacks ==
  ASSUME IInv, GsInv, process_head # None, NEW p \in Pid, proc[p].state = "ready"
  PROVE  StacksOf(p) = {Home(p)}
<1>1. CASE p # process_head
  BY <1>1, Zenon DEF StacksOf, IInv, SuspendedOK
<1>2. CASE p = process_head /\ cpu.mode = "kernel"
  BY <1>2, Zenon DEF StacksOf, IInv, RunningOK
<1>3. CASE p = process_head /\ cpu.mode # "kernel"
  <2>1. cpu.mode = "user"
    BY <1>3, Zenon DEF IInv, TypeOK, CpuType
  <2>2. IsUser(proc[p]) /\ p # Idle /\ p # None
    BY <1>3, <2>1, UserMode, Zenon
  <2>3. cpu.rsp0 = p
    BY <1>3, <2>1, Zenon DEF IInv, OwnAddressSpace
  <2>4. ~overlapped => SyscallStack = p
    BY <1>3, <2>2, Zenon DEF GsInv, SyscallStack
  <2> QED BY <1>3, <2>2, <2>3, <2>4, Zenon DEF StacksOf, Home
<1> QED BY <1>1, <1>2, <1>3

(***************************************************************************)
(* Reaping never frees, and switching never shares, a stack that a process *)
(* returns to, is interrupted on or, until two user programs overlap,      *)
(* makes its system calls on; for any number of processes.                 *)
(***************************************************************************)
THEOREM Stacks == Spec => []StacksSafe
<1>1. Init => GsInv
  BY DEF Init, NoProcess, GsInv
<1>2. IInv /\ GsInv => StacksSafe
  <2> SUFFICES ASSUME IInv, GsInv, process_head # None PROVE StacksSafe
    BY DEF StacksSafe
  <2>1. \A p \in Pid : proc[p].state = "ready" => StacksOf(p) = {Home(p)}
    BY OwnStacks
  <2>2. \A p, q \in Pid : Home(p) = Home(q) => p = q
    BY DEF Home, None, Pid, Idle
  <2> QED BY <2>1, <2>2 DEF StacksSafe, Home
<1> QED BY <1>1, <1>2, NextGs, Invariance, PTL DEF Spec

-----------------------------------------------------------------------------
(* Rings. *)

\* In a ring no two nodes have the same successor.
LEMMA OnePredecessor ==
  ASSUME NEW S, NEW at, NEW K, NEW h, NEW nx, Linked(S, at, K, h, nx),
         NEW p \in S, NEW q \in S, nx[p] = nx[q]
  PROVE  p = q
<1>1. /\ at[p] \in Nat /\ at[q] \in Nat /\ at[nx[p]] \in Nat
      /\ at[h] = 0 /\ nx[p] \in S
      /\ at[p] = at[q] => p = q
  BY Zenon DEF Linked
<1>2. /\ \/ at[p] < at[nx[p]] /\ (at[p] < at[q] => at[nx[p]] <= at[q])
         \/ nx[p] = h /\ at[q] <= at[p]
      /\ \/ at[q] < at[nx[q]] /\ (at[q] < at[p] => at[nx[q]] <= at[p])
         \/ nx[q] = h /\ at[p] <= at[q]
  BY Zenon DEF Linked
<1> QED BY <1>1, <1>2

\* Unlinking the successor of a node, as process_reap does, leaves a ring.
LEMMA UnlinkRing ==
  ASSUME NEW S \in SUBSET Pid, NEW at, NEW K, NEW h, NEW nx \in [Pid -> Pid \cup {None}],
         Linked(S, at, K, h, nx), NEW p \in S, nx[p] # h
  PROVE  Linked(S \ {nx[p]}, at, K, h, [nx EXCEPT ![p] = nx[nx[p]]])
<1> DEFINE c == nx[p]
           T == S \ {c}
           ny == [nx EXCEPT ![p] = nx[c]]
<1>1. /\ c \in S /\ h \in S /\ at[h] = 0 /\ c # h
      /\ \A r \in S : at[r] \in Nat /\ at[r] < K
      /\ \A r, q \in S : at[r] = at[q] => r = q
  BY Zenon DEF Linked
<1>2. at[p] < at[c] /\ \A r \in S : at[p] < at[r] => at[c] <= at[r]
  BY Zenon DEF Linked
<1>3. /\ nx[c] \in S
      /\ \/ at[c] < at[nx[c]] /\ \A r \in S : at[c] < at[r] => at[nx[c]] <= at[r]
         \/ nx[c] = h /\ \A r \in S : at[r] <= at[c]
  BY <1>1, Zenon DEF Linked
<1>4. ny[p] = nx[c] /\ \A q \in S \ {p} : ny[q] = nx[q]
  BY Zenon
<1>5. ASSUME NEW q \in T
      PROVE  /\ ny[q] \in T
             /\ \/ at[q] < at[ny[q]] /\ \A r \in T : at[q] < at[r] => at[ny[q]] <= at[r]
                \/ ny[q] = h /\ \A r \in T : at[r] <= at[q]
  <2>1. CASE q = p
    <3>1. nx[c] # c
      BY <1>1, <1>3
    <3>2. \A r \in T : at[p] < at[r] => at[c] < at[r]
      <4> TAKE r \in T
      <4>1. at[r] \in Nat /\ at[c] \in Nat /\ at[r] # at[c]
        BY <1>1, Zenon
      <4> QED BY <1>2, <4>1
    <3>3. CASE at[c] < at[nx[c]] /\ \A r \in S : at[c] < at[r] => at[nx[c]] <= at[r]
      <4>1. at[p] \in Nat /\ at[c] \in Nat /\ at[nx[c]] \in Nat
        BY <1>1, <1>3, Zenon
      <4>2. at[p] < at[nx[c]]
        BY <1>2, <3>3, <4>1
      <4> QED BY <1>3, <1>4, <2>1, <3>1, <3>2, <3>3, <4>2, Zenon
    <3>4. CASE nx[c] = h /\ \A r \in S : at[r] <= at[c]
      <4>1. \A r \in T : at[r] <= at[p]
        <5> TAKE r \in T
        <5>1. at[r] \in Nat /\ at[c] \in Nat /\ at[p] \in Nat /\ at[r] <= at[c]
          BY <1>1, <3>4, Zenon
        <5> QED BY <3>2, <5>1
      <4> QED BY <1>3, <1>4, <2>1, <3>1, <3>4, <4>1, Zenon
    <3> QED BY <1>3, <3>3, <3>4, Zenon
  <2>2. CASE q # p
    <3>1. ny[q] = nx[q] /\ nx[q] # c /\ nx[q] \in S
      BY <1>4, <2>2, OnePredecessor DEF Linked
    <3>2. \/ at[q] < at[nx[q]] /\ \A r \in S : at[q] < at[r] => at[nx[q]] <= at[r]
          \/ nx[q] = h /\ \A r \in S : at[r] <= at[q]
      BY Zenon DEF Linked
    <3> HIDE DEF ny
    <3> QED BY <3>1, <3>2, Zenon
  <2> QED BY <2>1, <2>2, Zenon
<1> HIDE DEF ny
<1>6. Linked(T, at, K, h, ny)
  BY <1>1, <1>5, Zenon DEF Linked
<1> QED BY <1>6, Zenon DEF ny

\* Pushing a node behind the first one, as PROCESS_PUSH does, leaves a ring.
LEMMA PushRing ==
  ASSUME NEW S \in SUBSET Pid, NEW at \in [Pid -> Nat], NEW K \in Nat, NEW h,
         NEW nx, Linked(S, at, K, h, nx), NEW n \in Pid \ S, NEW ny,
         ny[n] = nx[h], ny[h] = n, \A p \in S \ {h} : ny[p] = nx[p]
  PROVE  Linked(S \cup {n}, [p \in Pid |-> IF p = n THEN 1 ELSE 2 * at[p]],
                2 * K, h, ny)
<1> DEFINE T == S \cup {n}
           bt == [p \in Pid |-> IF p = n THEN 1 ELSE 2 * at[p]]
<1>1. /\ h \in S /\ at[h] = 0 /\ h # n
      /\ \A r \in S : at[r] \in Nat /\ at[r] < K
      /\ \A r, q \in S : at[r] = at[q] => r = q
  BY Zenon DEF Linked
<1>2. bt[n] = 1 /\ \A p \in S : bt[p] = 2 * at[p]
  BY Zenon
<1> HIDE DEF bt
<1>3. bt[h] = 0 /\ \A r \in T : bt[r] \in Nat /\ bt[r] < 2 * K
  BY <1>1, <1>2
<1>4. \A r, q \in T : bt[r] = bt[q] => r = q
  BY <1>1, <1>2
<1>5. \A p \in S :
        /\ nx[p] \in S
        /\ \/ at[p] < at[nx[p]] /\ \A r \in S : at[p] < at[r] => at[nx[p]] <= at[r]
           \/ nx[p] = h /\ \A r \in S : at[r] <= at[p]
  BY Zenon DEF Linked
<1>6. ASSUME NEW q \in T
      PROVE  /\ ny[q] \in T
             /\ \/ bt[q] < bt[ny[q]] /\ \A r \in T : bt[q] < bt[r] => bt[ny[q]] <= bt[r]
                \/ ny[q] = h /\ \A r \in T : bt[r] <= bt[q]
  <2>1. CASE q = h
    BY <1>1, <1>2, <1>3, <2>1
  <2>2. CASE q = n
    <3>1. CASE nx[h] = h /\ \A r \in S : at[r] <= at[h]
      BY <1>1, <1>2, <2>2, <3>1
    <3>2. CASE at[h] < at[nx[h]] /\ \A r \in S : at[h] < at[r] => at[nx[h]] <= at[r]
      BY <1>1, <1>2, <1>5, <2>2, <3>2
    <3> QED BY <1>1, <1>5, <3>1, <3>2, Zenon
  <2>3. CASE q \in S \ {h}
    <3>1. ny[q] = nx[q] /\ nx[q] \in S /\ at[q] # 0
      BY <1>1, <1>5, <2>3, Zenon
    <3>2. CASE nx[q] = h /\ \A r \in S : at[r] <= at[q]
      BY <1>1, <1>2, <2>3, <3>1, <3>2
    <3>3. CASE at[q] < at[nx[q]] /\ \A r \in S : at[q] < at[r] => at[nx[q]] <= at[r]
      BY <1>1, <1>2, <2>3, <3>1, <3>3
    <3> QED BY <1>5, <2>3, <3>2, <3>3, Zenon
  <2> QED BY <2>1, <2>2, <2>3, Zenon
<1>7. Linked(T, bt, 2 * K, h, ny)
  BY <1>1, <1>3, <1>4, <1>6, Zenon DEF Linked
<1> QED BY <1>7, Zenon DEF bt

\* The numbering of a ring from another of its nodes on.
Turned(at, K, q) == [p \in Pid |-> IF at[q] <= at[p] THEN at[p] - at[q]
                                   ELSE at[p] - at[q] + K]

\* The ring is a ring from every one of its nodes.
LEMMA TurnRing ==
  ASSUME NEW S \in SUBSET Pid, NEW at \in [Pid -> Nat], NEW K \in Nat, NEW h,
         NEW nx, Linked(S, at, K, h, nx), NEW q \in S
  PROVE  Linked(S, Turned(at, K, q), K, q, nx)
<1> DEFINE bt == Turned(at, K, q)
<1>1. /\ h \in S /\ at[h] = 0
      /\ \A r \in S : at[r] \in Nat /\ at[r] < K
      /\ \A r, p \in S : at[r] = at[p] => r = p
  BY Zenon DEF Linked
<1>2. \A p \in S : bt[p] = IF at[q] <= at[p] THEN at[p] - at[q] ELSE at[p] - at[q] + K
  BY Zenon DEF Turned
<1> HIDE DEF bt
<1>3. bt[q] = 0 /\ \A p \in S : bt[p] \in Nat /\ bt[p] < K
  BY <1>1, <1>2
<1>4. \A p, r \in S : bt[p] = bt[r] => p = r
  BY <1>1, <1>2
<1>5. \A p \in S :
        /\ nx[p] \in S
        /\ \/ at[p] < at[nx[p]] /\ \A r \in S : at[p] < at[r] => at[nx[p]] <= at[r]
           \/ nx[p] = h /\ \A r \in S : at[r] <= at[p]
  BY Zenon DEF Linked
<1>6. ASSUME NEW p \in S
      PROVE  \/ bt[p] < bt[nx[p]] /\ \A r \in S : bt[p] < bt[r] => bt[nx[p]] <= bt[r]
             \/ nx[p] = q /\ \A r \in S : bt[r] <= bt[p]
  <2>1. CASE nx[p] = q
    <3>1. CASE q = h
      BY <1>1, <1>2, <1>5, <2>1, <3>1
    <3>2. CASE q # h
      <4>1. at[p] < at[q] /\ \A r \in S : at[p] < at[r] => at[q] <= at[r]
        BY <1>5, <2>1, <3>2, Zenon
      <4> QED BY <1>1, <1>2, <2>1, <4>1
    <3> QED BY <3>1, <3>2, Zenon
  <2>2. CASE nx[p] # q
    <3>1. CASE at[p] < at[nx[p]] /\ \A r \in S : at[p] < at[r] => at[nx[p]] <= at[r]
      <4>1. at[q] <= at[p] \/ at[nx[p]] < at[q]
        BY <1>1, <1>5, <2>2, <3>1
      <4> QED BY <1>1, <1>2, <1>5, <3>1, <4>1
    <3>2. CASE nx[p] = h /\ \A r \in S : at[r] <= at[p]
      <4>1. at[q] # 0 /\ at[q] <= at[p]
        BY <1>1, <2>2, <3>2, Zenon
      <4> QED BY <1>1, <1>2, <3>2, <4>1
    <3> QED BY <1>5, <3>1, <3>2, Zenon
  <2> QED BY <2>1, <2>2, Zenon
<1>7. Linked(S, bt, K, q, nx)
  BY <1>3, <1>4, <1>5, <1>6, Zenon DEF Linked
<1> QED BY <1>7, Zenon DEF bt

LOCAL INSTANCE WellFoundedInduction

\* A set of naturals that is not empty has a least member.
LEMMA LeastNatural ==
  ASSUME NEW T \in SUBSET Nat, T # {}
  PROVE  \E n \in T : \A k \in T : n <= k
<1> DEFINE R == OpToRel(<, Nat)
<1>1. IsWellFoundedOn(R, Nat)
  BY NatLessThanWellFounded, Zenon
<1>2. \A x, y \in Nat : x < y => <<x, y>> \in R
  BY Zenon DEF OpToRel
<1> HIDE DEF R
<1>3. PICK n \in T : \A k \in T : ~(<<k, n>> \in R)
  BY <1>1, WFMin, Zenon
<1>4. \A k \in T : ~(k < n)
  BY <1>2, <1>3, Zenon
<1> QED BY <1>3, <1>4

\* A set that has zero, and with a number the next one, has all the naturals.
LEMMA Inductive ==
  ASSUME NEW S, 0 \in S, \A n \in Nat : n \in S => n + 1 \in S
  PROVE  Nat \subseteq S
<1> SUFFICES ASSUME Nat \ S # {} PROVE FALSE
  BY Zenon
<1>1. PICK n \in Nat \ S : \A k \in Nat \ S : n <= k
  BY LeastNatural, Zenon
<1>2. n # 0 /\ n - 1 \in Nat /\ (n - 1) + 1 = n
  BY <1>1
<1>3. n - 1 \in S
  BY <1>1, <1>2
<1> QED BY <1>1, <1>2, <1>3

\* A loop of n rounds keeps what its first state has and every round keeps.
LEMMA LoopInvariant ==
  ASSUME NEW n \in Nat, NEW m, NEW G, m[0] \in G[0],
         \A i \in 1 .. n : m[i - 1] \in G[i - 1] => m[i] \in G[i]
  PROVE  \A i \in 0 .. n : m[i] \in G[i]
<1> DEFINE Good == {i \in Nat : i <= n => m[i] \in G[i]}
<1>1. 0 \in Good
  BY Zenon
<1>2. ASSUME NEW i \in Nat, i \in Good PROVE i + 1 \in Good
  <2> SUFFICES ASSUME i + 1 <= n PROVE m[i + 1] \in G[i + 1]
    OBVIOUS
  <2>1. i + 1 \in 1 .. n /\ (i + 1) - 1 = i /\ m[i] \in G[i]
    BY <1>2
  <2> QED BY <2>1
<1>3. Nat \subseteq Good
  <2> HIDE DEF Good
  <2> QED BY <1>1, <1>2, Inductive
<1> QED BY <1>3

\* f holds the states of a loop of n rounds, from s on.
Rounds(n, S, s, step, f) ==
  f \in [0 .. n -> S] /\ f[0] = s /\ \A i \in 1 .. n : f[i] = step[i][f[i - 1]]

\* The states of a loop exist.
LEMMA LoopExists ==
  ASSUME NEW n \in Nat, NEW S, NEW s \in S, NEW step \in [1 .. n -> [S -> S]]
  PROVE  \E f : Rounds(n, S, s, step, f)
<1> DEFINE Upto(k, f) == f[0] = s /\ \A i \in 1 .. k : f[i] = step[i][f[i - 1]]
           Good == {k \in Nat : k <= n => \E f \in [0 .. k -> S] : Upto(k, f)}
<1>1. 0 \in Good
  <2>1. [i \in 0 .. 0 |-> s] \in [0 .. 0 -> S] /\ Upto(0, [i \in 0 .. 0 |-> s])
    OBVIOUS
  <2> HIDE DEF Upto
  <2> QED BY <2>1, Zenon
<1>2. ASSUME NEW k \in Nat, k \in Good PROVE k + 1 \in Good
  <2> SUFFICES ASSUME k + 1 <= n PROVE \E f \in [0 .. k + 1 -> S] : Upto(k + 1, f)
    OBVIOUS
  <2>1. PICK f \in [0 .. k -> S] : Upto(k, f)
    <3> HIDE DEF Upto
    <3> QED BY <1>2
  <2> DEFINE last == step[k + 1][f[k]]
             g == [i \in 0 .. k + 1 |-> IF i = k + 1 THEN last ELSE f[i]]
  <2>2. last \in S
    BY <2>1
  <2>3. last = step[k + 1][f[k]]
    BY Zenon
  <2> HIDE DEF last
  <2>4. g \in [0 .. k + 1 -> S]
    BY <2>1, <2>2
  <2>5. g[k + 1] = last /\ \A i \in 0 .. k : g[i] = f[i]
    OBVIOUS
  <2> HIDE DEF g
  <2>6. Upto(k + 1, g)
    <3>1. g[0] = s
      BY <2>1, <2>5
    <3>2. ASSUME NEW i \in 1 .. k + 1 PROVE g[i] = step[i][g[i - 1]]
      <4>1. CASE i = k + 1
        BY <2>3, <2>5, <4>1
      <4>2. CASE i \in 1 .. k
        <5>1. i - 1 \in 0 .. k /\ i \in 0 .. k
          BY <4>2
        <5> QED BY <2>1, <2>5, <4>2, <5>1, Zenon
      <4> QED BY <4>1, <4>2
    <3> QED BY <3>1, <3>2, Zenon
  <2> HIDE DEF Upto
  <2> QED BY <2>4, <2>6
<1>3. Nat \subseteq Good
  <2> HIDE DEF Good
  <2> QED BY <1>1, <1>2, Inductive, Zenon
<1>4. n \in Good
  BY <1>3, Zenon
<1> QED BY <1>4 DEF Rounds

\* Every node but the first has a predecessor with a lower number, and the
\* first has one too.
LEMMA Predecessor ==
  ASSUME NEW S, NEW at, NEW K \in Nat, NEW h, NEW nx,
         Linked(S, at, K, h, nx), NEW r \in S
  PROVE  \E p \in S : nx[p] = r /\ (r # h => at[p] < at[r])
<1> DEFINE B == {p \in S : r # h => at[p] < at[r]}
           D == {K - at[p] : p \in B}
<1>1. /\ h \in S /\ at[h] = 0
      /\ \A p \in S : at[p] \in Nat /\ at[p] < K
      /\ \A p, q \in S : at[p] = at[q] => p = q
  BY Zenon DEF Linked
<1>2. h \in B /\ B \subseteq S
  BY <1>1
<1>3. D \in SUBSET Nat /\ D # {}
  BY <1>1, <1>2
<1>4. PICK d \in D : \A e \in D : d <= e
  BY <1>3, LeastNatural, ZenonT(30)
<1>5. PICK p \in B : d = K - at[p]
  BY Zenon
<1>6. \A q \in B : at[q] <= at[p]
  <2> TAKE q \in B
  <2>1. K - at[q] \in D /\ at[q] \in Nat /\ at[p] \in Nat
    BY <1>1, Zenon
  <2> QED BY <1>4, <1>5, <2>1
<1>7. /\ nx[p] \in S
      /\ \/ at[p] < at[nx[p]] /\ \A q \in S : at[p] < at[q] => at[nx[p]] <= at[q]
         \/ nx[p] = h /\ \A q \in S : at[q] <= at[p]
  BY Zenon DEF Linked
<1>8. CASE r = h
  <2>1. nx[p] \in B /\ at[nx[p]] \in Nat /\ at[p] \in Nat
    BY <1>1, <1>7, <1>8, Zenon
  <2> QED BY <1>6, <1>7, <1>8, <2>1
<1>9. CASE r # h
  <2>1. at[p] < at[r] /\ at[r] \in Nat /\ at[p] \in Nat /\ at[nx[p]] \in Nat
    BY <1>1, <1>7, <1>9, Zenon
  <2>2. at[p] < at[nx[p]] /\ at[nx[p]] <= at[r]
    BY <1>7, <2>1
  <2>3. nx[p] \notin B
    BY <1>6, <2>1, <2>2
  <2>4. at[nx[p]] = at[r]
    BY <1>7, <1>9, <2>1, <2>2, <2>3
  <2> QED BY <1>1, <1>7, <1>9, <2>1, <2>4, Zenon
<1> QED BY <1>8, <1>9, Zenon

\* next maps a ring onto itself, and following it from the first node one
\* comes to all of the ring.
LEMMA RingCloses ==
  ASSUME NEW S, NEW at, NEW K \in Nat, NEW h, NEW nx, Linked(S, at, K, h, nx)
  PROVE  OneCycle(S, h, nx)
<1>1. /\ h \in S /\ at[h] = 0
      /\ \A p \in S : at[p] \in Nat /\ nx[p] \in S
  BY Zenon DEF Linked
<1>2. {nx[p] : p \in S} = S
  BY <1>1, Predecessor
<1>3. ASSUME NEW T \in SUBSET S, h \in T, \A p \in T : nx[p] \in T
      PROVE  T = S
  <2> DEFINE D == {at[p] : p \in S \ T}
  <2> SUFFICES ASSUME S \ T # {} PROVE FALSE
    BY Zenon
  <2>1. D \in SUBSET Nat /\ D # {}
    BY <1>1
  <2>2. PICK d \in D : \A e \in D : d <= e
    BY <2>1, LeastNatural, ZenonT(30)
  <2>3. PICK r \in S \ T : d = at[r]
    BY Zenon
  <2>4. PICK p \in S : nx[p] = r /\ at[p] < at[r]
    BY <1>3, <2>3, Predecessor
  <2>5. p \in T
    <3> SUFFICES ASSUME p \notin T PROVE FALSE
      BY Zenon
    <3>1. at[p] \in D /\ at[p] \in Nat /\ at[r] \in Nat
      BY <1>1, <2>3, Zenon
    <3> HIDE DEF D
    <3> QED BY <2>2, <2>3, <2>4, <3>1
  <2> QED BY <1>3, <2>4, <2>5
<1> QED BY <1>1, <1>2, <1>3 DEF OneCycle

-----------------------------------------------------------------------------
(* process_reap. *)

Dead(P) == {p \in Pid : P[p].state = "dead"}

\* Nodes of the ring S that the walk of process_reap has still to come to.
Left(S, at, w) == {p \in S \ w.gone : at[w.prev] < at[p]}

(***************************************************************************)
(* The walk of process_reap over the ring S: what is not unlinked is still *)
(* a ring, only the dead are unlinked, and none of them is behind prev.    *)
(***************************************************************************)
Reaping(P, S, at, K, w) ==
  /\ w \in Walk
  /\ Linked(S \ w.gone, at, K, process_head, w.nxt)
  /\ w.gone \subseteq Dead(P) \ {process_head}
  /\ w.prev \in S \ w.gone
  /\ w.curr = w.nxt[w.prev]
  /\ \A p \in S \ w.gone :
       p # process_head /\ at[p] <= at[w.prev] => p \notin Dead(P)
  /\ w.gone = {} => w.nxt = nxt
  /\ w.done => w.curr = process_head
  /\ ~w.done /\ w.curr = process_head => w.prev = process_head /\ process_head \notin Dead(P)

\* A round of process_reap keeps this, and comes one node further.
LEMMA ReapRoundOK ==
  ASSUME NEW P, NEW S \in SUBSET Pid, NEW at, NEW K,
         NEW w, Reaping(P, S, at, K, w), process_head \in Pid
  PROVE  LET x == ReapRound(P)[w]
         IN /\ Reaping(P, S, at, K, x)
            /\ w.done => x = w
            /\ ~w.done => x.done \/ \E p \in Left(S, at, w) : Left(S, at, x) \subseteq Left(S, at, w) \ {p}
<1> DEFINE x == ReapRound(P)[w]
           c == w.curr
           T == S \ w.gone
           dead == P[c].state = "dead"
           nx == IF dead THEN [w.nxt EXCEPT ![w.prev] = w.nxt[c]] ELSE w.nxt
           last == IF dead THEN w.prev ELSE c
           gone == IF dead THEN w.gone \cup {c} ELSE w.gone
           h == process_head
<1>1. /\ w \in Walk /\ Linked(T, at, K, h, w.nxt)
      /\ w.gone \subseteq Dead(P) \ {h} /\ w.prev \in T /\ c = w.nxt[w.prev]
      /\ \A p \in T : p # h /\ at[p] <= at[w.prev] => p \notin Dead(P)
      /\ w.gone = {} => w.nxt = nxt
      /\ w.done => c = h
      /\ ~w.done /\ c = h => w.prev = h /\ h \notin Dead(P)
  BY Zenon DEF Reaping
<1>2. /\ w.prev \in Pid /\ c \in Pid /\ w.nxt \in [Pid -> Pid \cup {None}]
      /\ w.gone \in SUBSET Pid /\ w.done \in BOOLEAN
  BY <1>1, Zenon DEF Walk
<1>3. x = IF w.done THEN w
          ELSE [prev |-> last, curr |-> nx[last], nxt |-> nx, gone |-> gone,
                done |-> nx[last] = h]
  BY <1>1, Zenon DEF ReapRound
<1>4. CASE w.done
  BY <1>3, <1>4, Zenon
<1>5. CASE ~w.done
  <2>1. /\ x.prev = last /\ x.curr = nx[last] /\ x.nxt = nx /\ x.gone = gone
        /\ x.done = (nx[last] = h)
    BY <1>3, <1>5
  <2>2. c \in T /\ h \in T /\ at[h] = 0 /\ (\A p \in T : at[p] \in Nat)
    BY <1>1, Zenon DEF Linked
  <2>3. c # h => at[w.prev] < at[c] /\ \A p \in T : at[w.prev] < at[p] => at[c] <= at[p]
    BY <1>1, Zenon DEF Linked
  <2>4. Linked(S \ gone, at, K, h, nx)
    <3>1. CASE dead
      <4>1. c # h
        BY <1>1, <1>5, <3>1, Zenon DEF Dead
      <4>2. S \ gone = T \ {c}
        BY <3>1
      <4>3. T \in SUBSET Pid
        BY Zenon
      <4> HIDE DEF T
      <4> QED BY <1>1, <1>2, <3>1, <4>1, <4>2, <4>3, UnlinkRing
    <3>2. CASE ~dead
      BY <1>1, <3>2, Zenon
    <3> QED BY <3>1, <3>2, Zenon
  <2>5. last \in S \ gone /\ nx \in [Pid -> Pid \cup {None}] /\ gone \in SUBSET Pid
    <3>1. CASE dead
      <4>1. c # h
        BY <1>1, <1>5, <3>1, Zenon DEF Dead
      <4>2. at[w.prev] \in Nat /\ at[c] \in Nat /\ w.prev # c
        BY <1>1, <2>2, <2>3, <4>1
      <4> QED BY <1>1, <1>2, <3>1, <4>2, Zenon
    <3>2. CASE ~dead
      BY <1>1, <1>2, <2>2, <3>2, Zenon
    <3> QED BY <3>1, <3>2, Zenon
  <2>6. nx[last] \in Pid
    <3> HIDE DEF nx, last, gone
    <3> QED BY <2>4, <2>5, Zenon DEF Linked
  <2>7. x \in Walk
    <3>1. last \in Pid
      BY <2>5, Zenon
    <3> HIDE DEF nx, last, gone
    <3> QED BY <1>3, <1>5, <2>5, <2>6, <3>1 DEF Walk
  <2>8. gone \subseteq Dead(P) \ {h}
    BY <1>1, <1>2, <1>5, Zenon DEF Dead
  <2>9. \A p \in S \ gone : p # h /\ at[p] <= at[last] => p \notin Dead(P)
    <3>1. CASE dead
      BY <1>1, <3>1, Zenon
    <3>2. CASE ~dead
      <4>1. c = h => h \notin Dead(P)
        BY <1>1, <1>5, Zenon
      <4>2. \A p \in T : p # h /\ at[p] <= at[c] => p \notin Dead(P)
        <5> SUFFICES ASSUME NEW p \in T, p # h, at[p] <= at[c], at[w.prev] < at[p], p \in Dead(P)
                     PROVE  FALSE
          BY <1>1, <2>2
        <5>1. at[p] = at[c] \/ c = h
          BY <2>2, <2>3
        <5>2. CASE c = h
          BY <1>1, <2>2, <5>2 DEF Linked
        <5>3. CASE c # h
          <6>1. p = c
            BY <1>1, <2>2, <5>1, <5>3, Zenon DEF Linked
          <6> QED BY <3>2, <6>1, Zenon DEF Dead
        <5> QED BY <5>2, <5>3
      <4> QED BY <3>2, <4>2, Zenon
    <3> QED BY <3>1, <3>2, Zenon
  <2>10. Reaping(P, S, at, K, x)
    <3>1. x.done => x.curr = h
      BY <2>1, ZenonT(30)
    <3>2. ~x.done => x.curr # h
      BY <2>1, ZenonT(30)
    <3>3. gone = {} => nx = nxt
      BY <1>1, Zenon
    <3> HIDE DEF x, nx, last, gone
    <3> QED BY <2>1, <2>4, <2>5, <2>7, <2>8, <2>9, <3>1, <3>2, <3>3, Zenon DEF Reaping
  <2>11. ASSUME ~x.done PROVE \E p \in Left(S, at, w) : Left(S, at, x) \subseteq Left(S, at, w) \ {p}
    <3>1. c # h
      <4>1. SUFFICES ASSUME c = h PROVE FALSE
        BY Zenon
      <4>2. ~dead
        BY <1>1, <1>2, <1>5, <4>1, Zenon DEF Dead
      <4> QED BY <1>1, <1>5, <2>1, <2>11, <4>1, <4>2, ZenonT(30)
    <3>2. c \in Left(S, at, w)
      BY <2>2, <2>3, <3>1, Zenon DEF Left
    <3>3. Left(S, at, x) \subseteq Left(S, at, w) \ {c}
      <4>1. CASE dead
        BY <2>1, <4>1, Zenon DEF Left
      <4>2. CASE ~dead
        <5>1. x.gone = w.gone /\ x.prev = c
          BY <2>1, <4>2, Zenon
        <5>2. ASSUME NEW p \in T, at[c] < at[p] PROVE at[w.prev] < at[p] /\ p # c
          BY <1>1, <2>2, <2>3, <3>1, <5>2
        <5> QED BY <5>1, <5>2, Zenon DEF Left
      <4> QED BY <4>1, <4>2, Zenon
    <3> QED BY <3>2, <3>3
  <2> QED BY <1>5, <2>10, <2>11, Zenon
<1> QED BY <1>1, <1>2, <1>4, <1>5, Zenon

\* T has at most k members: they can be numbered.
Few(T, k) == k \in Nat /\ \E f \in [T -> 1 .. k] : \A p, q \in T : f[p] = f[q] => p = q

\* What process_reap has not come to is less than all processes.
LEMMA FewLeft ==
  ASSUME NEW T \in SUBSET Pid, NEW p \in Pid, p \notin T
  PROVE  Few(T, MaxPid)
<1> DEFINE f == [q \in T |-> IF q < p THEN q + 1 ELSE q]
<1>1. MaxPid \in Nat /\ p \in 0 .. MaxPid /\ \A q \in T : q \in 0 .. MaxPid /\ q # p
  BY SwitchAssumption DEF Pid
<1>2. f \in [T -> 1 .. MaxPid] /\ \A q, r \in T : f[q] = f[r] => q = r
  BY <1>1
<1> HIDE DEF f
<1> QED BY <1>1, <1>2 DEF Few

\* One less is left when one is taken away.
LEMMA FewerLeft ==
  ASSUME NEW T, NEW k \in Int, Few(T, k), NEW p \in T, NEW U \in SUBSET (T \ {p})
  PROVE  Few(U, k - 1)
<1>1. PICK f \in [T -> 1 .. k] : \A q, r \in T : f[q] = f[r] => q = r
  BY Zenon DEF Few
<1> DEFINE g == [q \in U |-> IF f[q] = k THEN f[p] ELSE f[q]]
<1>2. f[p] \in 1 .. k /\ \A q \in U : q \in T /\ f[q] \in 1 .. k /\ f[q] # f[p]
  BY <1>1
<1>3. k - 1 \in Nat /\ g \in [U -> 1 .. k - 1]
  BY <1>2
<1>4. \A q, r \in U : g[q] = g[r] => q = r
  BY <1>1, <1>2
<1> HIDE DEF g
<1> QED BY <1>3, <1>4 DEF Few

\* process_reap ends, and has unlinked and freed the dead, but not the current
\* process.
LEMMA ReapOK ==
  ASSUME NEW P, process_head \in Pid, nxt \in [Pid -> Pid \cup {None}],
         NEW S \in SUBSET Pid, NEW at, NEW K,
         Linked(S, at, K, process_head, nxt), Dead(P) \subseteq S,
         nxt[process_head] = process_head => process_head \notin Dead(P)
  PROVE  LET r == process_reap(P)
         IN /\ r.done
            /\ r.gone = Dead(P) \ {process_head}
            /\ r.nxt \in [Pid -> Pid \cup {None}]
            /\ r.gone = {} => r.nxt = nxt
            /\ Linked(S \ r.gone, at, K, process_head, r.nxt)
<1> DEFINE n == MaxPid + 1
           Good == {w \in Walk : Reaping(P, S, at, K, w)}
           Round == ReapRound(P)
           Eq(f) == f = [i \in 0 .. n |-> IF i = 0 THEN ReapStart ELSE Round[f[i - 1]]]
           m == CHOOSE f : Eq(f)
           step == [i \in 1 .. n |-> [w \in Good |-> Round[w]]]
<1>1. n \in Nat /\ MaxPid \in Nat
  BY SwitchAssumption
<1>2. ReapStart \in Good
  <2>1. process_head \in S /\ nxt[process_head] \in S /\ at[process_head] = 0
        /\ \A p \in S : at[p] \in Nat /\ (at[p] = 0 => p = process_head)
    BY Zenon DEF Linked
  <2>2. ReapStart \in Walk
    BY <2>1, Zenon DEF ReapStart, Walk
  <2> DEFINE w == ReapStart
  <2>3. /\ w.prev = process_head /\ w.curr = nxt[process_head] /\ w.nxt = nxt
        /\ w.gone = {} /\ w.done = FALSE /\ S \ w.gone = S
    BY Zenon DEF ReapStart
  <2> HIDE DEF w
  <2>4. \A p \in S : at[p] <= at[process_head] => p = process_head
    BY <2>1
  <2>5. Reaping(P, S, at, K, w)
    BY <2>1, <2>2, <2>3, <2>4, Zenon DEF Reaping, w
  <2> QED BY <2>2, <2>5 DEF w
<1>3. \A w \in Good : Round[w] \in Good
  <2>1. \A w : Reaping(P, S, at, K, w) => w \in Walk
    BY Zenon DEF Reaping
  <2> QED BY <2>1, ReapRoundOK, Zenon
<1>4. step \in [1 .. n -> [Good -> Good]]
  BY <1>1, <1>3, Zenon
<1>5. process_reap(P) = m[n]
  BY Zenon DEF process_reap
<1> HIDE DEF n, Good, Round
<1>6. \A i \in 1 .. n, w \in Good : step[i][w] = Round[w]
  BY Zenon
<1> HIDE DEF step
<1>7. PICK f : Rounds(n, Good, ReapStart, step, f)
  BY <1>1, <1>2, <1>4, LoopExists, ZenonT(30)
<1>8. Eq(f)
  <2>1. \A i \in 1 .. n : i - 1 \in 0 .. n
    BY <1>1
  <2>2. \A i \in 0 .. n : f[i] = IF i = 0 THEN ReapStart ELSE Round[f[i - 1]]
    BY <1>1, <1>6, <1>7, <2>1 DEF Rounds
  <2> QED BY <1>7, <2>2, Zenon DEF Rounds
<1>9. Eq(m)
  <2> HIDE DEF Eq
  <2> QED BY <1>8
<1> HIDE DEF m
<1>10. m[0] = ReapStart /\ \A i \in 1 .. n : m[i] = Round[m[i - 1]]
  <2>1. 0 \in 0 .. n /\ \A i \in 1 .. n : i \in 0 .. n /\ i # 0
    BY <1>1
  <2> QED BY <1>9, <2>1, ZenonT(30)
<1> DEFINE G == [i \in 0 .. n |-> {w \in Good :
                    w.done \/ Few(Left(S, at, w), MaxPid - i)}]
<1>11. m[0] \in G[0]
  <2>1. Left(S, at, ReapStart) \in SUBSET Pid /\ process_head \notin Left(S, at, ReapStart)
    BY DEF Left, ReapStart, Linked
  <2>2. Few(Left(S, at, ReapStart), MaxPid)
    BY <2>1, FewLeft
  <2>3. MaxPid - 0 = MaxPid /\ 0 \in 0 .. n
    BY <1>1
  <2> QED BY <1>2, <1>10, <2>2, <2>3
<1>12. ASSUME NEW i \in 1 .. n, m[i - 1] \in G[i - 1] PROVE m[i] \in G[i]
  <2> DEFINE w == m[i - 1]
             x == m[i]
  <2>1. w \in Good /\ x = Round[w] /\ x \in Good
    BY <1>3, <1>10, <1>12, <1>1
  <2>2. w.done \/ Few(Left(S, at, w), MaxPid - (i - 1))
    BY <1>1, <1>12
  <2>3. /\ w.done => x = w
        /\ ~w.done => x.done \/ \E p \in Left(S, at, w) : Left(S, at, x) \subseteq Left(S, at, w) \ {p}
    <3>1. Reaping(P, S, at, K, w)
      BY <2>1, Zenon DEF Good
    <3> QED BY <2>1, <3>1, ReapRoundOK DEF Round
  <2> HIDE DEF w, x
  <2>4. x.done \/ Few(Left(S, at, x), MaxPid - i)
    <3> SUFFICES ASSUME ~x.done PROVE Few(Left(S, at, x), MaxPid - i)
      BY Zenon
    <3>1. PICK p \in Left(S, at, w) : Left(S, at, x) \subseteq Left(S, at, w) \ {p}
      BY <2>3, Zenon
    <3>2. Few(Left(S, at, w), MaxPid - (i - 1))
      BY <2>2, <2>3, Zenon
    <3>3. MaxPid - (i - 1) \in Int /\ (MaxPid - (i - 1)) - 1 = MaxPid - i
      BY <1>1
    <3> HIDE DEF n
    <3> QED BY <3>1, <3>2, <3>3, FewerLeft, Zenon
  <2> QED BY <1>1, <2>1, <2>4 DEF x
<1>13. m[n] \in G[n]
  <2> HIDE DEF G
  <2> QED BY <1>1, <1>11, <1>12, LoopInvariant
<1> DEFINE r == m[n]
<1>14. r \in Good /\ r.done
  <2>1. r \in Good /\ (r.done \/ Few(Left(S, at, r), MaxPid - n))
    BY <1>1, <1>13
  <2>2. MaxPid - n \notin Nat
    BY <1>1 DEF n
  <2> HIDE DEF r
  <2> QED BY <2>1, <2>2, Zenon DEF Few
<1> HIDE DEF r
<1>15. Reaping(P, S, at, K, r) /\ r \in Walk
  BY <1>14 DEF Good
<1>16. Dead(P) \ {process_head} \subseteq r.gone
  <2> SUFFICES ASSUME NEW p \in Dead(P) \ {process_head}, p \notin r.gone PROVE FALSE
    BY Zenon
  <2>1. /\ p \in S \ r.gone /\ ~(at[p] <= at[r.prev])
        /\ r.prev \in S \ r.gone /\ r.nxt[r.prev] = process_head
        /\ Linked(S \ r.gone, at, K, process_head, r.nxt)
    BY <1>14, <1>15, Zenon DEF Reaping
  <2>2. at[r.prev] \in Nat /\ at[process_head] = 0
    BY <2>1, Zenon DEF Linked
  <2>3. \A q \in S \ r.gone : at[q] <= at[r.prev]
    BY <2>1, <2>2 DEF Linked
  <2> QED BY <2>1, <2>3, Zenon
<1> QED BY <1>5, <1>14, <1>15, <1>16, Zenon DEF r, Reaping, Walk

-----------------------------------------------------------------------------
(* The loop that skips sleeping processes. *)

\* The order in which the loop comes to the nodes: process_head comes last.
Rank(at, K, p) == IF p = process_head THEN K ELSE at[p]

\* The loop is at n: all the nodes before it sleep.
Skipping(R, S, at, K, n) ==
  n \in S /\ \A p \in S : Rank(at, K, p) < Rank(at, K, n) => R[p].wake_in # 0

Ahead(S, at, K, n) == {p \in S : Rank(at, K, n) < Rank(at, K, p)}

\* A round from n to x comes one node further, unless n is awake.
SkipsOne(R, S, at, K, n, x) ==
  /\ R[n].wake_in = 0 => x = n
  /\ R[n].wake_in # 0 => \E p \in Ahead(S, at, K, n) :
       Ahead(S, at, K, x) \subseteq Ahead(S, at, K, n) \ {p}

LEMMA SkipRoundOK ==
  ASSUME NEW R, process_head \in Pid, NEW S \in SUBSET Pid, NEW at, NEW K \in Nat,
         NEW nx, Linked(S, at, K, process_head, nx),
         Idle \in S, R[Idle].wake_in = 0,
         NEW n, Skipping(R, S, at, K, n)
  PROVE  LET x == SkipRound(R, nx)[n]
         IN Skipping(R, S, at, K, x) /\ SkipsOne(R, S, at, K, n, x)
<1> DEFINE h == process_head
           Rk(p) == Rank(at, K, p)
<1>1. /\ h \in S /\ at[h] = 0
      /\ \A p \in S : at[p] \in Nat /\ at[p] < K /\ nx[p] \in S
      /\ \A p, q \in S : at[p] = at[q] => p = q
      /\ n \in S /\ \A p \in S : Rk(p) < Rk(n) => R[p].wake_in # 0
  BY Zenon DEF Linked, Skipping
<1>2. SkipRound(R, nx)[n] = IF R[n].wake_in = 0 THEN n ELSE nx[n]
  BY <1>1, Zenon DEF SkipRound
<1>3. CASE R[n].wake_in = 0
  BY <1>2, <1>3, Zenon DEF SkipsOne
<1>4. CASE R[n].wake_in # 0
  <2>1. n # h
    <3>1. n # Idle /\ ~(Rk(Idle) < Rk(n))
      BY <1>1, <1>4, Zenon
    <3> QED BY <1>1, <3>1, Zenon DEF Rank
  <2> DEFINE x == nx[n]
  <2>2. /\ x \in S
        /\ \/ at[n] < at[x] /\ \A r \in S : at[n] < at[r] => at[x] <= at[r]
           \/ x = h /\ \A r \in S : at[r] <= at[n]
    BY <1>1, Zenon DEF Linked
  <2> HIDE DEF x
  <2>3. /\ \A p \in S : Rk(p) \in Nat
        /\ \A p \in S \ {h} : Rk(p) = at[p]
        /\ Rk(h) = K
    BY <1>1, Zenon DEF Rank
  <2> HIDE DEF Rk
  <2>4. \A p, q \in S : Rk(p) = Rk(q) => p = q
    BY <1>1, <2>3
  <2>5. Rk(n) < Rk(x) /\ \A p \in S : Rk(p) < Rk(x) => p = n \/ Rk(p) < Rk(n)
    <3>1. CASE x = h
      <4>1. \A r \in S : at[r] <= at[n]
        BY <1>1, <2>2, <3>1
      <4> QED BY <1>1, <2>1, <2>3, <3>1, <4>1
    <3>2. CASE x # h
      BY <1>1, <2>1, <2>2, <2>3, <3>2
    <3> QED BY <3>1, <3>2, Zenon
  <2>6. Skipping(R, S, at, K, x)
    BY <1>1, <1>4, <2>2, <2>5, Zenon DEF Skipping, Rk
  <2>7. x \in Ahead(S, at, K, n) /\ Ahead(S, at, K, x) \subseteq Ahead(S, at, K, n) \ {x}
    <3>1. \A p \in S : Rk(x) < Rk(p) => Rk(n) < Rk(p) /\ p # x
      BY <1>1, <2>2, <2>3, <2>5
    <3> QED BY <2>2, <2>5, <3>1, Zenon DEF Ahead, Rk
  <2> QED BY <1>2, <1>4, <2>6, <2>7, Zenon DEF x, SkipsOne
<1> QED BY <1>3, <1>4, Zenon

\* The loop ends, at the first process after the current one that is awake:
\* at the latest at idle, which never sleeps.
LEMMA SkipOK ==
  ASSUME NEW R, process_head \in Pid, NEW S \in SUBSET Pid, NEW at, NEW K \in Nat,
         NEW nx, Linked(S, at, K, process_head, nx),
         Idle \in S, R[Idle].wake_in = 0
  PROVE  LET q == SkipSleepers(R, nx, nx[process_head])
         IN R[q].wake_in = 0 /\ Skipping(R, S, at, K, q)
<1> DEFINE n == MaxPid + 1
           s == nx[process_head]
           Good == {p \in S : Skipping(R, S, at, K, p)}
           Round == SkipRound(R, nx)
           Eq(f) == f = [i \in 0 .. n |-> IF i = 0 THEN s ELSE Round[f[i - 1]]]
           m == CHOOSE f : Eq(f)
           step == [i \in 1 .. n |-> [w \in Good |-> Round[w]]]
<1>1. n \in Nat /\ MaxPid \in Nat
  BY SwitchAssumption
<1>2. s \in Good
  <2>1. /\ process_head \in S /\ at[process_head] = 0 /\ s \in S
        /\ \A p \in S : at[p] \in Nat /\ at[p] < K
        /\ \A p, q \in S : at[p] = at[q] => p = q
        /\ \/ 0 < at[s] /\ \A r \in S : 0 < at[r] => at[s] <= at[r]
           \/ s = process_head /\ \A r \in S : at[r] <= 0
    BY DEF Linked
  <2> HIDE DEF s
  <2>2. \A p \in S : ~(Rank(at, K, p) < Rank(at, K, s))
    BY <2>1 DEF Rank
  <2> QED BY <2>1, <2>2, Zenon DEF Skipping
<1>3. \A w \in Good : Round[w] \in Good
  <2>1. \A p : Skipping(R, S, at, K, p) => p \in S
    BY Zenon DEF Skipping
  <2> QED BY <2>1, SkipRoundOK, Zenon
<1>4. step \in [1 .. n -> [Good -> Good]]
  BY <1>1, <1>3, Zenon
<1>5. SkipSleepers(R, nx, s) = IF R[m[n]].wake_in = 0 THEN m[n] ELSE None
  BY Zenon DEF SkipSleepers
<1> HIDE DEF n, Good, Round, s
<1>6. \A i \in 1 .. n, w \in Good : step[i][w] = Round[w]
  BY Zenon
<1> HIDE DEF step
<1>7. PICK f : Rounds(n, Good, s, step, f)
  BY <1>1, <1>2, <1>4, LoopExists, ZenonT(30)
<1>8. Eq(f)
  <2>1. \A i \in 1 .. n : i - 1 \in 0 .. n
    BY <1>1
  <2>2. \A i \in 0 .. n : f[i] = IF i = 0 THEN s ELSE Round[f[i - 1]]
    BY <1>1, <1>6, <1>7, <2>1 DEF Rounds
  <2> QED BY <1>7, <2>2 DEF Rounds
<1>9. Eq(m)
  <2> HIDE DEF Eq
  <2> QED BY <1>8
<1> HIDE DEF m
<1>10. m[0] = s /\ \A i \in 1 .. n : m[i] = Round[m[i - 1]]
  <2>1. 0 \in 0 .. n /\ \A i \in 1 .. n : i \in 0 .. n /\ i # 0
    BY <1>1
  <2> QED BY <1>9, <2>1, ZenonT(30)
<1> DEFINE G == [i \in 0 .. n |-> {w \in Good :
                    R[w].wake_in = 0 \/ Few(Ahead(S, at, K, w), MaxPid - i)}]
<1>11. m[0] \in G[0]
  <2>1. s \in S
    BY <1>2 DEF Good
  <2>2. Rank(at, K, s) \in Nat
    BY <2>1, Zenon DEF Linked, Rank
  <2>3. Ahead(S, at, K, s) \in SUBSET Pid /\ s \notin Ahead(S, at, K, s) /\ s \in Pid
    BY <2>1, <2>2 DEF Ahead
  <2>4. Few(Ahead(S, at, K, s), MaxPid)
    BY <2>3, FewLeft
  <2>5. MaxPid - 0 = MaxPid /\ 0 \in 0 .. n
    BY <1>1
  <2> QED BY <1>2, <1>10, <2>4, <2>5
<1>12. ASSUME NEW i \in 1 .. n, m[i - 1] \in G[i - 1] PROVE m[i] \in G[i]
  <2> DEFINE w == m[i - 1]
             x == m[i]
             A == Ahead(S, at, K, w)
             B == Ahead(S, at, K, x)
  <2>1. w \in Good /\ x = Round[w] /\ x \in Good
    BY <1>1, <1>3, <1>10, <1>12
  <2>2. R[w].wake_in = 0 \/ Few(A, MaxPid - (i - 1))
    BY <1>1, <1>12
  <2>3. /\ R[w].wake_in = 0 => x = w
        /\ R[w].wake_in # 0 => \E p \in A : B \subseteq A \ {p}
    <3>1. Skipping(R, S, at, K, w)
      BY <2>1, Zenon DEF Good
    <3>2. SkipsOne(R, S, at, K, w, x)
      <4> HIDE DEF w, x, A, B
      <4> QED BY <2>1, <3>1, SkipRoundOK, Zenon DEF Round
    <3> QED BY <3>2, Zenon DEF SkipsOne
  <2> HIDE DEF w, x, A, B
  <2>5. R[x].wake_in = 0 \/ Few(B, MaxPid - i)
    <3> SUFFICES ASSUME R[x].wake_in # 0 PROVE Few(B, MaxPid - i)
      BY Zenon
    <3>1. R[w].wake_in # 0
      BY <2>3
    <3>2. PICK p \in A : B \subseteq A \ {p}
      BY <2>3, <3>1, Zenon
    <3>3. MaxPid - (i - 1) \in Int /\ (MaxPid - (i - 1)) - 1 = MaxPid - i
      BY <1>1
    <3> QED BY <2>2, <3>1, <3>2, <3>3, FewerLeft
  <2> QED BY <1>1, <2>1, <2>5 DEF x, B
<1>13. m[n] \in G[n]
  <2> HIDE DEF G
  <2> QED BY <1>1, <1>11, <1>12, LoopInvariant
<1>14. m[n] \in Good /\ R[m[n]].wake_in = 0
  <2>1. /\ m[n] \in Good
        /\ R[m[n]].wake_in = 0 \/ Few(Ahead(S, at, K, m[n]), MaxPid - n)
    BY <1>1, <1>13
  <2>2. MaxPid - n \notin Nat
    BY <1>1 DEF n
  <2> QED BY <2>1, <2>2, Zenon DEF Few
<1> QED BY <1>5, <1>14, Zenon DEF s, Good

-----------------------------------------------------------------------------
(* process_schedule on the ring. *)

\* A caller of process_schedule leaves the other processes that can run alone,
\* and does not exit while kmain creates processes.
RCallOK(call) ==
  /\ CallOK(call)
  /\ Runnable(proc) \ {process_head} \subseteq Runnable(call.proc)
  /\ boot <= Len(BootEntries) => call.proc[process_head].state = "ready"

\* The current process is there and can run.
LEMMA HeadReady ==
  ASSUME RInv, process_head \in Pid
  PROVE  process_head # None /\ proc[process_head].state = "ready"
<1>1. process_head # None
  BY SwitchAssumption DEF Pid, None
<1>2. CurrentIsRunning
  BY Zenon DEF RInv, IInv
<1> QED BY <1>1, <1>2 DEF CurrentIsRunning

\* The ring S that process_reap leaves.
Kept(call) == Ring \ (Dead(call.proc) \ {process_head})

(***************************************************************************)
(* What process_schedule has done when it switches to q: in the numbering  *)
(* at of the ring, q is the first node after the current one that can run. *)
(***************************************************************************)
Turn(call, at, K, q) ==
  /\ K \in Nat /\ at \in [Pid -> Nat]
  /\ Linked(Ring, at, K, process_head, nxt) /\ InTurn(at)
  /\ Linked(Kept(call), at, K, process_head, nxt')
  /\ nxt' \in [Pid -> Pid \cup {None}]
  /\ Dead(call.proc) \ {process_head} = {} => nxt' = nxt
  /\ q \in Kept(call) \cap Runnable(call.proc)
  /\ Dispatch(call, Reaped(call.proc), q)
  /\ \A p \in Kept(call) :
       Rank(at, K, p) < Rank(at, K, q) => p \notin Runnable(call.proc)

LEMMA ScheduleTurn ==
  ASSUME RInv, NEW call, RCallOK(call), RingSchedule(call)
  PROVE  \E at, K, q : Turn(call, at, K, q)
<1> DEFINE h == process_head
           P == call.proc
           r == process_reap(P)
           R == Reaped(P)
           S == Kept(call)
<1>1. /\ h \in Pid /\ h # None /\ Idle \in Pid /\ P \in [Pid -> Process_t]
      /\ \A p \in Pid : p # h => P[p].state = proc[p].state
      /\ P[h].state \in {"ready", "dead"}
      /\ P[Idle].state = "ready" /\ P[Idle].wake_in = 0
  BY SwitchAssumption DEF RCallOK, CallOK, Pid, None, Idle
<1>2. PICK K \in Nat, at \in [Pid -> Nat] : Linked(Ring, at, K, h, nxt) /\ InTurn(at)
  BY <1>1, Zenon DEF RInv
<1>3. /\ Ring = {p \in Pid : P[p].state \in {"ready", "dead"}}
      /\ Ring \in SUBSET Pid /\ Dead(P) \subseteq Ring /\ Idle \in Ring \ Dead(P)
  <2>1. proc[h].state = "ready"
    BY <1>1, HeadReady, Zenon
  <2> QED BY <1>1, <2>1, Zenon DEF Ring, Dead
<1>4. nxt[h] = h => h \notin Dead(P)
  BY <1>2, <1>3 DEF Linked
<1>5. /\ r.done /\ r.gone = Dead(P) \ {h} /\ r.nxt \in [Pid -> Pid \cup {None}]
      /\ r.gone = {} => r.nxt = nxt
      /\ Linked(Ring \ r.gone, at, K, h, r.nxt)
  <2>1. nxt \in [Pid -> Pid \cup {None}]
    BY DEF RInv
  <2> QED BY <1>1, <1>2, <1>3, <1>4, <2>1, ReapOK, ZenonT(30)
<1> HIDE DEF r
<1>6. AfterReap(P, r) = R
  BY <1>5, Zenon DEF AfterReap, Reaped, Dead
<1>7. S = Ring \ r.gone /\ S \in SUBSET Pid /\ Idle \in S /\ Linked(S, at, K, h, r.nxt)
  BY <1>3, <1>5, Zenon DEF Kept
<1>8. \A p \in Pid : R[p].wake_in = P[p].wake_in
  BY <1>1 DEF Reaped, Process_t
<1> DEFINE q == SkipSleepers(R, r.nxt, r.nxt[h])
<1>9. R[q].wake_in = 0 /\ Skipping(R, S, at, K, q)
  <2>1. R[Idle].wake_in = 0
    BY <1>1, <1>8, Zenon
  <2> HIDE DEF S, R
  <2> QED BY <1>1, <1>2, <1>7, <2>1, SkipOK
<1>10. Picks(R, r) = q
  BY <1>5, Zenon DEF Picks
<1>11. nxt' = r.nxt /\ IF q = None THEN TRUE ELSE Dispatch(call, R, q)
  <2> HIDE DEF q, R
  <2> QED BY <1>6, <1>10 DEF RingSchedule, r
<1> HIDE DEF q
<1>12. q \in S /\ q \in Pid /\ q # None /\ P[q].wake_in = 0
  BY <1>7, <1>8, <1>9 DEF Skipping, Pid, None
<1>13. ASSUME NEW p \in S, Rank(at, K, p) < Rank(at, K, q) PROVE P[p].wake_in # 0
  <2>1. R[p].wake_in # 0 /\ p \in Pid
    BY <1>7, <1>9, <1>13, Zenon DEF Skipping
  <2> QED BY <1>8, <2>1
<1>14. P[q].state = "ready"
  <2> SUFFICES ASSUME P[q].state = "dead" PROVE FALSE
    BY <1>3, <1>7, <1>12, Zenon
  <2>1. q = h /\ Idle # h
    BY <1>1, <1>5, <1>7, <1>12, Zenon DEF Dead
  <2>2. Rank(at, K, Idle) < Rank(at, K, q)
    BY <1>7, <2>1, Zenon DEF Rank, Linked
  <2> QED BY <1>1, <1>7, <1>13, <2>2, Zenon
<1>15. q \in Runnable(P)
  BY <1>12, <1>14, Zenon DEF Runnable
<1>16. \A p \in S : Rank(at, K, p) < Rank(at, K, q) => p \notin Runnable(P)
  BY <1>13, Zenon DEF Runnable
<1>17. Turn(call, at, K, q)
  <2> HIDE DEF S, R
  <2> QED BY <1>2, <1>5, <1>7, <1>11, <1>12, <1>15, <1>16, Zenon DEF Turn, S, R
<1> QED BY <1>17

\* Which processes are alive and asleep after the switch.
LEMMA AfterDispatch ==
  ASSUME NEW call, CallOK(call), NEW q \in Pid, Dispatch(call, Reaped(call.proc), q)
  PROVE  /\ process_head' = q
         /\ \A p \in Pid : /\ proc'[p].state = Reaped(call.proc)[p].state
                           /\ proc'[p].wake_in = call.proc[p].wake_in
<1> DEFINE R == Reaped(call.proc)
<1>1. R \in [Pid -> Process_t] /\ \A p \in Pid : R[p].wake_in = call.proc[p].wake_in
  BY DEF Reaped, CallOK, Process_t
<1>2. /\ process_head' = q /\ process_head \in Pid
      /\ proc' = IF q = process_head THEN R
                 ELSE [R EXCEPT ![process_head] = Save(R[process_head], call)]
  BY Zenon DEF Dispatch, CallOK
<1> HIDE DEF R
<1>3. /\ Save(R[process_head], call).state = R[process_head].state
      /\ Save(R[process_head], call).wake_in = R[process_head].wake_in
  <2>1. R[process_head] \in Process_t
    BY <1>1, <1>2
  <2> QED BY <2>1 DEF Save, Process_t
<1>4. ASSUME NEW p \in Pid
      PROVE  proc'[p].state = R[p].state /\ proc'[p].wake_in = R[p].wake_in
  <2>1. proc'[p] = R[p] \/ (p = process_head /\ proc'[p] = Save(R[process_head], call))
    BY <1>1, <1>2
  <2> QED BY <1>3, <2>1, Zenon
<1> QED BY <1>1, <1>2, <1>4, Zenon DEF R

\* The ring and the processes that can run, after the switch.
LEMMA AfterTurn ==
  ASSUME RInv, NEW call, RCallOK(call), NEW at, NEW K, NEW q, Turn(call, at, K, q)
  PROVE  /\ process_head' = q /\ q \in Pid
         /\ Ring' = Kept(call)
         /\ Runnable(proc') = Runnable(call.proc)
         /\ \A p \in Pid : proc'[p].state = "none" <=> proc[p].state = "none"
         /\ Dead(call.proc) = {} => \A p \in Pid : proc'[p].state = proc[p].state
<1>1. /\ CallOK(call) /\ q \in Pid /\ Dispatch(call, Reaped(call.proc), q)
  BY Zenon DEF RCallOK, Turn, Runnable
<1>2. /\ process_head' = q
      /\ \A p \in Pid : /\ proc'[p].state = Reaped(call.proc)[p].state
                        /\ proc'[p].wake_in = call.proc[p].wake_in
  BY <1>1, AfterDispatch, Zenon
<1>3. \A p \in Pid : Reaped(call.proc)[p].state =
        IF p \in Dead(call.proc) \ {process_head} THEN "freed" ELSE call.proc[p].state
  BY <1>1 DEF Reaped, Dead, CallOK, Process_t
<1>4. /\ proc[process_head].state = "ready"
      /\ call.proc[process_head].state \in {"ready", "dead"}
      /\ process_head \in Pid
      /\ \A p \in Pid \ {process_head} : call.proc[p].state = proc[p].state
  <2>1. process_head \in Pid
    BY <1>1, Zenon DEF CallOK
  <2> QED BY <1>1, <2>1, HeadReady, Zenon DEF CallOK
<1>5. Ring' = Kept(call)
  BY <1>2, <1>3, <1>4 DEF Ring, Kept, Dead
<1>6. Runnable(proc') = Runnable(call.proc)
  BY <1>2, <1>3 DEF Runnable, Dead
<1>7. \A p \in Pid : proc'[p].state = "none" <=> proc[p].state = "none"
  BY <1>2, <1>3, <1>4 DEF Dead
<1>8. Dead(call.proc) = {} => \A p \in Pid : proc'[p].state = proc[p].state
  BY <1>2, <1>3, <1>4, Zenon DEF Dead
<1> QED BY <1>1, <1>2, <1>5, <1>6, <1>7, <1>8, Zenon

\* The switch that the ring makes is one that Switch allows.
LEMMA TurnSchedules ==
  ASSUME RInv, NEW call, RCallOK(call), RingSchedule(call)
  PROVE  process_schedule(call) /\ UNCHANGED <<next_pid, boot, user_fs>> /\ IInv'
<1>1. PICK at, K, q : Turn(call, at, K, q)
  BY ScheduleTurn, ZenonT(30)
<1>2. process_schedule(call)
  BY <1>1, Zenon DEF Turn, process_schedule
<1>3. UNCHANGED <<next_pid, boot, user_fs>>
  BY DEF RingSchedule
<1> QED BY <1>2, <1>3, DispatchInv, Zenon DEF RCallOK, RInv

\* No process that has had a turn since another could run gets a second one.
LEMMA TurnInOrder ==
  ASSUME RInv, NEW call, RCallOK(call), RingSchedule(call),
         NEW p \in Runnable(proc), process_head' # process_head
  PROVE  process_head' \notin passed[p]
<1>1. PICK at, K, q : Turn(call, at, K, q)
  BY ScheduleTurn, ZenonT(30)
<1>2. process_head' = q /\ q \in Kept(call) /\ Kept(call) \subseteq Ring
  BY <1>1, AfterTurn, ZenonT(30) DEF Turn, Kept
<1> SUFFICES ASSUME q \in passed[p] PROVE FALSE
  BY <1>2
<1>3. p # process_head /\ p \in Pid
  BY Zenon DEF RInv, Runnable
<1>4. p \in Runnable(call.proc) /\ p \in Kept(call)
  BY <1>3, Zenon DEF RCallOK, Runnable, Kept, Ring, Dead
<1>5. at[p] < at[q]
  BY <1>1, <1>2, <1>3, Zenon DEF Turn, InTurn
<1>6. Rank(at, K, p) < Rank(at, K, q)
  BY <1>2, <1>3, <1>5 DEF Rank
<1> QED BY <1>1, <1>4, <1>6, Zenon DEF Turn

\* process_schedule on the ring preserves the invariant.
LEMMA TurnInv ==
  ASSUME RInv, NEW call, RCallOK(call), RingSchedule(call)
  PROVE  RInv'
<1> DEFINE h == process_head
           S == Kept(call)
<1>1. PICK at, K, q : Turn(call, at, K, q)
  BY ScheduleTurn, ZenonT(30)
<1>2. /\ K \in Nat /\ at \in [Pid -> Nat] /\ InTurn(at)
      /\ Linked(S, at, K, h, nxt') /\ S \in SUBSET Pid
      /\ nxt' \in [Pid -> Pid \cup {None}]
      /\ Dead(call.proc) \ {h} = {} => nxt' = nxt
      /\ q \in S
      /\ \A p \in S : Rank(at, K, p) < Rank(at, K, q) => p \notin Runnable(call.proc)
  BY <1>1, Zenon DEF Turn, Kept, Ring
<1>3. /\ process_head' = q /\ q \in Pid
      /\ Ring' = S
      /\ Runnable(proc') = Runnable(call.proc)
      /\ \A p \in Pid : proc'[p].state = "none" <=> proc[p].state = "none"
      /\ Dead(call.proc) = {} => \A p \in Pid : proc'[p].state = proc[p].state
  BY <1>1, AfterTurn, Zenon
<1>4. /\ UNCHANGED <<next_pid, boot, user_fs, pend>>
      /\ passed' = [p \in Pid |-> IF p = q \/ p \notin Runnable(proc') THEN {}
                                  ELSE passed[p] \cup {q}]
  BY <1>3, Zenon DEF RingSchedule
<1>5. IInv'
  BY TurnSchedules
<1>6. /\ h \in Pid /\ h # None /\ q # None /\ proc[h].state = "ready"
      /\ passed \in [Pid -> SUBSET Pid]
  <2>1. h \in Pid /\ q \in Pid
    BY <1>3, Zenon DEF RCallOK, CallOK
  <2>2. q # None
    BY <2>1, SwitchAssumption DEF Pid, None
  <2>3. passed \in [Pid -> SUBSET Pid]
    BY DEF RInv
  <2> QED BY <2>1, <2>2, <2>3, HeadReady
<1>7. PushOK'
  <2>1. ASSUME boot <= Len(BootEntries) PROVE Dead(call.proc) = {}
    BY <2>1, <1>6, Zenon DEF RInv, PushOK, RCallOK, CallOK, Dead
  <2> QED BY <1>2, <1>3, <1>4, <1>6, <2>1, ZenonT(30) DEF RInv, PushOK
<1>8. passed' \in [Pid -> SUBSET Pid]
  BY <1>3, <1>4, <1>6, Zenon
<1>9. (\A p \in Pid : \A x \in passed[p] : proc[x].state # "none")'
  <2>1. proc'[q].state # "none"
    BY <1>2, <1>3, Zenon DEF Ring
  <2> QED BY <1>3, <1>4, <1>6, <2>1, Zenon DEF RInv
<1>10. (\A p \in Pid : p = process_head \/ p \notin Runnable(proc) => passed[p] = {})'
  BY <1>3, <1>4, Zenon
<1> DEFINE bt == Turned(at, K, q)
<1>11. Linked(S, bt, K, q, nxt')
  <2> HIDE DEF S
  <2> QED BY <1>2, TurnRing, Zenon
<1>12. bt \in [Pid -> Nat]
  <2> SUFFICES ASSUME NEW p \in Pid PROVE bt[p] \in Nat
    BY DEF Turned
  <2>1. at[q] < K /\ at[q] \in Nat /\ at[p] \in Nat
    BY <1>2, Zenon DEF Linked
  <2>2. bt[p] = IF at[q] <= at[p] THEN at[p] - at[q] ELSE at[p] - at[q] + K
    BY DEF Turned
  <2> HIDE DEF bt
  <2> QED BY <1>2, <2>1, <2>2
<1>13. ASSUME NEW p \in Runnable(call.proc) \ {q}, NEW x \in passed'[p] \cap S
       PROVE  x = q \/ bt[p] < bt[x]
  <2> SUFFICES ASSUME x # q PROVE bt[p] < bt[x]
    OBVIOUS
  <2>1. p \in Pid /\ x \in passed[p] /\ p \in S
    BY <1>3, <1>4, <1>6, <1>13, Zenon DEF Runnable, Kept, Ring, Dead, RCallOK, CallOK
  <2>2. p # h /\ p \in Runnable(proc)
    BY <2>1, Zenon DEF RInv
  <2>3. x \in Ring /\ (x = h \/ at[p] < at[x])
    BY <1>2, <2>1, <2>2, Zenon DEF InTurn, Kept
  <2>4. /\ at[p] \in Nat /\ at[q] \in Nat /\ at[x] \in Nat /\ at[p] < K /\ at[q] < K
        /\ at[h] = 0 /\ (at[p] = at[q] => p = q) /\ (at[q] = 0 => q = h)
    BY <1>2, <2>1, Zenon DEF Linked
  <2>5. ~(Rank(at, K, p) < Rank(at, K, q))
    BY <1>2, <1>13, <2>1, Zenon
  <2>6. q # h /\ at[q] < at[p]
    BY <1>2, <1>13, <2>2, <2>4, <2>5 DEF Rank
  <2>7. /\ bt[p] = IF at[q] <= at[p] THEN at[p] - at[q] ELSE at[p] - at[q] + K
        /\ bt[x] = IF at[q] <= at[x] THEN at[x] - at[q] ELSE at[x] - at[q] + K
    BY <1>2, <2>1, Zenon DEF Turned
  <2> HIDE DEF bt
  <2> QED BY <1>2, <2>3, <2>4, <2>6, <2>7
<1>14. InTurn(bt)'
  BY <1>3, <1>13, Zenon DEF InTurn
<1>15. (process_head # None => \E L \in Nat : \E ct \in [Pid -> Nat] :
          Linked(Ring, ct, L, process_head, nxt) /\ InTurn(ct))'
  <2> HIDE DEF bt, S
  <2> QED BY <1>2, <1>3, <1>11, <1>12, <1>14, Zenon
<1> QED BY <1>2, <1>4, <1>5, <1>7, <1>8, <1>9, <1>10, <1>15, Zenon DEF RInv

-----------------------------------------------------------------------------
(* Every caller of process_schedule meets RCallOK. *)

\* The timer interrupt, which may end somebody's sleep.
LEMMA TimerRCallOK ==
  ASSUME RInv, TimerEnabled
  PROVE  RCallOK(TimerCall)
<1>1. CallOK(TimerCall)
  BY TimerCallOK DEF RInv
<1>2. TimerCall.proc =
        [p \in Pid |-> [proc[p] EXCEPT !.wake_in = IF @ > 0 THEN @ - 1 ELSE 0]]
  BY DEF TimerCall, Call
<1>3. \A p \in Pid : /\ TimerCall.proc[p].state = proc[p].state
                     /\ proc[p].wake_in = 0 => TimerCall.proc[p].wake_in = 0
  BY <1>2 DEF RInv, IInv, TypeOK, Process_t
<1>4. proc[process_head].state = "ready" /\ process_head \in Pid
  BY <1>1, Zenon DEF TimerEnabled, RInv, IInv, CurrentIsRunning, CallOK
<1> QED BY <1>1, <1>3, <1>4, Zenon DEF RCallOK, Runnable

\* process_sleep, which changes the current process alone.
LEMMA SleepRCallOK ==
  ASSUME RInv, KernelCode, NEW ms \in 1 .. MaxSleep
  PROVE  RCallOK(SleepCall(ms))
<1>1. CallOK(SleepCall(ms))
  BY SleepCallOK DEF RInv
<1>2. SleepCall(ms).proc = [proc EXCEPT ![process_head].wake_in = ms]
  BY Zenon DEF SleepCall, Call
<1>3. process_head \in Pid /\ proc[process_head].state = "ready"
      /\ proc \in [Pid -> Process_t]
  BY <1>1, Zenon DEF KernelCode, RInv, IInv, TypeOK, CurrentIsRunning, CallOK
<1>4. /\ \A p \in Pid \ {process_head} : SleepCall(ms).proc[p] = proc[p]
      /\ SleepCall(ms).proc[process_head].state = "ready"
  BY <1>2, <1>3 DEF Process_t
<1> QED BY <1>1, <1>4, Zenon DEF RCallOK, Runnable

\* process_exit, once kmain has created its processes.
LEMMA ExitRCallOK ==
  ASSUME RInv, NEW c, NEW s, NEW stack, CallOK(ExitCall(c, s, stack)),
         ~(boot <= Len(BootEntries))
  PROVE  RCallOK(ExitCall(c, s, stack))
<1>1. ExitCall(c, s, stack).proc = [proc EXCEPT ![process_head].state = "dead"]
  BY Zenon DEF ExitCall, Call
<1>2. \A p \in Pid \ {process_head} : ExitCall(c, s, stack).proc[p] = proc[p]
  BY <1>1 DEF RInv, IInv, TypeOK
<1> QED BY <1>2, Zenon DEF RCallOK, Runnable

(***************************************************************************)
(* Every step that ends in process_schedule is a call of it that meets     *)
(* RCallOK and that Switch knows.                                          *)
(***************************************************************************)
Schedules ==
  RTimerIRQ \/ InfoSleeps \/ InfoReturns \/ ShellReturns \/ RSyscallExit \/ RUserFault

LEMMA ScheduleCalls ==
  ASSUME ~EarlyReturn, RInv, Schedules
  PROVE  \E call : /\ RCallOK(call) /\ RingSchedule(call)
                   /\ process_schedule(call) /\ UNCHANGED <<next_pid, boot, user_fs>> => Next
<1>1. CASE RTimerIRQ
  <2>1. RCallOK(TimerCall) /\ RingSchedule(TimerCall)
    BY <1>1, TimerRCallOK DEF RTimerIRQ
  <2>2. process_schedule(TimerCall) /\ UNCHANGED <<next_pid, boot, user_fs>> => Next
    BY <1>1 DEF RTimerIRQ, TimerIRQ, Next
  <2> QED BY <2>1, <2>2
<1>2. CASE InfoSleeps
  <2>1. PICK ms \in 1 .. MaxSleep : RingSchedule(SleepCall(ms))
    BY <1>2 DEF InfoSleeps
  <2>2. KernelCode /\ ms \in 0 .. MaxSleep
    BY <1>2 DEF InfoSleeps, Entry
  <2>3. RCallOK(SleepCall(ms))
    BY <2>2, SleepRCallOK
  <2>4. process_schedule(SleepCall(ms)) /\ UNCHANGED <<next_pid, boot, user_fs>> => Next
    BY <2>2 DEF process_sleep, Next
  <2> QED BY <2>1, <2>3, <2>4
<1>3. CASE InfoReturns \/ ShellReturns
  <2> DEFINE call == ExitCall(cpu, sync, cpu.stack)
  <2>1. KernelCode /\ RingSchedule(call)
    BY <1>3 DEF InfoReturns, ShellReturns, Entry
  <2>2. ~(boot <= Len(BootEntries))
    <3>1. CASE InfoReturns
      BY <3>1, SwitchAssumption DEF InfoReturns, RInv, IInv, TypeOK
    <3>2. CASE ShellReturns
      <4>1. process_head \in Pid /\ proc[process_head].entry = "shell"
        BY <3>2, Zenon DEF ShellReturns, Entry, KernelCode, RInv, IInv, TypeOK
      <4> QED BY <4>1, Zenon DEF RInv, IInv, BootOK
    <3> QED BY <1>3, <3>1, <3>2
  <2>3. CallOK(call)
    BY <2>1, EntryReturnsOK, Zenon DEF RInv
  <2>4. RCallOK(call)
    BY <2>2, <2>3, ExitRCallOK
  <2>5. process_schedule(call) /\ UNCHANGED <<next_pid, boot, user_fs>> => Next
    BY <2>1 DEF EntryReturns, Next
  <2> QED BY <2>1, <2>4, <2>5
<1>4. CASE RSyscallExit
  <2>1. cpu.mode = "user" /\ RingSchedule(SyscallExitCall)
    BY <1>4 DEF RSyscallExit
  <2>2. CallOK(SyscallExitCall) /\ ~(boot <= Len(BootEntries))
    BY <2>1, SyscallExitOK, UserMode, Zenon DEF RInv
  <2>3. RCallOK(SyscallExitCall)
    BY <2>2, ExitRCallOK, Zenon DEF SyscallExitCall
  <2>4. process_schedule(SyscallExitCall) /\ UNCHANGED <<next_pid, boot, user_fs>> => Next
    BY <2>1 DEF syscall_exit, Next
  <2> QED BY <2>1, <2>3, <2>4
<1>5. CASE RUserFault
  <2>1. cpu.mode = "user" /\ RingSchedule(UserFaultCall)
    BY <1>5 DEF RUserFault
  <2>2. CallOK(UserFaultCall) /\ ~(boot <= Len(BootEntries))
    BY <2>1, UserFaultOK, UserMode, Zenon DEF RInv
  <2>3. RCallOK(UserFaultCall)
    BY <2>2, ExitRCallOK DEF UserFaultCall
  <2>4. process_schedule(UserFaultCall) /\ UNCHANGED <<next_pid, boot, user_fs>> => Next
    BY <2>1 DEF UserFault, Next
  <2> QED BY <2>1, <2>3, <2>4
<1> QED BY <1>1, <1>2, <1>3, <1>4, <1>5, Zenon DEF Schedules

-----------------------------------------------------------------------------
(* PROCESS_PUSH. *)

\* A process is added to the table; everything but its node is as before.
LEMMA AddedProcess ==
  ASSUME RInv, NEW e \in {"forever", "info", "shell", "user"}, AddProcess(e)
  PROVE  /\ next_pid \in Pid
         /\ proc[next_pid].state = "none"
         /\ Ring' = Ring \cup {next_pid}
         /\ Runnable(proc') = Runnable(proc) \cup {next_pid}
         /\ \A p \in Pid : proc'[p].state =
              IF p = next_pid THEN "ready" ELSE proc[p].state
         /\ process_head' = IF process_head = None THEN next_pid ELSE process_head
         /\ process_head # None =>
              process_head \in Ring /\ process_head \in Pid /\ process_head # next_pid
<1>1. next_pid \in Pid /\ proc[next_pid].state = "none" /\ proc \in [Pid -> Process_t]
  BY DEF AddProcess, RInv, IInv, TypeOK, Pid
<1>2. /\ \A p \in Pid \ {next_pid} : proc'[p] = proc[p]
      /\ proc'[next_pid] = NewProcess(next_pid, e)
  BY <1>1 DEF AddProcess
<1>3. NewProcess(next_pid, e).state = "ready" /\ NewProcess(next_pid, e).wake_in = 0
  BY DEF NewProcess
<1>4. \A p \in Pid : proc'[p].state = IF p = next_pid THEN "ready" ELSE proc[p].state
  BY <1>2, <1>3
<1>5. Ring' = Ring \cup {next_pid}
  BY <1>1, <1>4 DEF Ring
<1>6. Runnable(proc') = Runnable(proc) \cup {next_pid}
  BY <1>1, <1>2, <1>3 DEF Runnable
<1>7. process_head' = IF process_head = None THEN next_pid ELSE process_head
  BY DEF AddProcess
<1>8. process_head # None =>
        process_head \in Ring /\ process_head \in Pid /\ process_head # next_pid
  BY <1>1, Zenon DEF RInv, IInv, TypeOK, CurrentIsRunning, Ring
<1> QED BY <1>1, <1>4, <1>5, <1>6, <1>7, <1>8, Zenon

\* Nobody has waited for the new process, and it has not had a turn.
LEMMA AddedTurns ==
  ASSUME RInv, NEW e \in {"forever", "info", "shell", "user"}, AddProcess(e),
         UNCHANGED passed
  PROVE  /\ passed' \in [Pid -> SUBSET Pid]
         /\ (\A p \in Pid : \A q \in passed[p] : proc[q].state # "none")'
         /\ (\A p \in Pid : p = process_head \/ p \notin Runnable(proc) => passed[p] = {})'
<1>1. /\ next_pid \in Pid /\ proc[next_pid].state = "none"
      /\ Runnable(proc') = Runnable(proc) \cup {next_pid}
      /\ \A p \in Pid : proc'[p].state = IF p = next_pid THEN "ready" ELSE proc[p].state
      /\ process_head' = next_pid \/ process_head' = process_head
  BY AddedProcess, Zenon
<1>2. passed[next_pid] = {}
  BY <1>1, Zenon DEF RInv, Runnable
<1> QED BY <1>1, <1>2 DEF RInv

\* A process is linked behind the current one.
LEMMA PushInv ==
  ASSUME RInv, NEW e \in {"forever", "info", "shell", "user"}, AddProcess(e),
         UNCHANGED passed, process_head # None,
         nxt' \in [Pid -> Pid \cup {None}],
         nxt'[next_pid] = nxt[process_head], nxt'[process_head] = next_pid,
         \A p \in Pid \ {next_pid, process_head} : nxt'[p] = nxt[p]
  PROVE  \E K \in Nat : \E at \in [Pid -> Nat] :
           (Linked(Ring, at, K, process_head, nxt) /\ InTurn(at))'
<1> DEFINE h == process_head
<1>0. PICK n : n = next_pid
  OBVIOUS
<1>1. /\ n \in Pid /\ proc[n].state = "none"
      /\ Ring' = Ring \cup {n}
      /\ Runnable(proc') = Runnable(proc) \cup {n}
      /\ h' = h /\ h \in Ring /\ h \in Pid /\ h # n
      /\ Ring \in SUBSET Pid /\ n \notin Ring
  BY <1>0, AddedProcess, Zenon DEF Ring
<1>2. PICK K \in Nat, at \in [Pid -> Nat] : Linked(Ring, at, K, h, nxt) /\ InTurn(at)
  BY Zenon DEF RInv
<1> DEFINE bt == [p \in Pid |-> IF p = n THEN 1 ELSE 2 * at[p]]
<1>3. Linked(Ring \cup {n}, bt, 2 * K, h, nxt')
  <2>1. \A p \in Ring \ {h} : nxt'[p] = nxt[p]
    BY <1>0, <1>1
  <2> QED BY <1>0, <1>1, <1>2, <2>1, PushRing
<1>4. bt \in [Pid -> Nat] /\ 2 * K \in Nat
  BY <1>2
<1>5. passed[n] = {} /\ \A p \in Pid : n \notin passed[p]
  BY <1>1, Zenon DEF RInv, Runnable
<1>6. ASSUME NEW p \in Runnable(proc') \ {h}, NEW x \in passed[p] \cap (Ring \cup {n})
      PROVE  x = h \/ bt[p] < bt[x]
  <2>1. p # n /\ x # n /\ p \in Runnable(proc) \ {h} /\ p \in Pid /\ x \in Ring
    BY <1>1, <1>5, <1>6, Zenon DEF Runnable
  <2>2. x = h \/ at[p] < at[x]
    BY <1>2, <1>6, <2>1, Zenon DEF InTurn
  <2>3. bt[p] = 2 * at[p] /\ bt[x] = 2 * at[x] /\ at[p] \in Nat /\ at[x] \in Nat
    BY <1>1, <1>2, <2>1, Zenon
  <2> HIDE DEF bt
  <2> QED BY <2>2, <2>3
<1> HIDE DEF bt
<1>7. passed' = passed /\ process_head' = process_head
  BY <1>1
<1>8. InTurn(bt)'
  BY <1>1, <1>6, <1>7, Zenon DEF InTurn
<1>9. (Linked(Ring, bt, 2 * K, process_head, nxt) /\ InTurn(bt))'
  BY <1>1, <1>3, <1>7, <1>8, Zenon
<1> QED BY <1>4, <1>9, ZenonT(30)

\* The two halves of a push in kmain, whatever happens between them, link the
\* new process into the ring.
LEMMA PushLinksInv ==
  ASSUME RInv, PushLinks
  PROVE  RInv'
<1>1. process_create /\ pend # None /\ pend' = None /\ UNCHANGED passed
  BY DEF PushLinks
<1>2. IInv'
  BY <1>1, NextInv DEF RInv, Next
<1>3. /\ AddProcess(BootEntry) /\ BootEntry \in {"forever", "info", "shell", "user"}
      /\ boot' = boot + 1 /\ boot <= Len(BootEntries) /\ boot \in Nat
      /\ Len(BootEntries) \in Nat
  BY <1>1, SwitchAssumption
     DEF process_create, KmainCreates, BootEntry, RInv, IInv, TypeOK
<1>4. /\ next_pid \in Pid /\ proc[next_pid].state = "none"
      /\ Ring' = Ring \cup {next_pid}
      /\ Runnable(proc') = Runnable(proc) \cup {next_pid}
      /\ \A p \in Pid : proc'[p].state = IF p = next_pid THEN "ready" ELSE proc[p].state
      /\ process_head' = IF process_head = None THEN next_pid ELSE process_head
      /\ process_head # None =>
           process_head \in Ring /\ process_head \in Pid /\ process_head # next_pid
  BY <1>3, AddedProcess, Zenon
<1>5. pend = IF process_head = None THEN next_pid ELSE nxt[process_head]
  <2>1. process_head # None => process_head = Idle
    BY <1>1 DEF process_create, KmainCreates, RInv, IInv, CurrentIsRunning
  <2> QED BY <1>1, <2>1, Zenon DEF RInv, PushOK
<1>6. nxt' = [p \in Pid |-> IF p = next_pid THEN pend
                            ELSE IF p = process_head THEN next_pid ELSE nxt[p]]
  BY DEF PushLinks
<1>7. nxt' \in [Pid -> Pid \cup {None}]
  BY <1>4, <1>6, Zenon DEF RInv
<1>8. PushOK'
  BY <1>1, <1>3, <1>4, Zenon DEF RInv, PushOK
<1>9. (process_head # None => \E K \in Nat : \E at \in [Pid -> Nat] :
         Linked(Ring, at, K, process_head, nxt) /\ InTurn(at))'
  <2>1. CASE process_head # None
    <3>1. process_head' # None
      BY <1>4, <2>1
    <3>2. /\ nxt'[next_pid] = nxt[process_head] /\ nxt'[process_head] = next_pid
          /\ \A p \in Pid \ {next_pid, process_head} : nxt'[p] = nxt[p]
      BY <1>4, <1>5, <1>6, <2>1, Zenon
    <3> QED BY <1>1, <1>3, <1>7, <2>1, <3>2, PushInv, ZenonT(30)
  <2>2. CASE process_head = None
    <3>1. next_pid = 0 /\ \A p \in Pid : proc[p].state = "none"
      BY <2>2 DEF RInv, IInv, BootOK, Pid
    <3>2. Ring' = {next_pid} /\ Runnable(proc') = {next_pid} /\ process_head' = next_pid
      BY <1>4, <2>2, <3>1, ZenonT(30) DEF Ring, Runnable
    <3>3. nxt'[next_pid] = next_pid
      BY <1>4, <1>5, <1>6, <2>2
    <3> DEFINE at == [p \in Pid |-> 0]
    <3>4. Linked({next_pid}, at, 1, next_pid, nxt')
      BY <1>4, <3>3 DEF Linked
    <3>5. InTurn(at)'
      BY <3>2 DEF InTurn
    <3>6. at \in [Pid -> Nat] /\ 1 \in Nat
      OBVIOUS
    <3> HIDE DEF at
    <3> QED BY <3>2, <3>4, <3>5, <3>6
  <2> QED BY <2>1, <2>2
<1>10. /\ passed' \in [Pid -> SUBSET Pid]
       /\ (\A p \in Pid : \A q \in passed[p] : proc[q].state # "none")'
       /\ (\A p \in Pid : p = process_head \/ p \notin Runnable(proc) => passed[p] = {})'
  BY <1>1, <1>3, AddedTurns, Zenon
<1>11. pend' \in Pid \cup {None}
  BY <1>1
<1> QED BY <1>2, <1>7, <1>8, <1>9, <1>10, <1>11, Zenon DEF RInv

\* So does the push in the shell.
LEMMA ShellSpawnsInv ==
  ASSUME RInv, ShellSpawns
  PROVE  RInv'
<1>1. process_create_user /\ UNCHANGED <<pend, passed, boot>>
  BY DEF ShellSpawns, process_create_user
<1>2. IInv'
  BY <1>1, NextInv DEF RInv, Next
<1>3. /\ AddProcess("user") /\ process_head \in Pid /\ process_head # None
      /\ proc[process_head].entry = "shell"
  BY <1>1, Zenon DEF process_create_user, KernelCode, RInv, IInv, TypeOK
<1>4. ~(boot <= Len(BootEntries)) /\ pend = None
  BY <1>3, Zenon DEF RInv, IInv, BootOK, PushOK
<1>5. /\ next_pid \in Pid /\ process_head # next_pid /\ process_head' = process_head
  BY <1>3, AddedProcess, Zenon
<1>6. /\ nxt' \in [Pid -> Pid \cup {None}]
      /\ nxt'[next_pid] = nxt[process_head] /\ nxt'[process_head] = next_pid
      /\ \A p \in Pid \ {next_pid, process_head} : nxt'[p] = nxt[p]
  BY <1>3, <1>5, Zenon DEF ShellSpawns, RInv
<1>7. (\E K \in Nat : \E at \in [Pid -> Nat] :
         Linked(Ring, at, K, process_head, nxt) /\ InTurn(at))'
  BY <1>1, <1>3, <1>6, PushInv, Zenon
<1>8. /\ passed' \in [Pid -> SUBSET Pid]
      /\ (\A p \in Pid : \A q \in passed[p] : proc[q].state # "none")'
      /\ (\A p \in Pid : p = process_head \/ p \notin Runnable(proc) => passed[p] = {})'
  BY <1>1, <1>3, AddedTurns, Zenon
<1>9. PushOK' /\ pend' \in Pid \cup {None}
  BY <1>1, <1>4 DEF PushOK
<1> QED BY <1>2, <1>6, <1>7, <1>8, <1>9, Zenon DEF RInv

-----------------------------------------------------------------------------
\* The empty ring before kmain's first process_create.
LEMMA RInitInv == RInit => RInv
<1> SUFFICES ASSUME RInit PROVE RInv
  OBVIOUS
<1>1. IInv
  BY InitInv DEF RInit
<1>2. /\ \A p \in Pid : proc[p].state = "none"
      /\ process_head = None
  BY Zenon DEF RInit, Init, NoProcess
<1> QED BY <1>1, <1>2 DEF RInit, RInv, PushOK, None

(***************************************************************************)
(* A step of the ring is a step of Switch, or one that Switch does not     *)
(* see (the first half of a push).                                         *)
(***************************************************************************)
LEMMA StepImplements ==
  ASSUME ~EarlyReturn, RInv, [RNext]_rvars
  PROVE  [Next]_vars
<1>1. CASE Schedules
  <2>1. PICK call : /\ RCallOK(call) /\ RingSchedule(call)
                    /\ process_schedule(call) /\ UNCHANGED <<next_pid, boot, user_fs>> => Next
    BY <1>1, ScheduleCalls, ZenonT(30)
  <2> QED BY <2>1, TurnSchedules
<1>2. CASE RWriteFsBase
  BY <1>2 DEF RWriteFsBase, Next
<1>3. CASE PushReadsNext
  BY <1>3 DEF PushReadsNext
<1>4. CASE PushLinks
  BY <1>4 DEF PushLinks, Next
<1>5. CASE ShellSpawns
  BY <1>5 DEF ShellSpawns, Next
<1>6. CASE UNCHANGED rvars
  BY <1>6 DEF rvars
<1> QED BY <1>1, <1>2, <1>3, <1>4, <1>5, <1>6 DEF RNext, Schedules

\* Every step preserves the invariant of the ring.
LEMMA RNextInv ==
  ASSUME ~EarlyReturn, RInv, [RNext]_rvars
  PROVE  RInv'
<1>0. IInv'
  BY StepImplements, NextInv, Zenon DEF RInv
<1>1. CASE Schedules
  BY <1>1, ScheduleCalls, TurnInv
<1>2. CASE RWriteFsBase
  <2>1. UNCHANGED <<proc, process_head, next_pid, boot, nxt, pend, passed>>
    BY <1>2 DEF RWriteFsBase, syscall_write_fsbase
  <2>2. Ring' = Ring /\ Runnable(proc') = Runnable(proc)
    BY <2>1, Zenon DEF Ring, Runnable
  <2> QED BY <1>0, <2>1, <2>2, Zenon DEF RInv, PushOK, InTurn
<1>3. CASE PushReadsNext
  <2>1. /\ UNCHANGED <<proc, process_head, next_pid, boot, nxt, passed>>
        /\ pend' = IF process_head = None THEN next_pid ELSE nxt[process_head]
        /\ boot <= Len(BootEntries) /\ cpu.who = Idle /\ next_pid \in Pid
    BY <1>3 DEF PushReadsNext, vars, KmainCreates
  <2>2. process_head # None => process_head = Idle /\ process_head \in Pid
    BY <2>1, Zenon DEF RInv, IInv, TypeOK, CurrentIsRunning
  <2>3. PushOK' /\ pend' \in Pid \cup {None}
    BY <2>1, <2>2, Zenon DEF RInv, PushOK
  <2>4. Ring' = Ring /\ Runnable(proc') = Runnable(proc)
    BY <2>1, Zenon DEF Ring, Runnable
  <2> QED BY <1>0, <2>1, <2>3, <2>4, Zenon DEF RInv, InTurn
<1>4. CASE PushLinks
  BY <1>4, PushLinksInv
<1>5. CASE ShellSpawns
  BY <1>5, ShellSpawnsInv
<1>6. CASE UNCHANGED rvars
  <2>1. UNCHANGED <<proc, process_head, next_pid, boot, nxt, pend, passed>>
    BY <1>6 DEF rvars, vars
  <2>2. Ring' = Ring /\ Runnable(proc') = Runnable(proc)
    BY <2>1, Zenon DEF Ring, Runnable
  <2> QED BY <1>0, <2>1, <2>2, Zenon DEF RInv, PushOK, InTurn
<1> QED BY <1>1, <1>2, <1>3, <1>4, <1>5, <1>6 DEF RNext, Schedules

\* In every reachable state the ring can be numbered in the order of the turns
\* that its processes are going to have.
THEOREM RingInvariance ==
  ASSUME ~EarlyReturn
  PROVE  RSpec => []RInv
<1>1. RInit => RInv
  BY RInitInv
<1>2. RInv /\ [RNext]_rvars => RInv'
  BY RNextInv
<1> QED BY <1>1, <1>2, PTL DEF RSpec

(***************************************************************************)
(* The run queue is one cycle through all the processes that are created   *)
(* and not reaped, whenever a timer interrupt splits PROCESS_PUSH and      *)
(* whoever exits, for any number of processes.                             *)
(***************************************************************************)
THEOREM RingStaysIntact ==
  ASSUME ~EarlyReturn
  PROVE  RSpec => []RingIntact
<1>1. RInv => RingIntact
  <2> SUFFICES ASSUME RInv, process_head # None
               PROVE  OneCycle(Ring, process_head, nxt)
    BY DEF RingIntact
  <2>1. PICK K \in Nat, at \in [Pid -> Nat] : Linked(Ring, at, K, process_head, nxt)
    BY DEF RInv
  <2> QED BY <2>1, RingCloses
<1> QED BY <1>1, RingInvariance, PTL

(***************************************************************************)
(* process_schedule on the linked list implements Switch, so that all that *)
(* is proved of Switch holds of it: its loops end, what it picks is alive  *)
(* and awake, and what process_reap frees is dead and not current.         *)
(***************************************************************************)
THEOREM RingImplementsSwitch ==
  ASSUME ~EarlyReturn
  PROVE  RSpec => SwitchSpec
<1>1. RInit => Init
  BY DEF RInit
<1>2. RInv /\ [RNext]_rvars => [Next]_vars
  BY StepImplements
<1> QED BY <1>1, <1>2, RingInvariance, PTL DEF RSpec, SwitchSpec, Spec

(***************************************************************************)
(* The order of turns: while a process can run, process_schedule gives no  *)
(* other process a second turn.                                            *)
(***************************************************************************)
THEOREM TurnsInOrder ==
  ASSUME ~EarlyReturn
  PROVE  RSpec => RoundRobin
<1> DEFINE InOrder == \A p \in Runnable(proc) :
             process_head' # process_head => process_head' \notin passed[p]
<1>1. ASSUME RInv, [RNext]_rvars PROVE [InOrder]_rvars
  <2>1. CASE Schedules
    BY <1>1, <2>1, ScheduleCalls, TurnInOrder
  <2>2. CASE RWriteFsBase \/ PushReadsNext \/ UNCHANGED rvars
    BY <2>2 DEF RWriteFsBase, syscall_write_fsbase, PushReadsNext, rvars, vars
  <2>3. CASE PushLinks \/ ShellSpawns
    <3>1. process_head' = IF process_head = None THEN next_pid ELSE process_head
      BY <2>3 DEF PushLinks, ShellSpawns, process_create, process_create_user, AddProcess
    <3>2. process_head = None => Runnable(proc) = {}
      BY <1>1 DEF RInv, IInv, BootOK, Pid, Runnable
    <3> QED BY <3>1, <3>2
  <2> QED BY <1>1, <2>1, <2>2, <2>3 DEF RNext, Schedules
<1> HIDE DEF InOrder
<1>2. RInv /\ [RNext]_rvars => [InOrder]_rvars
  BY <1>1
<1>3. RSpec => [][InOrder]_rvars
  BY <1>2, RingInvariance, PTL DEF RSpec
<1> QED BY <1>3 DEF InOrder, RoundRobin
=============================================================================
