------------------------------ MODULE Process -------------------------------
(***************************************************************************)
(* The run queue of kernel/system/process.c: a circular singly linked list *)
(* of process nodes, process_head on the current one.  This module refines *)
(* Switch: it says which process process_schedule picks and which ones     *)
(* process_reap frees, by walking the list as the code does, and it takes  *)
(* PROCESS_PUSH apart where a timer interrupt can split it.                *)
(*                                                                         *)
(* It also says what the kernel's own processes do: kernel_info sleeps in  *)
(* a loop and returns only when its font cannot be loaded, userspace_shell *)
(* spawns user processes and returns.                                      *)
(***************************************************************************)
EXTENDS Switch

CONSTANT EarlyReturn   \* may kernel_info return while kmain still creates?

ASSUME ProcessAssumption == EarlyReturn \in BOOLEAN

VARIABLES
  nxt,      \* the next field of every process's node
  pend,     \* next field of the node kmain is pushing, None when it is not
  passed    \* history: who has had a turn since a process became runnable

rvars == <<vars, nxt, pend, passed>>

-----------------------------------------------------------------------------
(***************************************************************************)
(* A round of process_reap's loop.  prev and curr walk the ring from the   *)
(* current process's successor; a dead curr is unlinked and freed (a ring  *)
(* of one dead node, which the code empties, does not arise: its node is   *)
(* the current one).  The loop ends when curr is back at process_head.     *)
(***************************************************************************)
Walk == [prev : Pid, curr : Pid, nxt : [Pid -> Pid \cup {None}],
         gone : SUBSET Pid, done : BOOLEAN]

ReapRound(P) ==
  [w \in Walk |->
     LET dead == P[w.curr].state = "dead"
         nx   == IF dead THEN [w.nxt EXCEPT ![w.prev] = w.nxt[w.curr]] ELSE w.nxt
         last == IF dead THEN w.prev ELSE w.curr
     IN IF w.done THEN w
        ELSE [prev |-> last, curr |-> nx[last], nxt |-> nx,
              gone |-> IF dead THEN w.gone \cup {w.curr} ELSE w.gone,
              done |-> nx[last] = process_head]]

ReapStart == [prev |-> process_head, curr |-> nxt[process_head], nxt |-> nxt,
              gone |-> {}, done |-> FALSE]

\* Mutants: the dead are freed but stay linked; a dead current process goes
\* too.
process_reapNoUnlink(P) ==
  [nxt |-> nxt, done |-> TRUE,
   gone |-> {p \in Pid \ {process_head} : P[p].state = "dead"}]

process_reapSelf(P) ==
  [nxt |-> nxt, done |-> TRUE, gone |-> {p \in Pid : P[p].state = "dead"}]

\* A walk that has not ended after one round per process never ends.
process_reap(P) ==
  LET w[i \in 0 .. MaxPid + 1] == IF i = 0 THEN ReapStart ELSE ReapRound(P)[w[i - 1]]
  IN w[MaxPid + 1]

\* Mutants: the search starts at the oldest process, or prefers the newest.
SkipFromFirst(P, nx, n) ==
  CHOOSE p \in Runnable(P) : \A q \in Runnable(P) : p <= q

SkipToNewest(P, nx, n) ==
  LET S == Runnable(P) \ {process_head}
  IN IF S = {} THEN process_head ELSE CHOOSE p \in S : \A q \in S : p >= q

(***************************************************************************)
(* The loop that skips sleeping processes; None when it would not end,     *)
(* interrupts being off and every process asleep.                          *)
(***************************************************************************)
SkipRound(P, nx) == [n \in Pid |-> IF P[n].wake_in = 0 THEN n ELSE nx[n]]

SkipSleepers(P, nx, n) ==
  LET m[i \in 0 .. MaxPid + 1] == IF i = 0 THEN n ELSE SkipRound(P, nx)[m[i - 1]]
  IN IF P[m[MaxPid + 1]].wake_in = 0 THEN m[MaxPid + 1] ELSE None

\* Mutant: the dead are passed over instead of reaped.
RingScheduleNoReap(call) ==
  LET R == [p \in Pid |-> IF call.proc[p].state = "dead"
                          THEN [call.proc[p] EXCEPT !.wake_in = 1] ELSE call.proc[p]]
      q == SkipSleepers(R, nxt, nxt[process_head])
  IN /\ Dispatch(call, R, q)
     /\ UNCHANGED <<next_pid, boot, user_fs, pend, passed, nxt>>

\* The processes after process_reap, and the node the skip loop ends on.
AfterReap(P, r) ==
  [p \in Pid |-> IF p \in r.gone THEN [P[p] EXCEPT !.state = "freed"] ELSE P[p]]

Picks(R, r) ==
  IF r.done THEN SkipSleepers(R, r.nxt, r.nxt[process_head]) ELSE None

RingSchedule(call) ==
  \E r \in {process_reap(call.proc)} :
  \E R \in {AfterReap(call.proc, r)} :
  \E q \in {Picks(R, r)} :
    /\ nxt' = r.nxt
    /\ IF q = None
       THEN /\ cpu' = [call.cpu EXCEPT !.mode = "hung"]
            /\ UNCHANGED <<proc, process_head, sync, overlapped>>
       ELSE Dispatch(call, R, q)
    /\ passed' = [p \in Pid |->
                    IF p = process_head' \/ p \notin Runnable(proc') THEN {}
                    ELSE passed[p] \cup {process_head'}]
    /\ UNCHANGED <<next_pid, boot, user_fs, pend>>

-----------------------------------------------------------------------------
RTimerIRQ == TimerEnabled /\ RingSchedule(TimerCall)

Entry(e) == KernelCode /\ proc[process_head].entry = e

\* kernel_info: sleep(1) in a loop.
InfoSleeps == Entry("info") /\ \E ms \in 1 .. MaxSleep : RingSchedule(SleepCall(ms))

\* The font could not be opened or read; EarlyReturn says whether that can
\* happen in a turn that interrupts kmain's remaining process_create calls.
InfoReturns ==
  /\ Entry("info")
  /\ EarlyReturn \/ boot > Len(BootEntries)
  /\ RingSchedule(ExitCall(cpu, sync, cpu.stack))

\* userspace_shell: run_elf three times at most, each of which may fail.
ShellReturns == Entry("shell") /\ RingSchedule(ExitCall(cpu, sync, cpu.stack))

RSyscallExit == cpu.mode = "user" /\ RingSchedule(SyscallExitCall)

RUserFault == cpu.mode = "user" /\ RingSchedule(UserFaultCall)

RWriteFsBase ==
  /\ \E v \in FsBases : syscall_write_fsbase(v)
  /\ UNCHANGED <<nxt, pend, passed>>

-----------------------------------------------------------------------------
(***************************************************************************)
(* PROCESS_PUSH in kmain, with interrupts on: the next field of the new    *)
(* node is read from the ring, and in a second step the node is linked.    *)
(***************************************************************************)
PushReadsNext ==
  /\ KmainCreates
  /\ pend = None
  /\ next_pid \in Pid
  /\ pend' = IF process_head = None THEN next_pid ELSE nxt[process_head]
  /\ UNCHANGED <<vars, nxt, passed>>

PushLinks ==
  /\ pend # None
  /\ process_create
  /\ nxt' = [p \in Pid |-> IF p = next_pid THEN pend
                           ELSE IF p = process_head THEN next_pid ELSE nxt[p]]
  /\ pend' = None
  /\ UNCHANGED passed

\* The same in the shell, with interrupts off.
ShellSpawns ==
  /\ process_create_user
  /\ nxt' = [nxt EXCEPT ![next_pid] = nxt[process_head],
                        ![process_head] = next_pid]
  /\ UNCHANGED <<pend, passed>>

RInit ==
  /\ Init
  /\ nxt = [p \in Pid |-> None]
  /\ pend = None
  /\ passed = [p \in Pid |-> {}]

RNext ==
  \/ RTimerIRQ
  \/ InfoSleeps
  \/ InfoReturns
  \/ ShellReturns
  \/ RSyscallExit
  \/ RUserFault
  \/ RWriteFsBase
  \/ PushReadsNext
  \/ PushLinks
  \/ ShellSpawns

(***************************************************************************)
(* The timer keeps firing while interrupts are on; kernel_info reaches its *)
(* sleep and userspace_shell its end, both being loops that terminate.     *)
(* User programs owe nothing: they may compute forever.                    *)
(***************************************************************************)
Fairness == WF_rvars(RTimerIRQ) /\ WF_rvars(InfoSleeps) /\ WF_rvars(ShellReturns)

RSpec == RInit /\ [][RNext]_rvars /\ Fairness

-----------------------------------------------------------------------------
(* Properties. *)

Ring == {p \in Pid : proc[p].state \in {"ready", "dead"}}

\* next takes S to itself, and from h to all of S.
OneCycle(S, h, nx) ==
  /\ h \in S
  /\ {nx[p] : p \in S} = S
  /\ \A T \in SUBSET S : h \in T /\ (\A p \in T : nx[p] \in T) => T = S

(***************************************************************************)
(* The ring holds exactly the processes that are created and not reaped,   *)
(* and is one cycle through process_head: no push, unlink or interrupt     *)
(* between the halves of a push loses a process, leaves a freed node in    *)
(* the ring or splits it in two.                                           *)
(***************************************************************************)
RingIntact == process_head # None => OneCycle(Ring, process_head, nxt)

(***************************************************************************)
(* Round robin (process.c 250-261): while a process waits, runnable, no    *)
(* other process gets a second turn before it.                             *)
(***************************************************************************)
RoundRobin ==
  [][\A p \in Runnable(proc) :
       process_head' # process_head => process_head' \notin passed[p]]_rvars

\* Switch is what the ring implements: the pick is always a process that lives
\* and whose wake_at has passed, and the reaped are all the dead ones but the
\* current.
SwitchSpec == Spec

\* Every process that is created gets the CPU, again and again, until it ends.
EveryoneGetsATurn ==
  \A p \in Pid : (proc[p].state = "ready") ~> (process_head = p)

\* A process that exits is eventually reaped and its stack returned.
DeadAreReaped ==
  \A p \in Pid : (proc[p].state = "dead") ~> (proc[p].state = "freed")
-----------------------------------------------------------------------------
(***************************************************************************)
(* What the proofs rest on.  The nodes of a ring S can be numbered in the  *)
(* order in which next leads from one to the other, from h on: next goes   *)
(* to the node with the next higher number, and from the last one to h.    *)
(* The numbers may leave gaps, so that an unlinked node renumbers nobody.  *)
(***************************************************************************)
Linked(S, at, K, h, nx) ==
  /\ h \in S /\ at[h] = 0
  /\ \A p \in S : at[p] \in Nat /\ at[p] < K
  /\ \A p, q \in S : at[p] = at[q] => p = q
  /\ \A p \in S :
       /\ nx[p] \in S
       /\ \/ /\ at[p] < at[nx[p]]
             /\ \A r \in S : at[p] < at[r] => at[nx[p]] <= at[r]
          \/ nx[p] = h /\ \A r \in S : at[r] <= at[p]

\* A process that had a turn while p waited is the current one, or its next
\* turn comes after p's.
InTurn(at) ==
  \A p \in Runnable(proc) \ {process_head} :
    \A q \in passed[p] \cap Ring : q = process_head \/ at[p] < at[q]

\* While kmain creates, nobody dies, and what the next field of the node
\* being pushed holds is not outdated by the time the node is linked.
PushOK ==
  /\ boot <= Len(BootEntries) => \A p \in Pid : proc[p].state \in {"none", "ready"}
  /\ pend # None =>
       /\ boot <= Len(BootEntries)
       /\ pend = IF process_head = None THEN next_pid ELSE nxt[Idle]

RInv ==
  /\ IInv
  /\ nxt \in [Pid -> Pid \cup {None}]
  /\ pend \in Pid \cup {None}
  /\ PushOK
  /\ passed \in [Pid -> SUBSET Pid]
  /\ \A p \in Pid : \A q \in passed[p] : proc[q].state # "none"
  /\ \A p \in Pid : p = process_head \/ p \notin Runnable(proc) => passed[p] = {}
  /\ process_head # None =>
       \E K \in Nat : \E at \in [Pid -> Nat] :
         Linked(Ring, at, K, process_head, nxt) /\ InTurn(at)
=============================================================================
