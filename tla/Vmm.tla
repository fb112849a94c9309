-------------------------------- MODULE Vmm ---------------------------------
(***************************************************************************)
(* The page tables, kernel/system/vmm.c: four levels of tables, each in a  *)
(* frame of its own.  vmm_map_page allocates the tables it misses,         *)
(* vmm_unmap_page frees the ones it empties.  The upper half of every      *)
(* top-level table belongs to the kernel and points to the same tables.    *)
(*                                                                         *)
(* A virtual page is the tuple of its four table indices; frame 0, never   *)
(* allocated, stands for an entry that is not present.  The frames that    *)
(* get mapped are given by the callers; that they differ from the frames   *)
(* of tables is what Pmm guarantees.                                       *)
(* The calls come from code with interrupts off (or from kmain before      *)
(* other processes exist), so each is one step; what can split one is a    *)
(* panic for want of frames, which leaves vmm_lock taken.                  *)
(***************************************************************************)
EXTENDS Integers, Sequences

CONSTANTS
  Idx,          \* indices of a table's entries
  Upper,        \* those of the kernel half of a top-level table
  MaxFrame,     \* frames 1 .. MaxFrame are there for tables
  Users,        \* user processes
  Kernel,       \* owner of kernel_pagemap
  Phys,         \* the frames each process maps
  UserVirts,    \* the pages each user process uses
  Unmapped,     \* the stack and heap pages that process_reap unmaps, in order
  Boot,         \* what kmain maps before there are processes, in order
  LateVirts     \* pages of the kernel heap, mapped as it grows

Spaces == Users \cup {Kernel}
Virt == Idx \X Idx \X Idx \X Idx
InKernelHalf(v) == v[1] \in Upper

\* Boot is the kernel image, all of memory and its first megabyte, as
\* vmm_install maps them, and the first pages of heap_install; the rest of the
\* heap has the same entry of the top-level table.
ASSUME VmmAssumption ==
  /\ Upper \subseteq Idx /\ MaxFrame \in Nat \ {0} /\ Kernel \notin Users
  /\ Phys \in [Spaces -> SUBSET {f \in Nat : f > MaxFrame}]
  /\ UserVirts \in [Users -> SUBSET {v \in Virt : ~InKernelHalf(v)}]
  /\ \A p \in Users : Unmapped[p] \in Seq(UserVirts[p])
  /\ Boot \in Seq([virt : Virt, phys : Phys[Kernel]])
  /\ LateVirts \subseteq {v \in Virt : InKernelHalf(v)}
  /\ \A v \in LateVirts : \E i \in 1 .. Len(Boot) : Boot[i].virt[1] = v[1]

KernelVirts == LateVirts \cup {v \in {Boot[i].virt : i \in 1 .. Len(Boot)} : InKernelHalf(v)}

Frame == 1 .. MaxFrame
Empty == [i \in Idx |-> 0]

VARIABLES
  mem,       \* the contents of frames that hold tables
  used,      \* frames that pmm_allocate has handed out
  pagemap,   \* the top-level table of each process, 0 if it has none
  vmm_lock,  \* "free", "held" by a process that is gone, or "spun" on
  reaped     \* processes that process_reap has been through

vars == <<mem, used, pagemap, vmm_lock, reaped>>

-----------------------------------------------------------------------------
(* A walk is the state of memory with the table t it has reached; t is 0   *)
(* once pmm_allocate has panicked.                                         *)

FreeFrames(w) == Frame \ w.used
Lowest(S) == CHOOSE f \in S : \A g \in S : f <= g

\* vmm_get_next_level with allocate = true, from a table; there is none after
\* a panic.
NextLevel(w, i) ==
  IF w.mem[w.t][i] # 0 THEN [w EXCEPT !.t = w.mem[w.t][i]]
  ELSE IF FreeFrames(w) = {} THEN [w EXCEPT !.t = 0]
  ELSE LET f == Lowest(FreeFrames(w))
       IN [mem |-> [w.mem EXCEPT ![f] = Empty, ![w.t][i] = f],
           used |-> w.used \cup {f}, t |-> f]

vmm_get_next_level(w, i) == IF w.t = 0 THEN w ELSE NextLevel(w, i)

\* vmm_map_page from a walk w that stands on a top-level table and returns to
\* it, unless pmm_allocate panics.
MapPage(v, w, phys) ==
  LET pdpt == vmm_get_next_level(w, v[1])
      pd   == vmm_get_next_level(pdpt, v[2])
      pt   == vmm_get_next_level(pd, v[3])
  IN IF pt.t = 0 THEN pt
     ELSE [mem |-> [pt.mem EXCEPT ![pt.t][v[4]] = phys], used |-> pt.used, t |-> w.t]

\* vmm_get_next_level with allocate = false.
Down(m, t, i) == IF t = 0 THEN 0 ELSE m[t][i]

Translate(m, t, v) == Down(m, Down(m, Down(m, Down(m, t, v[1]), v[2]), v[3]), v[4])

vmm_virt_to_phys(s, v) == Translate(mem, pagemap[s], v)

\* Mutants of vmm_unmap_page: the table is unlinked, or freed, without asking
\* whether it is empty.
UnmapPageUnlinks(v, w) ==
  LET pd == Down(w.mem, Down(w.mem, w.t, v[1]), v[2])
  IN IF Translate(w.mem, w.t, v) = 0 THEN w ELSE [w EXCEPT !.mem[pd][v[3]] = 0]

UnmapPageFrees(v, w) ==
  LET pt == Down(w.mem, Down(w.mem, Down(w.mem, w.t, v[1]), v[2]), v[3])
  IN IF Translate(w.mem, w.t, v) = 0 THEN w
     ELSE [w EXCEPT !.mem[pt][v[4]] = 0, !.used = @ \ {pt}]

\* vmm_unmap_page: the entry is cleared, and upwards every table that is now
\* empty is freed, except the kernel's third-level tables.
UnmapPage(v, w) ==
  LET pdpt == Down(w.mem, w.t, v[1])
      pd   == Down(w.mem, pdpt, v[2])
      pt   == Down(w.mem, pd, v[3])
      m1   == [w.mem EXCEPT ![pt][v[4]] = 0]
      m2   == [m1 EXCEPT ![pd][v[3]] = 0]
      m3   == [m2 EXCEPT ![pdpt][v[2]] = 0]
      m4   == [m3 EXCEPT ![w.t][v[1]] = 0]
      Left(m, freed) == [mem |-> m, used |-> w.used \ freed, t |-> w.t]
  IN IF Translate(w.mem, w.t, v) = 0 THEN w
     ELSE IF m1[pt] # Empty THEN Left(m1, {})
     ELSE IF m2[pd] # Empty THEN Left(m2, {pt})
     ELSE IF m3[pdpt] # Empty \/ InKernelHalf(v) THEN Left(m3, {pt, pd})
     ELSE Left(m4, {pt, pd, pdpt})

-----------------------------------------------------------------------------
(* The operations. *)

\* The loop of calls to vmm_map_page, which ends at a panic.
MapBoot(w0) ==
  LET w[i \in 0 .. Len(Boot)] ==
        IF i = 0 THEN w0 ELSE MapPage(Boot[i].virt, w[i - 1], Boot[i].phys)
  IN w[Len(Boot)]

\* The loops of calls to vmm_unmap_page.
UnmapAll(vs, w0) ==
  LET w[i \in 0 .. Len(vs)] == IF i = 0 THEN w0 ELSE UnmapPage(vs[i], w[i - 1])
  IN w[Len(vs)]

Calls(s) == pagemap[s] # 0 /\ s \notin reaped /\ vmm_lock = "free"

Here(t) == [mem |-> mem, used |-> used, t |-> t]

Becomes(w) == mem' = w.mem /\ used' = w.used

AfterMap(w) == Becomes(w) /\ vmm_lock' = IF w.t = 0 THEN "held" ELSE "free"

\* vmm_install: the kernel's table and the pages mapped at boot.
vmm_install ==
  LET top == Lowest(Frame)
  IN /\ pagemap[Kernel] = 0
     /\ AfterMap(MapBoot([mem |-> [mem EXCEPT ![top] = Empty], used |-> {top}, t |-> top]))
     /\ pagemap' = [pagemap EXCEPT ![Kernel] = top]
     /\ UNCHANGED reaped

(***************************************************************************)
(* vmm_new_pagemap: the kernel half is copied.  It holds vmm_lock while it *)
(* calls pmm_allocate, which may panic, and malloc, which spins on the     *)
(* same lock in vmm_map_page when the heap has to grow.                    *)
(***************************************************************************)
vmm_new_pagemap(p) ==
  /\ pagemap[p] = 0 /\ Calls(Kernel)
  /\ UNCHANGED reaped
  /\ IF FreeFrames(Here(0)) = {}
     THEN vmm_lock' = "held" /\ UNCHANGED <<mem, used, pagemap>>
     ELSE LET top == Lowest(FreeFrames(Here(0)))
          IN /\ mem' = [mem EXCEPT ![top] = [i \in Idx |->
                          IF i \in Upper THEN mem[pagemap[Kernel]][i] ELSE 0]]
             /\ used' = used \cup {top}
             /\ \/ /\ pagemap' = [pagemap EXCEPT ![p] = top]
                   /\ vmm_lock' = "free"
                \/ /\ pagemap' = pagemap
                   /\ vmm_lock' = "spun"

vmm_map_page(s, v) ==
  /\ Calls(s)
  /\ \E phys \in Phys[s] : AfterMap(MapPage(v, Here(pagemap[s]), phys))
  /\ UNCHANGED <<pagemap, reaped>>

vmm_unmap_page(p, v) ==
  /\ Calls(p)
  /\ Becomes(UnmapPage(v, Here(pagemap[p])))
  /\ UNCHANGED <<pagemap, vmm_lock, reaped>>

\* process_reap: the stack and the heap are unmapped, the rest of the tables
\* and the pagemap stay allocated.
process_reap(p) ==
  /\ Calls(p)
  /\ Becomes(UnmapAll(Unmapped[p], Here(pagemap[p])))
  /\ reaped' = reaped \cup {p}
  /\ UNCHANGED <<pagemap, vmm_lock>>

Init ==
  /\ mem = [f \in Frame |-> Empty]
  /\ used = {}
  /\ pagemap = [s \in Spaces |-> 0]
  /\ vmm_lock = "free" /\ reaped = {}

Next ==
  \/ vmm_install
  \/ \E p \in Users : vmm_new_pagemap(p)
  \/ \E p \in Users : \E v \in UserVirts[p] : vmm_map_page(p, v)
  \/ \E v \in LateVirts : vmm_map_page(Kernel, v)
  \/ \E p \in Users : \E i \in 1 .. Len(Unmapped[p]) : vmm_unmap_page(p, Unmapped[p][i])
  \/ \E p \in Users : process_reap(p)

Spec == Init /\ [][Next]_vars

-----------------------------------------------------------------------------
(* Properties. *)

Data == UNION {Phys[s] : s \in Spaces}

TypeOK ==
  /\ mem \in [Frame -> [Idx -> Frame \cup {0} \cup Data]]
  /\ used \subseteq Frame
  /\ pagemap \in [Spaces -> Frame \cup {0}]
  /\ vmm_lock \in {"free", "held", "spun"} /\ reaped \subseteq Users

Below(T) == {mem[t][i] : t \in T, i \in Idx} \ {0}
Tops == {pagemap[s] : s \in Spaces} \ {0}
Pdpts == Below(Tops)
Pds == Below(Pdpts)
Pts == Below(Pds)
Tables == Tops \cup Pdpts \cup Pds \cup Pts
Spun == vmm_lock = "spun"

(***************************************************************************)
(* The frames allocated for tables are exactly the tables that can be      *)
(* reached: none is lost when vmm_unmap_page empties it, and none is freed *)
(* while an entry leads to it.  The one table that vmm_new_pagemap made    *)
(* before malloc span on vmm_lock is reached by nobody.                    *)
(***************************************************************************)
TablesAccounted ==
  IF Spun THEN \E f \in Frame \ Tables : used = Tables \cup {f} ELSE used = Tables

(***************************************************************************)
(* A table other than a process's top-level one is reached through one     *)
(* entry (one of every top-level table if it is the kernel's), and a       *)
(* top-level table through none, so clearing that entry before pmm_free    *)
(* leaves nothing pointing to the frame.                                   *)
(***************************************************************************)
OneEntry ==
  LET All == Tables
  IN \A t \in All, i \in Idx : mem[t][i] \in Frame =>
       /\ mem[t][i] \notin Tops
       /\ \A u \in All, j \in Idx : mem[u][j] = mem[t][i] =>
            i = j /\ (t = u \/ ({t, u} \subseteq Tops /\ i \in Upper))

(***************************************************************************)
(* Unmapping gives back every table it can: unless a panic cut an          *)
(* operation short, no table below the top level is empty.                 *)
(***************************************************************************)
NoEmptyTable ==
  vmm_lock = "free" => \A t \in Pdpts \cup Pds \cup Pts : mem[t] # Empty

(***************************************************************************)
(* vmm_lock is left taken only by a pmm_allocate that had no frame to give *)
(* (the panic does not come back) or by vmm_new_pagemap calling malloc.    *)
(***************************************************************************)
LockLostToAPanic == vmm_lock = "held" => used = Frame

(***************************************************************************)
(* The tables are four-level trees that share the kernel half, with every  *)
(* frame in use reached through one entry, whatever the order of spawns,   *)
(* mappings, unmappings and reaps, and when memory runs out inside one.    *)
(***************************************************************************)
Inv == TypeOK /\ TablesAccounted /\ OneEntry /\ NoEmptyTable /\ LockLostToAPanic

\* The tables implement independent flat maps with a common kernel half.
InUse ==
  LateVirts \cup {Boot[i].virt : i \in 1 .. Len(Boot)} \cup UNION {UserVirts[p] : p \in Users}

Translation == [s \in Spaces |-> [v \in InUse |-> vmm_virt_to_phys(s, v)]]

Abs == INSTANCE VmmAbs WITH
         Virts <- InUse, Frames <- Data, Nothing <- 0,
         exists <- {s \in Spaces : pagemap[s] # 0}, retired <- reaped,
         map <- Translation

Implements == Abs!AbsSpec
=============================================================================
