------------------------------- MODULE VmmAbs -------------------------------
(***************************************************************************)
(* What the page tables promise: an address space is a map from virtual    *)
(* pages to frames; mapping or unmapping a page changes that page only, in *)
(* one address space if it is a user page and in all of them if it belongs *)
(* to the kernel; a new address space has the kernel's pages and no other. *)
(***************************************************************************)
CONSTANTS
  Spaces, Virts, KernelVirts, Frames, Nothing

VARIABLES
  exists,  \* the address spaces created so far
  retired, \* the ones whose process is gone
  map      \* map[s][v]: the frame at page v of space s, or Nothing

\* Page v of space s changes; where else it appears it changes alike.
Set(s, v, old, new) ==
  /\ s \in exists \ retired /\ UNCHANGED <<exists, retired>>
  /\ old[s][v] # new[s][v]
  /\ new[s][v] \in Frames \cup {Nothing}
  /\ \A t \in Spaces, w \in Virts :
       new[t][w] = IF w = v /\ t \in exists /\ (t = s \/ v \in KernelVirts)
                   THEN new[s][v] ELSE old[t][w]

\* The first space begins with any pages, each later one with the kernel's.
Create(s, old, new) ==
  /\ s \notin exists /\ exists' = exists \cup {s} /\ retired' = retired
  /\ \A t \in Spaces \ {s} : new[t] = old[t]
  /\ exists # {} => \A w \in Virts \ KernelVirts : new[s][w] = Nothing
  /\ \A t \in exists, w \in KernelVirts : new[s][w] = old[t][w]

\* The end of a space, once: any of its own pages disappear.
Retire(s, old, new) ==
  /\ s \in exists \ retired /\ exists' = exists /\ retired' = retired \cup {s}
  /\ \A t \in Spaces \ {s} : new[t] = old[t]
  /\ \A w \in Virts : new[s][w] # old[s][w] => w \notin KernelVirts /\ new[s][w] = Nothing

AbsInit ==
  /\ exists = {} /\ retired = {}
  /\ map = [s \in Spaces |-> [v \in Virts |-> Nothing]]

AbsNext ==
  LET old == map
      new == map'
  IN \E s \in Spaces :
       \/ Create(s, old, new)
       \/ \E v \in Virts : Set(s, v, old, new)
       \/ Retire(s, old, new)

AbsSpec == AbsInit /\ [][AbsNext]_<<exists, retired, map>>
=============================================================================
