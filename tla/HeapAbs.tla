------------------------------ MODULE HeapAbs -------------------------------
(***************************************************************************)
(* What the kernel heap promises its callers, without free lists: kmalloc  *)
(* returns a block that is large enough, lies in the heap and overlaps no  *)
(* block that is still owned; kfree takes back a block that is owned.      *)
(***************************************************************************)
EXTENDS Integers

VARIABLES
  owned,   \* blocks returned by kmalloc and not yet freed
  limit    \* the heap covers the units 0 .. limit - 1

Disjoint(x, y) == x.start + x.size <= y.start \/ y.start + y.size <= x.start

\* payload: units the caller asked for; one more holds the size header.
Alloc(x) ==
  /\ x.size >= x.payload + 1
  /\ limit' >= limit
  /\ x.start >= 0 /\ x.start + x.size <= limit'
  /\ \A y \in owned : Disjoint(x, y)
  /\ owned' = owned \cup {x}

Free(x) ==
  /\ x \in owned
  /\ owned' = owned \ {x}
  /\ limit' = limit

Grow == limit' > limit /\ owned' = owned

AbsInit == owned = {} /\ limit = 0

AbsNext ==
  \/ \E x \in owned' : Alloc(x)
  \/ \E x \in owned : Free(x)
  \/ Grow

AbsSpec == AbsInit /\ [][AbsNext]_<<owned, limit>>
=============================================================================
