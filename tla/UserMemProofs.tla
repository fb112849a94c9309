--------------------------- MODULE UserMemProofs ----------------------------
(***************************************************************************)
(* The memory of user processes, for any number of processes, frames and   *)
(* pages: what a process reaches stays its own, and its heap is tracked.   *)
(***************************************************************************)
EXTENDS UserMem, FiniteSetTheorems, TLAPS

-----------------------------------------------------------------------------
(* Induction over the naturals, stated with sets: the provers cannot       *)
(* instantiate the library's theorems, whose parameter is an operator.     *)

\* A set of naturals that is not empty has a least member.
LEMMA LeastNatural ==
  ASSUME NEW T \in SUBSET Nat, T # {}
  PROVE  \E n \in T : \A k \in T : n <= k
<1> DEFINE R == OpToRel(<, Nat)
<1>1. IsWellFoundedOn(R, Nat)
  BY NatLessThanWellFounded, Zenon
<1>2. \A x, y \in Nat : x < y => <<x, y>> \in R
  BY DEF OpToRel
<1> HIDE DEF R
<1>3. PICK n \in T : \A k \in T : ~(<<k, n>> \in R)
  BY <1>1, WFMin, Zenon
<1>4. \A k \in T : ~(k < n)
  BY <1>2, <1>3, Zenon
<1> QED BY <1>3, <1>4

\* A set that has zero, and with a number the next one, has all the naturals.
LEMMA Inductive ==
  ASSUME NEW S, 0 \in S, \A n \in Nat : n \in S => n + 1 \in S
  PROVE  Nat \subseteq S
<1> SUFFICES ASSUME Nat \ S # {} PROVE FALSE
  OBVIOUS
<1>1. PICK n \in Nat \ S : \A k \in Nat \ S : n <= k
  BY LeastNatural, Zenon
<1>2. n # 0 /\ n - 1 \in Nat /\ (n - 1) + 1 = n
  BY <1>1
<1>3. n - 1 \in S
  BY <1>1, <1>2
<1> QED BY <1>1, <1>2, <1>3

\* A loop of n rounds keeps what its first state has and every round keeps.
LEMMA LoopInvariant ==
  ASSUME NEW n \in Nat, NEW m, NEW G, m[0] \in G[0],
         \A i \in 1 .. n : m[i - 1] \in G[i - 1] => m[i] \in G[i]
  PROVE  \A i \in 0 .. n : m[i] \in G[i]
<1> DEFINE Good == {i \in Nat : i <= n => m[i] \in G[i]}
<1>1. 0 \in Good
  OBVIOUS
<1>2. ASSUME NEW i \in Nat, i \in Good PROVE i + 1 \in Good
  <2> SUFFICES ASSUME i + 1 <= n PROVE m[i + 1] \in G[i + 1]
    OBVIOUS
  <2>1. i + 1 \in 1 .. n /\ (i + 1) - 1 = i /\ m[i] \in G[i]
    BY <1>2
  <2> QED BY <2>1
<1>3. Nat \subseteq Good
  <2> HIDE DEF Good
  <2> QED BY <1>1, <1>2, Inductive
<1> QED BY <1>3

\* f holds the states of a loop of n rounds, from s on.
Rounds(n, S, s, step, f) ==
  f \in [0 .. n -> S] /\ f[0] = s /\ \A i \in 1 .. n : f[i] = step[i][f[i - 1]]

\* The states of a loop exist.
LEMMA LoopExists ==
  ASSUME NEW n \in Nat, NEW S, NEW s \in S, NEW step \in [1 .. n -> [S -> S]]
  PROVE  \E f : Rounds(n, S, s, step, f)
<1> DEFINE Upto(k, f) == f[0] = s /\ \A i \in 1 .. k : f[i] = step[i][f[i - 1]]
           Good == {k \in Nat : k <= n => \E f \in [0 .. k -> S] : Upto(k, f)}
<1>1. 0 \in Good
  <2>1. [i \in 0 .. 0 |-> s] \in [0 .. 0 -> S] /\ Upto(0, [i \in 0 .. 0 |-> s])
    OBVIOUS
  <2> HIDE DEF Upto
  <2> QED BY <2>1
<1>2. ASSUME NEW k \in Nat, k \in Good PROVE k + 1 \in Good
  <2> SUFFICES ASSUME k + 1 <= n PROVE \E f \in [0 .. k + 1 -> S] : Upto(k + 1, f)
    OBVIOUS
  <2>1. PICK f \in [0 .. k -> S] : Upto(k, f)
    <3> HIDE DEF Upto
    <3> QED BY <1>2
  <2> DEFINE last == step[k + 1][f[k]]
             g == [i \in 0 .. k + 1 |-> IF i = k + 1 THEN last ELSE f[i]]
  <2>2. last \in S
    BY <2>1
  <2>3. last = step[k + 1][f[k]]
    OBVIOUS
  <2> HIDE DEF last
  <2>4. g \in [0 .. k + 1 -> S]
    BY <2>1, <2>2
  <2>5. g[k + 1] = last /\ \A i \in 0 .. k : g[i] = f[i]
    OBVIOUS
  <2> HIDE DEF g
  <2>6. Upto(k + 1, g)
    <3>1. g[0] = s
      BY <2>1, <2>5
    <3>2. ASSUME NEW i \in 1 .. k + 1 PROVE g[i] = step[i][g[i - 1]]
      <4>1. CASE i = k + 1
        BY <2>3, <2>5, <4>1
      <4>2. CASE i \in 1 .. k
        <5>1. i - 1 \in 0 .. k /\ i \in 0 .. k
          BY <4>2
        <5> QED BY <2>1, <2>5, <4>2, <5>1
      <4> QED BY <4>1, <4>2
    <3> QED BY <3>1, <3>2
  <2> HIDE DEF Upto
  <2> QED BY <2>4, <2>6
<1>3. Nat \subseteq Good
  <2> HIDE DEF Good
  <2> QED BY <1>1, <1>2, Inductive
<1>4. n \in Good
  BY <1>3
<1> QED BY <1>4 DEF Rounds

-----------------------------------------------------------------------------
\* The solver is given more time when it is slow to answer.
USE SMTT(10), SMTT(20), SMTT(40)

\* The states of a handler in progress.
Work == [free : SUBSET Frame, map : [Page -> Frame \cup {0}], nx : SUBSET Int,
         pos : Int, executed : SUBSET Int, panic : Panics]

LEMMA Numbers ==
  /\ Frame \subseteq Nat /\ 0 \notin Frame /\ Page \subseteq Nat
  /\ Ram \cap DeviceFrames = {} /\ Ram \subseteq Frame /\ DeviceFrames \subseteq Frame
BY UserMemAssumption DEF Frame, Ram, DeviceFrames, Page

LEMMA Constants ==
  /\ MaxFrame \in Nat /\ MaxPage \in Nat /\ MaxPages \in Nat /\ HeapStart \in Nat
  /\ StackTop \in Nat /\ HeapStart \in Page /\ HeapStart < MaxPage
  /\ Stack \subseteq Page /\ HeapStart \notin Stack
  /\ StackTop <= MaxPage /\ HeapStart < StackTop
BY UserMemAssumption DEF Page, Stack

\* x is w with frame f at page v, which is executable or not.
Holds(x, w, v, f, nox) ==
  /\ x.pos = w.pos /\ x.executed = w.executed /\ x.panic = w.panic
  /\ x.nx = IF nox THEN w.nx \cup {v} ELSE w.nx \ {v}
  /\ \A y \in Page : x.map[y] = IF y = v THEN f ELSE w.map[y]

LEMMA MapFields ==
  ASSUME NEW w \in Work, NEW v \in Int, NEW f \in Frame, NEW nox \in BOOLEAN,
         NEW x, x = vmm_map_page(w, v, f, nox)
  PROVE  x \in Work /\ x.free = w.free /\ Holds(x, w, v, f, nox)
<1> DEFINE n == IF nox THEN w.nx \cup {v} ELSE w.nx \ {v}
<1>1. n \in SUBSET Int
  BY DEF Work
<1>2. x = [w EXCEPT !.map[v] = f, !.nx = n]
  BY Zenon DEF vmm_map_page
<1>3. n = IF nox THEN w.nx \cup {v} ELSE w.nx \ {v}
  OBVIOUS
<1> HIDE DEF n
<1>4. x \in Work
  BY <1>1, <1>2, Zenon DEF Work
<1>5. /\ x.free = w.free /\ x.pos = w.pos /\ x.executed = w.executed /\ x.panic = w.panic
      /\ x.nx = n /\ x.map = [w.map EXCEPT ![v] = f]
  BY <1>2, Zenon DEF Work
<1>6. \A y \in Page : x.map[y] = IF y = v THEN f ELSE w.map[y]
  BY <1>5 DEF Work
<1> QED BY <1>3, <1>4, <1>5, <1>6, Zenon DEF Holds

\* pmm_allocate hands out a free frame; which one does not matter here.
LEMMA FreshFields ==
  ASSUME NEW w \in Work, NEW v \in Int, NEW nox \in BOOLEAN, NEW x, x = MapFresh(w, v, nox)
  PROVE  /\ x \in Work
         /\ \/ /\ x.panic # "none" /\ x.free = w.free /\ x.map = w.map
               /\ x.nx = w.nx /\ x.pos = w.pos /\ x.executed = w.executed
            \/ /\ x.panic = "none"
               /\ \E f \in w.free : x.free = w.free \ {f} /\ Holds(x, w, v, f, nox)
<1>1. CASE w.panic # "none"
  BY <1>1, Zenon DEF MapFresh, Work
<1>2. CASE w.panic = "none" /\ w.free = {}
  BY <1>2, Zenon DEF MapFresh, Work, Panics
<1>3. CASE w.panic = "none" /\ w.free # {}
  <2> DEFINE f == Lowest(w.free)
             y == vmm_map_page(w, v, f, nox)
  <2>1. f \in w.free
    <3>1. w.free \in SUBSET Nat
      BY Numbers, Zenon DEF Work
    <3>2. \E k \in w.free : \A g \in w.free : k <= g
      BY <1>3, <3>1, LeastNatural
    <3> QED BY <3>2 DEF Lowest
  <2>2. x = [y EXCEPT !.free = @ \ {f}]
    BY <1>3, Zenon DEF MapFresh
  <2>3. f \in Frame
    BY <2>1, Zenon DEF Work
  <2> HIDE DEF f
  <2>4. y \in Work /\ y.free = w.free /\ Holds(y, w, v, f, nox)
    BY <2>3, MapFields
  <2> HIDE DEF y
  <2>5. /\ x \in Work /\ x.free = y.free \ {f} /\ x.map = y.map /\ x.nx = y.nx
        /\ x.pos = y.pos /\ x.executed = y.executed /\ x.panic = y.panic
    BY <2>2, <2>4, Zenon DEF Work
  <2>6. Holds(x, w, v, f, nox)
    BY <2>4, <2>5, Zenon DEF Holds
  <2>7. x.panic = "none" /\ x.free = w.free \ {f}
    BY <1>3, <2>4, <2>5, Zenon DEF Holds
  <2> QED BY <2>1, <2>5, <2>6, <2>7, Zenon
<1> QED BY <1>1, <1>2, <1>3, Zenon

-----------------------------------------------------------------------------
(* A handler of u in progress, with w, keeps four things. *)

\* What w maps for u is apart from the free frames and from what others map.
Clean(u, w) ==
  /\ \A v \in Page : w.map[v] \in Ram =>
       w.map[v] \notin w.free /\ \A x \in Page : w.map[x] = w.map[v] => x = v
  /\ \A t \in Users \ {u}, x \in Page : map[t][x] \in Ram =>
       map[t][x] \notin w.free /\ \A v \in Page : w.map[v] # map[t][x]

\* The heap position of w bounds what is mapped and what cannot be executed.
Tracks(w) ==
  /\ w.pos \in HeapStart .. MaxPage
  /\ \A v \in Page : v > HeapStart /\ v >= w.pos /\ v \notin Stack => w.map[v] = 0
  /\ \A v \in w.nx \cup w.executed : v \in Page /\ v < w.pos
  /\ w.nx \cap w.executed = {}

\* The first heap page is there until the position has moved.
FirstThere(w) == w.pos = HeapStart => w.map[HeapStart] # 0

\* The frames of RAM that are neither free nor mapped, the pages that were replaced
\* and the pages that were executed, should the handler end with w.
LostBy(u, w) ==
  {f \in Ram \ w.free : /\ \A v \in Page : w.map[v] # f
                        /\ \A t \in Users \ {u}, v \in Page : map[t][v] # f}
ReplacedBy(u, w) ==
  {q \in Users \X ({HeapStart} \cup Stack) : q[2] < IF q[1] = u THEN w.pos ELSE pos[q[1]]}
ExecutedBy(u, w) ==
  {q \in Users \X Page : q[2] \in IF q[1] = u THEN w.executed ELSE executed[q[1]]}

Counted(u, w) ==
  (\A t \in Users : state[t] # "reaped") =>
    /\ IsFiniteSet(LostBy(u, w))
    /\ Cardinality(LostBy(u, w)) <= Cardinality(ReplacedBy(u, w)) + Cardinality(ExecutedBy(u, w))

Sound(u, w) == w \in Work /\ Clean(u, w) /\ Tracks(w) /\ Counted(u, w)

Inv == IInv /\ KeptApart /\ LossTracked

\* Replacing and executing are counted in finite sets.
LEMMA FinitePairs ==
  ASSUME NEW u \in Users, NEW w
  PROVE  IsFiniteSet(ReplacedBy(u, w)) /\ IsFiniteSet(ExecutedBy(u, w))
<1>1. IsFiniteSet(Page)
  <2>1. 0 \in Int /\ MaxPage - 1 \in Int
    BY Constants
  <2> QED BY <2>1, FS_Interval DEF Page
<1>2. IsFiniteSet(Users \X Page)
  BY <1>1, FS_Product, UserMemAssumption, Zenon
<1>3. ReplacedBy(u, w) \subseteq Users \X Page /\ ExecutedBy(u, w) \subseteq Users \X Page
  <2>1. {HeapStart} \cup Stack \subseteq Page
    BY Constants, Zenon
  <2> DEFINE S == {HeapStart} \cup Stack
  <2>2. Users \X S \subseteq Users \X Page
    <3> HIDE DEF S
    <3> QED BY <2>1 DEF S
  <2>3. ReplacedBy(u, w) \subseteq Users \X S /\ ExecutedBy(u, w) \subseteq Users \X Page
    BY Zenon DEF ReplacedBy, ExecutedBy
  <2> QED BY <2>2, <2>3, Zenon
<1> QED BY <1>2, <1>3, FS_Subset, Zenon

\* Fewer frames may be lost, and there may be more pairs.
LEMMA NoneMore ==
  ASSUME NEW L, NEW R, NEW E, NEW L2, NEW R2,
         IsFiniteSet(L), IsFiniteSet(R2), IsFiniteSet(E),
         Cardinality(L) <= Cardinality(R) + Cardinality(E), R \subseteq R2, L2 \subseteq L
  PROVE  IsFiniteSet(L2) /\ Cardinality(L2) <= Cardinality(R2) + Cardinality(E)
<1>1. IsFiniteSet(L2) /\ Cardinality(L2) <= Cardinality(L)
  BY FS_Subset
<1>2. IsFiniteSet(R) /\ Cardinality(R) <= Cardinality(R2)
  BY FS_Subset
<1>3. /\ Cardinality(R) \in Nat /\ Cardinality(R2) \in Nat /\ Cardinality(E) \in Nat
      /\ Cardinality(L) \in Nat /\ Cardinality(L2) \in Nat
  BY <1>1, <1>2, FS_CardinalityType
<1> QED BY <1>1, <1>2, <1>3

-----------------------------------------------------------------------------
\* x is w with a frame mapped at page v that was free, or one of the framebuffer.
Maps(w, x, v, f) ==
  /\ \/ f \in w.free /\ x.free = w.free \ {f}
     \/ f \in DeviceFrames /\ x.free = w.free
  /\ \A y \in Page : x.map[y] = IF y = v THEN f ELSE w.map[y]

\* What was mapped at page v of w is accounted for in x.
Excused(w, x, v) ==
  /\ w.pos <= x.pos /\ w.executed \subseteq x.executed
  /\ \/ w.map[v] = 0
     \/ v \in {HeapStart} \cup Stack /\ w.pos <= v /\ v < x.pos
     \/ v \in x.executed \ w.executed

\* The heart of it: a page is mapped, and what was there is lost.
LEMMA MapSound ==
  ASSUME NEW u \in Users, NEW w, Sound(u, w), NEW x \in Work, Tracks(x), NEW v \in Page, NEW f,
         Maps(w, x, v, f), Excused(w, x, v)
  PROVE  Sound(u, x)
<1>0. /\ \/ f \in w.free /\ x.free = w.free \ {f}
         \/ f \in DeviceFrames /\ x.free = w.free
      /\ \A y \in Page : x.map[y] = IF y = v THEN f ELSE w.map[y]
      /\ w.pos <= x.pos /\ w.executed \subseteq x.executed
      /\ \/ w.map[v] = 0
         \/ v \in {HeapStart} \cup Stack /\ w.pos <= v /\ v < x.pos
         \/ v \in x.executed \ w.executed
  BY Zenon DEF Maps, Excused
<1>1. w \in Work /\ Clean(u, w) /\ Counted(u, w)
  BY Zenon DEF Sound
<1>2. Clean(u, x)
  <2>1. CASE f \in w.free /\ x.free = w.free \ {f}
    BY <1>0, <1>1, <2>1 DEF Clean
  <2>2. CASE f \in DeviceFrames /\ x.free = w.free
    <3>1. f \notin Ram
      BY <2>2, Numbers, Zenon
    <3> QED BY <1>0, <1>1, <2>2, <3>1 DEF Clean
  <2> QED BY <1>0, <2>1, <2>2, Zenon
<1>3. ASSUME \A t \in Users : state[t] # "reaped"
      PROVE  /\ IsFiniteSet(LostBy(u, x))
             /\ Cardinality(LostBy(u, x)) <= Cardinality(ReplacedBy(u, x)) + Cardinality(ExecutedBy(u, x))
  <2> DEFINE L == LostBy(u, w)
             R == ReplacedBy(u, w)
             E == ExecutedBy(u, w)
             L2 == LostBy(u, x)
             R2 == ReplacedBy(u, x)
             E2 == ExecutedBy(u, x)
  <2>1. IsFiniteSet(L) /\ Cardinality(L) <= Cardinality(R) + Cardinality(E)
    BY <1>1, <1>3, Zenon DEF Counted
  <2>2. IsFiniteSet(R2) /\ IsFiniteSet(E2)
    BY FinitePairs, Zenon
  <2>3. L2 \subseteq L \cup {w.map[v]}
    <3> SUFFICES ASSUME NEW g \in LostBy(u, x), g # w.map[v] PROVE g \in LostBy(u, w)
      OBVIOUS
    <3>1. g \in Ram /\ g \notin x.free /\ (\A y \in Page : x.map[y] # g)
          /\ \A t \in Users \ {u}, y \in Page : map[t][y] # g
      BY Zenon DEF LostBy
    <3>2. g # f
      BY <1>0, <3>1
    <3>3. g \notin w.free
      BY <1>0, <3>1, <3>2
    <3>4. \A y \in Page : w.map[y] # g
      BY <1>0, <3>1
    <3> QED BY <3>1, <3>3, <3>4, Zenon DEF LostBy
  <2>4. R \subseteq R2
    <3> SUFFICES ASSUME NEW q \in ReplacedBy(u, w) PROVE q \in ReplacedBy(u, x)
      OBVIOUS
    <3>1. q \in Users \X ({HeapStart} \cup Stack) /\ (q[2] < IF q[1] = u THEN w.pos ELSE pos[q[1]])
      BY Zenon DEF ReplacedBy
    <3>2. q[2] \in Int
      <4>1. {HeapStart} \cup Stack \subseteq Int
        BY Constants, Numbers
      <4> QED BY <3>1, <4>1
    <3>3. q[1] = u => q[2] < x.pos
      BY <1>0, <1>1, <3>1, <3>2 DEF Work
    <3> QED BY <3>1, <3>3, Zenon DEF ReplacedBy
  <2>5. E \subseteq E2
    BY <1>0, Zenon DEF ExecutedBy
  <2>6. L2 \subseteq L \/ R2 # R \/ E2 # E
    <3>1. CASE w.map[v] = 0
      <4>1. 0 \notin L2
        BY Numbers, Zenon DEF LostBy
      <4> HIDE DEF L, L2
      <4> QED BY <2>3, <3>1, <4>1
    <3>2. CASE v \in {HeapStart} \cup Stack /\ w.pos <= v /\ v < x.pos
      <4>1. <<u, v>> \in R2
        BY <3>2 DEF ReplacedBy
      <4>2. <<u, v>> \notin R
        <5>1. ~(v < w.pos)
          BY <1>1, <3>2, Numbers DEF Work
        <5> QED BY <5>1 DEF ReplacedBy
      <4> HIDE DEF R, R2
      <4> QED BY <4>1, <4>2
    <3>3. CASE v \in x.executed \ w.executed
      <4>1. <<u, v>> \in E2 /\ <<u, v>> \notin E
        BY <3>3 DEF ExecutedBy
      <4> HIDE DEF E, E2
      <4> QED BY <4>1
    <3> HIDE DEF L, R, E, L2, R2, E2
    <3> QED BY <1>0, <3>1, <3>2, <3>3, Zenon
  <2> HIDE DEF L, R, E, L2, R2, E2
  <2>7. IsFiniteSet(L2) /\ Cardinality(L2) <= Cardinality(R2) + Cardinality(E2)
    <3> DEFINE more == L \cup {w.map[v]}
    <3>1. /\ IsFiniteSet(R) /\ Cardinality(R) <= Cardinality(R2)
          /\ Cardinality(R) = Cardinality(R2) => R2 = R
      BY <2>2, <2>4, FS_Subset
    <3>2. /\ IsFiniteSet(E) /\ Cardinality(E) <= Cardinality(E2)
          /\ Cardinality(E) = Cardinality(E2) => E2 = E
      BY <2>2, <2>5, FS_Subset
    <3>3. IsFiniteSet(more) /\ Cardinality(more) \in {Cardinality(L), Cardinality(L) + 1}
      BY <2>1, FS_AddElement
    <3> HIDE DEF more
    <3>4. IsFiniteSet(L2) /\ Cardinality(L2) <= Cardinality(more)
      <4>1. L2 \in SUBSET more
        BY <2>3, Zenon DEF more
      <4> QED BY <3>3, <4>1, FS_Subset
    <3>5. L2 \subseteq L => Cardinality(L2) <= Cardinality(L)
      BY <2>1, FS_Subset
    <3>6. /\ Cardinality(R) \in Nat /\ Cardinality(R2) \in Nat /\ Cardinality(E) \in Nat
          /\ Cardinality(E2) \in Nat /\ Cardinality(L) \in Nat /\ Cardinality(L2) \in Nat
      BY <2>1, <2>2, <3>1, <3>2, <3>4, FS_CardinalityType
    <3>7. CASE L2 \subseteq L
      BY <2>1, <3>1, <3>2, <3>4, <3>5, <3>6, <3>7
    <3>8. CASE R2 # R \/ E2 # E
      <4>1. Cardinality(R) + Cardinality(E) + 1 <= Cardinality(R2) + Cardinality(E2)
        BY <3>1, <3>2, <3>6, <3>8
      <4>2. Cardinality(L2) <= Cardinality(L) + 1
        BY <3>3, <3>4, <3>6
      <4> QED BY <2>1, <3>4, <3>6, <4>1, <4>2
    <3> QED BY <2>6, <3>7, <3>8, Zenon
  <2> QED BY <2>7, Zenon DEF L2, R2, E2
<1>4. Counted(u, x)
  BY <1>3, Zenon DEF Counted
<1> QED BY <1>2, <1>4, Zenon DEF Sound

\* A panic changes nothing that counts.
LEMMA SameSound ==
  ASSUME NEW u \in Users, NEW w, Sound(u, w), NEW x \in Work, x.free = w.free, x.map = w.map,
         x.nx = w.nx, x.pos = w.pos, x.executed = w.executed
  PROVE  Sound(u, x) /\ (FirstThere(w) => FirstThere(x))
<1>1. Clean(u, x) /\ Tracks(x)
  BY DEF Sound, Clean, Tracks
<1>2. LostBy(u, x) = LostBy(u, w) /\ ReplacedBy(u, x) = ReplacedBy(u, w) /\ ExecutedBy(u, x) = ExecutedBy(u, w)
  BY Zenon DEF LostBy, ReplacedBy, ExecutedBy
<1>3. Counted(u, x)
  BY <1>2, Zenon DEF Sound, Counted
<1> QED BY <1>1, <1>3, Zenon DEF Sound, FirstThere

LEMMA PanicSound ==
  ASSUME NEW u \in Users, NEW w, Sound(u, w), FirstThere(w), NEW p \in Panics, NEW x, x = [w EXCEPT !.panic = p]
  PROVE  Sound(u, x) /\ FirstThere(x)
<1>1. w \in Work
  BY Zenon DEF Sound
<1>2. /\ x \in Work /\ x.free = w.free /\ x.map = w.map /\ x.nx = w.nx /\ x.pos = w.pos
      /\ x.executed = w.executed
  BY <1>1, Zenon DEF Work
<1> QED BY <1>2, SameSound, Zenon

\* A page below the heap position is unmapped, and what was there becomes free.
LEMMA UnmapSound ==
  ASSUME NEW u \in Users, NEW w, Sound(u, w), FirstThere(w),
         NEW v \in Page, HeapStart <= v, v < w.pos, NEW x, x = UnmapOne(w, v)
  PROVE  Sound(u, x) /\ FirstThere(x) /\ x.pos = w.pos
<1>1. w \in Work /\ Clean(u, w) /\ Tracks(w) /\ Counted(u, w)
  BY Zenon DEF Sound
<1> DEFINE y == [w EXCEPT !.free = @ \cup {w.map[v]}, !.map[v] = 0, !.nx = @ \ {v}]
<1>2. \/ x = w \/ \E p \in Panics : x = [w EXCEPT !.panic = p]
      \/ w.map[v] # 0 /\ x = y
  BY Zenon DEF UnmapOne, Panics
<1>3. CASE x = w
  BY <1>3
<1>4. ASSUME NEW p \in Panics, x = [w EXCEPT !.panic = p]
      PROVE  Sound(u, x) /\ FirstThere(x) /\ x.pos = w.pos
  <2>1. x.pos = w.pos
    BY <1>1, <1>4, Zenon DEF Work
  <2> QED BY <1>4, <2>1, PanicSound, Zenon
<1>5. CASE w.map[v] # 0 /\ x = y
  <2>1. w.map[v] \in Frame
    BY <1>1, <1>5, Zenon DEF Work
  <2>2. x \in Work
    <3>1. /\ w.free \cup {w.map[v]} \in SUBSET Frame /\ w.nx \ {v} \in SUBSET Int
          /\ [w.map EXCEPT ![v] = 0] \in [Page -> Frame \cup {0}]
      BY <1>1, <2>1 DEF Work
    <3>2. x = [w EXCEPT !.free = w.free \cup {w.map[v]}, !.map = [w.map EXCEPT ![v] = 0], !.nx = w.nx \ {v}]
      BY <1>1, <1>5 DEF Work
    <3> QED BY <1>1, <3>1, <3>2, Zenon DEF Work
  <2>3. /\ x.free = w.free \cup {w.map[v]} /\ x.nx = w.nx \ {v}
        /\ x.pos = w.pos /\ x.executed = w.executed
        /\ x.map = [w.map EXCEPT ![v] = 0]
    BY <1>1, <1>5, Zenon DEF Work
  <2>4. \A z \in Page : x.map[z] = IF z = v THEN 0 ELSE w.map[z]
    BY <1>1, <2>3 DEF Work
  <2> HIDE DEF y
  <2>5. Clean(u, x)
    <3>1. 0 \notin Ram
      BY Numbers, Zenon
    <3> QED BY <1>1, <2>3, <2>4, <3>1 DEF Clean
  <2>6. Tracks(x)
    BY <1>1, <2>3, <2>4 DEF Tracks
  <2>7. LostBy(u, x) \subseteq LostBy(u, w)
    BY <2>3, <2>4 DEF LostBy
  <2>8. ReplacedBy(u, x) = ReplacedBy(u, w) /\ ExecutedBy(u, x) = ExecutedBy(u, w)
    BY <2>3, Zenon DEF ReplacedBy, ExecutedBy
  <2>9. Counted(u, x)
    <3> SUFFICES ASSUME \A t \in Users : state[t] # "reaped"
                 PROVE  /\ IsFiniteSet(LostBy(u, x))
                        /\ Cardinality(LostBy(u, x)) <= Cardinality(ReplacedBy(u, x)) + Cardinality(ExecutedBy(u, x))
      BY Zenon DEF Counted
    <3>1. /\ IsFiniteSet(LostBy(u, w))
          /\ Cardinality(LostBy(u, w)) <= Cardinality(ReplacedBy(u, w)) + Cardinality(ExecutedBy(u, w))
      BY <1>1, Zenon DEF Counted
    <3>2. IsFiniteSet(ReplacedBy(u, x)) /\ IsFiniteSet(ExecutedBy(u, x))
      BY FinitePairs, Zenon
    <3> DEFINE L == LostBy(u, w)
               R == ReplacedBy(u, w)
               E == ExecutedBy(u, w)
               L2 == LostBy(u, x)
    <3>3. IsFiniteSet(L) /\ IsFiniteSet(R) /\ IsFiniteSet(E) /\ L2 \subseteq L /\ R \subseteq R
          /\ Cardinality(L) <= Cardinality(R) + Cardinality(E)
      BY <2>7, <2>8, <3>1, <3>2, Zenon
    <3> HIDE DEF L, R, E, L2
    <3>4. IsFiniteSet(L2) /\ Cardinality(L2) <= Cardinality(R) + Cardinality(E)
      BY <3>3, NoneMore, Zenon
    <3> QED BY <2>8, <3>4, Zenon DEF L, R, E, L2
  <2>10. FirstThere(x)
    BY <1>1, <2>3, Constants DEF FirstThere, Tracks
  <2> QED BY <2>2, <2>3, <2>5, <2>6, <2>9, <2>10, Zenon DEF Sound
<1> QED BY <1>2, <1>3, <1>4, <1>5, Zenon

-----------------------------------------------------------------------------
(* A handler starts with the state and ends in it. *)

LEMMA NowWork ==
  ASSUME TypeOK, NEW u \in Users
  PROVE  /\ Now(u) \in Work /\ Now(u).free = free /\ Now(u).map = map[u] /\ Now(u).nx = nx[u]
         /\ Now(u).pos = pos[u] /\ Now(u).executed = executed[u] /\ Now(u).panic = "none"
<1>1. /\ free \in SUBSET Frame /\ map[u] \in [Page -> Frame \cup {0}] /\ pos[u] \in Int
      /\ nx[u] \in SUBSET Int /\ executed[u] \in SUBSET Int
  <2>1. pos[u] \in 0 .. MaxPage /\ nx[u] \subseteq Page /\ executed[u] \subseteq Page
        /\ map[u] \in [Page -> Frame \cup {0}] /\ free \subseteq Frame
    BY Zenon DEF TypeOK
  <2>2. pos[u] \in Int /\ Page \subseteq Int
    BY <2>1, Numbers
  <2> QED BY <2>1, <2>2, Zenon
<1>2. "none" \in Panics
  BY DEF Panics
<1> QED BY <1>1, <1>2 DEF Now, Work

\* Now(u) and any w that has the same frames as the state.
LEMMA NowCounts ==
  ASSUME Inv, NEW u \in Users, NEW w, w.free = free, w.map = map[u],
         w.executed = executed[u], w.pos >= pos[u], w.pos \in Int
  PROVE  Clean(u, w) /\ Counted(u, w)
<1>0. TypeOK
  BY Zenon DEF Inv, IInv, HeapTracked
<1>1. Clean(u, w)
  BY DEF Inv, KeptApart, Clean
<1>2. LostBy(u, w) = Lost
  BY DEF LostBy, Lost, Mapped
<1>3. ExecutedBy(u, w) = Executed
  BY DEF ExecutedBy, Executed
<1>4. Replaced \subseteq ReplacedBy(u, w)
  <2> SUFFICES ASSUME NEW q \in Replaced PROVE q \in ReplacedBy(u, w)
    OBVIOUS
  <2>1. q \in Users \X ({HeapStart} \cup Stack) /\ q[2] < pos[q[1]]
    BY Zenon DEF Replaced
  <2>2. q[2] \in Int /\ pos[u] \in Int
    <3>1. {HeapStart} \cup Stack \subseteq Int
      BY Constants, Numbers
    <3> QED BY <1>0, <2>1, <3>1 DEF TypeOK
  <2>3. q[1] = u => q[2] < w.pos
    BY <2>1, <2>2
  <2> QED BY <2>1, <2>3, Zenon DEF ReplacedBy
<1>5. ASSUME \A t \in Users : state[t] # "reaped"
      PROVE  /\ IsFiniteSet(LostBy(u, w))
             /\ Cardinality(LostBy(u, w)) <= Cardinality(ReplacedBy(u, w)) + Cardinality(ExecutedBy(u, w))
  <2>1. IsFiniteSet(Lost) /\ Cardinality(Lost) <= Cardinality(Replaced) + Cardinality(Executed)
    BY <1>5, Zenon DEF Inv, LossTracked
  <2>2. IsFiniteSet(ReplacedBy(u, w)) /\ IsFiniteSet(ExecutedBy(u, w))
    BY FinitePairs, Zenon
  <2> DEFINE R2 == ReplacedBy(u, w)
  <2>3. IsFiniteSet(R2) /\ IsFiniteSet(Executed) /\ Replaced \subseteq R2 /\ Lost \subseteq Lost
    BY <1>3, <1>4, <2>2, Zenon
  <2> HIDE DEF R2
  <2>4. Cardinality(Lost) <= Cardinality(R2) + Cardinality(Executed)
    BY <2>1, <2>3, NoneMore, Zenon
  <2> QED BY <1>2, <1>3, <2>1, <2>4, Zenon DEF R2
<1> QED BY <1>1, <1>5, Zenon DEF Counted

LEMMA NowSound ==
  ASSUME Inv, NEW u \in Users, state[u] = "live"
  PROVE  Sound(u, Now(u)) /\ FirstThere(Now(u))
<1>1. TypeOK
  BY Zenon DEF Inv, IInv, HeapTracked
<1> DEFINE w == Now(u)
<1>2. /\ w \in Work /\ w.free = free /\ w.map = map[u] /\ w.nx = nx[u]
      /\ w.pos = pos[u] /\ w.executed = executed[u]
  BY <1>1, NowWork, Zenon
<1> HIDE DEF w
<1>3. pos[u] \in 0 .. MaxPage /\ nx[u] \subseteq Page /\ executed[u] \subseteq Page
  BY <1>1 DEF TypeOK
<1>4. Clean(u, w) /\ Counted(u, w)
  BY <1>2, <1>3, NowCounts, Constants
<1>5. /\ pos[u] >= HeapStart /\ (pos[u] = HeapStart => map[u][HeapStart] # 0)
      /\ \A v \in Page : v > HeapStart /\ v >= pos[u] /\ v \notin Stack => map[u][v] = 0
      /\ \A v \in Page : (v \in nx[u] \cup executed[u] => v < pos[u]) /\ ~(v \in nx[u] /\ v \in executed[u])
  <2>1. pos[u] >= HeapStart /\ (pos[u] = HeapStart => map[u][HeapStart] # 0)
    BY DEF Inv, IInv
  <2>2. \A v \in Page : v > HeapStart /\ v >= pos[u] /\ v \notin Stack => map[u][v] = 0
    BY Zenon DEF Inv, IInv, HeapTracked, NothingAbovePosition
  <2>3. \A v \in Page : (v \in nx[u] \cup executed[u] => v < pos[u]) /\ ~(v \in nx[u] /\ v \in executed[u])
    BY Zenon DEF Inv, IInv
  <2> QED BY <2>1, <2>2, <2>3, Zenon
<1>6. Tracks(w) /\ FirstThere(w)
  <2>1. w.pos \in HeapStart .. MaxPage
    BY <1>2, <1>3, <1>5, Constants
  <2>2. \A v \in w.nx \cup w.executed : v \in Page /\ v < w.pos
    BY <1>2, <1>3, <1>5, Zenon
  <2>3. w.nx \cap w.executed = {}
    BY <1>2, <1>3, <1>5
  <2> QED BY <1>2, <1>5, <2>1, <2>2, <2>3, Zenon DEF Tracks, FirstThere
<1> QED BY <1>2, <1>4, <1>6, Zenon DEF Sound, w

LEMMA FinishSound ==
  ASSUME Inv, NEW u \in Users, state[u] \in {"none", "live"}, NEW w, Sound(u, w), FirstThere(w), Finish(u, w)
  PROVE  Inv'
<1>1. TypeOK
  BY Zenon DEF Inv, IInv, HeapTracked
<1>2. w \in Work /\ Clean(u, w) /\ Tracks(w) /\ Counted(u, w)
  BY Zenon DEF Sound
<1>3. /\ free' = w.free /\ map' = [map EXCEPT ![u] = w.map] /\ nx' = [nx EXCEPT ![u] = w.nx]
      /\ pos' = [pos EXCEPT ![u] = w.pos] /\ executed' = [executed EXCEPT ![u] = w.executed]
      /\ \E s \in {"live", "dead"} : state' = [state EXCEPT ![u] = s]
  BY Zenon DEF Finish
<1>4. /\ w.free \subseteq Frame /\ w.map \in [Page -> Frame \cup {0}] /\ w.pos \in 0 .. MaxPage
      /\ w.nx \subseteq Page /\ w.executed \subseteq Page /\ w.pos >= HeapStart
  BY <1>2, Constants DEF Work, Tracks
<1>5. TypeOK'
  BY <1>1, <1>3, <1>4 DEF TypeOK
<1>6. /\ map'[u] = w.map /\ pos'[u] = w.pos /\ nx'[u] = w.nx /\ executed'[u] = w.executed
      /\ state'[u] \in {"live", "dead"}
      /\ \A t \in Users \ {u} : /\ map'[t] = map[t] /\ pos'[t] = pos[t] /\ state'[t] = state[t]
                                /\ nx'[t] = nx[t] /\ executed'[t] = executed[t]
  BY <1>1, <1>3 DEF TypeOK
<1>7. NothingAbovePosition' /\ ReapUnmaps'
  <2>1. NothingAbovePosition'
    BY <1>2, <1>6 DEF Inv, IInv, HeapTracked, NothingAbovePosition, Tracks
  <2>2. ReapUnmaps'
    BY <1>6 DEF Inv, IInv, HeapTracked, ReapUnmaps
  <2> QED BY <2>1, <2>2
<1>8. IInv'
  <2>1. \A t \in Users : state'[t] = "none" =>
          pos'[t] = 0 /\ nx'[t] = {} /\ executed'[t] = {} /\ \A v \in Page : map'[t][v] = 0
    BY <1>6 DEF Inv, IInv
  <2>2. \A t \in Users : state'[t] # "none" =>
          pos'[t] >= HeapStart /\ (pos'[t] = HeapStart => map'[t][HeapStart] # 0)
    BY <1>4, <1>6 DEF Inv, IInv, FirstThere
  <2>3. ASSUME NEW t \in Users, NEW v \in Page
        PROVE  /\ v \in nx'[t] \cup executed'[t] => v < pos'[t]
               /\ ~(v \in nx'[t] /\ v \in executed'[t])
    <3>1. CASE t = u
      BY <1>2, <1>6, <3>1 DEF Tracks
    <3>2. CASE t # u
      BY <1>6, <3>2 DEF Inv, IInv
    <3> QED BY <3>1, <3>2
  <2> QED BY <1>5, <1>7, <2>1, <2>2, <2>3, Zenon DEF IInv, HeapTracked
<1>9. KeptApart'
  BY <1>2, <1>3, <1>6 DEF Inv, KeptApart, Clean
<1>10. LossTracked'
  <2> SUFFICES ASSUME \A t \in Users : state'[t] # "reaped"
               PROVE  IsFiniteSet(Lost') /\ Cardinality(Lost') <= Cardinality(Replaced') + Cardinality(Executed')
    BY Zenon DEF LossTracked
  <2>1. \A t \in Users : state[t] # "reaped"
    BY <1>6
  <2>2. Lost' = LostBy(u, w)
    <3>1. \A f : (\A t \in Users : Mapped(t, f)' = {}) <=>
                 /\ \A v \in Page : w.map[v] # f
                 /\ \A t \in Users \ {u}, v \in Page : map[t][v] # f
      BY <1>6 DEF Mapped
    <3> QED BY <1>3, <3>1 DEF Lost, LostBy
  <2>3. Replaced' = ReplacedBy(u, w)
    <3> DEFINE S == {HeapStart} \cup Stack
    <3>1. \A t \in Users : pos'[t] = IF t = u THEN w.pos ELSE pos[t]
      BY <1>6, Zenon
    <3>2. \A q \in Users \X S : pos'[q[1]] = IF q[1] = u THEN w.pos ELSE pos[q[1]]
      <4> HIDE DEF S
      <4> QED BY <3>1
    <3> QED BY <3>2, Zenon DEF Replaced, ReplacedBy
  <2>4. Executed' = ExecutedBy(u, w)
    <3>1. \A t \in Users : executed'[t] = IF t = u THEN w.executed ELSE executed[t]
      BY <1>6, Zenon
    <3>2. \A q \in Users \X Page : executed'[q[1]] = IF q[1] = u THEN w.executed ELSE executed[q[1]]
      BY <3>1
    <3> QED BY <3>2, Zenon DEF Executed, ExecutedBy
  <2> QED BY <1>2, <2>1, <2>2, <2>3, <2>4, Zenon DEF Counted
<1> QED BY <1>8, <1>9, <1>10, Zenon DEF Inv

-----------------------------------------------------------------------------
(* The loops of the handlers, unfolded. *)

\* Nothing but Work comes out of one round.
LEMMA RoundsWork ==
  ASSUME NEW w \in Work
  PROVE  /\ \A v \in Int : SpawnPage(w, v) \in Work
         /\ MmapPage(w) \in Work
         /\ \A f \in Frame : DevicePage(w, f) \in Work
         /\ \A v \in Page : UnmapOne(w, v) \in Work
<1>0. w.pos \in Int
  BY Zenon DEF Work
<1>1. \A v \in Int : SpawnPage(w, v) \in Work
  <2>1. ASSUME NEW v \in Int PROVE MapFresh(w, v, FALSE) \in Work
    BY FreshFields, Zenon
  <2> QED BY <2>1, Zenon DEF SpawnPage
<1>2. MmapPage(w) \in Work
  <2> DEFINE x == MapFresh(w, w.pos, TRUE)
  <2>1. x \in Work
    BY <1>0, FreshFields, Zenon
  <2>2. MmapPage(w) = IF x.panic # "none" THEN x ELSE [x EXCEPT !.pos = @ + 1]
    BY DEF MmapPage
  <2> HIDE DEF x
  <2>3. [x EXCEPT !.pos = @ + 1] \in Work
    BY <2>1 DEF Work
  <2> QED BY <2>1, <2>2, <2>3
<1>3. ASSUME NEW f \in Frame PROVE DevicePage(w, f) \in Work
  <2> DEFINE x == vmm_map_page(w, w.pos, f, FALSE)
  <2>1. x \in Work
    BY <1>0, MapFields, Zenon
  <2>2. DevicePage(w, f) = [x EXCEPT !.pos = @ + 1]
    BY DEF DevicePage
  <2> HIDE DEF x
  <2> QED BY <2>1, <2>2 DEF Work
<1>4. ASSUME NEW v \in Page PROVE UnmapOne(w, v) \in Work
  <2>1. \A p \in Panics : [w EXCEPT !.panic = p] \in Work
    BY Zenon DEF Work
  <2>2. ASSUME w.map[v] # 0
        PROVE [w EXCEPT !.free = @ \cup {w.map[v]}, !.map[v] = 0, !.nx = @ \ {v}] \in Work
    <3>1. /\ w.free \cup {w.map[v]} \in SUBSET Frame /\ w.nx \ {v} \in SUBSET Int
          /\ [w.map EXCEPT ![v] = 0] \in [Page -> Frame \cup {0}]
      BY <2>2 DEF Work
    <3>2. [w EXCEPT !.free = @ \cup {w.map[v]}, !.map[v] = 0, !.nx = @ \ {v}]
            = [w EXCEPT !.free = w.free \cup {w.map[v]}, !.map = [w.map EXCEPT ![v] = 0], !.nx = w.nx \ {v}]
      BY DEF Work
    <3> QED BY <3>1, <3>2, Zenon DEF Work
  <2> QED BY <2>1, <2>2, Zenon DEF UnmapOne, Panics
<1> QED BY <1>1, <1>2, <1>3, <1>4

\* The work process_spawn_elf starts with.
Spawned(u) == [Now(u) EXCEPT !.pos = HeapStart]

SpawnRuns(u, m) ==
  /\ m[0] = Spawned(u) /\ Spawned(u) \in Work
  /\ \A i \in 1 .. StackTop : m[i] = SpawnPage(m[i - 1], i - 1)
  /\ m[StackTop].panic = "none" /\ Finish(u, m[StackTop])

LEMMA SpawnLoop ==
  ASSUME TypeOK, NEW u \in Users, process_spawn_elf(u)
  PROVE  \E m : SpawnRuns(u, m)
<1> DEFINE n == StackTop
           s == Spawned(u)
           Eq(f) == f = [i \in 0 .. n |-> IF i = 0 THEN s ELSE SpawnPage(f[i - 1], i - 1)]
           m == CHOOSE f : Eq(f)
           step == [i \in 1 .. n |-> [w \in Work |-> SpawnPage(w, i - 1)]]
<1>1. n \in Nat /\ s \in Work
  BY NowWork, Constants DEF Spawned, Work
<1>2. m[n].panic = "none" /\ Finish(u, m[n])
  BY DEF process_spawn_elf, Spawned
<1>3. step \in [1 .. n -> [Work -> Work]]
  BY <1>1, RoundsWork
<1> HIDE DEF n, s
<1>4. \A i \in 1 .. n, w \in Work : step[i][w] = SpawnPage(w, i - 1)
  OBVIOUS
<1> HIDE DEF step
<1>5. PICK f : Rounds(n, Work, s, step, f)
  BY <1>1, <1>3, LoopExists, Zenon
<1>6. Eq(f)
  <2>1. \A i \in 1 .. n : i - 1 \in 0 .. n
    BY <1>1
  <2>2. \A i \in 0 .. n : f[i] = IF i = 0 THEN s ELSE SpawnPage(f[i - 1], i - 1)
    BY <1>1, <1>4, <1>5, <2>1 DEF Rounds
  <2> QED BY <1>5, <2>2 DEF Rounds
<1>7. Eq(m)
  <2> HIDE DEF Eq
  <2> QED BY <1>6
<1> HIDE DEF m
<1>8. m[0] = s /\ \A i \in 1 .. n : m[i] = SpawnPage(m[i - 1], i - 1)
  <2>1. 0 \in 0 .. n /\ \A i \in 1 .. n : i \in 0 .. n /\ i # 0
    BY <1>1
  <2> QED BY <1>7, <2>1, Zenon
<1> QED BY <1>1, <1>2, <1>8 DEF n, s, SpawnRuns

MmapRuns(u, n, m) ==
  /\ m[0] = Now(u) /\ Now(u) \in Work
  /\ \A i \in 1 .. n : m[i] = MmapPage(m[i - 1])
  /\ Finish(u, m[n])

LEMMA MmapLoop ==
  ASSUME TypeOK, NEW u \in Users, NEW n \in Nat, MmapAnonymous(u, n)
  PROVE  \E m : MmapRuns(u, n, m)
<1> DEFINE s == Now(u)
           Eq(f) == f = [i \in 0 .. n |-> IF i = 0 THEN s ELSE MmapPage(f[i - 1])]
           m == CHOOSE f : Eq(f)
           step == [i \in 1 .. n |-> [w \in Work |-> MmapPage(w)]]
<1>1. n \in Nat /\ s \in Work
  BY NowWork
<1>2. Finish(u, m[n])
  BY DEF MmapAnonymous
<1>3. step \in [1 .. n -> [Work -> Work]]
  BY <1>1, RoundsWork
<1> HIDE DEF s
<1>4. \A i \in 1 .. n, w \in Work : step[i][w] = MmapPage(w)
  OBVIOUS
<1> HIDE DEF step
<1>5. PICK f : Rounds(n, Work, s, step, f)
  BY <1>1, <1>3, LoopExists, Zenon
<1>6. Eq(f)
  <2>1. \A i \in 1 .. n : i - 1 \in 0 .. n
    BY <1>1
  <2>2. \A i \in 0 .. n : f[i] = IF i = 0 THEN s ELSE MmapPage(f[i - 1])
    BY <1>1, <1>4, <1>5, <2>1 DEF Rounds
  <2> QED BY <1>5, <2>2 DEF Rounds
<1>7. Eq(m)
  <2> HIDE DEF Eq
  <2> QED BY <1>6
<1> HIDE DEF m
<1>8. m[0] = s /\ \A i \in 1 .. n : m[i] = MmapPage(m[i - 1])
  <2>1. 0 \in 0 .. n /\ \A i \in 1 .. n : i \in 0 .. n /\ i # 0
    BY <1>1
  <2> QED BY <1>7, <2>1, Zenon
<1> QED BY <1>1, <1>2, <1>8 DEF s, MmapRuns

DeviceRuns(u, n, m) ==
  /\ m[0] = Now(u) /\ Now(u) \in Work
  /\ \A i \in 1 .. n : m[i] = DevicePage(m[i - 1], MaxFrame + i)
  /\ Finish(u, m[n])

LEMMA DeviceLoop ==
  ASSUME TypeOK, NEW u \in Users, NEW n \in Nat, n <= MaxPages, MmapDevice(u, n)
  PROVE  \E m : DeviceRuns(u, n, m)
<1> DEFINE s == Now(u)
           Eq(f) == f = [i \in 0 .. n |-> IF i = 0 THEN s ELSE DevicePage(f[i - 1], MaxFrame + i)]
           m == CHOOSE f : Eq(f)
           step == [i \in 1 .. n |-> [w \in Work |-> DevicePage(w, MaxFrame + i)]]
<1>1. n \in Nat /\ s \in Work
  BY NowWork
<1>2. Finish(u, m[n])
  BY DEF MmapDevice
<1>3. step \in [1 .. n -> [Work -> Work]]
  <2>1. \A i \in 1 .. n : MaxFrame + i \in Frame
    BY <1>1, Constants DEF Frame, DeviceFrames
  <2>2. \A i \in 1 .. n, w \in Work : DevicePage(w, MaxFrame + i) \in Work
    BY <2>1, RoundsWork, Zenon
  <2> QED BY <2>2
<1> HIDE DEF s
<1>4. \A i \in 1 .. n, w \in Work : step[i][w] = DevicePage(w, MaxFrame + i)
  OBVIOUS
<1> HIDE DEF step
<1>5. PICK f : Rounds(n, Work, s, step, f)
  BY <1>1, <1>3, LoopExists, Zenon
<1>6. Eq(f)
  <2>1. \A i \in 1 .. n : i - 1 \in 0 .. n
    BY <1>1
  <2>2. \A i \in 0 .. n : f[i] = IF i = 0 THEN s ELSE DevicePage(f[i - 1], MaxFrame + i)
    BY <1>1, <1>4, <1>5, <2>1 DEF Rounds
  <2> QED BY <1>5, <2>2 DEF Rounds
<1>7. Eq(m)
  <2> HIDE DEF Eq
  <2> QED BY <1>6
<1> HIDE DEF m
<1>8. m[0] = s /\ \A i \in 1 .. n : m[i] = DevicePage(m[i - 1], MaxFrame + i)
  <2>1. 0 \in 0 .. n /\ \A i \in 1 .. n : i \in 0 .. n /\ i # 0
    BY <1>1
  <2> QED BY <1>7, <2>1, Zenon
<1> QED BY <1>1, <1>2, <1>8 DEF s, DeviceRuns

UnmapRuns(u, a, n, m) ==
  /\ m[0] = Now(u) /\ Now(u) \in Work
  /\ \A i \in 1 .. n : m[i] = UnmapOne(m[i - 1], a + i - 1)
  /\ Finish(u, m[n])

LEMMA UnmapLoop ==
  ASSUME TypeOK, NEW u \in Users, NEW n \in Nat, NEW a \in Page, a + n <= MaxPage, syscall_unmap(u, a, n),
         ~(a < HeapStart \/ a + n > pos[u])
  PROVE  \E m : UnmapRuns(u, a, n, m)
<1> DEFINE s == Now(u)
           Eq(f) == f = [i \in 0 .. n |-> IF i = 0 THEN s ELSE UnmapOne(f[i - 1], a + i - 1)]
           m == CHOOSE f : Eq(f)
           step == [i \in 1 .. n |-> [w \in Work |-> UnmapOne(w, a + i - 1)]]
<1>1. n \in Nat /\ s \in Work
  BY NowWork
<1>2. Finish(u, m[n])
  BY DEF syscall_unmap
<1>3. step \in [1 .. n -> [Work -> Work]]
  <2>1. \A i \in 1 .. n : a + i - 1 \in Page
    BY <1>1, Constants DEF Page
  <2>2. \A i \in 1 .. n, w \in Work : UnmapOne(w, a + i - 1) \in Work
    BY <2>1, RoundsWork, Zenon
  <2> QED BY <2>2
<1> HIDE DEF s
<1>4. \A i \in 1 .. n, w \in Work : step[i][w] = UnmapOne(w, a + i - 1)
  OBVIOUS
<1> HIDE DEF step
<1>5. PICK f : Rounds(n, Work, s, step, f)
  BY <1>1, <1>3, LoopExists, Zenon
<1>6. Eq(f)
  <2>1. \A i \in 1 .. n : i - 1 \in 0 .. n
    BY <1>1
  <2>2. \A i \in 0 .. n : f[i] = IF i = 0 THEN s ELSE UnmapOne(f[i - 1], a + i - 1)
    BY <1>1, <1>4, <1>5, <2>1 DEF Rounds
  <2> QED BY <1>5, <2>2 DEF Rounds
<1>7. Eq(m)
  <2> HIDE DEF Eq
  <2> QED BY <1>6
<1> HIDE DEF m
<1>8. m[0] = s /\ \A i \in 1 .. n : m[i] = UnmapOne(m[i - 1], a + i - 1)
  <2>1. 0 \in 0 .. n /\ \A i \in 1 .. n : i \in 0 .. n /\ i # 0
    BY <1>1
  <2> QED BY <1>7, <2>1, Zenon
<1> QED BY <1>1, <1>2, <1>8 DEF s, UnmapRuns

-----------------------------------------------------------------------------
(* Every handler ends with sound work. *)

LEMMA SpawnKeeps ==
  ASSUME Inv, NEW u \in Users, process_spawn_elf(u)
  PROVE  Inv'
<1>1. TypeOK /\ state[u] = "none"
  BY Zenon DEF Inv, IInv, HeapTracked, process_spawn_elf
<1>2. PICK m : SpawnRuns(u, m)
  BY <1>1, SpawnLoop, Zenon
<1>3. /\ m[0] = Spawned(u) /\ Spawned(u) \in Work
      /\ \A i \in 1 .. StackTop : m[i] = SpawnPage(m[i - 1], i - 1)
      /\ m[StackTop].panic = "none" /\ Finish(u, m[StackTop])
  BY <1>2, Zenon DEF SpawnRuns
<1> DEFINE Keep(i) == {w \in Work :
                         /\ Sound(u, w) /\ w.pos = HeapStart
                         /\ \A v \in Page : v >= i => w.map[v] = 0
                         /\ w.panic = "none" /\ HeapStart < i => w.map[HeapStart] # 0}
           G == [i \in 0 .. StackTop |-> Keep(i)]
<1>4. m[0] \in Keep(0)
  <2> DEFINE w == Spawned(u)
  <2>1. /\ w \in Work /\ w.free = free /\ w.map = map[u] /\ w.nx = nx[u] /\ w.pos = HeapStart
        /\ w.executed = executed[u]
    BY <1>1, <1>3, NowWork DEF Spawned, Work
  <2> HIDE DEF w
  <2>2. pos[u] = 0 /\ nx[u] = {} /\ executed[u] = {} /\ \A v \in Page : map[u][v] = 0
    BY <1>1, Zenon DEF Inv, IInv
  <2>3. Clean(u, w) /\ Counted(u, w)
    BY <2>1, <2>2, NowCounts, Constants
  <2>4. Tracks(w)
    BY <2>1, <2>2, Constants DEF Tracks
  <2>5. Sound(u, w)
    BY <2>1, <2>3, <2>4, Zenon DEF Sound
  <2> QED BY <1>3, <2>1, <2>2, <2>5, Constants DEF w
<1>5. ASSUME NEW v \in 0 .. StackTop - 1, NEW w \in Keep(v) PROVE SpawnPage(w, v) \in Keep(v + 1)
  <2>0. v \in Int /\ v \in Page /\ \A z \in Page : z \in Int
    BY Constants DEF Page
  <2>1. w \in Work /\ Sound(u, w) /\ w.pos = HeapStart /\ Tracks(w)
        /\ (\A z \in Page : z >= v => w.map[z] = 0)
        /\ (w.panic = "none" /\ HeapStart < v => w.map[HeapStart] # 0)
    BY Zenon DEF Sound
  <2>2. CASE v <= HeapStart \/ v \in Stack
    <3> DEFINE x == MapFresh(w, v, FALSE)
    <3>1. x = MapFresh(w, v, FALSE) /\ SpawnPage(w, v) = x
      BY <2>2, Zenon DEF SpawnPage
    <3> HIDE DEF x
    <3>2. x \in Work
      BY <2>0, <2>1, <3>1, FreshFields, Zenon
    <3>3. CASE /\ x.panic # "none" /\ x.free = w.free /\ x.map = w.map
               /\ x.nx = w.nx /\ x.pos = w.pos /\ x.executed = w.executed
      <4>1. Sound(u, x)
        BY <2>1, <3>2, <3>3, SameSound, Zenon
      <4>2. \A z \in Page : z >= v + 1 => x.map[z] = 0
        BY <2>0, <2>1, <3>3
      <4> QED BY <2>1, <3>1, <3>2, <3>3, <4>1, <4>2, Zenon
    <3>4. ASSUME x.panic = "none", NEW f \in w.free, x.free = w.free \ {f}, Holds(x, w, v, f, FALSE)
          PROVE  SpawnPage(w, v) \in Keep(v + 1)
      <4>1. /\ x.pos = w.pos /\ x.executed = w.executed /\ x.nx = w.nx \ {v} /\ w.panic = "none"
            /\ \A y \in Page : x.map[y] = IF y = v THEN f ELSE w.map[y]
        BY <3>4, Zenon DEF Holds
      <4>2. f # 0 /\ w.map[v] = 0
        <5>1. f \in Frame
          BY <2>1, <3>4, Zenon DEF Work
        <5> QED BY <2>0, <2>1, <5>1, Numbers
      <4>3. Tracks(x)
        <5>1. \A z \in Page : z > HeapStart /\ z >= x.pos /\ z \notin Stack => x.map[z] = 0
          BY <2>0, <2>1, <2>2, <4>1, Constants DEF Tracks
        <5> QED BY <2>1, <4>1, <5>1 DEF Tracks
      <4>4. w.pos <= x.pos /\ w.executed \subseteq x.executed
        BY <2>1, <4>1, Constants
      <4>5. Sound(u, x)
        <5>1. Maps(w, x, v, f) /\ Excused(w, x, v)
          BY <3>4, <4>1, <4>2, <4>4, Zenon DEF Maps, Excused
        <5> QED BY <2>0, <2>1, <3>2, <4>3, <5>1, MapSound, Zenon
      <4>6. \A z \in Page : z >= v + 1 => x.map[z] = 0
        BY <2>0, <2>1, <4>1
      <4>7. HeapStart < v + 1 => x.map[HeapStart] # 0
        BY <2>0, <2>1, <4>1, <4>2, Constants
      <4> QED BY <2>1, <3>1, <3>2, <4>1, <4>5, <4>6, <4>7, Zenon
    <3> HIDE DEF Keep
    <3>5. \/ /\ x.panic # "none" /\ x.free = w.free /\ x.map = w.map
             /\ x.nx = w.nx /\ x.pos = w.pos /\ x.executed = w.executed
          \/ /\ x.panic = "none"
             /\ \E f \in w.free : x.free = w.free \ {f} /\ Holds(x, w, v, f, FALSE)
      BY <2>0, <2>1, <3>1, FreshFields, Zenon
    <3> QED BY <3>3, <3>4, <3>5, Zenon
  <2>3. CASE ~(v <= HeapStart \/ v \in Stack)
    <3>1. SpawnPage(w, v) = w
      BY <2>3 DEF SpawnPage
    <3>2. \A z \in Page : z >= v + 1 => w.map[z] = 0
      BY <2>0, <2>1
    <3>3. w.panic = "none" => w.map[HeapStart] # 0
      BY <2>0, <2>1, <2>3, Constants
    <3> QED BY <2>1, <3>1, <3>2, <3>3
  <2> QED BY <2>2, <2>3, Zenon
<1>6. m[StackTop] \in Keep(StackTop)
  <2> HIDE DEF Keep
  <2>1. m[0] \in G[0] /\ \A i \in 1 .. StackTop : m[i - 1] \in G[i - 1] => m[i] \in G[i]
    <3>1. ASSUME NEW i \in 1 .. StackTop, m[i - 1] \in Keep(i - 1) PROVE m[i] \in Keep(i)
      <4>1. i - 1 \in 0 .. StackTop - 1 /\ (i - 1) + 1 = i
        BY Constants
      <4>2. SpawnPage(m[i - 1], i - 1) \in Keep((i - 1) + 1)
        BY <1>5, <3>1, <4>1
      <4> QED BY <1>3, <4>1, <4>2
    <3>2. \A i \in 1 .. StackTop : G[i - 1] = Keep(i - 1) /\ G[i] = Keep(i)
      BY Constants
    <3>3. G[0] = Keep(0)
      BY Constants
    <3> HIDE DEF G
    <3> QED BY <1>4, <3>1, <3>2, <3>3
  <2>2. \A i \in 0 .. StackTop : m[i] \in G[i]
    <3> HIDE DEF G
    <3> QED BY Constants, <2>1, LoopInvariant
  <2> QED BY Constants, <2>2
<1>7. Sound(u, m[StackTop]) /\ FirstThere(m[StackTop])
  BY <1>3, <1>6, Constants DEF FirstThere
<1> QED BY <1>1, <1>3, <1>7, FinishSound

\* A page is mapped at the heap position, which moves on: whatever was there is
\* the first heap page, a page of the stack, or nothing.
LEMMA GrowSound ==
  ASSUME NEW u \in Users, NEW w, Sound(u, w), w.pos < MaxPage, NEW x \in Work, NEW f, Maps(w, x, w.pos, f),
         x.pos = w.pos + 1, x.executed = w.executed, x.nx \subseteq w.nx \cup {w.pos}
  PROVE  Sound(u, x) /\ FirstThere(x)
<1>1. w \in Work /\ Tracks(w)
  BY Zenon DEF Sound
<1>2. w.pos \in Int /\ w.pos \in Page /\ HeapStart <= w.pos /\ \A z \in Page : z \in Int
  BY <1>1, Constants DEF Tracks, Page
<1>3. Tracks(x)
  <2>1. x.pos \in HeapStart .. MaxPage
    BY <1>2, Constants
  <2>2. \A v \in Page : v > HeapStart /\ v >= x.pos /\ v \notin Stack => x.map[v] = 0
    BY <1>1, <1>2 DEF Tracks, Maps
  <2>3. \A v \in x.nx \cup x.executed : v \in Page /\ v < x.pos
    BY <1>1, <1>2 DEF Tracks
  <2>4. w.pos \notin x.executed
    BY <1>1, <1>2 DEF Tracks
  <2>5. x.nx \cap x.executed = {}
    BY <1>1, <2>4 DEF Tracks
  <2> QED BY <2>1, <2>2, <2>3, <2>5, Zenon DEF Tracks
<1>4. w.pos <= x.pos /\ w.executed \subseteq x.executed
  BY <1>2
<1>5. w.map[w.pos] = 0 \/ (w.pos \in {HeapStart} \cup Stack /\ w.pos <= w.pos /\ w.pos < x.pos)
  BY <1>1, <1>2, Constants DEF Tracks
<1>6. Sound(u, x)
  <2>1. Excused(w, x, w.pos)
    BY <1>4, <1>5, Zenon DEF Excused
  <2> QED BY <1>2, <1>3, <2>1, MapSound, Zenon
<1>7. FirstThere(x)
  BY <1>2, Constants DEF FirstThere
<1> QED BY <1>6, <1>7

LEMMA MmapRound ==
  ASSUME NEW u \in Users, NEW w, Sound(u, w), FirstThere(w), w.pos < MaxPage, NEW z, z = MmapPage(w)
  PROVE  Sound(u, z) /\ FirstThere(z) /\ z.pos \in {w.pos, w.pos + 1}
<1> DEFINE x == MapFresh(w, w.pos, TRUE)
           y == [x EXCEPT !.pos = @ + 1]
<1>1. w \in Work /\ w.pos \in Int
  BY Zenon DEF Sound, Work
<1>2. z = IF x.panic # "none" THEN x ELSE y
  BY DEF MmapPage
<1>3. /\ x \in Work
      /\ \/ /\ x.panic # "none" /\ x.free = w.free /\ x.map = w.map
            /\ x.nx = w.nx /\ x.pos = w.pos /\ x.executed = w.executed
         \/ /\ x.panic = "none"
            /\ \E f \in w.free : x.free = w.free \ {f} /\ Holds(x, w, w.pos, f, TRUE)
  BY <1>1, FreshFields, Zenon
<1> HIDE DEF x
<1>4. CASE /\ x.panic # "none" /\ x.free = w.free /\ x.map = w.map
           /\ x.nx = w.nx /\ x.pos = w.pos /\ x.executed = w.executed
  BY <1>2, <1>3, <1>4, SameSound, Zenon
<1>5. ASSUME x.panic = "none", NEW f \in w.free, x.free = w.free \ {f}, Holds(x, w, w.pos, f, TRUE)
      PROVE  Sound(u, z) /\ FirstThere(z) /\ z.pos \in {w.pos, w.pos + 1}
  <2>1. /\ x.pos = w.pos /\ x.executed = w.executed /\ x.nx = w.nx \cup {w.pos}
        /\ \A v \in Page : x.map[v] = IF v = w.pos THEN f ELSE w.map[v]
    BY <1>5, Zenon DEF Holds
  <2>2. /\ z \in Work /\ z.pos = w.pos + 1 /\ z.free = x.free /\ z.map = x.map
        /\ z.nx = x.nx /\ z.executed = x.executed
    BY <1>2, <1>3, <1>5, <2>1 DEF Work
  <2>3. z.nx \subseteq w.nx \cup {w.pos} /\ z.executed = w.executed /\ Maps(w, z, w.pos, f)
    BY <1>5, <2>1, <2>2, Zenon DEF Maps
  <2>4. Sound(u, z) /\ FirstThere(z)
    BY <2>2, <2>3, GrowSound, Zenon
  <2> QED BY <2>2, <2>4, Zenon
<1> QED BY <1>3, <1>4, <1>5, Zenon

LEMMA DeviceRound ==
  ASSUME NEW u \in Users, NEW w, Sound(u, w), w.pos < MaxPage, NEW f \in DeviceFrames,
         NEW z, z = DevicePage(w, f)
  PROVE  Sound(u, z) /\ FirstThere(z) /\ z.pos \in {w.pos, w.pos + 1}
<1> DEFINE x == vmm_map_page(w, w.pos, f, FALSE)
<1>1. w \in Work /\ w.pos \in Int /\ f \in Frame
  BY Numbers, Zenon DEF Sound, Work
<1>2. z = [x EXCEPT !.pos = @ + 1]
  BY DEF DevicePage
<1>3. x \in Work /\ x.free = w.free /\ Holds(x, w, w.pos, f, FALSE)
  BY <1>1, MapFields, Zenon
<1> HIDE DEF x
<1>4. /\ x.pos = w.pos /\ x.executed = w.executed /\ x.nx = w.nx \ {w.pos}
      /\ \A v \in Page : x.map[v] = IF v = w.pos THEN f ELSE w.map[v]
  BY <1>3, Zenon DEF Holds
<1>5. /\ z \in Work /\ z.pos = w.pos + 1 /\ z.free = x.free /\ z.map = x.map
      /\ z.nx = x.nx /\ z.executed = x.executed
  BY <1>1, <1>2, <1>3, <1>4 DEF Work
<1>6. z.nx \subseteq w.nx \cup {w.pos} /\ z.executed = w.executed /\ Maps(w, z, w.pos, f)
  BY <1>3, <1>4, <1>5, Zenon DEF Maps
<1>7. Sound(u, z) /\ FirstThere(z)
  BY <1>5, <1>6, GrowSound, Zenon
<1> QED BY <1>5, <1>7, Zenon

\* Round i of syscall_mmap may find the position moved by i - 1 pages, and there is
\* room for n.
MmapKeep(u, i) == {w \in Work : Sound(u, w) /\ FirstThere(w) /\ w.pos <= pos[u] + i}

LEMMA MmapRoundsKeep ==
  ASSUME Inv, NEW u \in Users, state[u] = "live", NEW n \in Nat, NEW m, m[0] = Now(u),
         \A i \in 1 .. n : m[i - 1] \in MmapKeep(u, i - 1) => m[i] \in MmapKeep(u, i),
         Finish(u, m[n])
  PROVE  Inv'
<1> DEFINE G == [i \in 0 .. n |-> MmapKeep(u, i)]
<1>1. TypeOK
  BY Zenon DEF Inv, IInv, HeapTracked
<1>2. m[0] \in MmapKeep(u, 0)
  <2>1. Now(u) \in Work /\ Now(u).pos = pos[u] /\ pos[u] \in Int
    BY <1>1, NowWork DEF TypeOK
  <2>2. Now(u).pos <= pos[u] + 0
    BY <2>1
  <2> QED BY <2>1, <2>2, NowSound, Zenon DEF MmapKeep
<1>3. \A i \in 1 .. n : G[i - 1] = MmapKeep(u, i - 1) /\ G[i] = MmapKeep(u, i)
  OBVIOUS
<1>4. G[0] = MmapKeep(u, 0) /\ G[n] = MmapKeep(u, n)
  OBVIOUS
<1> HIDE DEF G
<1>5. m[0] \in G[0] /\ \A i \in 1 .. n : m[i - 1] \in G[i - 1] => m[i] \in G[i]
  BY <1>2, <1>3, <1>4
<1>6. \A i \in 0 .. n : m[i] \in G[i]
  BY <1>5, LoopInvariant
<1>7. Sound(u, m[n]) /\ FirstThere(m[n])
  BY <1>4, <1>6 DEF MmapKeep
<1> QED BY <1>7, FinishSound

LEMMA MmapKeeps ==
  ASSUME Inv, NEW u \in Users, NEW n \in Nat, MmapAnonymous(u, n)
  PROVE  Inv'
<1>1. TypeOK /\ state[u] = "live" /\ pos[u] + n <= MaxPage
  BY Zenon DEF Inv, IInv, HeapTracked, MmapAnonymous, HasRoom
<1>2. PICK m : MmapRuns(u, n, m)
  BY <1>1, MmapLoop, Zenon
<1>3. m[0] = Now(u) /\ (\A i \in 1 .. n : m[i] = MmapPage(m[i - 1])) /\ Finish(u, m[n])
  BY <1>2, Zenon DEF MmapRuns
<1>4. pos[u] \in Int
  BY <1>1 DEF TypeOK
<1>5. ASSUME NEW i \in 1 .. n, m[i - 1] \in MmapKeep(u, i - 1) PROVE m[i] \in MmapKeep(u, i)
  <2> DEFINE w == m[i - 1]
             z == m[i]
  <2>1. Sound(u, w) /\ FirstThere(w) /\ w.pos <= pos[u] + (i - 1) /\ w.pos \in Int
    BY <1>5, Zenon DEF MmapKeep, Work
  <2>2. z = MmapPage(w)
    BY <1>3, Zenon
  <2> HIDE DEF w, z
  <2>3. w.pos < MaxPage
    BY <1>1, <1>4, <2>1, Constants
  <2>4. Sound(u, z) /\ FirstThere(z) /\ z.pos \in {w.pos, w.pos + 1}
    BY <2>1, <2>2, <2>3, MmapRound, Zenon
  <2>5. z.pos <= pos[u] + i
    BY <1>4, <2>1, <2>4
  <2>6. z \in MmapKeep(u, i)
    BY <2>4, <2>5, Zenon DEF MmapKeep, Sound
  <2> QED BY <2>6 DEF z
<1> QED BY <1>1, <1>3, <1>5, MmapRoundsKeep

LEMMA DeviceKeeps ==
  ASSUME Inv, NEW u \in Users, NEW n \in Nat, n <= MaxPages, MmapDevice(u, n)
  PROVE  Inv'
<1>1. TypeOK /\ state[u] = "live" /\ pos[u] + n <= MaxPage
  BY Zenon DEF Inv, IInv, HeapTracked, MmapDevice, HasRoom
<1>2. PICK m : DeviceRuns(u, n, m)
  BY <1>1, DeviceLoop, Zenon
<1>3. m[0] = Now(u) /\ (\A i \in 1 .. n : m[i] = DevicePage(m[i - 1], MaxFrame + i)) /\ Finish(u, m[n])
  BY <1>2, Zenon DEF DeviceRuns
<1>4. pos[u] \in Int
  BY <1>1 DEF TypeOK
<1>5. ASSUME NEW i \in 1 .. n, m[i - 1] \in MmapKeep(u, i - 1) PROVE m[i] \in MmapKeep(u, i)
  <2> DEFINE w == m[i - 1]
             z == m[i]
             f == MaxFrame + i
  <2>1. Sound(u, w) /\ w.pos <= pos[u] + (i - 1) /\ w.pos \in Int
    BY <1>5, Zenon DEF MmapKeep, Work
  <2>2. z = DevicePage(w, f)
    BY <1>3, Zenon
  <2>3. f \in DeviceFrames
    BY Constants DEF DeviceFrames
  <2> HIDE DEF w, z, f
  <2>4. w.pos < MaxPage
    BY <1>1, <1>4, <2>1, Constants
  <2>5. Sound(u, z) /\ FirstThere(z) /\ z.pos \in {w.pos, w.pos + 1}
    BY <2>1, <2>2, <2>3, <2>4, DeviceRound, Zenon
  <2>6. z.pos <= pos[u] + i
    BY <1>4, <2>1, <2>5
  <2>7. z \in MmapKeep(u, i)
    BY <2>5, <2>6, Zenon DEF MmapKeep, Sound
  <2> QED BY <2>7 DEF z
<1> QED BY <1>1, <1>3, <1>5, MmapRoundsKeep

LEMMA UnmapKeeps ==
  ASSUME Inv, NEW u \in Users,
         NEW n \in Nat, NEW a \in Page, a + n <= MaxPage, syscall_unmap(u, a, n)
  PROVE  Inv'
<1>1. TypeOK /\ state[u] = "live"
  BY Zenon DEF Inv, IInv, HeapTracked, syscall_unmap
<1>2. Sound(u, Now(u)) /\ FirstThere(Now(u)) /\ Now(u) \in Work /\ Now(u).pos = pos[u]
  BY <1>1, NowSound, NowWork, Zenon
<1>3. CASE a < HeapStart \/ a + n > pos[u]
  <2> DEFINE w == [Now(u) EXCEPT !.panic = "WTF"]
  <2>1. Finish(u, w)
    BY <1>3, Zenon DEF syscall_unmap
  <2>2. Sound(u, w) /\ FirstThere(w)
    BY <1>2, PanicSound, Zenon DEF Panics
  <2> HIDE DEF w
  <2> QED BY <1>1, <2>1, <2>2, FinishSound
<1>4. CASE ~(a < HeapStart \/ a + n > pos[u])
  <2>1. PICK m : UnmapRuns(u, a, n, m)
    BY <1>1, <1>4, UnmapLoop, Zenon
  <2>2. /\ m[0] = Now(u)
        /\ \A i \in 1 .. n : m[i] = UnmapOne(m[i - 1], a + i - 1)
        /\ Finish(u, m[n])
    BY <2>1, Zenon DEF UnmapRuns
  <2> DEFINE Keep == {w \in Work : Sound(u, w) /\ FirstThere(w) /\ w.pos = pos[u]}
             G == [i \in 0 .. n |-> Keep]
  <2>3. ASSUME NEW w \in Keep, NEW v \in Page, HeapStart <= v, v < pos[u] PROVE UnmapOne(w, v) \in Keep
    <3>1. Sound(u, w) /\ FirstThere(w) /\ w.pos = pos[u]
      OBVIOUS
    <3> DEFINE x == UnmapOne(w, v)
    <3> HIDE DEF x
    <3>2. x = UnmapOne(w, v) /\ v < w.pos
      BY <2>3, <3>1 DEF x
    <3>3. Sound(u, x) /\ FirstThere(x) /\ x.pos = w.pos
      BY <2>3, <3>1, <3>2, UnmapSound, Zenon
    <3> QED BY <3>1, <3>2, <3>3, Zenon DEF Sound
  <2>4. \A i \in 1 .. n : a + i - 1 \in Page /\ HeapStart <= a + i - 1 /\ a + i - 1 < pos[u]
    <3>1. pos[u] \in Int
      BY <1>1 DEF TypeOK
    <3> QED BY <1>4, <3>1, Constants DEF Page
  <2>5. m[0] \in Keep
    BY <1>2, <2>2, Zenon
  <2>6. m[n] \in Keep
    <3> HIDE DEF Keep
    <3>1. m[0] \in G[0] /\ \A i \in 1 .. n : m[i - 1] \in G[i - 1] => m[i] \in G[i]
      BY <2>2, <2>3, <2>4, <2>5
    <3>2. \A i \in 0 .. n : m[i] \in G[i]
      <4> HIDE DEF G
      <4> QED BY <3>1, LoopInvariant
    <3> QED BY <3>2
  <2> QED BY <1>1, <2>2, <2>6, FinishSound
<1> QED BY <1>3, <1>4, Zenon

\* A fault in the heap: a page that was present is one that cannot be executed, and
\* one that has not been executed before.
LEMMA HeapFaultSound ==
  ASSUME Inv, NEW u \in Users, state[u] = "live", NEW v \in Page, Faults(u, v),
         HeapStart <= v, v <= pos[u], NEW z, z = HeapFault(u, v)
  PROVE  Sound(u, z) /\ FirstThere(z)
<1> DEFINE w == Now(u)
           x == MapFresh(w, v, FALSE)
           p == IF v >= x.pos THEN v + 1 ELSE x.pos
           e == IF map[u][v] # 0 THEN x.executed \cup {v} ELSE x.executed
<1>1. TypeOK
  BY Zenon DEF Inv, IInv, HeapTracked
<1>2. /\ Sound(u, w) /\ FirstThere(w) /\ w \in Work /\ w.map = map[u] /\ w.nx = nx[u]
      /\ w.pos = pos[u] /\ w.executed = executed[u]
  BY <1>1, NowSound, NowWork, Zenon
<1>3. z = IF x.panic # "none" THEN x ELSE [x EXCEPT !.pos = p, !.executed = e]
  BY DEF HeapFault
<1>4. p = (IF v >= x.pos THEN v + 1 ELSE x.pos)
      /\ e = (IF map[u][v] # 0 THEN x.executed \cup {v} ELSE x.executed)
  OBVIOUS
<1> HIDE DEF p, e
<1>5. v \in Int /\ pos[u] \in 0 .. MaxPage /\ \A y \in Page : y \in Int
  BY <1>1, Numbers DEF TypeOK
<1>6. /\ x \in Work
      /\ \/ /\ x.panic # "none" /\ x.free = w.free /\ x.map = w.map
            /\ x.nx = w.nx /\ x.pos = w.pos /\ x.executed = w.executed
         \/ /\ x.panic = "none"
            /\ \E f \in w.free : x.free = w.free \ {f} /\ Holds(x, w, v, f, FALSE)
  BY <1>2, <1>5, FreshFields, Zenon
<1> HIDE DEF w, x
<1>7. CASE /\ x.panic # "none" /\ x.free = w.free /\ x.map = w.map
           /\ x.nx = w.nx /\ x.pos = w.pos /\ x.executed = w.executed
  BY <1>2, <1>3, <1>6, <1>7, SameSound, Zenon
<1>8. ASSUME x.panic = "none", NEW f \in w.free, x.free = w.free \ {f}, Holds(x, w, v, f, FALSE)
      PROVE  Sound(u, z) /\ FirstThere(z)
  <2>1. /\ x.pos = pos[u] /\ x.executed = executed[u] /\ x.nx = nx[u] \ {v}
        /\ \A y \in Page : x.map[y] = IF y = v THEN f ELSE w.map[y]
    BY <1>2, <1>8, Zenon DEF Holds
  <2>2. p \in Int /\ p >= pos[u] /\ p > v /\ p <= MaxPage
    <3>1. v < MaxPage
      BY Constants DEF Page
    <3> QED BY <1>4, <1>5, <2>1, <3>1, Constants
  <2>3. e \in SUBSET Int /\ executed[u] \subseteq e /\ e \subseteq executed[u] \cup {v}
        /\ (map[u][v] # 0 => v \in e)
    BY <1>4, <1>5, <1>6, <2>1 DEF Work
  <2>4. /\ z \in Work /\ z.pos = p /\ z.executed = e /\ z.free = x.free /\ z.map = x.map
        /\ z.nx = x.nx
    <3>1. z = [x EXCEPT !.pos = p, !.executed = e]
      BY <1>3, <1>8, Zenon
    <3> QED BY <1>6, <2>2, <2>3, <3>1, Zenon DEF Work
  <2>5. Tracks(w)
    BY <1>2, Zenon DEF Sound
  <2>6. Tracks(z)
    <3>1. z.pos \in HeapStart .. MaxPage
      BY <1>5, <2>2, <2>4, Constants
    <3>2. \A y \in Page : y > HeapStart /\ y >= z.pos /\ y \notin Stack => z.map[y] = 0
      BY <1>2, <1>5, <2>1, <2>2, <2>4, <2>5 DEF Tracks
    <3>3. \A y \in z.nx \cup z.executed : y \in Page /\ y < z.pos
      <4>1. \A y \in nx[u] \cup executed[u] : y \in Page /\ y < pos[u]
        BY <1>2, <2>5, Zenon DEF Tracks
      <4>2. \A y \in Page : y < pos[u] \/ y = v => y < p
        BY <1>5, <2>2
      <4> QED BY <2>1, <2>3, <2>4, <4>1, <4>2, Zenon
    <3>4. z.nx \cap z.executed = {}
      <4>1. nx[u] \cap executed[u] = {}
        BY <1>2, <2>5, Zenon DEF Tracks
      <4> QED BY <2>1, <2>3, <2>4, <4>1, Zenon
    <3> QED BY <3>1, <3>2, <3>3, <3>4, Zenon DEF Tracks
  <2>7. map[u][v] # 0 => v \notin executed[u]
    <3>1. map[u][v] # 0 => v \in nx[u]
      BY <1>5, Constants DEF Faults
    <3>2. nx[u] \cap executed[u] = {}
      BY <1>2, <2>5, Zenon DEF Tracks
    <3> QED BY <3>1, <3>2
  <2>8. Excused(w, z, v)
    BY <1>2, <1>5, <2>2, <2>3, <2>4, <2>7 DEF Excused
  <2>9. Maps(w, z, v, f)
    BY <1>8, <2>1, <2>4, Zenon DEF Maps
  <2>10. Sound(u, z)
    BY <1>2, <2>4, <2>6, <2>8, <2>9, MapSound, Zenon
  <2>11. FirstThere(z)
    BY <1>5, <2>2, <2>4, Constants DEF FirstThere
  <2> QED BY <2>10, <2>11
<1> QED BY <1>6, <1>7, <1>8, Zenon

\* A fault in the stack, beyond the heap: the page is not present.
LEMMA StackFaultSound ==
  ASSUME Inv, NEW u \in Users, state[u] = "live", NEW v \in Stack, Faults(u, v),
         ~(v >= HeapStart /\ v <= pos[u]), NEW z, z = MapFresh(Now(u), v, FALSE)
  PROVE  Sound(u, z) /\ FirstThere(z)
<1> DEFINE w == Now(u)
           x == MapFresh(w, v, FALSE)
<1>0. z = x
  OBVIOUS
<1>1. TypeOK
  BY Zenon DEF Inv, IInv, HeapTracked
<1>2. /\ Sound(u, w) /\ FirstThere(w) /\ w \in Work /\ w.map = map[u] /\ w.nx = nx[u]
      /\ w.pos = pos[u] /\ w.executed = executed[u]
  BY <1>1, NowSound, NowWork, Zenon
<1>3. v \in Int /\ v \in Page /\ v >= HeapStart /\ pos[u] \in Int /\ v > pos[u] /\ v # HeapStart
  <2>1. v \in Int /\ v >= HeapStart /\ v \in Page
    BY UserMemAssumption DEF Stack, Page
  <2>2. pos[u] \in Int
    BY <1>1 DEF TypeOK
  <2> QED BY <2>1, <2>2, Constants
<1>4. /\ x \in Work
      /\ \/ /\ x.panic # "none" /\ x.free = w.free /\ x.map = w.map
            /\ x.nx = w.nx /\ x.pos = w.pos /\ x.executed = w.executed
         \/ /\ x.panic = "none"
            /\ \E f \in w.free : x.free = w.free \ {f} /\ Holds(x, w, v, f, FALSE)
  BY <1>2, <1>3, FreshFields, Zenon
<1> HIDE DEF w, x
<1>5. CASE /\ x.panic # "none" /\ x.free = w.free /\ x.map = w.map
           /\ x.nx = w.nx /\ x.pos = w.pos /\ x.executed = w.executed
  BY <1>0, <1>2, <1>4, <1>5, SameSound, Zenon
<1>6. ASSUME NEW f \in w.free, x.free = w.free \ {f}, Holds(x, w, v, f, FALSE)
      PROVE  Sound(u, x) /\ FirstThere(x)
  <2>1. /\ x.pos = w.pos /\ x.executed = w.executed /\ x.nx = w.nx \ {v}
        /\ \A y \in Page : x.map[y] = IF y = v THEN f ELSE w.map[y]
    BY <1>6, Zenon DEF Holds
  <2>2. Tracks(w)
    BY <1>2, Zenon DEF Sound
  <2>3. map[u][v] = 0
    <3>1. v \notin nx[u]
      BY <1>2, <1>3, <2>2 DEF Tracks
    <3> QED BY <1>3, <3>1, Constants DEF Faults
  <2>4. Tracks(x)
    <3>1. \A y \in Page : y > HeapStart /\ y >= x.pos /\ y \notin Stack => x.map[y] = 0
      <4>1. \A y \in Page : y > HeapStart /\ y >= w.pos /\ y \notin Stack => w.map[y] = 0
        BY <2>2, Zenon DEF Tracks
      <4> QED BY <2>1, <4>1, Zenon
    <3>2. \A y \in x.nx \cup x.executed : y \in w.nx \cup w.executed
      BY <2>1, Zenon
    <3>3. x.nx \cap x.executed = {}
      <4>1. w.nx \cap w.executed = {}
        BY <2>2, Zenon DEF Tracks
      <4> QED BY <2>1, <4>1, Zenon
    <3> QED BY <2>1, <2>2, <3>1, <3>2, <3>3, Zenon DEF Tracks
  <2>5. Excused(w, x, v) /\ Maps(w, x, v, f)
    <3>1. w.pos <= x.pos
      <4>1. x.pos = pos[u] /\ w.pos = pos[u]
        BY <1>2, <2>1, Zenon
      <4> QED BY <1>3, <4>1
    <3> QED BY <1>2, <1>6, <2>1, <2>3, <3>1, Zenon DEF Excused, Maps
  <2>6. Sound(u, x)
    BY <1>2, <1>3, <1>4, <2>4, <2>5, MapSound, Zenon
  <2>7. FirstThere(x)
    <3>1. x.map[HeapStart] = w.map[HeapStart]
      BY <1>3, <2>1, Constants, Zenon
    <3> QED BY <1>2, <2>1, <3>1, Zenon DEF FirstThere
  <2> QED BY <2>6, <2>7, Zenon
<1> QED BY <1>0, <1>4, <1>5, <1>6, Zenon

LEMMA FaultKeeps ==
  ASSUME Inv, NEW u \in Users, NEW v \in Page, vmm_pagefault(u, v)
  PROVE  Inv'
<1>1. TypeOK /\ state[u] = "live" /\ Faults(u, v)
  BY Zenon DEF Inv, IInv, HeapTracked, vmm_pagefault
<1>2. CASE v >= HeapStart /\ v <= pos[u]
  <2>1. Finish(u, HeapFault(u, v))
    BY <1>2, Zenon DEF vmm_pagefault
  <2>2. HeapStart <= v
    BY <1>2, Constants, Numbers
  <2>3. Sound(u, HeapFault(u, v)) /\ FirstThere(HeapFault(u, v))
    BY <1>1, <1>2, <2>2, HeapFaultSound, Zenon
  <2> QED BY <1>1, <2>1, <2>3, FinishSound
<1>3. CASE ~(v >= HeapStart /\ v <= pos[u]) /\ v \in Stack
  <2>1. Finish(u, MapFresh(Now(u), v, FALSE))
    BY <1>3, Zenon DEF vmm_pagefault
  <2> DEFINE x == MapFresh(Now(u), v, FALSE)
  <2>2. Sound(u, x) /\ FirstThere(x) /\ Finish(u, x)
    BY <1>1, <1>3, <2>1, StackFaultSound, Zenon
  <2> HIDE DEF x
  <2> QED BY <1>1, <2>2, FinishSound
<1>4. CASE ~(v >= HeapStart /\ v <= pos[u]) /\ v \notin Stack
  <2> DEFINE w == [Now(u) EXCEPT !.panic = "fault"]
  <2>1. Finish(u, w)
    BY <1>4, Zenon DEF vmm_pagefault
  <2>2. Sound(u, w) /\ FirstThere(w)
    BY <1>1, NowSound, PanicSound, Zenon DEF Panics
  <2> HIDE DEF w
  <2> QED BY <1>1, <2>1, <2>2, FinishSound
<1> QED BY <1>2, <1>3, <1>4, Zenon

LEMMA ExitKeeps ==
  ASSUME Inv, NEW u \in Users, process_exit(u)
  PROVE  Inv'
<1>1. /\ UNCHANGED <<free, map, nx, pos, executed>> /\ state[u] = "live"
      /\ state' = [state EXCEPT ![u] = "dead"] /\ TypeOK
  BY Zenon DEF Inv, IInv, HeapTracked, process_exit
<1>2. \A t \in Users : state'[t] \in {"none", "reaped"} \/ state[t] \in {"none", "reaped"} => state'[t] = state[t]
  BY <1>1 DEF TypeOK
<1>3. IInv'
  <2>1. TypeOK'
    BY <1>1 DEF TypeOK
  <2>2. NothingAbovePosition'
    BY <1>1, Zenon DEF Inv, IInv, HeapTracked, NothingAbovePosition
  <2>3. ReapUnmaps'
    BY <1>1, <1>2 DEF Inv, IInv, HeapTracked, ReapUnmaps
  <2> QED BY <1>1, <1>2, <2>1, <2>2, <2>3 DEF Inv, IInv, HeapTracked
<1>4. KeptApart'
  BY <1>1 DEF Inv, KeptApart
<1>5. LossTracked'
  <2>1. Lost' = Lost /\ Replaced' = Replaced /\ Executed' = Executed
    BY <1>1, Zenon DEF Lost, Mapped, Replaced, Executed
  <2>2. (\A t \in Users : state'[t] # "reaped") => \A t \in Users : state[t] # "reaped"
    BY <1>2, Zenon
  <2> QED BY <2>1, <2>2, Zenon DEF Inv, LossTracked
<1> QED BY <1>3, <1>4, <1>5, Zenon DEF Inv

\* process_reap walks the stack and the heap up to its position, which is all
\* that is mapped from HeapStart on but for the first heap page.
LEMMA ReapKeeps ==
  ASSUME Inv, NEW u \in Users, process_reap(u)
  PROVE  Inv'
<1> DEFINE gone == Stack \cup {v \in Page : v >= HeapStart /\ v < pos[u]}
           left == [v \in Page |-> IF v \in gone THEN 0 ELSE map[u][v]]
<1>1. /\ TypeOK /\ state[u] = "dead" /\ UNCHANGED <<free, pos, executed>>
      /\ state' = [state EXCEPT ![u] = "reaped"] /\ map' = [map EXCEPT ![u] = left]
      /\ nx' = [nx EXCEPT ![u] = nx[u] \ gone]
  BY DEF Inv, IInv, HeapTracked, process_reap
<1>2. /\ pos[u] \in 0 .. MaxPage /\ pos[u] >= HeapStart /\ \A v \in Page : v \in Int
      /\ (pos[u] = HeapStart => map[u][HeapStart] # 0)
      /\ \A v \in Page : v > HeapStart /\ v >= pos[u] /\ v \notin Stack => map[u][v] = 0
  <2>1. pos[u] >= HeapStart /\ (pos[u] = HeapStart => map[u][HeapStart] # 0)
    BY <1>1 DEF Inv, IInv
  <2>2. \A v \in Page : v > HeapStart /\ v >= pos[u] /\ v \notin Stack => map[u][v] = 0
    BY Zenon DEF Inv, IInv, HeapTracked, NothingAbovePosition
  <2>3. pos[u] \in 0 .. MaxPage /\ \A v \in Page : v \in Int
    BY <1>1, Numbers DEF TypeOK
  <2> QED BY <2>1, <2>2, <2>3, Zenon
<1>3. left \in [Page -> Frame \cup {0}]
  BY <1>1 DEF TypeOK
<1>4. ASSUME NEW v \in Page
      PROVE  (v >= HeapStart /\ left[v] # 0) <=> (pos[u] = HeapStart /\ v = HeapStart)
  <2>1. left[v] # 0 <=> v \notin Stack /\ ~(v >= HeapStart /\ v < pos[u]) /\ map[u][v] # 0
    OBVIOUS
  <2> HIDE DEF left, gone
  <2> QED BY <1>2, <2>1, Constants
<1>5. \A v \in Page : left[v] \in {0, map[u][v]}
  OBVIOUS
<1> HIDE DEF left, gone
<1>6. /\ map'[u] = left /\ state'[u] = "reaped" /\ nx'[u] \subseteq nx[u]
      /\ \A t \in Users \ {u} : map'[t] = map[t] /\ state'[t] = state[t] /\ nx'[t] = nx[t]
  BY <1>1 DEF TypeOK
<1>7. TypeOK'
  <2>1. nx[u] \ gone \in SUBSET Page
    BY <1>1 DEF TypeOK
  <2> QED BY <1>1, <1>3, <2>1 DEF TypeOK
<1>8. ReapUnmaps'
  <2>1. {v \in Page : v >= HeapStart /\ left[v] # 0} = IF pos[u] = HeapStart THEN {HeapStart} ELSE {}
    <3>1. CASE pos[u] = HeapStart
      BY <1>4, <3>1, Constants, Zenon
    <3>2. CASE pos[u] # HeapStart
      BY <1>4, <3>2, Zenon
    <3> QED BY <3>1, <3>2
  <2> QED BY <1>1, <1>6, <2>1 DEF Inv, IInv, HeapTracked, ReapUnmaps
<1>9. NothingAbovePosition'
  BY <1>1, <1>5, <1>6 DEF Inv, IInv, HeapTracked, NothingAbovePosition
<1>10. IInv'
  <2>1. \A t \in Users : state'[t] = "none" =>
          pos'[t] = 0 /\ nx'[t] = {} /\ executed'[t] = {} /\ \A v \in Page : map'[t][v] = 0
    BY <1>1, <1>6 DEF Inv, IInv
  <2>2. \A t \in Users : state'[t] # "none" =>
          pos'[t] >= HeapStart /\ (pos'[t] = HeapStart => map'[t][HeapStart] # 0)
    <3>1. pos[u] = HeapStart => left[HeapStart] # 0
      BY <1>4, Constants
    <3> QED BY <1>1, <1>2, <1>6, <3>1 DEF Inv, IInv
  <2>3. \A t \in Users, v \in Page : /\ v \in nx'[t] \cup executed'[t] => v < pos'[t]
                                     /\ ~(v \in nx'[t] /\ v \in executed'[t])
    <3>1. \A t \in Users : nx'[t] \subseteq nx[t] /\ executed'[t] = executed[t] /\ pos'[t] = pos[t]
      BY <1>1, <1>6, Zenon
    <3> QED BY <3>1, Zenon DEF Inv, IInv
  <2> QED BY <1>7, <1>8, <1>9, <2>1, <2>2, <2>3, Zenon DEF IInv, HeapTracked
<1>11. KeptApart'
  <2>1. 0 \notin Ram
    BY Numbers, Zenon
  <2>2. \A t \in Users, x \in Page : map'[t][x] \in {0, map[t][x]}
    BY <1>5, <1>6, Zenon
  <2> QED BY <1>1, <2>1, <2>2 DEF Inv, KeptApart
<1>12. LossTracked'
  BY <1>6, Zenon DEF LossTracked
<1> QED BY <1>10, <1>11, <1>12, Zenon DEF Inv

-----------------------------------------------------------------------------
LEMMA InitHolds == Init => Inv
<1> SUFFICES ASSUME Init PROVE Inv
  OBVIOUS
<1>1. TypeOK
  BY Numbers, Constants DEF Init, TypeOK
<1>2. NothingAbovePosition /\ ReapUnmaps
  BY DEF Init, NothingAbovePosition, ReapUnmaps
<1>3. KeptApart
  BY Numbers DEF Init, KeptApart
<1>4. LossTracked
  <2>1. Lost = {}
    BY DEF Init, Lost
  <2>2. Replaced = {} /\ Executed = {}
    <3>1. \A v \in {HeapStart} \cup Stack : v \in Int /\ ~(v < 0)
      BY Constants, Numbers
    <3>2. \A q \in Users \X ({HeapStart} \cup Stack) : q[1] \in Users /\ q[2] \in {HeapStart} \cup Stack
      BY Zenon
    <3>3. Replaced = {}
      <4>1. \A q \in Users \X ({HeapStart} \cup Stack) : pos[q[1]] = 0
        BY <3>2 DEF Init
      <4> QED BY <3>1, <3>2, <4>1, Zenon DEF Replaced
    <3>4. Executed = {}
      BY DEF Init, Executed
    <3> QED BY <3>3, <3>4
  <2> QED BY <2>1, <2>2, FS_EmptySet DEF LossTracked
<1>5. IInv
  BY <1>1, <1>2 DEF IInv, HeapTracked, Init
<1> QED BY <1>3, <1>4, <1>5, Zenon DEF Inv

LEMMA StepKeeps == Inv /\ [Next]_vars => Inv'
<1> SUFFICES ASSUME Inv, [Next]_vars PROVE Inv'
  OBVIOUS
<1>1. CASE UNCHANGED vars
  <2>1. IInv'
    <3>1. HeapTracked'
      BY <1>1, Zenon DEF vars, Inv, IInv, HeapTracked, TypeOK, NothingAbovePosition, ReapUnmaps
    <3> QED BY <1>1, <3>1 DEF vars, Inv, IInv
  <2>2. KeptApart'
    BY <1>1 DEF vars, Inv, KeptApart
  <2>3. LossTracked'
    <3>1. Lost' = Lost /\ Replaced' = Replaced /\ Executed' = Executed /\ state' = state
      BY <1>1, Zenon DEF vars, Lost, Mapped, Replaced, Executed
    <3> QED BY <3>1, Zenon DEF Inv, LossTracked
  <2> QED BY <2>1, <2>2, <2>3, Zenon DEF Inv
<1>2. ASSUME NEW u \in Users,
             \/ process_spawn_elf(u) \/ process_exit(u) \/ process_reap(u)
             \/ \E v \in Page : vmm_pagefault(u, v)
      PROVE  Inv'
  BY <1>2, SpawnKeeps, ExitKeeps, ReapKeeps, FaultKeeps, Zenon
<1>3. ASSUME NEW u \in Users, NEW n \in 1 .. MaxPages,
             \/ MmapAnonymous(u, n) \/ MmapDevice(u, n)
             \/ \E a \in Page : a + n <= MaxPage /\ syscall_unmap(u, a, n)
      PROVE  Inv'
  <2>1. n \in Nat /\ n <= MaxPages
    BY Constants
  <2> QED BY <1>3, <2>1, MmapKeeps, DeviceKeeps, UnmapKeeps, Zenon
<1> QED BY <1>1, <1>2, <1>3, Zenon DEF Next

\* The heap position tells what is mapped, for any number of processes, pages and
\* frames, through panics in the middle of syscall_mmap, syscall_unmap and
\* vmm_pagefault, and when the heap grows into the stack and beyond it.  What
\* process_reap leaves of the stack and the heap is the first heap page of a process
\* whose heap position never moved, and nothing else.
THEOREM HeapStaysTracked == Spec => []HeapTracked
<1>1. Inv => HeapTracked
  BY DEF Inv, IInv
<1> QED BY <1>1, InitHolds, StepKeeps, PTL DEF Spec

\* A frame of RAM that one process reaches is not free, not reached by another,
\* and mapped once: spawn, mmap, munmap, page fault, exit and reap in any order, for
\* any number of processes, also when programs map more than the framebuffer has and
\* when they unmap it.
THEOREM MemoryStaysApart == Spec => []Apart
<1>1. Inv => Apart
  <2> SUFFICES ASSUME KeptApart PROVE Apart
    BY DEF Inv
  <2>1. ASSUME NEW u \in Users, NEW f \in Ram, Mapped(u, f) # {}
        PROVE  /\ f \notin free /\ Cardinality(Mapped(u, f)) = 1
               /\ \A t \in Users \ {u} : Mapped(t, f) = {}
    <3>1. PICK v \in Page : map[u][v] = f
      BY <2>1 DEF Mapped
    <3>2. f \notin free /\ \A t \in Users, x \in Page : map[t][x] = f => t = u /\ x = v
      BY <3>1 DEF KeptApart
    <3>3. Mapped(u, f) = {v}
      BY <3>1, <3>2 DEF Mapped
    <3>4. Cardinality({v}) = 1
      BY FS_EmptySet, FS_Singleton, Zenon
    <3> QED BY <3>2, <3>3, <3>4, Zenon DEF Mapped
  <2> QED BY <2>1, Zenon DEF Apart
<1> QED BY <1>1, InitHolds, StepKeeps, PTL DEF Spec

\* Until a process is reaped, no more frames are lost than syscall_mmap replaced
\* pages (the first of the heap, and those of the stack the heap has grown into) and
\* than processes tried to execute pages of the heap, each page once; for any number
\* of processes, pages and frames.
THEOREM LossIsBounded == Spec => []LossBounded
<1>1. Inv => LossBounded
  BY Zenon DEF Inv, LossTracked, LossBounded
<1> QED BY <1>1, InitHolds, StepKeeps, PTL DEF Spec
=============================================================================
