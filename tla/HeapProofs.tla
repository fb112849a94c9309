----------------------------- MODULE HeapProofs -----------------------------
(***************************************************************************)
(* The kernel heap hands out no memory twice and loses none, for every     *)
(* number of pages and frames and every set of request sizes, as long as   *)
(* kmain is not preempted between reading heap_head and taking the lock.   *)
(***************************************************************************)
EXTENDS Heap, TLAPS

-----------------------------------------------------------------------------
(* Induction over the naturals, stated with sets: the provers cannot       *)
(* instantiate the library's theorems, whose parameter is an operator.     *)

LOCAL INSTANCE WellFoundedInduction

\* A set of naturals that is not empty has a least member.
LEMMA LeastNatural ==
  ASSUME NEW T \in SUBSET Nat, T # {}
  PROVE  \E n \in T : \A k \in T : n <= k
<1> DEFINE R == OpToRel(<, Nat)
<1>1. IsWellFoundedOn(R, Nat)
  BY NatLessThanWellFounded, Zenon
<1>2. \A x, y \in Nat : x < y => <<x, y>> \in R
  BY Zenon DEF OpToRel
<1> HIDE DEF R
<1>3. PICK n \in T : \A k \in T : ~(<<k, n>> \in R)
  BY <1>1, WFMin, Zenon
<1>4. \A k \in T : ~(k < n)
  BY <1>2, <1>3, Zenon
<1> QED BY <1>3, <1>4

\* A set that has zero, and with a number the next one, has all the naturals.
LEMMA Inductive ==
  ASSUME NEW S, 0 \in S, \A n \in Nat : n \in S => n + 1 \in S
  PROVE  Nat \subseteq S
<1> SUFFICES ASSUME Nat \ S # {} PROVE FALSE
  BY Zenon
<1>1. PICK n \in Nat \ S : \A k \in Nat \ S : n <= k
  BY LeastNatural, Zenon
<1>2. n # 0 /\ n - 1 \in Nat /\ (n - 1) + 1 = n
  BY <1>1
<1>3. n - 1 \in S
  BY <1>1, <1>2
<1> QED BY <1>1, <1>2, <1>3, Zenon

\* A loop of n rounds keeps what its first state has and every round keeps.
LEMMA LoopInvariant ==
  ASSUME NEW n \in Nat, NEW m, NEW G, m[0] \in G[0],
         \A i \in 1 .. n : m[i - 1] \in G[i - 1] => m[i] \in G[i]
  PROVE  \A i \in 0 .. n : m[i] \in G[i]
<1> DEFINE Good == {i \in Nat : i <= n => m[i] \in G[i]}
<1>1. 0 \in Good
  BY Zenon
<1>2. ASSUME NEW i \in Nat, i \in Good PROVE i + 1 \in Good
  <2> SUFFICES ASSUME i + 1 <= n PROVE m[i + 1] \in G[i + 1]
    OBVIOUS
  <2>1. i + 1 \in 1 .. n /\ (i + 1) - 1 = i /\ m[i] \in G[i]
    BY <1>2
  <2> QED BY <2>1, Zenon
<1>3. Nat \subseteq Good
  <2> HIDE DEF Good
  <2> QED BY <1>1, <1>2, Inductive, Zenon
<1> QED BY <1>3

\* f holds the states of a loop of n rounds, from s on.
Rounds(n, S, s, step, f) ==
  f \in [0 .. n -> S] /\ f[0] = s /\ \A i \in 1 .. n : f[i] = step[i][f[i - 1]]

\* The states of a loop exist.
LEMMA LoopExists ==
  ASSUME NEW n \in Nat, NEW S, NEW s \in S, NEW step \in [1 .. n -> [S -> S]]
  PROVE  \E f : Rounds(n, S, s, step, f)
<1> DEFINE Upto(k, f) == f[0] = s /\ \A i \in 1 .. k : f[i] = step[i][f[i - 1]]
           Good == {k \in Nat : k <= n => \E f \in [0 .. k -> S] : Upto(k, f)}
<1>1. 0 \in Good
  <2>1. [i \in 0 .. 0 |-> s] \in [0 .. 0 -> S] /\ Upto(0, [i \in 0 .. 0 |-> s])
    OBVIOUS
  <2> HIDE DEF Upto
  <2> QED BY <2>1, Zenon
<1>2. ASSUME NEW k \in Nat, k \in Good PROVE k + 1 \in Good
  <2> SUFFICES ASSUME k + 1 <= n PROVE \E f \in [0 .. k + 1 -> S] : Upto(k + 1, f)
    OBVIOUS
  <2>1. PICK f \in [0 .. k -> S] : Upto(k, f)
    <3> HIDE DEF Upto
    <3> QED BY <1>2
  <2> DEFINE last == step[k + 1][f[k]]
             g == [i \in 0 .. k + 1 |-> IF i = k + 1 THEN last ELSE f[i]]
  <2>2. last \in S
    BY <2>1
  <2>3. last = step[k + 1][f[k]]
    BY Zenon
  <2> HIDE DEF last
  <2>4. g \in [0 .. k + 1 -> S]
    BY <2>1, <2>2
  <2>5. g[k + 1] = last /\ \A i \in 0 .. k : g[i] = f[i]
    OBVIOUS
  <2> HIDE DEF g
  <2>6. Upto(k + 1, g)
    <3>1. g[0] = s
      BY <2>1, <2>5
    <3>2. ASSUME NEW i \in 1 .. k + 1 PROVE g[i] = step[i][g[i - 1]]
      <4>1. CASE i = k + 1
        BY <2>3, <2>5, <4>1
      <4>2. CASE i \in 1 .. k
        <5>1. i - 1 \in 0 .. k /\ i \in 0 .. k
          BY <4>2
        <5> QED BY <2>1, <2>5, <4>2, <5>1, Zenon
      <4> QED BY <4>1, <4>2
    <3> QED BY <3>1, <3>2, Zenon
  <2> HIDE DEF Upto
  <2> QED BY <2>4, <2>6, Zenon
<1>3. Nat \subseteq Good
  <2> HIDE DEF Good
  <2> QED BY <1>1, <1>2, Inductive, Zenon
<1>4. n \in Good
  BY <1>3, Zenon
<1> QED BY <1>4 DEF Rounds

-----------------------------------------------------------------------------
\* The solver is given more time when it is slow to answer.
USE SMTT(10), SMTT(20), SMTT(40)

LEMMA Numbers ==
  /\ Units \in Nat /\ Frames \in Nat /\ PageUnits \in Nat \ {0} /\ ExpandPages \in Nat \ {0}
  /\ Unit \subseteq Nat /\ NULL \notin Nat /\ NULL \notin Unit /\ NULL \in Ptr /\ Unit \subseteq Ptr
  /\ \A u \in Unit : u < Units
  BY HeapAssumption DEF Units, Unit, NULL, Ptr

(***************************************************************************)
(* What n rounds of a loop establish.  Good is kept by every round, G[i]   *)
(* holds after i of them.                                                  *)
(***************************************************************************)
LEMMA LoopOK ==
  ASSUME NEW n \in Nat, NEW Good, NEW s \in Good, NEW round, NEW G,
         \A w \in Good : round[w] \in Good,
         s \in G[0],
         \A i \in 1 .. n, w \in Good : w \in G[i - 1] => round[w] \in G[i]
  PROVE  Loop(n, s, round) \in Good /\ Loop(n, s, round) \in G[n]
<1> DEFINE Eq(f) == f = [i \in 0 .. n |-> IF i = 0 THEN s ELSE round[f[i - 1]]]
           m == CHOOSE f : Eq(f)
           step == [i \in 1 .. n |-> [w \in Good |-> round[w]]]
<1>1. step \in [1 .. n -> [Good -> Good]]
  BY Zenon
<1>2. \A i \in 1 .. n, w \in Good : step[i][w] = round[w]
  BY Zenon
<1>3. Loop(n, s, round) = m[n]
  BY Zenon DEF Loop
<1> HIDE DEF step
<1>4. PICK f : Rounds(n, Good, s, step, f)
  BY <1>1, LoopExists, ZenonT(30)
<1>5. Eq(f)
  <2>1. \A i \in 1 .. n : i - 1 \in 0 .. n
    OBVIOUS
  <2>2. \A i \in 0 .. n : f[i] = IF i = 0 THEN s ELSE round[f[i - 1]]
    BY <1>2, <1>4, <2>1 DEF Rounds
  <2> QED BY <1>4, <2>2, Zenon DEF Rounds
<1>6. Eq(m)
  <2> HIDE DEF Eq
  <2> QED BY <1>5, Zenon
<1> HIDE DEF m
<1>7. m[0] = s /\ \A i \in 1 .. n : m[i] = round[m[i - 1]]
  <2>1. 0 \in 0 .. n /\ \A i \in 1 .. n : i \in 0 .. n /\ i # 0
    OBVIOUS
  <2> QED BY <1>6, <2>1, ZenonT(30)
<1> DEFINE H == [i \in 0 .. n |-> Good \cap G[i]]
<1>8. \A i \in 0 .. n : m[i] \in H[i]
  <2>1. m[0] \in H[0]
    BY <1>7
  <2>2. ASSUME NEW i \in 1 .. n, m[i - 1] \in H[i - 1] PROVE m[i] \in H[i]
    <3>1. m[i - 1] \in Good /\ m[i - 1] \in G[i - 1]
      BY <2>2
    <3> QED BY <1>7, <3>1
  <2> HIDE DEF H
  <2> QED BY <2>1, <2>2, LoopInvariant, Zenon
<1>9. m[n] \in Good \cap G[n]
  BY <1>8
<1> QED BY <1>3, <1>9, Zenon

-----------------------------------------------------------------------------
(* Walks over the free list. *)

\* The walk stands between two neighbours of the list.
Between(h, F, w) ==
  /\ w \in Walk
  /\ \/ w.prev = NULL /\ w.curr = h.head
     \/ w.prev \in F /\ w.curr = h.mem[w.prev].next

LEMMA BetweenOK ==
  ASSUME NEW h \in Heap_t, NEW F, Listed(h.head, NextsOf(h), F), NEW w, Between(h, F, w)
  PROVE  /\ w.curr # NULL => w.curr \in F /\ w.curr \in Unit
         /\ w.prev # NULL => w.prev \in F /\ w.prev \in Unit /\ h.mem[w.prev].next = w.curr
         /\ w.prev = NULL => w.curr = h.head
         /\ \A g \in F : (w.prev # NULL /\ g <= w.prev) \/ (w.curr # NULL /\ w.curr <= g)
         /\ w.prev # NULL /\ w.curr # NULL => w.prev < w.curr
<1>1. F \subseteq Unit /\ NULL \notin Unit
  BY Numbers, Zenon DEF Listed
<1>2. \A u \in F : NextsOf(h)[u] = h.mem[u].next
  BY <1>1, Zenon DEF NextsOf
<1>3. CASE w.prev = NULL /\ w.curr = h.head
  BY <1>1, <1>3, Zenon DEF Listed
<1>4. CASE w.prev \in F /\ w.curr = h.mem[w.prev].next
  BY <1>1, <1>2, <1>4, Zenon DEF Listed
<1> QED BY <1>3, <1>4, Zenon DEF Between

\* One step along the list.
LEMMA OnwardOK ==
  ASSUME NEW h \in Heap_t, NEW F, Listed(h.head, NextsOf(h), F), NEW w, Between(h, F, w),
         w.curr # NULL
  PROVE  /\ Between(h, F, Onward(h, w)) /\ Onward(h, w).prev = w.curr
         /\ Onward(h, w).curr # NULL => w.curr < Onward(h, w).curr
<1>1. w.curr \in F /\ w.curr \in Unit
  BY BetweenOK, Zenon
<1>2. h.mem[w.curr].next \in Ptr
  BY <1>1, Zenon DEF Heap_t, heap_block_t
<1>3. Between(h, F, Onward(h, w))
  BY <1>1, <1>2, Zenon DEF Between, Onward, Walk, Ptr
<1>4. Onward(h, w).prev = w.curr
  BY Zenon DEF Onward
<1> HIDE DEF Onward
<1>5. w.curr # NULL
  BY Zenon
<1> QED BY <1>3, <1>4, <1>5, BetweenOK, Zenon

\* The walk at the head of the list.
LEMMA HeadOK ==
  ASSUME NEW h \in Heap_t, NEW F
  PROVE  Between(h, F, [prev |-> NULL, curr |-> h.head])
  BY Numbers, Zenon DEF Between, Walk, Heap_t

\* kfree and heap_expand_pages find the last free block below a.
LEMMA BelowOK ==
  ASSUME NEW h \in Heap_t, NEW F, Listed(h.head, NextsOf(h), F), NEW a \in Nat
  PROVE  LET p == LastBelow(h, a)
         IN \/ p = NULL /\ \A g \in F : a <= g
            \/ p \in F /\ p < a /\ \A g \in F : g <= p \/ a <= g
<1> DEFINE s == [prev |-> NULL, curr |-> h.head]
           round == BelowRound(h, a)
           Good == {w \in Walk : Between(h, F, w) /\ (w.prev = NULL \/ w.prev < a)}
           G == [i \in 0 .. Units |-> {w \in Walk : Below(w, a) => i <= w.curr}]
<1>1. Units \in Nat /\ NULL \notin Nat /\ Unit \subseteq Nat /\ F \subseteq Unit
  BY Numbers, Zenon DEF Listed
<1>2. s \in Good
  BY HeadOK, Zenon DEF Between
<1>3. \A w \in Walk : round[w] = IF Below(w, a) THEN Onward(h, w) ELSE w
  BY Zenon DEF BelowRound
<1>4. s \in G[0]
  <2>1. Below(s, a) => s.curr \in Unit
    BY Zenon DEF Below, Heap_t, Ptr
  <2>2. s \in Walk
    BY <1>2, Zenon
  <2> HIDE DEF s
  <2>3. s.curr \in Unit => s.curr \in Nat
    BY <1>1, ZenonT(30)
  <2>4. Below(s, a) => 0 <= s.curr
    BY <2>1, <2>3
  <2> QED BY <1>1, <2>2, <2>4
<1> HIDE DEF round, s
<1>5. ASSUME NEW w \in Good PROVE round[w] \in Good
  <2>1. CASE Below(w, a)
    <3>1. Between(h, F, Onward(h, w)) /\ Onward(h, w).prev = w.curr
      BY <2>1, OnwardOK, Zenon DEF Below
    <3>2. Onward(h, w) \in Walk /\ (Onward(h, w).prev = NULL \/ Onward(h, w).prev < a)
      BY <2>1, <3>1, Zenon DEF Below, Between
    <3>3. round[w] = Onward(h, w)
      BY <1>3, <2>1, Zenon
    <3> QED BY <3>1, <3>2, <3>3
  <2>2. CASE ~Below(w, a)
    BY <1>3, <2>2
  <2> QED BY <2>1, <2>2, Zenon
<1>6. ASSUME NEW i \in 1 .. Units, NEW w \in Good, w \in G[i - 1] PROVE round[w] \in G[i]
  <2>1. Between(h, F, w) /\ w \in Walk /\ (Below(w, a) => i - 1 <= w.curr)
    BY <1>1, <1>6
  <2>2. CASE Below(w, a)
    <3> DEFINE x == Onward(h, w)
    <3>1. w.curr # NULL /\ w.curr \in Nat
      BY <1>1, <2>1, <2>2, BetweenOK, ZenonT(30) DEF Below
    <3>2. Between(h, F, x) /\ (x.curr # NULL => w.curr < x.curr)
      BY <2>1, <3>1, OnwardOK, Zenon
    <3>3. x.curr # NULL => x.curr \in Nat
      BY <1>1, <3>2, BetweenOK, ZenonT(30)
    <3> HIDE DEF x
    <3>4. Below(x, a) => i <= x.curr
      BY <2>1, <2>2, <3>1, <3>2, <3>3 DEF Below
    <3>5. x \in Walk
      BY <3>2, Zenon DEF Between
    <3> QED BY <1>3, <2>1, <2>2, <3>4, <3>5 DEF x
  <2>3. CASE ~Below(w, a)
    BY <1>3, <2>1, <2>3
  <2> QED BY <2>2, <2>3, Zenon
<1>7. Loop(Units, s, round) \in Good /\ Loop(Units, s, round) \in G[Units]
  <2> HIDE DEF Good, G
  <2> QED BY <1>1, <1>2, <1>4, <1>5, <1>6, LoopOK, Zenon
<1> DEFINE w == Loop(Units, s, round)
<1>8. LastBelow(h, a) = w.prev
  BY Zenon DEF LastBelow, s, round
<1>9. Between(h, F, w) /\ (w.prev = NULL \/ w.prev < a) /\ (Below(w, a) => Units <= w.curr)
  BY <1>1, <1>7
<1> HIDE DEF w
<1>10. ~Below(w, a)
  <2>1. Below(w, a) => w.curr \in Unit
    BY <1>9, BetweenOK, Zenon DEF Below
  <2>2. w.curr \in Unit => w.curr \in Nat /\ w.curr < Units
    BY Numbers, ZenonT(30)
  <2> QED BY <1>1, <1>9, <2>1, <2>2
<1>11. /\ w.curr # NULL => w.curr \in Nat /\ a <= w.curr
       /\ w.prev # NULL => w.prev \in F /\ w.prev \in Nat
       /\ \A g \in F : (w.prev # NULL /\ g <= w.prev) \/ (w.curr # NULL /\ w.curr <= g)
  <2>1. /\ w.curr # NULL => w.curr \in Nat
        /\ w.prev # NULL => w.prev \in F /\ w.prev \in Nat
        /\ \A g \in F : (w.prev # NULL /\ g <= w.prev) \/ (w.curr # NULL /\ w.curr <= g)
    BY <1>1, <1>9, BetweenOK, ZenonT(30)
  <2> QED BY <1>10, <2>1 DEF Below
<1>12. \A g \in F : g \in Nat
  BY <1>1, Zenon
<1> QED BY <1>8, <1>9, <1>11, <1>12

\* The walk of kmalloc ends at the first free block that is large enough, or at
\* the end of the list.
LEMMA FitOK ==
  ASSUME NEW h \in Heap_t, NEW F, Listed(h.head, NextsOf(h), F), NEW total \in Nat
  PROVE  LET f == FirstFit(h, h.head, total) IN Between(h, F, f) /\ Fits(h, f, total)
<1> DEFINE s == [prev |-> NULL, curr |-> h.head]
           round == FitRound(h, total)
           Good == {w \in Walk : Between(h, F, w)}
           G == [i \in 0 .. Units |-> {w \in Walk : Fits(h, w, total) \/ i <= w.curr}]
<1>1. Units \in Nat /\ NULL \notin Nat /\ Unit \subseteq Nat /\ F \subseteq Unit
  BY Numbers, Zenon DEF Listed
<1>2. s \in Good
  BY HeadOK, Zenon DEF Between
<1>3. \A w \in Walk : round[w] = IF Fits(h, w, total) THEN w ELSE Onward(h, w)
  BY Zenon DEF FitRound
<1>4. s \in G[0]
  <2>1. s.curr = NULL \/ s.curr \in Unit
    BY Zenon DEF Heap_t, Ptr
  <2>2. s \in Walk
    BY <1>2, Zenon
  <2> HIDE DEF s
  <2>3. s.curr \in Unit => s.curr \in Nat
    BY <1>1, ZenonT(30)
  <2>4. Fits(h, s, total) \/ 0 <= s.curr
    BY <2>1, <2>3 DEF Fits
  <2> QED BY <1>1, <2>2, <2>4
<1> HIDE DEF round, s
<1>5. ASSUME NEW w \in Good PROVE round[w] \in Good
  <2>1. CASE ~Fits(h, w, total)
    <3>1. Between(h, F, Onward(h, w))
      BY <2>1, OnwardOK, Zenon DEF Fits
    <3>2. round[w] = Onward(h, w)
      BY <1>3, <2>1
    <3> QED BY <3>1, <3>2, Zenon DEF Between
  <2>2. CASE Fits(h, w, total)
    BY <1>3, <2>2
  <2> QED BY <2>1, <2>2, Zenon
<1>6. ASSUME NEW i \in 1 .. Units, NEW w \in Good, w \in G[i - 1] PROVE round[w] \in G[i]
  <2>1. Between(h, F, w) /\ w \in Walk /\ (Fits(h, w, total) \/ i - 1 <= w.curr)
    BY <1>1, <1>6
  <2>2. CASE ~Fits(h, w, total)
    <3> DEFINE x == Onward(h, w)
    <3>1. w.curr # NULL /\ w.curr \in Nat
      BY <1>1, <2>1, <2>2, BetweenOK, ZenonT(30) DEF Fits
    <3>2. Between(h, F, x) /\ (x.curr # NULL => w.curr < x.curr)
      BY <2>1, <3>1, OnwardOK, Zenon
    <3>3. x.curr # NULL => x.curr \in Nat
      BY <1>1, <3>2, BetweenOK, ZenonT(30)
    <3> HIDE DEF x
    <3>4. x.curr = NULL \/ i <= x.curr
      BY <2>1, <2>2, <3>1, <3>2, <3>3
    <3>5. x \in Walk /\ (Fits(h, x, total) \/ i <= x.curr)
      BY <3>2, <3>4, Zenon DEF Between, Fits
    <3>6. round[w] = x
      BY <1>3, <2>1, <2>2 DEF x
    <3> QED BY <3>5, <3>6
  <2>3. CASE Fits(h, w, total)
    BY <1>3, <2>1, <2>3
  <2> QED BY <2>2, <2>3, Zenon
<1>7. Loop(Units, s, round) \in Good /\ Loop(Units, s, round) \in G[Units]
  <2> HIDE DEF Good, G
  <2> QED BY <1>1, <1>2, <1>4, <1>5, <1>6, LoopOK, Zenon
<1> DEFINE w == Loop(Units, s, round)
<1>8. FirstFit(h, h.head, total) = w
  BY Zenon DEF FirstFit, s, round
<1>9. Between(h, F, w) /\ (Fits(h, w, total) \/ Units <= w.curr)
  BY <1>1, <1>7
<1> HIDE DEF w
<1>10. Fits(h, w, total)
  <2>1. w.curr # NULL => w.curr \in Unit
    BY <1>9, BetweenOK, Zenon
  <2>2. w.curr \in Unit => w.curr \in Nat /\ w.curr < Units
    BY Numbers, ZenonT(30)
  <2>3. w.curr # NULL => ~(Units <= w.curr)
    BY <1>1, <2>1, <2>2
  <2> QED BY <1>9, <2>3, Zenon DEF Fits
<1> QED BY <1>8, <1>9, <1>10

\* The blocks reached from heap_head are the listed ones.
LEMMA ReachedOK ==
  ASSUME heap \in Heap_t, NEW F, Listed(heap.head, NextsOf(heap), F)
  PROVE  Reached = F
<1> DEFINE s == {heap.head} \ {NULL}
           round == ReachRound
           Good == {S \in SUBSET F : s \subseteq S}
           G == [i \in 0 .. Units |-> {S \in SUBSET F : \A g \in F : g <= i => g \in S}]
           nx == NextsOf(heap)
<1>1. Units \in Nat /\ F \subseteq Unit /\ NULL \notin F
  BY Numbers, Zenon DEF Listed
<1>0. \A g \in F : g \in Nat
  BY <1>1, Numbers, Zenon
<1>2. /\ s \in Good
      /\ heap.head = NULL => F = {}
      /\ heap.head # NULL => s = {heap.head} /\ heap.head \in F /\ \A g \in F : heap.head <= g
  BY Zenon DEF Listed
<1>3. /\ \A u \in F : nx[u] = heap.mem[u].next
      /\ \A u \in F : IF nx[u] = NULL THEN \A g \in F : g <= u
                      ELSE nx[u] \in F /\ u < nx[u] /\ \A g \in F : g <= u \/ nx[u] <= g
  <2>1. \A u \in F : nx[u] = heap.mem[u].next
    BY <1>1, Zenon DEF NextsOf
  <2> HIDE DEF nx
  <2> QED BY <2>1, Zenon DEF Listed, nx
<1>4. \A S \in SUBSET F : round[S] = S \cup ({heap.mem[a].next : a \in S} \ {NULL})
  BY <1>1, Zenon DEF ReachRound
<1> HIDE DEF round, s, nx
<1>5. \A S \in SUBSET F : round[S] = S \cup ({nx[a] : a \in S} \ {NULL}) /\ round[S] \in SUBSET F
  BY <1>3, <1>4
<1>6. s \in G[0]
  <2>1. \A g \in F : g <= 0 => g \in s
    BY <1>0, <1>2
  <2> QED BY <1>1, <1>2, <2>1
<1>7. \A S \in Good : round[S] \in Good
  BY <1>5, Zenon
<1>8. ASSUME NEW i \in 1 .. Units, NEW S \in Good, S \in G[i - 1] PROVE round[S] \in G[i]
  <2>1. S \in SUBSET F /\ s \subseteq S /\ \A g \in F : g <= i - 1 => g \in S
    BY <1>1, <1>8
  <2>2. ASSUME i \in F PROVE i \in round[S]
    <3> DEFINE p == LastBelow(heap, i)
    <3>1. \/ p = NULL /\ \A g \in F : i <= g
          \/ p \in F /\ p < i /\ \A g \in F : g <= p \/ i <= g
      <4>1. i \in Nat
        OBVIOUS
      <4> QED BY <4>1, BelowOK
    <3> HIDE DEF p
    <3>2. CASE p = NULL /\ \A g \in F : i <= g
      <4>1. heap.head = i
        <5>1. heap.head \in F /\ heap.head <= i /\ i <= heap.head
          BY <1>2, <2>2, <3>2, ZenonT(30)
        <5>2. heap.head \in Nat
          BY <1>0, <5>1
        <5> QED BY <5>1, <5>2
      <4> QED BY <1>2, <1>5, <2>1, <2>2, <4>1
    <3>3. CASE p \in F /\ p < i /\ \A g \in F : g <= p \/ i <= g
      <4>1. p \in Nat /\ p <= i - 1
        BY <1>0, <3>3
      <4>2. p \in S
        BY <2>1, <3>3, <4>1
      <4>3. nx[p] = i
        <5>1. nx[p] # NULL
          BY <1>3, <2>2, <3>3, <4>1
        <5>2. nx[p] \in F /\ p < nx[p] /\ nx[p] <= i
          BY <1>0, <1>3, <2>2, <3>3, <4>1, <5>1
        <5>3. nx[p] \in Nat
          BY <1>0, <5>2
        <5>4. nx[p] <= p \/ i <= nx[p]
          BY <3>3, <5>2
        <5> QED BY <4>1, <5>2, <5>3, <5>4
      <4>4. i # NULL
        BY <1>1, <2>2
      <4> QED BY <1>5, <2>1, <4>2, <4>3, <4>4
    <3> QED BY <3>1, <3>2, <3>3
  <2>3. \A g \in F : g <= i => g \in round[S]
    <3> SUFFICES ASSUME NEW g \in F, g <= i PROVE g \in round[S]
      BY Zenon
    <3>1. g \in Nat
      BY <1>0, Zenon
    <3>2. CASE g = i
      BY <2>2, <3>2
    <3>3. CASE g # i
      <4>1. g <= i - 1
        BY <3>1, <3>3
      <4> QED BY <1>5, <2>1, <4>1
    <3> QED BY <3>2, <3>3
  <2> QED BY <1>5, <2>1, <2>3
<1>9. Loop(Units, s, round) \in Good /\ Loop(Units, s, round) \in G[Units]
  <2> HIDE DEF Good, G
  <2> QED BY <1>1, <1>2, <1>6, <1>7, <1>8, LoopOK, Zenon
<1> DEFINE S == Loop(Units, s, round)
<1>10. Reached = S
  BY Zenon DEF Reached, s, round
<1>11. S \in SUBSET F /\ \A g \in F : g <= Units => g \in S
  BY <1>1, <1>9
<1> HIDE DEF S
<1>12. \A g \in F : g <= Units
  <2>1. \A u \in Unit : u < Units /\ u \in Nat
    BY Numbers, Zenon
  <2> QED BY <1>1, <2>1
<1> QED BY <1>10, <1>11, <1>12

-----------------------------------------------------------------------------
(* Changes to the list. *)

\* A block is linked in behind the last one below it.
LEMMA ListInsert ==
  ASSUME NEW hd, NEW nx, NEW F, Listed(hd, nx, F), NEW a \in Unit, a \notin F, NEW p, NEW mx,
         \/ p = NULL /\ \A g \in F : a <= g
         \/ p \in F /\ p < a /\ \A g \in F : g <= p \/ a <= g,
         \A u \in F : u # p => mx[u] = nx[u],
         mx[a] = IF p = NULL THEN hd ELSE nx[p],
         p # NULL => mx[p] = a
  PROVE  Listed(IF p = NULL THEN a ELSE hd, mx, F \cup {a})
<1>1. F \subseteq Unit /\ a # NULL /\ NULL \notin F
  BY Numbers, Zenon DEF Listed
<1>2. a \in Nat /\ \A g \in F : g \in Nat
  BY <1>1, Numbers
<1>3. /\ hd = NULL => F = {}
      /\ hd # NULL => hd \in F /\ \A g \in F : hd <= g
      /\ \A u \in F : nx[u] = NULL => \A g \in F : g <= u
      /\ \A u \in F : nx[u] # NULL => nx[u] \in F /\ u < nx[u] /\ \A g \in F : g <= u \/ nx[u] <= g
  BY Zenon DEF Listed
<1> DEFINE hd2 == IF p = NULL THEN a ELSE hd
           E == F \cup {a}
<1>4. hd2 # NULL /\ hd2 \in E /\ \A g \in E : hd2 <= g
  <2>1. CASE p = NULL
    BY <1>1, <1>2, <2>1
  <2>2. CASE p # NULL
    <3>1. p \in F /\ p < a /\ hd # NULL
      BY <1>3, <2>2
    <3>2. hd \in F /\ hd <= p /\ \A g \in F : hd <= g
      BY <1>3, <3>1, Zenon
    <3>3. hd <= a
      BY <1>2, <3>1, <3>2
    <3> QED BY <2>2, <3>1, <3>2, <3>3
  <2> QED BY <2>1, <2>2, Zenon
<1>5. ASSUME NEW u \in F, u # p
      PROVE  IF mx[u] = NULL THEN \A g \in E : g <= u
             ELSE mx[u] \in E /\ u < mx[u] /\ \A g \in E : g <= u \/ mx[u] <= g
  <2>1. mx[u] = nx[u]
    BY <1>5, Zenon
  <2>2. CASE nx[u] = NULL
    <3>1. \A g \in F : g <= u
      BY <1>3, <2>2, Zenon
    <3>2. a <= u
      BY <1>2, <1>5, <3>1
    <3> QED BY <2>1, <2>2, <3>1, <3>2
  <2>3. CASE nx[u] # NULL
    <3>1. nx[u] \in F /\ u < nx[u] /\ \A g \in F : g <= u \/ nx[u] <= g
      BY <1>3, <2>3, Zenon
    <3>2. a <= u \/ nx[u] <= a
      <4>1. p = NULL => a <= u
        BY <1>1, Zenon
      <4>2. ASSUME p # NULL, u <= p PROVE nx[u] <= a
        <5>1. p \in F /\ p < a
          BY <4>2, Zenon
        <5>2. p <= u \/ nx[u] <= p
          BY <3>1, <5>1
        <5> QED BY <1>2, <1>5, <3>1, <4>2, <5>1, <5>2
      <4> QED BY <4>1, <4>2
    <3> QED BY <2>1, <2>3, <3>1, <3>2, Zenon
  <2> QED BY <2>2, <2>3, Zenon
<1>6. ASSUME p # NULL
      PROVE  mx[p] # NULL /\ mx[p] \in E /\ p < mx[p] /\ \A g \in E : g <= p \/ mx[p] <= g
  BY <1>1, <1>2, <1>6
<1>7. IF mx[a] = NULL THEN \A g \in E : g <= a
      ELSE mx[a] \in E /\ a < mx[a] /\ \A g \in E : g <= a \/ mx[a] <= g
  <2>1. CASE p = NULL
    <3>1. mx[a] = hd /\ \A g \in F : a <= g
      BY <1>1, <2>1
    <3>2. hd # NULL => hd \in F /\ a < hd
      BY <1>2, <1>3, <3>1
    <3> QED BY <1>2, <1>3, <3>1, <3>2
  <2>2. CASE p # NULL
    <3>1. mx[a] = nx[p] /\ p \in F /\ p < a /\ \A g \in F : g <= p \/ a <= g
      BY <2>2, Zenon
    <3>2. CASE nx[p] = NULL
      <4>1. \A g \in F : g <= p
        BY <1>3, <3>1, <3>2, Zenon
      <4>2. \A g \in F : g <= a
        BY <1>2, <3>1, <4>1
      <4> QED BY <1>2, <3>1, <3>2, <4>2
    <3>3. CASE nx[p] # NULL
      <4>1. nx[p] \in F /\ p < nx[p] /\ \A g \in F : g <= p \/ nx[p] <= g
        BY <1>3, <3>1, <3>3, Zenon
      <4>2. a < nx[p]
        <5>1. nx[p] \in Nat /\ p \in Nat /\ nx[p] # a
          BY <1>2, <3>1, <4>1, Zenon
        <5>2. nx[p] <= p \/ a <= nx[p]
          BY <3>1, <4>1, Zenon
        <5> QED BY <1>2, <4>1, <5>1, <5>2
      <4>3. \A g \in F : g <= a \/ nx[p] <= g
        BY <1>2, <3>1, <4>1
      <4> QED BY <1>2, <3>1, <3>3, <4>1, <4>2, <4>3
    <3> QED BY <3>2, <3>3, Zenon
  <2> QED BY <2>1, <2>2, Zenon
<1>8. E \subseteq Unit
  BY <1>1, Zenon
<1>9. \A u \in E : IF mx[u] = NULL THEN \A g \in E : g <= u
                   ELSE mx[u] \in E /\ u < mx[u] /\ \A g \in E : g <= u \/ mx[u] <= g
  <2> HIDE DEF E
  <2>1. \A u \in E : u \in F \/ u = a
    BY Zenon DEF E
  <2> QED BY <1>1, <1>5, <1>6, <1>7, <2>1
<1> HIDE DEF E, hd2
<1>10. Listed(hd2, mx, E)
  BY <1>4, <1>8, <1>9, Zenon DEF Listed
<1> QED BY <1>10, Zenon DEF E, hd2

\* A block is unlinked from the one before it.
LEMMA ListRemove ==
  ASSUME NEW hd, NEW nx, NEW F, Listed(hd, nx, F), NEW p \in F, NEW b \in F, nx[p] = b,
         NEW mx, mx[p] = nx[b], \A u \in F \ {p, b} : mx[u] = nx[u]
  PROVE  Listed(hd, mx, F \ {b})
<1>1. F \subseteq Unit /\ NULL \notin F
  BY Numbers, Zenon DEF Listed
<1>2. \A g \in F : g \in Nat
  BY <1>1, Numbers
<1>3. /\ hd # NULL /\ hd \in F /\ \A g \in F : hd <= g
      /\ \A u \in F : nx[u] = NULL => \A g \in F : g <= u
      /\ \A u \in F : nx[u] # NULL => nx[u] \in F /\ u < nx[u] /\ \A g \in F : g <= u \/ nx[u] <= g
  BY Zenon DEF Listed
<1>4. p < b /\ \A g \in F : g <= p \/ b <= g
  BY <1>1, <1>3
<1> DEFINE E == F \ {b}
<1>5. hd \in E
  <2>1. hd <= p
    BY <1>3, Zenon
  <2> QED BY <1>2, <1>3, <1>4, <2>1
<1>6. ASSUME NEW u \in E, u # p
      PROVE  IF mx[u] = NULL THEN \A g \in E : g <= u
             ELSE mx[u] \in E /\ u < mx[u] /\ \A g \in E : g <= u \/ mx[u] <= g
  <2>1. mx[u] = nx[u] /\ u \in F
    BY <1>6, Zenon
  <2>2. nx[u] # b
    <3> SUFFICES ASSUME nx[u] = b PROVE FALSE
      BY Zenon
    <3>1. u < b /\ (p <= u \/ b <= p)
      BY <1>1, <1>3, <2>1
    <3>2. u <= p
      BY <1>2, <1>4, <2>1, <3>1
    <3> QED BY <1>2, <1>4, <1>6, <2>1, <3>1, <3>2
  <2> QED BY <1>3, <2>1, <2>2, Zenon
<1>7. IF mx[p] = NULL THEN \A g \in E : g <= p
      ELSE mx[p] \in E /\ p < mx[p] /\ \A g \in E : g <= p \/ mx[p] <= g
  <2>1. CASE nx[b] = NULL
    <3>1. \A g \in F : g <= b
      BY <1>3, <2>1
    <3>2. \A g \in E : g <= p
      BY <1>2, <1>4, <3>1
    <3> QED BY <2>1, <3>2
  <2>2. CASE nx[b] # NULL
    <3>1. nx[b] \in F /\ b < nx[b] /\ \A g \in F : g <= b \/ nx[b] <= g
      BY <1>3, <2>2
    <3>2. p < nx[b] /\ nx[b] # b
      BY <1>2, <1>4, <3>1
    <3>3. \A g \in E : g <= p \/ nx[b] <= g
      BY <1>2, <1>4, <3>1
    <3> QED BY <2>2, <3>1, <3>2, <3>3
  <2> QED BY <2>1, <2>2, Zenon
<1>8. E \subseteq Unit /\ \A g \in E : hd <= g
  BY <1>1, <1>3
<1> HIDE DEF E
<1>9. Listed(hd, mx, E)
  BY <1>3, <1>5, <1>6, <1>7, <1>8 DEF Listed
<1> QED BY <1>9, Zenon DEF E

\* The first block is unlinked.
LEMMA ListRemoveHead ==
  ASSUME NEW nx, NEW F, NEW b \in F, Listed(b, nx, F), NEW mx, \A u \in F \ {b} : mx[u] = nx[u]
  PROVE  Listed(nx[b], mx, F \ {b})
<1>1. F \subseteq Unit /\ NULL \notin F
  BY Numbers DEF Listed
<1>2. \A g \in F : g \in Nat
  BY <1>1, Numbers
<1>3. /\ \A g \in F : b <= g
      /\ \A u \in F : nx[u] = NULL => \A g \in F : g <= u
      /\ \A u \in F : nx[u] # NULL => nx[u] \in F /\ u < nx[u] /\ \A g \in F : g <= u \/ nx[u] <= g
  BY <1>1, Zenon DEF Listed
<1> DEFINE E == F \ {b}
<1>4. nx[b] = NULL => E = {}
  BY <1>2, <1>3
<1>5. nx[b] # NULL => nx[b] \in E /\ \A g \in E : nx[b] <= g
  BY <1>2, <1>3
<1>6. \A u \in E : IF mx[u] = NULL THEN \A g \in E : g <= u
                   ELSE mx[u] \in E /\ u < mx[u] /\ \A g \in E : g <= u \/ mx[u] <= g
  <2> TAKE u \in E
  <2>1. mx[u] = nx[u] /\ u \in F
    BY Zenon
  <2>2. nx[u] # b
    <3>1. nx[u] # NULL => u < nx[u] /\ b <= u
      BY <1>3, <2>1
    <3> QED BY <1>1, <1>2, <2>1, <3>1
  <2> QED BY <1>3, <2>1, <2>2, Zenon
<1>7. E \subseteq Unit
  BY <1>1, Zenon
<1> HIDE DEF E
<1>8. Listed(nx[b], mx, E)
  BY <1>4, <1>5, <1>6, <1>7, Zenon DEF Listed
<1> QED BY <1>8, Zenon DEF E

-----------------------------------------------------------------------------
(* Writes to the list and to headers. *)

\* h2 is h with other headers and perhaps another head.
SameLimits(h, h2) == h2 \in Heap_t /\ h2.heap_size = h.heap_size /\ h2.frames = h.frames

\* A header is written; a block is cut in two.
Header(h, a, s, n) == [h EXCEPT !.mem[a] = [size |-> s, next |-> n]]

Cut(h, a, b, s, n, t) == [h EXCEPT !.mem[b] = [size |-> s, next |-> n], !.mem[a].size = t]

\* A header is written.
LEMMA WriteOK ==
  ASSUME NEW h \in Heap_t, NEW a \in Unit, NEW s \in Nat, NEW n \in Ptr
  PROVE  LET k == Header(h, a, s, n)
         IN /\ SameLimits(h, k) /\ k.head = h.head
            /\ k.mem[a].size = s /\ k.mem[a].next = n
            /\ \A u \in Unit : u # a => k.mem[u] = h.mem[u]
  BY Zenon DEF Header, Heap_t, heap_block_t, SameLimits

\* A block a is split: the rest b gets a header, the block a smaller size.
Divided(h, k, a, b, s, n, t) ==
  /\ SameLimits(h, k) /\ k.head = h.head
  /\ k.mem[b].size = s /\ k.mem[b].next = n
  /\ k.mem[a].size = t /\ k.mem[a].next = h.mem[a].next
  /\ \A u \in Unit : u # a /\ u # b => k.mem[u] = h.mem[u]

LEMMA SplitOK ==
  ASSUME NEW h \in Heap_t, NEW a \in Unit, NEW b \in Unit, a # b,
         NEW s \in Nat, NEW n \in Ptr, NEW t \in Nat
  PROVE  Divided(h, Cut(h, a, b, s, n, t), a, b, s, n, t)
  BY ZenonT(30) DEF Cut, Divided, Heap_t, heap_block_t, SameLimits

\* A link of the list is written.
LEMMA RelinkOK ==
  ASSUME NEW h \in Heap_t, NEW prev \in Ptr, NEW to \in Ptr
  PROVE  LET k == Relink(h, prev, to)
         IN /\ SameLimits(h, k)
            /\ prev = NULL => k.head = to
            /\ prev # NULL => k.head = h.head /\ k.mem[prev].next = to
            /\ \A u \in Unit : k.mem[u].size = h.mem[u].size
            /\ \A u \in Unit : u # prev => k.mem[u].next = h.mem[u].next
<1>1. CASE prev = NULL
  BY <1>1, Numbers DEF Relink, Heap_t, SameLimits
<1>2. CASE prev # NULL
  <2>1. prev \in Unit
    BY <1>2, Zenon DEF Ptr
  <2> QED BY <1>2, <2>1, Zenon DEF Relink, Heap_t, heap_block_t, SameLimits
<1> QED BY <1>1, <1>2, Zenon

-----------------------------------------------------------------------------
(* Changes to the tiling. *)

\* A block is split in two.
LEMMA TilesSplit ==
  ASSUME NEW sz, NEW T, NEW limit \in Nat, limit <= Units, Tiles(sz, T, limit),
         \A u \in T : sz[u] \in Nat,
         NEW c \in T, NEW t \in Nat, 0 < t, t < sz[c],
         NEW zz, zz[c] = t, zz[c + t] = sz[c] - t,
         \A u \in T : u # c => zz[u] = sz[u]
  PROVE  c + t \in Unit /\ c + t \notin T /\ Tiles(zz, T \cup {c + t}, limit)
<1>1. T \subseteq Unit /\ \A u \in T : u \in Nat
  BY Numbers, Zenon DEF Tiles
<1>2. /\ \A a \in T : sz[a] > 0 /\ a + sz[a] <= limit
      /\ \A a, b \in T : a < b => a + sz[a] <= b
      /\ \A u \in Unit : u < limit => \E a \in T : a <= u /\ u < a + sz[a]
  BY Zenon DEF Tiles
<1> DEFINE r == c + t
           E == T \cup {r}
<1>3. c \in Nat /\ sz[c] \in Nat /\ c + sz[c] <= limit
  BY <1>1, <1>2
<1>4. r \in Nat /\ c < r /\ r < c + sz[c] /\ zz[r] = sz[c] - t /\ r + zz[r] = c + sz[c]
  BY <1>3
<1>5. r \in Unit
  <2>1. r < Units
    BY <1>3, <1>4, Numbers
  <2> QED BY <1>4, <2>1, Numbers DEF Unit
<1>6. r \notin T
  <2> SUFFICES ASSUME r \in T PROVE FALSE
    BY Zenon
  <2>1. c + sz[c] <= r
    BY <1>2, <1>4, Zenon
  <2> QED BY <1>3, <1>4, <2>1
<1> HIDE DEF r
<1>7. \A a \in E : zz[a] > 0 /\ a + zz[a] <= limit
  <2>1. zz[c] > 0 /\ c + zz[c] <= limit
    BY <1>3
  <2>2. zz[r] > 0 /\ r + zz[r] <= limit
    BY <1>3, <1>4
  <2>3. \A a \in T : a # c => zz[a] > 0 /\ a + zz[a] <= limit
    BY <1>2
  <2> QED BY <2>1, <2>2, <2>3
<1>8. \A a, b \in E : a < b => a + zz[a] <= b
  <2>0. c + zz[c] = r
    BY Zenon DEF r
  <2>1. ASSUME NEW a \in T, NEW b \in T, a < b PROVE a + zz[a] <= b
    <3>1. a + sz[a] <= b
      BY <1>2, <2>1
    <3>2. CASE a = c
      BY <1>1, <1>3, <1>4, <2>0, <3>1, <3>2
    <3>3. CASE a # c
      BY <3>1, <3>3
    <3> QED BY <3>2, <3>3
  <2>2. ASSUME NEW b \in T, r < b PROVE r + zz[r] <= b
    <3>1. c < b
      BY <1>1, <1>3, <1>4, <2>2
    <3> QED BY <1>2, <1>4, <3>1, Zenon
  <2>3. ASSUME NEW a \in T, a < r PROVE a + zz[a] <= r
    <3>1. CASE a = c
      BY <1>3, <1>4, <2>0, <3>1
    <3>2. CASE a # c
      <4>1. a \in Nat /\ sz[a] \in Nat /\ zz[a] = sz[a]
        BY <1>1, <3>2
      <4>2. c < a => c + sz[c] <= a
        BY <1>2
      <4>3. a < c
        BY <1>3, <1>4, <2>3, <3>2, <4>1, <4>2
      <4>4. a + sz[a] <= c
        BY <1>2, <4>3
      <4> QED BY <1>3, <1>4, <4>1, <4>4
    <3> QED BY <3>1, <3>2
  <2>4. ~(r < r)
    BY <1>4
  <2> QED BY <2>1, <2>2, <2>3, <2>4
<1>9. ASSUME NEW u \in Unit, u < limit PROVE \E a \in E : a <= u /\ u < a + zz[a]
  <2>1. PICK a \in T : a <= u /\ u < a + sz[a]
    BY <1>2, <1>9
  <2>2. CASE a # c
    BY <2>1, <2>2
  <2>3. CASE a = c
    <3>1. u \in Nat
      BY Numbers
    <3>2. c + zz[c] = r
      BY Zenon DEF r
    <3>3. u < r \/ r <= u
      BY <1>4, <3>1
    <3>4. u < r + zz[r]
      BY <1>4, <2>1, <2>3, Zenon
    <3> QED BY <2>1, <2>3, <3>2, <3>3, <3>4
  <2> QED BY <2>2, <2>3
<1>10. E \subseteq Unit
  BY <1>1, <1>5
<1>11. Tiles(zz, E, limit)
  <2> HIDE DEF E
  <2> QED BY <1>7, <1>8, <1>9, <1>10, Zenon DEF Tiles
<1> QED BY <1>5, <1>6, <1>11 DEF r

\* Two blocks that touch become one.
LEMMA TilesJoin ==
  ASSUME NEW sz, NEW T, NEW limit \in Nat, Tiles(sz, T, limit),
         \A u \in T : sz[u] \in Nat,
         NEW p \in T, NEW b \in T, p + sz[p] = b,
         NEW zz, zz[p] = sz[p] + sz[b],
         \A u \in T \ {p, b} : zz[u] = sz[u]
  PROVE  Tiles(zz, T \ {b}, limit)
<1>1. T \subseteq Unit /\ \A u \in T : u \in Nat
  BY Numbers DEF Tiles
<1>2. /\ \A a \in T : sz[a] > 0 /\ a + sz[a] <= limit
      /\ \A a, c \in T : a < c => a + sz[a] <= c
      /\ \A u \in Unit : u < limit => \E a \in T : a <= u /\ u < a + sz[a]
  BY Zenon DEF Tiles
<1> DEFINE E == T \ {b}
<1>3. p \in Nat /\ b \in Nat /\ sz[p] \in Nat /\ sz[b] \in Nat /\ sz[p] > 0 /\ sz[b] > 0
  BY <1>1, <1>2
<1>4. p < b /\ p + zz[p] = b + sz[b] /\ zz[p] \in Nat /\ zz[p] > 0
  BY <1>3
<1>5. \A a \in E : zz[a] > 0 /\ a + zz[a] <= limit
  <2>1. b + sz[b] <= limit
    BY <1>2, Zenon
  <2>2. \A a \in E : a # p => zz[a] > 0 /\ a + zz[a] <= limit
    BY <1>2
  <2> QED BY <1>4, <2>1, <2>2
<1>6. ASSUME NEW a \in E, NEW c \in E, a < c PROVE a + zz[a] <= c
  <2>1. CASE a = p
    <3>1. c \in Nat /\ c # b /\ p + sz[p] <= c
      BY <1>1, <1>2, <1>6, <2>1
    <3>2. b < c
      BY <1>3, <3>1
    <3>3. b + sz[b] <= c
      BY <1>2, <3>2
    <3> QED BY <1>4, <2>1, <3>3
  <2>2. CASE a # p
    BY <1>2, <1>6, <2>2
  <2> QED BY <2>1, <2>2
<1>7. ASSUME NEW u \in Unit, u < limit PROVE \E a \in E : a <= u /\ u < a + zz[a]
  <2>1. PICK a \in T : a <= u /\ u < a + sz[a]
    BY <1>2, <1>7
  <2>2. CASE a # p /\ a # b
    BY <2>1, <2>2
  <2>3. CASE a = p \/ a = b
    <3>1. u \in Nat
      BY Numbers
    <3>2. p <= u /\ u < p + zz[p]
      BY <1>3, <1>4, <2>1, <2>3, <3>1
    <3>3. p \in E
      BY <1>3, <1>4
    <3> QED BY <3>2, <3>3
  <2> QED BY <2>2, <2>3
<1>8. E \subseteq Unit
  BY <1>1
<1> HIDE DEF E
<1>9. Tiles(zz, E, limit)
  BY <1>5, <1>6, <1>7, <1>8, Zenon DEF Tiles
<1> QED BY <1>9 DEF E

\* The heap grows by a block at its end.
LEMMA TilesGrow ==
  ASSUME NEW sz, NEW T, NEW limit \in Nat, NEW k \in Nat, 0 < k, limit + k <= Units,
         Tiles(sz, T, limit), \A u \in T : sz[u] \in Nat,
         NEW zz, zz[limit] = k, \A u \in T : zz[u] = sz[u]
  PROVE  limit \in Unit /\ limit \notin T /\ Tiles(zz, T \cup {limit}, limit + k)
<1>1. T \subseteq Unit /\ \A u \in T : u \in Nat
  BY Numbers DEF Tiles
<1>2. /\ \A a \in T : sz[a] > 0 /\ a + sz[a] <= limit
      /\ \A a, b \in T : a < b => a + sz[a] <= b
      /\ \A u \in Unit : u < limit => \E a \in T : a <= u /\ u < a + sz[a]
  BY Zenon DEF Tiles
<1> DEFINE E == T \cup {limit}
<1>3. limit \in Unit
  BY Numbers DEF Unit
<1>4. \A a \in T : a < limit /\ a + zz[a] <= limit /\ zz[a] > 0
  BY <1>1, <1>2
<1>5. limit \notin T
  BY <1>4
<1>6. \A a \in E : zz[a] > 0 /\ a + zz[a] <= limit + k
  <2>1. \A a \in T : a + zz[a] <= limit + k
    <3> TAKE a \in T
    <3>1. a \in Nat /\ zz[a] \in Nat /\ a + zz[a] <= limit
      BY <1>1, <1>4
    <3> QED BY <3>1
  <2> QED BY <1>4, <2>1
<1>7. \A a, b \in E : a < b => a + zz[a] <= b
  <2>1. \A b \in E : ~(limit < b)
    BY <1>1, <1>4
  <2> QED BY <1>2, <1>4, <2>1
<1>8. ASSUME NEW u \in Unit, u < limit + k PROVE \E a \in E : a <= u /\ u < a + zz[a]
  <2>1. u \in Nat
    BY Numbers
  <2>2. CASE u < limit
    BY <1>2, <2>2
  <2>3. CASE limit <= u
    BY <1>8, <2>3
  <2> QED BY <2>1, <2>2, <2>3
<1>9. E \subseteq Unit
  BY <1>1, <1>3
<1> HIDE DEF E
<1>10. Tiles(zz, E, limit + k)
  BY <1>6, <1>7, <1>8, <1>9, Zenon DEF Tiles
<1> QED BY <1>3, <1>5, <1>10 DEF E

-----------------------------------------------------------------------------
(* The operations on the list keep the heap in order. *)

LEMMA Fields ==
  ASSUME NEW h \in Heap_t
  PROVE  /\ \A u \in Unit : SizesOf(h)[u] = h.mem[u].size /\ h.mem[u].size \in Nat
         /\ \A u \in Unit : NextsOf(h)[u] = h.mem[u].next /\ h.mem[u].next \in Ptr
         /\ h.head \in Ptr /\ h.heap_size \in Nat /\ h.frames \in Nat
  BY Zenon DEF SizesOf, NextsOf, Heap_t, heap_block_t

\* kmalloc takes a whole block, or the first part of a larger one.
LEMMA TakeOK ==
  ASSUME NEW h \in Heap_t, h.heap_size <= Units, NEW F, NEW U, Parted(h, F, U),
         NEW w, Between(h, F, w), w.curr # NULL,
         NEW total \in Nat, 0 < total, h.mem[w.curr].size >= total
  PROVE  LET k == Take(h, w.prev, w.curr, total)
         IN /\ SameLimits(h, k) /\ Ordered(k, U \cup {w.curr}) /\ w.curr \in Unit \ U
            /\ k.mem[w.curr].size = total
            /\ \A u \in U : k.mem[u].size = h.mem[u].size
<1> DEFINE c == w.curr
           p == w.prev
           k == Take(h, p, c, total)
           nx == NextsOf(h)
           sz == SizesOf(h)
           mx == NextsOf(k)
           zz == SizesOf(k)
           r == c + total
<1>1. /\ Listed(h.head, nx, F) /\ Sparse(sz, F) /\ F \cap U = {}
      /\ Tiles(sz, F \cup U, h.heap_size) /\ F \subseteq Unit /\ U \subseteq Unit
  BY Zenon DEF Parted, Listed, Tiles
<1>2. /\ c \in F /\ c \in Unit
      /\ p # NULL => p \in F /\ p \in Unit /\ h.mem[p].next = c /\ p < c
      /\ p = NULL => h.head = c
      /\ \A g \in F : (p # NULL /\ g <= p) \/ c <= g
      /\ p \in Ptr
  <2>1. p \in Ptr
    BY Zenon DEF Between, Walk
  <2> QED BY <1>1, <2>1, BetweenOK
<1>3. /\ \A u \in Unit : sz[u] = h.mem[u].size /\ h.mem[u].size \in Nat
      /\ \A u \in Unit : nx[u] = h.mem[u].next /\ h.mem[u].next \in Ptr
      /\ h.heap_size \in Nat
  BY Fields, Zenon
<1>4. sz[c] \in Nat /\ sz[c] >= total /\ nx[c] \in Ptr
  BY <1>2, <1>3, Zenon
<1> HIDE DEF c, p, nx, sz
<1>5. CASE sz[c] = total
  <2>1. k = Relink(h, p, nx[c])
    <3>1. ~(h.mem[c].size >= total + 1) /\ nx[c] = h.mem[c].next
      BY <1>2, <1>3, <1>5
    <3> QED BY <3>1, Zenon DEF Take
  <2>2. /\ SameLimits(h, k)
        /\ p = NULL => k.head = nx[c]
        /\ p # NULL => k.head = h.head /\ k.mem[p].next = nx[c]
        /\ \A u \in Unit : k.mem[u].size = h.mem[u].size
        /\ \A u \in Unit : u # p => k.mem[u].next = h.mem[u].next
    BY <1>2, <1>4, <2>1, RelinkOK
  <2> HIDE DEF k
  <2>3. /\ \A u \in Unit : mx[u] = k.mem[u].next
        /\ zz = sz
    BY <2>2, Zenon DEF NextsOf, SizesOf, sz
  <2> HIDE DEF mx, zz
  <2>4. Listed(k.head, mx, F \ {c})
    <3>1. CASE p = NULL
      <4>1. Listed(c, nx, F)
        BY <1>1, <1>2, <3>1, Zenon
      <4>2. \A u \in F \ {c} : mx[u] = nx[u]
        BY <1>1, <1>2, <1>3, <2>2, <2>3, <3>1, Numbers
      <4> QED BY <1>2, <2>2, <3>1, <4>1, <4>2, ListRemoveHead, ZenonT(30)
    <3>2. CASE p # NULL
      <4>1. p \in F /\ nx[p] = c /\ mx[p] = nx[c] /\ k.head = h.head
        BY <1>2, <1>3, <2>2, <2>3, <3>2, Zenon
      <4>2. \A u \in F \ {p, c} : mx[u] = nx[u]
        BY <1>1, <1>3, <2>2, <2>3
      <4> QED BY <1>1, <1>2, <4>1, <4>2, ListRemove
    <3> QED BY <3>1, <3>2
  <2>5. Sparse(zz, F \ {c})
    BY <1>1, <2>3, Zenon DEF Sparse
  <2>6. (F \ {c}) \cup (U \cup {c}) = F \cup U /\ (F \ {c}) \cap (U \cup {c}) = {}
    BY <1>1, <1>2, Zenon
  <2>7. Tiles(zz, (F \ {c}) \cup (U \cup {c}), k.heap_size)
    BY <1>1, <2>2, <2>3, <2>6, ZenonT(30) DEF SameLimits
  <2>8. Parted(k, F \ {c}, U \cup {c})
    BY <2>4, <2>5, <2>6, <2>7, Zenon DEF Parted, mx, zz
  <2>9. F \ {c} \in SUBSET Unit
    BY <1>1, Zenon
  <2>10. Ordered(k, U \cup {c})
    BY <2>8, <2>9 DEF Ordered
  <2>11. c \in Unit \ U /\ k.mem[c].size = total /\ \A u \in U : k.mem[u].size = h.mem[u].size
    BY <1>1, <1>2, <1>3, <1>5, <2>2, Zenon
  <2> QED BY <2>2, <2>10, <2>11, Zenon DEF k, c, p
<1>6. CASE total < sz[c]
  <2>0. c \in F \cup U /\ \A u \in F \cup U : sz[u] \in Nat
    BY <1>1, <1>2, <1>3, Zenon
  <2>0a. \A a, b \in F \cup U : a < b => a + sz[a] <= b
    BY <1>1, Zenon DEF Tiles
  <2>1. r \in Unit /\ r \notin F \cup U
    <3>1. c \in Nat /\ r \in Nat /\ c < r /\ r < c + sz[c]
      BY <1>2, <1>4, <1>6, Numbers
    <3>2. r \notin F \cup U
      <4> SUFFICES ASSUME r \in F \cup U PROVE FALSE
        BY Zenon
      <4>1. c + sz[c] <= r
        BY <2>0, <2>0a, <3>1, Zenon
      <4> QED BY <1>4, <3>1, <4>1
    <3>3. c + sz[c] <= h.heap_size
      BY <1>1, <2>0, Zenon DEF Tiles
    <3>4. r < Units
      BY <1>3, <1>4, <3>1, <3>3, Numbers
    <3> QED BY <3>1, <3>2, <3>4, Numbers DEF Unit
  <2>2. c \in Nat /\ r \in Nat /\ c < r /\ r < c + sz[c] /\ sz[c] - total \in Nat
    BY <1>2, <1>4, <1>6, Numbers
  <2> DEFINE left == sz[c] - total
             j == Cut(h, c, r, left, nx[c], total)
  <2>3. k = Relink(j, p, r)
    <3>1. h.mem[c].size >= total + 1 /\ nx[c] = h.mem[c].next /\ sz[c] = h.mem[c].size
      BY <1>2, <1>3, <1>4, <1>6
    <3> QED BY <3>1, Zenon DEF Take, Cut
  <2>4a. c # r /\ r \in Unit /\ left \in Nat
    BY <2>1, <2>2
  <2> HIDE DEF r, left
  <2>4. /\ SameLimits(h, j) /\ j.head = h.head
        /\ j.mem[r].size = left /\ j.mem[r].next = nx[c]
        /\ j.mem[c].size = total /\ j.mem[c].next = h.mem[c].next
        /\ \A u \in Unit : u # c /\ u # r => j.mem[u] = h.mem[u]
    <3>1. h \in Heap_t /\ c \in Unit /\ nx[c] \in Ptr /\ total \in Nat
      BY <1>2, <1>4, Zenon
    <3>2. Divided(h, j, c, r, left, nx[c], total)
      BY <2>4a, <3>1, SplitOK, ZenonT(30)
    <3> QED BY <3>2, ZenonT(30) DEF Divided
  <2>4b. left = sz[c] - total
    BY Zenon DEF left
  <2> HIDE DEF j
  <2>5. j \in Heap_t /\ r \in Ptr
    BY <2>1, <2>4, Numbers, Zenon DEF SameLimits
  <2>6. /\ SameLimits(j, k)
        /\ p = NULL => k.head = r
        /\ p # NULL => k.head = h.head /\ k.mem[p].next = r
        /\ \A u \in Unit : k.mem[u].size = j.mem[u].size
        /\ \A u \in Unit : u # p => k.mem[u].next = j.mem[u].next
    BY <1>2, <2>3, <2>4, <2>5, RelinkOK
  <2> HIDE DEF k
  <2>7. SameLimits(h, k) /\ k \in Heap_t
    BY <2>4, <2>6, Zenon DEF SameLimits
  <2>8. \A u \in Unit : zz[u] = k.mem[u].size /\ mx[u] = k.mem[u].next
    BY Zenon DEF NextsOf, SizesOf
  <2>9. p # r /\ \A u \in F : u # r
    <3>1. p # r
      BY <1>2, <2>1, Numbers, Zenon
    <3> QED BY <2>1, <3>1
  <2>10. /\ zz[c] = total /\ zz[r] = sz[c] - total
         /\ \A u \in Unit : u # c /\ u # r => zz[u] = sz[u]
    BY <1>2, <1>3, <2>1, <2>4, <2>4b, <2>6, <2>8
  <2>11. /\ mx[r] = nx[c]
         /\ p # NULL => mx[p] = r
         /\ \A u \in Unit : u # p /\ u # r => mx[u] = nx[u]
    <3>1. mx[r] = nx[c]
      BY <2>1, <2>4, <2>6, <2>8, <2>9, Zenon
    <3>2. p # NULL => mx[p] = r
      BY <1>2, <2>6, <2>8, Zenon
    <3>3. \A u \in Unit : u # p /\ u # r => mx[u] = nx[u]
      BY <1>2, <1>3, <2>4, <2>6, <2>8
    <3> QED BY <3>1, <3>2, <3>3, Zenon
  <2> HIDE DEF mx, zz
  <2> DEFINE E == F \ {c}
             F2 == E \cup {r}
  <2>12. /\ \/ p = NULL /\ \A g \in E : r <= g
            \/ p \in E /\ p < r /\ \A g \in E : g <= p \/ r <= g
         /\ r \notin E
    <3>1. ASSUME NEW g \in E, c <= g PROVE r <= g
      <4>1. g \in Nat /\ g \in F \cup U /\ c < g
        BY <1>1, <2>2, <3>1, Numbers
      <4>2. c + sz[c] <= g
        BY <2>0, <2>0a, <4>1, Zenon
      <4> QED BY <1>4, <2>2, <4>1, <4>2
    <3>2. p # NULL => p \in E /\ p < r
      <4>1. p # NULL => p \in Nat /\ p < c /\ p \in F
        BY <1>2, Numbers, Zenon
      <4> QED BY <2>2, <4>1
    <3> QED BY <1>2, <2>1, <3>1, <3>2, Zenon
  <2>13. Listed(k.head, mx, F2)
    <3>1. CASE p = NULL
      <4>1. Listed(nx[c], nx, E)
        <5>1. Listed(c, nx, F)
          BY <1>1, <1>2, <3>1, Zenon
        <5> QED BY <1>2, <5>1, ListRemoveHead, ZenonT(30)
      <4>2. /\ \A u \in E : u # p => mx[u] = nx[u]
            /\ mx[r] = IF p = NULL THEN nx[c] ELSE nx[p]
            /\ p # NULL => mx[p] = r
        BY <1>1, <2>9, <2>11, <3>1, Zenon
      <4> HIDE DEF E
      <4>3. Listed(IF p = NULL THEN r ELSE nx[c], mx, E \cup {r})
        BY <2>1, <2>12, <4>1, <4>2, ListInsert
      <4> QED BY <2>6, <3>1, <4>3, Zenon
    <3>2. CASE p # NULL
      <4> DEFINE kx == [nx EXCEPT ![p] = nx[c]]
      <4>1. p \in F /\ p # c /\ nx[p] = c /\ p \in Unit
        BY <1>2, <1>3, <2>12, <3>2, Zenon
      <4>2. kx[p] = nx[c] /\ \A u \in Unit : u # p => kx[u] = nx[u]
        BY <4>1, Zenon DEF nx, NextsOf
      <4> HIDE DEF kx
      <4>3. Listed(h.head, kx, E)
        <5>1. \A u \in F \ {p, c} : kx[u] = nx[u]
          BY <1>1, <4>2, Zenon
        <5> QED BY <1>1, <1>2, <4>1, <4>2, <5>1, ListRemove
      <4>4. /\ \A u \in E : u # p => mx[u] = kx[u]
            /\ mx[r] = IF p = NULL THEN h.head ELSE kx[p]
            /\ p # NULL => mx[p] = r
        BY <1>1, <2>9, <2>11, <3>2, <4>2, Zenon
      <4> HIDE DEF E
      <4>5. Listed(IF p = NULL THEN r ELSE h.head, mx, E \cup {r})
        BY <2>1, <2>12, <4>3, <4>4, ListInsert
      <4> QED BY <2>6, <3>2, <4>5, Zenon
    <3> QED BY <3>1, <3>2, Zenon
  <2>14. Sparse(zz, F2)
    <3>1. \A a, b \in F : a < b => a + sz[a] < b
      BY <1>1, Zenon DEF Sparse
    <3>2. \A g \in F : g \in Nat /\ sz[g] \in Nat
      BY <1>1, <1>3, Numbers, Zenon
    <3>3. \A g \in E : zz[g] = sz[g]
      BY <1>1, <2>9, <2>10, Zenon
    <3>4. ASSUME NEW b \in E, r < b PROVE r + zz[r] < b
      <4>1. b \in Nat /\ b \in F
        BY <3>2
      <4>2. c < b
        BY <2>2, <3>4, <4>1
      <4>3. c + sz[c] < b
        BY <1>2, <3>1, <4>1, <4>2, Zenon
      <4>4. r + zz[r] = c + sz[c]
        BY <1>4, <2>2, <2>10 DEF r
      <4> QED BY <4>3, <4>4
    <3>5. ASSUME NEW a \in E, a < r PROVE a + zz[a] < r
      <4>1. a \in Nat /\ a \in F /\ sz[a] \in Nat /\ a # c
        BY <3>2
      <4>2. c < a => c + sz[c] < a
        BY <1>2, <3>1, <4>1, ZenonT(30)
      <4>3. a < c
        BY <1>4, <2>2, <3>5, <4>1, <4>2
      <4>4. a + sz[a] < c
        BY <1>2, <3>1, <4>1, <4>3, Zenon
      <4>5. a + sz[a] < r
        BY <2>2, <4>1, <4>4
      <4> QED BY <3>3, <4>5
    <3>6. ~(r < r)
      BY <2>2
    <3>7. \A a, b \in E : a < b => a + zz[a] < b
      BY <3>1, <3>3
    <3>8. \A g \in F2 : g \in E \/ g = r
      BY Zenon
    <3> HIDE DEF F2, E
    <3> QED BY <3>4, <3>5, <3>6, <3>7, <3>8, Zenon DEF Sparse
  <2>15. F2 \cup (U \cup {c}) = (F \cup U) \cup {r} /\ F2 \cap (U \cup {c}) = {} /\ F2 \in SUBSET Unit
    <3>1. r # c
      BY <2>2
    <3> QED BY <1>1, <1>2, <2>1, <3>1, Zenon
  <2>16. Tiles(zz, (F \cup U) \cup {r}, h.heap_size)
    <3>1. zz[c + total] = sz[c] - total /\ r = c + total
      BY <2>10 DEF r
    <3>2. \A u \in F \cup U : u # c => zz[u] = sz[u]
      BY <1>1, <2>1, <2>10, Zenon
    <3>3. Tiles(zz, (F \cup U) \cup {c + total}, h.heap_size)
      BY <1>1, <1>3, <1>4, <1>6, <2>0, <2>10, <3>1, <3>2, TilesSplit
    <3> QED BY <3>1, <3>3
  <2>17. Parted(k, F2, U \cup {c})
    <3> HIDE DEF F2
    <3> QED BY <2>7, <2>13, <2>14, <2>15, <2>16, Zenon DEF Parted, mx, zz, SameLimits
  <2>18. Ordered(k, U \cup {c})
    <3> HIDE DEF F2
    <3> QED BY <2>15, <2>17, Zenon DEF Ordered
  <2>19. c \in Unit \ U /\ k.mem[c].size = total /\ \A u \in U : k.mem[u].size = h.mem[u].size
    <3>1. c \in Unit \ U
      BY <1>1, <1>2, Zenon
    <3>2. \A u \in U : u \in Unit /\ u # c /\ u # r
      BY <1>1, <2>1, <3>1, Zenon
    <3> QED BY <1>2, <2>4, <2>6, <3>1, <3>2, Zenon
  <2> QED BY <2>7, <2>18, <2>19, Zenon DEF k, c, p
<1>7. sz[c] = total \/ total < sz[c]
  BY <1>4
<1> QED BY <1>5, <1>6, <1>7, Zenon

\* The blocks in U keep their sizes.
Keeps(h, k, U) == SameLimits(h, k) /\ \A u \in U : k.mem[u].size = h.mem[u].size

\* A block a is in the list behind p, and may touch its neighbours there.
Linked(h, F, U, p, a, limit) ==
  /\ h \in Heap_t /\ U \subseteq Unit /\ p \in Ptr /\ a \in Unit /\ limit \in Nat
  /\ Listed(h.head, NextsOf(h), F) /\ F \cap U = {} /\ Tiles(SizesOf(h), F \cup U, limit)
  /\ a \in F /\ Sparse(SizesOf(h), F \ {a})
  /\ \/ p = NULL /\ \A g \in F : a <= g
     \/ p \in F /\ p < a /\ h.mem[p].next = a /\ \A g \in F : g <= p \/ a <= g

\* It does not touch the one behind it.
Apart(h, F, a) == \A g \in F : a < g => a + h.mem[a].size < g

Resized(h, a, size) == [SizesOf(h) EXCEPT ![a] = size]

\* A block a of that size is neither free nor used, and completes the tiling.
Insertable(h, F, U, a, size, limit) ==
  /\ h \in Heap_t /\ U \subseteq Unit /\ a \in Unit /\ size \in Nat /\ limit \in Nat
  /\ Listed(h.head, NextsOf(h), F) /\ Sparse(SizesOf(h), F) /\ F \cap U = {}
  /\ a \notin F /\ a \notin U /\ Tiles(Resized(h, a, size), F \cup U \cup {a}, limit)

Linking(h, a, size) ==
  LET prev == LastBelow(h, a)
      nx   == IF prev = NULL THEN h.head ELSE h.mem[prev].next
  IN Relink(Header(h, a, size, nx), prev, a)

\* The block is linked in behind the last one below it.
LEMMA LinkOK ==
  ASSUME NEW h, NEW F, NEW U, NEW a, NEW size, NEW limit, Insertable(h, F, U, a, size, limit)
  PROVE  LET k == Linking(h, a, size)
         IN Keeps(h, k, U) /\ Linked(k, F \cup {a}, U, LastBelow(h, a), a, limit)
<1>0. /\ h \in Heap_t /\ U \subseteq Unit /\ a \in Unit /\ size \in Nat /\ limit \in Nat
      /\ Listed(h.head, NextsOf(h), F) /\ Sparse(SizesOf(h), F) /\ F \cap U = {}
      /\ a \notin F /\ a \notin U /\ Tiles(Resized(h, a, size), F \cup U \cup {a}, limit)
  BY Zenon DEF Insertable
<1> USE <1>0
<1> DEFINE p == LastBelow(h, a)
           nx == NextsOf(h)
           sz == SizesOf(h)
           to == IF p = NULL THEN h.head ELSE h.mem[p].next
           j == Header(h, a, size, to)
           k == Linking(h, a, size)
           mx == NextsOf(k)
           zz == SizesOf(k)
<1>1. F \subseteq Unit /\ a \in Nat /\ NULL \notin F
  BY Numbers, Zenon DEF Listed
<1>2. \/ p = NULL /\ \A g \in F : a <= g
      \/ p \in F /\ p < a /\ \A g \in F : g <= p \/ a <= g
  BY <1>1, BelowOK, Zenon
<1>3. /\ \A u \in Unit : sz[u] = h.mem[u].size /\ h.mem[u].size \in Nat
      /\ \A u \in Unit : nx[u] = h.mem[u].next /\ h.mem[u].next \in Ptr
      /\ h.head \in Ptr
  BY Fields, Zenon
<1>4. k = Relink(j, p, a)
  BY Zenon DEF Linking
<1> HIDE DEF p, nx, sz
<1>5. p \in Ptr /\ to \in Ptr /\ a \in Ptr
  <2>1. p \in F \/ p = NULL
    BY <1>2
  <2> QED BY <1>1, <1>3, <2>1, Numbers, ZenonT(30)
<1> HIDE DEF to
<1>6. /\ SameLimits(h, j) /\ j.head = h.head
      /\ j.mem[a].size = size /\ j.mem[a].next = to
      /\ \A u \in Unit : u # a => j.mem[u] = h.mem[u]
  BY <1>5, WriteOK
<1> HIDE DEF j
<1>7. j \in Heap_t
  BY <1>6, Zenon DEF SameLimits
<1>8. /\ SameLimits(j, k)
      /\ p = NULL => k.head = a
      /\ p # NULL => k.head = j.head /\ k.mem[p].next = a
      /\ \A u \in Unit : k.mem[u].size = j.mem[u].size
      /\ \A u \in Unit : u # p => k.mem[u].next = j.mem[u].next
  BY <1>4, <1>5, <1>7, RelinkOK
<1> HIDE DEF k
<1>9. SameLimits(h, k)
  BY <1>6, <1>8, Zenon DEF SameLimits
<1>10. \A u \in Unit : zz[u] = k.mem[u].size /\ mx[u] = k.mem[u].next
  BY Zenon DEF NextsOf, SizesOf
<1>11. p # a
  <2>1. p \in F \/ p = NULL
    BY <1>2
  <2> QED BY <2>1, Numbers
<1>12. zz = Resized(h, a, size)
  BY <1>6, <1>8, Zenon DEF SizesOf, Resized
<1>13. \A u \in Unit : u # a => zz[u] = sz[u]
  BY <1>12, Zenon DEF sz, SizesOf, Resized
<1>14. Listed(k.head, mx, F \cup {a})
  <2>1. \A u \in F : u # p => mx[u] = nx[u]
    BY <1>1, <1>3, <1>6, <1>8, <1>10
  <2>2. mx[a] = IF p = NULL THEN h.head ELSE nx[p]
    <3>1. mx[a] = to
      BY <1>6, <1>8, <1>10, <1>11, Zenon
    <3>2. p # NULL => nx[p] = h.mem[p].next
      BY <1>3, <1>5, Zenon DEF Ptr
    <3> QED BY <3>1, <3>2, Zenon DEF to
  <2>3. p # NULL => mx[p] = a
    BY <1>5, <1>8, <1>10, Zenon DEF Ptr
  <2>4. Listed(IF p = NULL THEN a ELSE h.head, mx, F \cup {a})
    <3> HIDE DEF mx
    <3>1. Listed(h.head, nx, F)
      BY Zenon DEF nx
    <3>2. a \in Unit /\ a \notin F
      BY Zenon
    <3> DEFINE hd == h.head
    <3> HIDE DEF hd
    <3>3. Listed(hd, nx, F) /\ mx[a] = IF p = NULL THEN hd ELSE nx[p]
      BY <2>2, <3>1 DEF hd
    <3>4. Listed(IF p = NULL THEN a ELSE hd, mx, F \cup {a})
      BY ONLY <1>2, <2>1, <2>3, <3>2, <3>3, ListInsert, ZenonT(30)
    <3> QED BY <3>4 DEF hd
  <2> QED BY <1>6, <1>8, <2>4, Zenon
<1>15. (F \cup {a}) \cap U = {} /\ (F \cup {a}) \cup U = F \cup U \cup {a} /\ (F \cup {a}) \ {a} = F
  BY Zenon
<1>16. Tiles(zz, (F \cup {a}) \cup U, limit)
  BY <1>12, <1>15, Zenon DEF sz
<1>17. Sparse(zz, (F \cup {a}) \ {a})
  <2>1. \A u \in F : zz[u] = sz[u]
    BY <1>1, <1>13
  <2>2. Sparse(sz, F)
    BY Zenon DEF sz
  <2> HIDE DEF zz
  <2> QED BY <1>15, <2>1, <2>2, Zenon DEF Sparse
<1>18. \/ p = NULL /\ \A g \in F \cup {a} : a <= g
       \/ p \in F \cup {a} /\ p < a /\ k.mem[p].next = a /\ \A g \in F \cup {a} : g <= p \/ a <= g
  BY <1>1, <1>2, <1>8
<1>19. Linked(k, F \cup {a}, U, p, a, limit)
  BY <1>5, <1>9, <1>14, <1>15, <1>16, <1>17, <1>18, Zenon DEF Linked, SameLimits
<1>20. \A u \in U : k.mem[u].size = h.mem[u].size
  BY <1>6, <1>8, Zenon
<1> QED BY <1>9, <1>19, <1>20, Zenon DEF k, p, Keeps

\* The block takes in the one behind it if they touch.
LinkedApart(h, U, p, a, limit) ==
  \E F \in SUBSET Unit : Linked(h, F, U, p, a, limit) /\ Apart(h, F, a)

LEMMA MergeNextOK ==
  ASSUME NEW h, NEW F, NEW U, NEW p, NEW a, NEW limit, Linked(h, F, U, p, a, limit)
  PROVE  LET k == MergeNext(h, a)
         IN Keeps(h, k, U) /\ LinkedApart(k, U, p, a, limit)
<1>0. h \in Heap_t /\ U \subseteq Unit /\ p \in Ptr /\ a \in Unit /\ limit \in Nat
  BY Zenon DEF Linked
<1> USE <1>0
<1> DEFINE k == MergeNext(h, a)
           nx == NextsOf(h)
           sz == SizesOf(h)
           mx == NextsOf(k)
           zz == SizesOf(k)
           n == nx[a]
<1>1. /\ Listed(h.head, nx, F) /\ F \cap U = {} /\ Tiles(sz, F \cup U, limit)
      /\ a \in F /\ Sparse(sz, F \ {a}) /\ F \subseteq Unit
      /\ \/ p = NULL /\ \A g \in F : a <= g
         \/ p \in F /\ p < a /\ h.mem[p].next = a /\ \A g \in F : g <= p \/ a <= g
  BY Zenon DEF Linked, Listed
<1>2. /\ \A u \in Unit : sz[u] = h.mem[u].size /\ h.mem[u].size \in Nat
      /\ \A u \in Unit : nx[u] = h.mem[u].next /\ h.mem[u].next \in Ptr
  BY Fields, Zenon
<1>3. \A g \in F : g \in Nat /\ sz[g] \in Nat /\ sz[g] > 0
  <2>1. \A g \in F : sz[g] > 0
    BY <1>1, Zenon DEF Tiles
  <2> QED BY <1>1, <1>2, <2>1, Numbers, Zenon
<1>4. /\ n = NULL => \A g \in F : g <= a
      /\ n # NULL => n \in F /\ a < n /\ \A g \in F : g <= a \/ n <= g
  BY <1>1, Zenon DEF Listed
<1>5. n # NULL => a + sz[a] <= n
  BY <1>1, <1>4, Zenon DEF Tiles
<1> HIDE DEF nx, sz
<1>6. CASE n # NULL /\ a + sz[a] = n
  <2> DEFINE both == sz[a] + sz[n]
             on == nx[n]
             E == F \ {n}
  <2>1. n \in F /\ a < n /\ n \in Unit /\ both \in Nat /\ on \in Ptr /\ sz[a] \in Nat /\ sz[n] \in Nat
    BY <1>1, <1>2, <1>3, <1>4, <1>6
  <2>2. k = Header(h, a, both, on)
    <3>1. h.mem[a].size = sz[a] /\ h.mem[a].next = n /\ h.mem[n].size = sz[n] /\ h.mem[n].next = on
      BY <1>2, <2>1, Zenon
    <3> HIDE DEF n, on
    <3> QED BY <1>6, <3>1 DEF MergeNext, Header
  <2>3. both = sz[a] + sz[n] /\ on = nx[n]
    BY Zenon
  <2> HIDE DEF both, on, n
  <2>4. /\ SameLimits(h, k) /\ k.head = h.head
        /\ k.mem[a].size = both /\ k.mem[a].next = on
        /\ \A u \in Unit : u # a => k.mem[u] = h.mem[u]
    BY <2>1, <2>2, WriteOK
  <2> HIDE DEF k
  <2>5. /\ zz[a] = both /\ mx[a] = on
        /\ \A u \in Unit : u # a => zz[u] = sz[u] /\ mx[u] = nx[u]
    <3>1. \A u \in Unit : zz[u] = k.mem[u].size /\ mx[u] = k.mem[u].next
      BY Zenon DEF NextsOf, SizesOf
    <3> QED BY <1>2, <2>4, <3>1
  <2>6. k.mem[a].size = zz[a]
    BY <2>4, <2>5, Zenon
  <2> HIDE DEF zz, mx
  <2>7. Listed(k.head, mx, E)
    <3>1. nx[a] = n /\ mx[a] = nx[n] /\ \A u \in F \ {a, n} : mx[u] = nx[u]
      BY <1>1, <2>3, <2>5, Zenon DEF n
    <3> QED BY <1>1, <2>1, <2>4, <3>1, ListRemove
  <2>8. E \cap U = {} /\ E \cup U = (F \cup U) \ {n} /\ E \in SUBSET Unit
    BY <1>1, <2>1, Zenon
  <2>9. Tiles(zz, E \cup U, limit)
    <3>1. \A u \in F \cup U : sz[u] \in Nat
      BY <1>1, <1>2, Zenon
    <3>2. zz[a] = sz[a] + sz[n] /\ \A u \in (F \cup U) \ {a, n} : zz[u] = sz[u]
      BY <1>1, <2>3, <2>5, Zenon
    <3>3. Tiles(zz, (F \cup U) \ {n}, limit)
      BY <1>1, <1>6, <2>1, <3>1, <3>2, TilesJoin
    <3> QED BY <2>8, <3>3
  <2>10. a \in E
    BY <1>1, <1>3, <2>1
  <2>11. Sparse(zz, E \ {a})
    <3>1. \A u \in E \ {a} : u \in F \ {a} /\ zz[u] = sz[u]
      BY <1>1, <2>5, Zenon
    <3> QED BY <1>1, <3>1, Zenon DEF Sparse
  <2>12. \/ p = NULL /\ \A g \in E : a <= g
         \/ p \in E /\ p < a /\ k.mem[p].next = a /\ \A g \in E : g <= p \/ a <= g
    <3>1. CASE p = NULL
      BY <1>1, <3>1, Numbers, Zenon
    <3>2. CASE p # NULL
      <4>1. p \in F /\ p < a /\ h.mem[p].next = a /\ p \in Nat /\ p \in Unit
        BY <1>1, <1>3, <3>2, Zenon
      <4>2. p # a /\ p # n
        BY <1>3, <1>1, <2>1, <4>1
      <4> QED BY <1>1, <2>4, <3>2, <4>1, <4>2, Zenon
    <3> QED BY <3>1, <3>2, Zenon
  <2>13. Linked(k, E, U, p, a, limit)
    <3> HIDE DEF E
    <3> QED BY <2>4, <2>7, <2>8, <2>9, <2>10, <2>11, <2>12, Zenon DEF Linked, SameLimits, zz, mx
  <2>14. Apart(k, E, a)
    <3>1. ASSUME NEW g \in E, a < g PROVE a + zz[a] < g
      <4>1. g \in F \ {a} /\ n \in F \ {a} /\ g # n /\ g \in Nat /\ a \in Nat /\ n \in Nat
        BY <1>1, <1>3, <2>1, <3>1
      <4>2. n < g
        BY <1>4, <1>6, <3>1, <4>1
      <4>3. n + sz[n] < g
        BY <1>1, <4>1, <4>2, Zenon DEF Sparse
      <4>4. a + zz[a] = n + sz[n]
        BY <1>6, <2>1, <2>3, <2>5, <4>1
      <4> QED BY <4>3, <4>4
    <3> QED BY <2>6, <3>1 DEF Apart
  <2>15. LinkedApart(k, U, p, a, limit)
    <3> HIDE DEF E
    <3> QED BY <2>8, <2>13, <2>14 DEF LinkedApart
  <2>16. \A u \in U : k.mem[u].size = h.mem[u].size
    BY <1>1, <2>4, Zenon
  <2> QED BY <2>4, <2>15, <2>16, Zenon DEF k, Keeps
<1>7. CASE ~(n # NULL /\ a + sz[a] = n)
  <2>1. k = h
    <3>1. h.mem[a].size = sz[a] /\ h.mem[a].next = n
      BY <1>2, Zenon
    <3> HIDE DEF n
    <3> QED BY <1>7, <3>1, Zenon DEF MergeNext
  <2>2. Apart(h, F, a)
    <3>1. ASSUME NEW g \in F, a < g PROVE a + sz[a] < g
      <4>1. a \in Nat /\ g \in Nat /\ sz[a] \in Nat
        BY <1>1, <1>3, Zenon
      <4>2. n # NULL
        BY <1>4, <3>1, <4>1
      <4>3. n \in F /\ (g <= a \/ n <= g) /\ a + sz[a] <= n /\ a + sz[a] # n
        BY <1>4, <1>5, <1>7, <4>2, Zenon
      <4>4. n \in Nat
        BY <1>3, <4>3
      <4> HIDE DEF n
      <4> QED BY <3>1, <4>1, <4>3, <4>4
    <3> QED BY <1>2, <3>1, Zenon DEF Apart
  <2>3. LinkedApart(h, U, p, a, limit)
    BY <1>1, <2>2, Zenon DEF LinkedApart
  <2> QED BY <2>1, <2>3 DEF SameLimits, Keeps
<1> QED BY <1>6, <1>7, Zenon

\* The blocks that are not in U make up the free list and tile a heap of that size.
OrderedTo(h, U, limit) ==
  \E F \in SUBSET Unit :
    /\ Listed(h.head, NextsOf(h), F) /\ Sparse(SizesOf(h), F)
    /\ F \cap U = {} /\ Tiles(SizesOf(h), F \cup U, limit)

\* The one before takes in the block if they touch.
LEMMA MergePrevOK ==
  ASSUME NEW h, NEW U, NEW p, NEW a, NEW limit, LinkedApart(h, U, p, a, limit)
  PROVE  LET k == MergePrev(h, p, a)
         IN Keeps(h, k, U) /\ OrderedTo(k, U, limit)
<1>0. PICK F \in SUBSET Unit : Linked(h, F, U, p, a, limit) /\ Apart(h, F, a)
  BY ZenonT(30) DEF LinkedApart
<1> h \in Heap_t /\ U \subseteq Unit /\ p \in Ptr /\ a \in Unit /\ limit \in Nat
  BY <1>0, Zenon DEF Linked
<1> DEFINE k == MergePrev(h, p, a)
           nx == NextsOf(h)
           sz == SizesOf(h)
           mx == NextsOf(k)
           zz == SizesOf(k)
<1>1. /\ Listed(h.head, nx, F) /\ F \cap U = {} /\ Tiles(sz, F \cup U, limit)
      /\ a \in F /\ Sparse(sz, F \ {a}) /\ F \subseteq Unit
      /\ \/ p = NULL /\ \A g \in F : a <= g
         \/ p \in F /\ p < a /\ h.mem[p].next = a /\ \A g \in F : g <= p \/ a <= g
  BY <1>0, Zenon DEF Linked, Listed
<1>2. /\ \A u \in Unit : sz[u] = h.mem[u].size /\ h.mem[u].size \in Nat
      /\ \A u \in Unit : nx[u] = h.mem[u].next /\ h.mem[u].next \in Ptr
  BY Fields, Zenon
<1>3. \A g \in F : g \in Nat /\ sz[g] \in Nat
  BY <1>1, <1>2, Numbers, Zenon
<1>4. \A g \in F : a < g => a + sz[a] < g
  BY <1>0, <1>2, Zenon DEF Apart
<1>5. \A x, y \in F \ {a} : x < y => x + sz[x] < y
  BY <1>1, Zenon DEF Sparse
<1>6. p # NULL => p \in F /\ p < a /\ nx[p] = a /\ p + sz[p] <= a /\ \A g \in F : g <= p \/ a <= g
  <2>1. p # NULL => p \in F /\ p < a /\ nx[p] = a /\ \A g \in F : g <= p \/ a <= g
    BY <1>1, <1>2, Zenon
  <2> QED BY <1>1, <2>1, Zenon DEF Tiles
<1>7. p = NULL => \A g \in F : a <= g
  BY <1>1, Numbers, Zenon
<1> HIDE DEF nx, sz
<1>8. CASE p # NULL /\ p + sz[p] = a
  <2> DEFINE both == sz[p] + sz[a]
             on == nx[a]
             E == F \ {a}
  <2>1. p \in F /\ p < a /\ p \in Unit /\ nx[p] = a /\ both \in Nat /\ on \in Ptr
    BY <1>1, <1>2, <1>3, <1>6, <1>8
  <2>2. k = Header(h, p, both, on)
    <3>1. h.mem[p].size = sz[p] /\ h.mem[a].size = sz[a] /\ h.mem[a].next = on
      BY <1>2, <2>1, Zenon
    <3> HIDE DEF on
    <3> QED BY <1>8, <3>1 DEF MergePrev, Header
  <2>3. both = sz[p] + sz[a] /\ on = nx[a]
    BY Zenon
  <2> HIDE DEF both, on
  <2>4. /\ SameLimits(h, k) /\ k.head = h.head
        /\ k.mem[p].size = both /\ k.mem[p].next = on
        /\ \A u \in Unit : u # p => k.mem[u] = h.mem[u]
    BY <2>1, <2>2, WriteOK
  <2> HIDE DEF k
  <2>5. /\ zz[p] = both /\ mx[p] = on
        /\ \A u \in Unit : u # p => zz[u] = sz[u] /\ mx[u] = nx[u]
    <3>1. \A u \in Unit : zz[u] = k.mem[u].size /\ mx[u] = k.mem[u].next
      BY Zenon DEF NextsOf, SizesOf
    <3> QED BY <1>2, <2>1, <2>4, <3>1
  <2> HIDE DEF zz, mx
  <2>7. Listed(k.head, mx, E)
    <3>1. mx[p] = nx[a] /\ \A u \in F \ {p, a} : mx[u] = nx[u]
      BY <1>1, <2>3, <2>5, Zenon
    <3> QED BY <1>1, <2>1, <2>4, <3>1, ListRemove
  <2>8. E \cap U = {} /\ E \cup U = (F \cup U) \ {a} /\ E \in SUBSET Unit
    BY <1>1, <2>1
  <2>9. Tiles(zz, E \cup U, limit)
    <3>1. \A u \in F \cup U : sz[u] \in Nat
      BY <1>1, <1>2, Zenon
    <3>2. zz[p] = sz[p] + sz[a] /\ \A u \in (F \cup U) \ {p, a} : zz[u] = sz[u]
      BY <1>1, <2>3, <2>5, Zenon
    <3>3. Tiles(zz, (F \cup U) \ {a}, limit)
      BY <1>1, <1>8, <2>1, <3>1, <3>2, TilesJoin
    <3> QED BY <2>8, <3>3
  <2>10. \A x, y \in E : x < y => x + zz[x] < y
    <3> SUFFICES ASSUME NEW x \in E, NEW y \in E, x < y PROVE x + zz[x] < y
      BY Zenon
    <3>1. CASE x = p
      <4>1. y \in F /\ y \in Nat /\ y # a /\ (y <= p \/ a <= y)
        BY <1>3, <1>6, <1>8
      <4>2. p \in Nat /\ a \in Nat /\ sz[p] \in Nat /\ sz[a] \in Nat
        BY <1>1, <1>3, <2>1, Zenon
      <4>3. a < y
        BY <3>1, <4>1, <4>2
      <4>4. a + sz[a] < y
        BY <1>4, <4>1, <4>3
      <4>5. p + zz[p] = a + sz[a]
        BY <1>8, <2>3, <2>5, <4>2
      <4> QED BY <3>1, <4>4, <4>5
    <3>2. CASE x # p
      <4>1. zz[x] = sz[x]
        BY <1>1, <2>5, <3>2, Zenon
      <4> QED BY <1>5, <4>1
    <3> QED BY <3>1, <3>2
  <2>11. Sparse(zz, E)
    BY <2>10 DEF Sparse
  <2>12. OrderedTo(k, U, limit)
    <3> HIDE DEF E
    <3> QED BY <2>7, <2>8, <2>9, <2>11 DEF OrderedTo, zz, mx
  <2>13. \A u \in U : k.mem[u].size = h.mem[u].size
    BY <1>1, <2>1, <2>4, Zenon
  <2> QED BY <2>4, <2>12, <2>13, Zenon DEF k, Keeps
<1>9. CASE ~(p # NULL /\ p + sz[p] = a)
  <2>1. k = h
    <3>1. p # NULL => h.mem[p].size = sz[p]
      BY <1>1, <1>2, <1>6, Zenon
    <3> QED BY <1>9, <3>1, Zenon DEF MergePrev
  <2>2. \A x, y \in F : x < y => x + sz[x] < y
    <3> SUFFICES ASSUME NEW x \in F, NEW y \in F, x < y PROVE x + sz[x] < y
      BY Zenon
    <3>0. x \in Nat /\ y \in Nat /\ a \in Nat /\ sz[x] \in Nat
      BY <1>1, <1>3, Zenon
    <3>1. CASE x = a
      BY <1>4, <3>1
    <3>2. CASE x # a /\ y # a
      BY <1>5, <3>2
    <3>3. CASE x # a /\ y = a
      <4>1. p # NULL /\ p \in F /\ p < a /\ p + sz[p] <= a /\ p + sz[p] # a /\ (x <= p \/ a <= x)
        <5>1. p # NULL
          BY <1>7, <3>0, <3>3
        <5> QED BY <1>6, <1>9, <5>1
      <4>2. p \in Nat /\ sz[p] \in Nat /\ p # a
        BY <1>3, <3>0, <4>1
      <4>3. CASE x = p
        BY <3>0, <3>3, <4>1, <4>2, <4>3
      <4>4. CASE x # p
        <5>1. x < p
          BY <3>0, <3>3, <4>1, <4>2, <4>4
        <5>2. x + sz[x] < p
          BY <1>5, <3>3, <4>1, <4>2, <5>1
        <5> QED BY <3>0, <3>3, <4>1, <4>2, <5>2
      <4> QED BY <4>3, <4>4
    <3> QED BY <3>1, <3>2, <3>3
  <2>3. Sparse(sz, F)
    BY <2>2 DEF Sparse
  <2>4. OrderedTo(h, U, limit)
    BY <1>1, <2>3, ZenonT(30) DEF OrderedTo, sz, nx
  <2> QED BY <2>1, <2>4 DEF SameLimits, Keeps
<1> QED BY <1>8, <1>9

\* kfree and heap_expand_pages put a block into the list.
LEMMA InsertOK ==
  ASSUME NEW h, NEW F, NEW U, NEW a, NEW size, NEW limit, Insertable(h, F, U, a, size, limit)
  PROVE  Keeps(h, Insert(h, a, size), U) /\ OrderedTo(Insert(h, a, size), U, limit)
<1> DEFINE p == LastBelow(h, a)
           i == Linking(h, a, size)
           j == MergeNext(i, a)
           k == MergePrev(j, p, a)
<1>1. Insert(h, a, size) = k
  BY Zenon DEF Insert, Linking, Header
<1>2. Keeps(h, i, U) /\ Linked(i, F \cup {a}, U, p, a, limit)
  BY LinkOK, ZenonT(30)
<1> HIDE DEF i, p
<1>3. Keeps(i, j, U) /\ LinkedApart(j, U, p, a, limit)
  BY <1>2, MergeNextOK, ZenonT(30)
<1> HIDE DEF j
<1>4. Keeps(j, k, U) /\ OrderedTo(k, U, limit)
  BY <1>3, MergePrevOK, ZenonT(30)
<1> HIDE DEF k
<1>5. Keeps(h, k, U)
  BY <1>2, <1>3, <1>4, Zenon DEF Keeps, SameLimits
<1> QED BY <1>1, <1>4, <1>5

\* kfree gives a used block back to the list.
LEMMA FreeOK ==
  ASSUME NEW h \in Heap_t, NEW U, Ordered(h, U), NEW a \in U
  PROVE  LET k == Insert(h, a, h.mem[a].size)
         IN /\ SameLimits(h, k) /\ Ordered(k, U \ {a})
            /\ \A u \in U \ {a} : k.mem[u].size = h.mem[u].size
<1>1. PICK F \in SUBSET Unit : Parted(h, F, U)
  BY ZenonT(30) DEF Ordered
<1> DEFINE size == h.mem[a].size
           V == U \ {a}
           k == Insert(h, a, size)
<1>2. /\ Listed(h.head, NextsOf(h), F) /\ Sparse(SizesOf(h), F) /\ F \cap U = {}
      /\ Tiles(SizesOf(h), F \cup U, h.heap_size) /\ U \subseteq Unit
  BY <1>1, Zenon DEF Parted, Tiles
<1>3. a \in Unit /\ a \notin F /\ a \notin V /\ F \cap V = {} /\ V \subseteq Unit /\ F \cup V \cup {a} = F \cup U
  BY <1>2
<1>4. size \in Nat /\ h.heap_size \in Nat
  BY <1>3, Fields, Zenon
<1>5. Resized(h, a, size) = SizesOf(h)
  BY <1>3, Zenon DEF Resized, SizesOf
<1>6. Tiles(Resized(h, a, size), F \cup V \cup {a}, h.heap_size)
  BY <1>2, <1>3, <1>5
<1> HIDE DEF V, size
<1>7. Keeps(h, k, V) /\ OrderedTo(k, V, h.heap_size)
  <2>1. Insertable(h, F, V, a, size, h.heap_size)
    BY <1>2, <1>3, <1>4, <1>6, Zenon DEF Insertable
  <2> QED BY <2>1, InsertOK, ZenonT(30)
<1>8. Ordered(k, V)
  <2> HIDE DEF k
  <2>1. k.heap_size = h.heap_size
    BY <1>7 DEF Keeps, SameLimits
  <2> QED BY <1>7, <2>1, ZenonT(30) DEF Ordered, OrderedTo, Parted
<1> QED BY <1>7, <1>8, Zenon DEF V, size, Keeps

\* heap_expand_pages adds the new pages at the end.
LEMMA ExpandOK ==
  ASSUME NEW h \in Heap_t, NEW U, U \subseteq Unit, Ordered(h, U),
         h.heap_size + h.frames * PageUnits <= Units,
         NEW pages \in Nat, 0 < pages, pages <= h.frames
  PROVE  LET x == heap_expand_pages(h, pages)
         IN /\ x \in Heap_t /\ Ordered(x, U)
            /\ x.frames = h.frames - pages /\ x.heap_size > h.heap_size
            /\ x.heap_size + x.frames * PageUnits <= Units
            /\ \A u \in U : x.mem[u].size = h.mem[u].size
<1>1. PICK F \in SUBSET Unit : Parted(h, F, U)
  BY ZenonT(30) DEF Ordered
<1> DEFINE a == h.heap_size
           size == pages * PageUnits
           k == Insert(h, a, size)
           x == heap_expand_pages(h, pages)
           sz == SizesOf(h)
           zz == Resized(h, a, size)
<1>2. /\ Listed(h.head, NextsOf(h), F) /\ Sparse(sz, F) /\ F \cap U = {}
      /\ Tiles(sz, F \cup U, a)
  BY <1>1 DEF Parted
<1>3. a \in Nat /\ h.frames \in Nat /\ \A u \in Unit : sz[u] = h.mem[u].size /\ h.mem[u].size \in Nat
  BY Fields, Zenon
<1>4. size \in Nat /\ 0 < size /\ a + size <= Units /\ (h.frames - pages) * PageUnits = h.frames * PageUnits - size
  <2>1. PageUnits \in Nat /\ PageUnits > 0 /\ Units \in Nat
    BY Numbers
  <2>2. size \in Nat /\ 0 < size
    BY <2>1
  <2>3. (h.frames - pages) * PageUnits = h.frames * PageUnits - size /\ h.frames - pages \in Nat
    BY <1>3, <2>1
  <2>4. (h.frames - pages) * PageUnits >= 0 /\ h.frames * PageUnits \in Nat
    BY <1>3, <2>1, <2>3
  <2> HIDE DEF size
  <2>5. size <= h.frames * PageUnits
    BY <2>2, <2>3, <2>4
  <2>6. a + size <= Units
    BY <1>3, <2>1, <2>2, <2>4, <2>5
  <2> QED BY <2>2, <2>3, <2>6
<1>5. a \in Unit
  BY <1>3, <1>4, Numbers DEF Unit
<1>6. zz[a] = size /\ \A u \in Unit : u # a => zz[u] = sz[u]
  BY <1>5, Zenon DEF Resized, SizesOf
<1> HIDE DEF size, zz, sz
<1>7. a \notin F \cup U /\ Tiles(zz, F \cup U \cup {a}, a + size)
  <2>1. \A u \in F \cup U : sz[u] \in Nat
    BY <1>3
  <2>2. \A u \in F \cup U : u # a
    <3>1. \A u \in F \cup U : sz[u] > 0 /\ u + sz[u] <= a
      BY <1>2 DEF Tiles
    <3>2. \A u \in F \cup U : u \in Nat
      BY Numbers
    <3> QED BY <1>3, <2>1, <3>1, <3>2
  <2>3. \A u \in F \cup U : zz[u] = sz[u]
    BY <1>6, <2>2
  <2> DEFINE T == F \cup U
  <2>4. Tiles(sz, T, a) /\ (\A u \in T : sz[u] \in Nat) /\ \A u \in T : zz[u] = sz[u]
    BY <1>2, <2>1, <2>3
  <2> HIDE DEF a, T
  <2>5. a \in Nat /\ size \in Nat /\ 0 < size /\ a + size <= Units /\ zz[a] = size
    BY <1>3, <1>4, <1>6, Zenon
  <2>6. a \notin T /\ Tiles(zz, T \cup {a}, a + size)
    BY ONLY <2>4, <2>5, TilesGrow
  <2> QED BY <2>6 DEF T
<1>8. a \notin F /\ a \notin U /\ a + size \in Nat
  BY <1>3, <1>4, <1>7
<1> DEFINE limit == a + size
<1>9. limit \in Nat /\ Tiles(zz, F \cup U \cup {a}, limit)
  BY <1>7, <1>8
<1> HIDE DEF limit, a
<1>10. /\ SameLimits(h, k) /\ OrderedTo(k, U, limit)
       /\ \A u \in U : k.mem[u].size = h.mem[u].size
  <2>1. /\ Listed(h.head, NextsOf(h), F) /\ Sparse(SizesOf(h), F) /\ F \cap U = {}
        /\ Tiles(Resized(h, a, size), F \cup U \cup {a}, limit)
    BY <1>2, <1>9 DEF zz, sz
  <2>2. h \in Heap_t /\ U \subseteq Unit /\ a \in Unit /\ size \in Nat /\ limit \in Nat /\ a \notin F /\ a \notin U
    BY <1>4, <1>5, <1>8, <1>9
  <2>3. Insertable(h, F, U, a, size, limit)
    BY <2>1, <2>2, Zenon DEF Insertable
  <2>4. Keeps(h, k, U) /\ OrderedTo(k, U, limit)
    BY <2>3, InsertOK, ZenonT(30)
  <2> QED BY <2>4, Zenon DEF Keeps
<1>11. x = [k EXCEPT !.heap_size = @ + size, !.frames = @ - pages]
  BY Zenon DEF heap_expand_pages, a, size
<1> HIDE DEF k, x
<1>12. k \in Heap_t /\ k.heap_size = a /\ k.frames = h.frames
  BY <1>10 DEF SameLimits, a
<1>13. x.heap_size = limit /\ x.frames = h.frames - pages /\ x.mem = k.mem /\ x.head = k.head
  BY <1>11, <1>12 DEF Heap_t, limit
<1>14. x \in Heap_t
  <2>1. h.frames - pages \in Nat
    BY <1>3
  <2>2. x = [head |-> k.head, heap_size |-> limit, frames |-> h.frames - pages, mem |-> k.mem]
    BY <1>11, <1>12, ZenonT(30) DEF Heap_t, limit
  <2> QED BY <1>9, <1>12, <2>1, <2>2, Zenon DEF Heap_t
<1>15. Ordered(x, U)
  <2>1. SizesOf(x) = SizesOf(k) /\ NextsOf(x) = NextsOf(k)
    BY <1>13 DEF SizesOf, NextsOf
  <2> QED BY <1>10, <1>13, <2>1, ZenonT(30) DEF Ordered, OrderedTo, Parted
<1>16. x.heap_size > h.heap_size
  BY <1>3, <1>4, <1>13 DEF limit, a
<1>17. x.heap_size + x.frames * PageUnits <= Units
  <2>1. x.frames * PageUnits = h.frames * PageUnits - size
    BY <1>4, <1>13
  <2>2. x.heap_size = h.heap_size + size
    BY <1>13 DEF limit, a
  <2> DEFINE P == h.frames * PageUnits
             Q == x.frames * PageUnits
  <2>3. P \in Nat /\ Units \in Nat /\ h.heap_size \in Nat /\ h.heap_size + P <= Units /\ Q = P - size
    <3>1. P \in Nat /\ Units \in Nat
      <4>1. h.frames \in Nat /\ PageUnits \in Nat /\ Units \in Nat
        BY <1>3, Numbers
      <4> QED BY ONLY <4>1
    <3>2. h.heap_size + P <= Units
      BY Zenon
    <3>3. Q = P - size
      BY ONLY <2>1
    <3>4. h.heap_size \in Nat
      BY Fields, Zenon
    <3> HIDE DEF P, Q
    <3> QED BY <3>1, <3>2, <3>3, <3>4
  <2> HIDE DEF P, Q
  <2>4. size \in Nat
    BY <1>4
  <2> DEFINE hs == h.heap_size
  <2>5. x.heap_size = hs + size /\ hs \in Nat /\ hs + P <= Units
    BY <2>2, <2>3
  <2> HIDE DEF hs
  <2>6. x.heap_size + Q <= Units
    BY ONLY <2>3, <2>4, <2>5
  <2> QED BY <2>6 DEF Q
<1>18. \A u \in U : x.mem[u].size = h.mem[u].size
  BY <1>10, <1>13
<1> QED BY <1>13, <1>14, <1>15, <1>16, <1>17, <1>18, Zenon DEF x

-----------------------------------------------------------------------------
(* The loop of kmalloc. *)

\* Where the loop is that began in h, with the blocks in U used.
Worked(s, h, U, total) ==
  /\ s \in Try /\ s.heap.heap_size + s.heap.frames * PageUnits <= Units
  /\ s.heap.heap_size >= h.heap_size
  /\ \A u \in U : s.heap.mem[u].size = h.mem[u].size
  /\ s.block = NULL => Ordered(s.heap, U)
  /\ ~s.done => s.block = NULL /\ s.curr = s.heap.head
  /\ s.block # NULL => /\ s.block \in Unit \ U /\ s.heap.mem[s.block].size = total
                       /\ Ordered(s.heap, U \cup {s.block})

\* One round finds a block, panics, or expands the heap.
LEMMA TryOK ==
  ASSUME NEW h \in Heap_t, NEW U, U \subseteq Unit, NEW total \in Nat, 0 < total,
         NEW s, Worked(s, h, U, total)
  PROVE  LET t == TryRound(total)[s]
         IN /\ Worked(t, h, U, total)
            /\ s.done => t.done
            /\ ~s.done => t.done \/ t.heap.frames < s.heap.frames
<1> DEFINE g == s.heap
           f == FirstFit(g, s.curr, total)
           x == heap_expand_pages(g, ExpandPages)
           t == TryRound(total)[s]
<1>1. s \in Try /\ g \in Heap_t /\ s.curr \in Ptr /\ s.block \in Ptr /\ s.done \in BOOLEAN
  BY Zenon DEF Worked, Try
<1>2. /\ g.heap_size + g.frames * PageUnits <= Units /\ g.heap_size >= h.heap_size
      /\ \A u \in U : g.mem[u].size = h.mem[u].size
      /\ s.block = NULL => Ordered(g, U)
      /\ ~s.done => s.block = NULL /\ s.curr = g.head
  BY Zenon DEF Worked
<1>3. t = IF s.done \/ ~Fits(g, f, total) THEN s
          ELSE IF f.curr # NULL
          THEN [s EXCEPT !.heap = Take(g, f.prev, f.curr, total), !.block = f.curr, !.done = TRUE]
          ELSE IF g.frames < ExpandPages
          THEN [s EXCEPT !.heap.frames = 0, !.done = TRUE]
          ELSE [s EXCEPT !.heap = x, !.curr = x.head]
  BY <1>1 DEF TryRound
<1> SUFFICES /\ Worked(t, h, U, total)
             /\ s.done => t.done
             /\ ~s.done => t.done \/ t.heap.frames < g.frames
  BY Zenon
<1> HIDE DEF t, x
<1>4. CASE s.done
  BY <1>3, <1>4
<1>5. CASE ~s.done
  <2>1. s.block = NULL /\ s.curr = g.head /\ Ordered(g, U)
    BY <1>2, <1>5, Zenon
  <2>2. PICK F \in SUBSET Unit : Parted(g, F, U)
    BY <2>1, ZenonT(30) DEF Ordered
  <2>3. f = FirstFit(g, g.head, total)
    BY <2>1
  <2>4. Between(g, F, f) /\ Fits(g, f, total)
    <3>1. Listed(g.head, NextsOf(g), F)
      BY <2>2 DEF Parted
    <3> QED BY <1>1, <2>3, <3>1, FitOK, Zenon
  <2> HIDE DEF f
  <2>5. g.heap_size \in Nat /\ g.frames \in Nat /\ h.heap_size \in Nat
    BY <1>1, Fields, Zenon
  <2>6. CASE f.curr # NULL
    <3> DEFINE k == Take(g, f.prev, f.curr, total)
    <3>1. g.heap_size <= Units
      <4> DEFINE P == g.frames * PageUnits
      <4>1. P \in Nat
        <5>1. g.frames \in Nat /\ PageUnits \in Nat
          BY <2>5, Numbers
        <5> QED BY ONLY <5>1
      <4>2. g.heap_size + P <= Units
        BY <1>2, Zenon
      <4> HIDE DEF P
      <4> QED BY <2>5, <4>1, <4>2, Numbers
    <3>2. g.mem[f.curr].size >= total
      BY <2>4, <2>6, Zenon DEF Fits
    <3>3. /\ SameLimits(g, k) /\ Ordered(k, U \cup {f.curr}) /\ f.curr \in Unit \ U
          /\ k.mem[f.curr].size = total
          /\ \A u \in U : k.mem[u].size = g.mem[u].size
      <4>1. g \in Heap_t /\ Parted(g, F, U) /\ Between(g, F, f) /\ f.curr # NULL /\ total \in Nat /\ 0 < total
        BY <1>1, <2>2, <2>4, <2>6
      <4> HIDE DEF g
      <4> QED BY ONLY <3>1, <3>2, <4>1, TakeOK, ZenonT(30)
    <3>4. t = [s EXCEPT !.heap = k, !.block = f.curr, !.done = TRUE]
      BY <1>3, <1>5, <2>4, <2>6
    <3> HIDE DEF k
    <3>5. k \in Heap_t /\ k.heap_size = g.heap_size /\ k.frames = g.frames
      BY <3>3, Zenon DEF SameLimits
    <3>6. t.heap = k /\ t.block = f.curr /\ t.done = TRUE /\ t \in Try
      BY <1>1, <3>3, <3>4, <3>5, Numbers, ZenonT(30) DEF Try, Ptr
    <3> QED BY <1>2, <2>6, <3>3, <3>5, <3>6, Zenon DEF Worked
  <2>7. CASE f.curr = NULL /\ g.frames < ExpandPages
    <3>1. t = [s EXCEPT !.heap.frames = 0, !.done = TRUE]
      BY <1>3, <1>5, <2>4, <2>7
    <3> DEFINE k == [g EXCEPT !.frames = 0]
    <3>2. /\ t.heap = k /\ t.block = NULL /\ t.done = TRUE
      BY <1>1, <2>1, <3>1 DEF Try
    <3>3. k \in Heap_t /\ k.heap_size = g.heap_size /\ k.frames = 0 /\ k.mem = g.mem /\ k.head = g.head
      BY <1>1 DEF Heap_t
    <3>4. t \in Try
      BY <1>1, <3>1, <3>3, ZenonT(30) DEF Try
    <3> HIDE DEF k
    <3>5. Ordered(k, U)
      <4>1. SizesOf(k) = SizesOf(g) /\ NextsOf(k) = NextsOf(g)
        BY <3>3 DEF SizesOf, NextsOf
      <4> QED BY <2>1, <3>3, <4>1, Zenon DEF Ordered, Parted
    <3>6. k.heap_size + k.frames * PageUnits <= Units
      <4> DEFINE P == g.frames * PageUnits
      <4>1. P \in Nat
        <5>1. g.frames \in Nat /\ PageUnits \in Nat
          BY <2>5, Numbers
        <5> QED BY ONLY <5>1
      <4>2. g.heap_size + P <= Units
        BY <1>2, Zenon
      <4>3. k.frames * PageUnits = 0
        BY <3>3, Numbers
      <4> HIDE DEF P
      <4> QED BY <2>5, <3>3, <4>1, <4>2, <4>3, Numbers
    <3> QED BY <1>2, <3>2, <3>3, <3>4, <3>5, <3>6, Zenon DEF Worked
  <2>8. CASE f.curr = NULL /\ ~(g.frames < ExpandPages)
    <3>1. ExpandPages \in Nat /\ 0 < ExpandPages /\ ExpandPages <= g.frames
      BY <2>5, <2>8, Numbers
    <3>2. /\ x \in Heap_t /\ Ordered(x, U)
          /\ x.frames = g.frames - ExpandPages /\ x.heap_size > g.heap_size
          /\ x.heap_size + x.frames * PageUnits <= Units
          /\ \A u \in U : x.mem[u].size = g.mem[u].size
      BY <1>1, <1>2, <2>1, <3>1, ExpandOK DEF x
    <3>3. t = [s EXCEPT !.heap = x, !.curr = x.head]
      BY <1>3, <1>5, <2>4, <2>8
    <3>4. x.head \in Ptr /\ x.heap_size \in Nat
      BY <3>2, Fields, Zenon
    <3>5. t.heap = x /\ t.curr = x.head /\ t.block = NULL /\ t.done = s.done /\ t \in Try
      BY <1>1, <2>1, <3>2, <3>3, <3>4, ZenonT(30) DEF Try
    <3>6. x.heap_size >= h.heap_size
      BY <1>2, <2>5, <3>2, <3>4
    <3>7. Worked(t, h, U, total)
      BY <1>2, <3>2, <3>5, <3>6, Zenon DEF Worked
    <3>8. t.heap.frames < g.frames
      BY <2>5, <3>1, <3>2, <3>5
    <3> QED BY <1>5, <3>7, <3>8
  <2> QED BY <2>6, <2>7, <2>8, Zenon
<1> QED BY <1>1, <1>4, <1>5, Zenon

\* The search of kmalloc ends: every round but the last takes frames.
LEMMA SearchOK ==
  ASSUME NEW h \in Heap_t, NEW U, U \subseteq Unit, Ordered(h, U),
         h.heap_size + h.frames * PageUnits <= Units, NEW total \in Nat, 0 < total
  PROVE  LET r == Search(h, h.head, total) IN Worked(r, h, U, total) /\ r.done
<1> DEFINE n == Frames + 1
           s == [heap |-> h, curr |-> h.head, block |-> NULL, done |-> FALSE]
           round == TryRound(total)
           Good == {t \in Try : Worked(t, h, U, total)}
           G == [i \in 0 .. n |-> {t \in Try : t.done \/ t.heap.frames + i <= Frames}]
<1>1. n \in Nat /\ Frames \in Nat
  BY Numbers
<1>2. h.head \in Ptr /\ h.heap_size \in Nat /\ h.frames \in Nat
  BY Fields, Zenon
<1>3. s \in Try
  BY <1>2, Numbers DEF Try
<1>4. s \in Good
  BY <1>2, <1>3, Numbers DEF Worked
<1>5. h.frames <= Frames
  <2>1. PageUnits \in Nat /\ PageUnits > 0
    BY Numbers
  <2>2. h.heap_size + h.frames * PageUnits <= Frames * PageUnits
    BY Zenon DEF Units
  <2>3. ASSUME Frames + 1 <= h.frames PROVE FALSE
    <3>1. (Frames + 1) * PageUnits <= h.frames * PageUnits
      BY <1>1, <1>2, <2>1, <2>3
    <3>2. (Frames + 1) * PageUnits = Frames * PageUnits + PageUnits
      BY <1>1, <2>1
    <3> DEFINE A == Frames * PageUnits
               B == h.frames * PageUnits
    <3>3. A \in Nat /\ B \in Nat
      BY <1>1, <1>2, <2>1
    <3>4. A + PageUnits <= B /\ h.heap_size + B <= A
      BY <2>2, <3>1, <3>2
    <3> HIDE DEF A, B
    <3> QED BY <1>2, <2>1, <3>3, <3>4
  <2> QED BY <1>1, <1>2, <2>3
<1>6. ASSUME NEW t \in Good
      PROVE  /\ round[t] \in Good
             /\ t.done => round[t].done
             /\ ~t.done => round[t].done \/ round[t].heap.frames < t.heap.frames
  <2>1. Worked(t, h, U, total)
    BY Zenon
  <2>2. /\ Worked(round[t], h, U, total)
        /\ t.done => round[t].done
        /\ ~t.done => round[t].done \/ round[t].heap.frames < t.heap.frames
    BY <2>1, TryOK, Zenon
  <2>3. round[t] \in Try
    BY <2>2, Zenon DEF Worked
  <2> QED BY <2>2, <2>3, Zenon
<1>7. s \in G[0]
  <2>1. s.heap.frames + 0 <= Frames
    BY <1>2, <1>5
  <2> QED BY <1>1, <1>3, <2>1
<1>8. ASSUME NEW i \in 1 .. n, NEW t \in Good, t \in G[i - 1] PROVE round[t] \in G[i]
  <2> HIDE DEF round, Good
  <2>1. round[t] \in Try /\ t \in Try
    BY <1>6 DEF Good
  <2>2. t.done \/ t.heap.frames + (i - 1) <= Frames
    BY <1>1, <1>8
  <2>3. t.heap.frames \in Nat /\ round[t].heap.frames \in Nat
    BY <2>1, Zenon DEF Try, Heap_t
  <2>4. round[t].done \/ round[t].heap.frames + i <= Frames
    <3>1. CASE t.done
      BY <1>6, <3>1, Zenon
    <3>2. CASE ~t.done /\ ~round[t].done
      <4>1. round[t].heap.frames < t.heap.frames /\ t.heap.frames + (i - 1) <= Frames
        BY <1>6, <2>2, <3>2, Zenon
      <4> QED BY <1>1, <2>3, <4>1
    <3> QED BY <3>1, <3>2, Zenon
  <2>5. i \in 0 .. n
    OBVIOUS
  <2> QED BY <2>1, <2>4, <2>5
<1>9. n \in 0 .. n
  BY <1>1
<1> DEFINE r == Loop(n, s, round)
<1>10. r \in Good /\ r \in G[n]
  <2> HIDE DEF round, Good, G, s, n
  <2> QED BY <1>1, <1>4, <1>6, <1>7, <1>8, LoopOK, ZenonT(30)
<1>11. r = Search(h, h.head, total)
  BY Zenon DEF Search
<1> HIDE DEF r
<1>12. r.done
  <2>1. r.done \/ r.heap.frames + n <= Frames
    BY <1>9, <1>10
  <2>2. r.heap.frames \in Nat
    BY <1>10, Zenon DEF Try, Heap_t
  <2> QED BY <1>1, <2>1, <2>2
<1>13. Worked(r, h, U, total)
  BY <1>10
<1> QED BY <1>11, <1>12, <1>13

-----------------------------------------------------------------------------
(* The caller's use of its block. *)

\* What the caller writes behind its header touches no other header.
LEMMA HandOK ==
  ASSUME NEW h \in Heap_t, NEW V, Ordered(h, V), NEW a \in V
  PROVE  LET k == Hand(h, a)
         IN /\ SameLimits(h, k) /\ k.head = h.head /\ Ordered(k, V)
            /\ \A u \in V : k.mem[u].size = h.mem[u].size
<1>1. PICK F \in SUBSET Unit : Parted(h, F, V)
  BY ZenonT(30) DEF Ordered
<1> DEFINE k == Hand(h, a)
           sz == SizesOf(h)
           nx == NextsOf(h)
           zz == SizesOf(k)
           mx == NextsOf(k)
           T == F \cup V
<1>2. Listed(h.head, nx, F) /\ Sparse(sz, F) /\ F \cap V = {} /\ Tiles(sz, T, h.heap_size) /\ T \subseteq Unit
  BY <1>1, Zenon DEF Parted, Tiles
<1>3. a \in Unit /\ \A u \in T : u \in Nat
  BY <1>2, Numbers
<1>4. /\ k.head = h.head /\ k.heap_size = h.heap_size /\ k.frames = h.frames
      /\ k.mem = [u \in Unit |-> IF u > a /\ u < a + h.mem[a].size THEN Junk ELSE h.mem[u]]
  BY Zenon DEF Hand, Heap_t
<1>5. k \in Heap_t
  <2>1. Junk \in heap_block_t
    BY Numbers DEF Junk, heap_block_t
  <2>2. k.mem \in [Unit -> heap_block_t]
    BY <1>4, <2>1 DEF Heap_t
  <2>3. k = [h EXCEPT !.mem = k.mem]
    BY <1>4 DEF Hand, Heap_t
  <2> QED BY <2>2, <2>3 DEF Heap_t
<1> HIDE DEF k
<1>6. \A u \in T : k.mem[u] = h.mem[u]
  <2> TAKE u \in T
  <2>1. sz[a] = h.mem[a].size /\ h.mem[a].size \in Nat
    BY <1>3, Fields, Zenon
  <2>2. a < u => a + sz[a] <= u
    BY <1>2 DEF Tiles
  <2>3. ~(u > a /\ u < a + h.mem[a].size)
    BY <1>3, <2>1, <2>2
  <2> QED BY <1>2, <1>4, <2>3, Zenon
<1>7. \A u \in T : zz[u] = sz[u] /\ mx[u] = nx[u]
  BY <1>2, <1>6, Zenon DEF SizesOf, NextsOf
<1> HIDE DEF sz, nx, zz, mx
<1>8. Listed(k.head, mx, F)
  <2>1. \A u \in F : mx[u] = nx[u]
    BY <1>7
  <2> QED BY <1>2, <1>4, <2>1, Zenon DEF Listed
<1>9. Sparse(zz, F)
  <2>1. \A u \in F : zz[u] = sz[u]
    BY <1>7
  <2> QED BY <1>2, <2>1 DEF Sparse
<1>10. Tiles(zz, T, k.heap_size)
  <2> HIDE DEF T
  <2> QED BY <1>2, <1>4, <1>7, Zenon DEF Tiles
<1>11. Ordered(k, V)
  BY <1>2, <1>8, <1>9, <1>10, ZenonT(30) DEF Ordered, Parted, zz, mx
<1>12. SameLimits(h, k) /\ \A u \in V : k.mem[u].size = h.mem[u].size
  BY <1>4, <1>5, <1>6, Zenon DEF SameLimits
<1> QED BY <1>4, <1>11, <1>12, Zenon DEF k

-----------------------------------------------------------------------------
(* What a heap in order means for its callers. *)

LEMMA SoundOK ==
  ASSUME NEW h \in Heap_t, NEW O, Sound(h, O)
  PROVE  /\ Starts(O) \subseteq Unit
         /\ \A x \in O : /\ x.start \in Nat /\ x.size \in Nat /\ x.size > 0
                         /\ x.start + x.size <= h.heap_size /\ h.mem[x.start].size = x.size
         /\ \A x, y \in O : x # y => x.start + x.size <= y.start \/ y.start + y.size <= x.start
<1>1. PICK F \in SUBSET Unit : Parted(h, F, Starts(O))
  BY ZenonT(30) DEF Sound, Ordered
<1> DEFINE U == Starts(O)
           sz == SizesOf(h)
<1>2. Tiles(sz, F \cup U, h.heap_size) /\ U \subseteq Unit
  BY <1>1, Zenon DEF Parted, Tiles
<1>3. /\ \A u \in U : sz[u] > 0 /\ u + sz[u] <= h.heap_size
      /\ \A u, v \in U : u < v => u + sz[u] <= v
  BY <1>2 DEF Tiles
<1>4. \A x \in O : x.start \in U
  BY Zenon DEF Starts
<1>5. \A x \in O : x.start \in Unit /\ x.size \in Nat /\ h.mem[x.start].size = x.size
  BY DEF Sound, Used
<1>6. \A x \in O : x.start \in Nat /\ sz[x.start] = x.size
  BY <1>5, Fields, Numbers, ZenonT(30)
<1>7. \A x, y \in O : x.start = y.start => x = y
  BY DEF Sound, Used
<1> HIDE DEF U, sz
<1>8. ASSUME NEW x \in O, NEW y \in O, x # y
      PROVE  x.start + x.size <= y.start \/ y.start + y.size <= x.start
  <2>1. x.start < y.start \/ y.start < x.start
    BY <1>6, <1>7, <1>8
  <2> QED BY <1>3, <1>4, <1>6, <2>1
<1>9. \A x \in O : x.size > 0 /\ x.start + x.size <= h.heap_size
  BY <1>3, <1>4, <1>6
<1> QED BY <1>2, <1>5, <1>6, <1>8, <1>9, Zenon DEF U

LEMMA AlignOK ==
  ASSUME NEW n \in Nat, 0 < n
  PROVE  ALIGN_UP_HEAP(n) \in Nat /\ ALIGN_UP_HEAP(n) >= 1
<1> DEFINE A == HEAP_ALIGNMENT
           m == n + A - 1
           q == m \div A
<1>1. A \in Nat /\ A > 0 /\ m \in Nat /\ m >= A
  BY HeapAssumption
<1>2. q \in Int /\ A * q <= m /\ m < A * q + A
  BY <1>1
<1>3. q >= 1
  BY <1>1, <1>2
<1> QED BY <1>2, <1>3 DEF ALIGN_UP_HEAP

LEMMA TotalOK ==
  ASSUME NEW sz \in Sizes
  PROVE  /\ ALIGN_UP_HEAP(sz) \in Nat /\ Total(sz) \in Nat /\ 0 < Total(sz)
         /\ Total(sz) >= ALIGN_UP_HEAP(sz) + 1
<1>1. sz \in Nat /\ 0 < sz
  BY HeapAssumption
<1>2. ALIGN_UP_HEAP(sz) \in Nat /\ ALIGN_UP_HEAP(8) \in Nat /\ ALIGN_UP_HEAP(8) >= 1
  BY <1>1, AlignOK
<1> QED BY <1>2 DEF Total, header_sz

-----------------------------------------------------------------------------
(* kmalloc and kfree. *)

\* A block large enough is handed out that was not.
Gives == \E x \in owned' : x \notin owned /\ x.size >= x.payload + 1 /\ owned' = owned \cup {x}

\* The heap k is h with the free block a taken from it.
Taken(h, k, O, a, size) ==
  /\ k \in Heap_t /\ Sound(h, O) /\ a \in Unit \ Starts(O) /\ k.mem[a].size = size
  /\ \A u \in Starts(O) : k.mem[u].size = h.mem[u].size
  /\ Ordered(k, Starts(O) \cup {a})

Block(a, size, payload) == [start |-> a, size |-> size, payload |-> payload]

\* The block joins those in use.
LEMMA UsedOK ==
  ASSUME NEW h, NEW k, NEW O, NEW a, NEW size \in Nat, NEW payload \in Nat,
         Taken(h, k, O, a, size)
  PROVE  Sound(k, O \cup {Block(a, size, payload)}) /\ Block(a, size, payload) \notin O
<1>0. /\ Sound(h, O) /\ a \in Unit \ Starts(O) /\ k.mem[a].size = size
      /\ \A u \in Starts(O) : k.mem[u].size = h.mem[u].size
      /\ Ordered(k, Starts(O) \cup {a})
  BY Zenon DEF Taken
<1> DEFINE x == [start |-> a, size |-> size, payload |-> payload]
           Q == O \cup {x}
<1>1. x \in [start : Unit, size : Nat, payload : Nat] /\ x.start = a /\ x.size = size
  BY <1>0, Zenon
<1> HIDE DEF x
<1>2. \A y \in O : y.start \in Starts(O) /\ y.start # a
  BY <1>0 DEF Starts
<1>3. /\ O \subseteq [start : Unit, size : Nat, payload : Nat]
      /\ \A y \in O : h.mem[y.start].size = y.size
      /\ \A y, z \in O : y.start = z.start => y = z
  BY <1>0, Zenon DEF Sound, Used
<1>4. Starts(Q) = Starts(O) \cup {a}
  BY <1>1 DEF Starts
<1>5. \A y \in Q : k.mem[y.start].size = y.size
  BY <1>0, <1>1, <1>2, <1>3, Zenon
<1>6. \A y, z \in Q : y.start = z.start => y = z
  BY <1>1, <1>2, <1>3
<1>7. Used(k, Q)
  <2>1. Q \subseteq [start : Unit, size : Nat, payload : Nat]
    BY <1>1, <1>3
  <2> HIDE DEF Q
  <2> QED BY <1>5, <1>6, <2>1 DEF Used
<1>8. Sound(k, Q)
  <2> HIDE DEF Q
  <2> QED BY <1>0, <1>4, <1>7, Zenon DEF Sound
<1>9. x \notin O
  BY <1>1, <1>2
<1> QED BY <1>8, <1>9 DEF x, Block

LEMMA WorkOK ==
  ASSUME TypeOK, Sound(heap, owned), NEW c, NEW sz \in Sizes, Work(c, sz, heap.head)
  PROVE  /\ heap' \in Heap_t /\ heap'.heap_size + heap'.frames * PageUnits <= Units
         /\ heap'.heap_size >= heap.heap_size /\ Sound(heap', owned')
         /\ \/ Gives /\ lock' = NULL /\ dead' = dead
            \/ owned' = owned /\ lock' = c /\ dead' = dead \cup {c}
<1> DEFINE total == Total(sz)
           U == Starts(owned)
           r == Search(heap, heap.head, total)
<1>1. heap \in Heap_t /\ heap.heap_size + heap.frames * PageUnits <= Units
  BY DEF TypeOK
<1>2. U \subseteq Unit /\ Ordered(heap, U)
  BY <1>1, SoundOK, Zenon DEF Sound
<1>3. /\ ALIGN_UP_HEAP(sz) \in Nat /\ total \in Nat /\ 0 < total
      /\ total >= ALIGN_UP_HEAP(sz) + 1
  BY TotalOK
<1>4. Worked(r, heap, U, total) /\ r.done
  <2> HIDE DEF total, U
  <2> QED BY <1>1, <1>2, <1>3, SearchOK
<1>5. \/ /\ r.block # NULL
         /\ heap' = Hand(r.heap, r.block)
         /\ owned' = owned \cup {[start |-> r.block, size |-> r.heap.mem[r.block].size,
                                  payload |-> ALIGN_UP_HEAP(sz)]}
         /\ lock' = NULL /\ dead' = dead
      \/ /\ r.block = NULL
         /\ heap' = r.heap
         /\ owned' = owned
         /\ lock' = c /\ dead' = dead \cup {c}
  BY ZenonT(30) DEF Work
<1> HIDE DEF r, total
<1>6. /\ r.heap \in Heap_t /\ r.heap.heap_size + r.heap.frames * PageUnits <= Units
      /\ r.heap.heap_size >= heap.heap_size
      /\ \A u \in U : r.heap.mem[u].size = heap.mem[u].size
  BY <1>4, ZenonT(30) DEF Worked, Try
<1>7. CASE r.block = NULL
  <2>1. Ordered(r.heap, U)
    BY <1>4, <1>7, Zenon DEF Worked
  <2>2. \A x \in owned : r.heap.mem[x.start].size = x.size
    <3>1. \A x \in owned : x.start \in U
      BY DEF Starts
    <3> HIDE DEF U
    <3> QED BY <1>6, <3>1, Zenon DEF Sound, Used
  <2>3. Sound(r.heap, owned)
    BY <2>1, <2>2, Zenon DEF Sound, Used
  <2>4. heap' = r.heap /\ owned' = owned /\ lock' = c /\ dead' = dead \cup {c}
    BY <1>5, <1>7
  <2> QED BY <1>6, <2>3, <2>4, Zenon
<1>8. CASE r.block # NULL
  <2> DEFINE a == r.block
             g == r.heap
             k == Hand(g, a)
             x == [start |-> a, size |-> total, payload |-> ALIGN_UP_HEAP(sz)]
  <2>1. a \in Unit \ U /\ g.mem[a].size = total /\ Ordered(g, U \cup {a})
    BY <1>4, <1>8, Zenon DEF Worked
  <2>2. heap' = k /\ owned' = owned \cup {x} /\ lock' = NULL /\ dead' = dead
    BY <1>5, <1>8, <2>1, ZenonT(30)
  <2> HIDE DEF a, g, U
  <2>3. /\ SameLimits(g, k) /\ k.head = g.head /\ Ordered(k, U \cup {a})
        /\ \A u \in U \cup {a} : k.mem[u].size = g.mem[u].size
    <3>1. a \in U \cup {a} /\ g \in Heap_t
      BY <1>6 DEF g
    <3> QED BY <2>1, <3>1, HandOK, ZenonT(30)
  <2> HIDE DEF k
  <2>4. k \in Heap_t /\ k.heap_size = g.heap_size /\ k.frames = g.frames
    BY <2>3 DEF SameLimits
  <2>5. k.mem[a].size = total /\ \A u \in U : k.mem[u].size = heap.mem[u].size
    BY <1>6, <2>1, <2>3, Zenon DEF g
  <2>6. Sound(k, owned \cup {x}) /\ x \notin owned
    <3>1. Taken(heap, k, owned, a, total)
      BY <2>1, <2>3, <2>4, <2>5, Zenon DEF U, Taken
    <3>2. total \in Nat /\ ALIGN_UP_HEAP(sz) \in Nat
      BY <1>3
    <3>3. x = Block(a, total, ALIGN_UP_HEAP(sz))
      BY Zenon DEF Block
    <3> HIDE DEF x
    <3> QED BY <3>1, <3>2, <3>3, UsedOK, Zenon
  <2>7. x.size >= x.payload + 1
    BY <1>3
  <2> HIDE DEF x
  <2>8. Gives
    BY <2>2, <2>6, <2>7 DEF Gives
  <2>9. k.heap_size + k.frames * PageUnits <= Units /\ k.heap_size >= heap.heap_size
    BY <1>6, <2>4, Zenon DEF g
  <2> QED BY <2>2, <2>4, <2>6, <2>8, <2>9
<1> QED BY <1>7, <1>8

LEMMA FreesOK ==
  ASSUME TypeOK, Sound(heap, owned), NEW x \in owned,
         heap' = Insert(heap, x.start, heap.mem[x.start].size), owned' = owned \ {x}
  PROVE  SameLimits(heap, heap') /\ Sound(heap', owned')
<1> DEFINE U == Starts(owned)
           a == x.start
           k == Insert(heap, a, heap.mem[a].size)
<1>1. heap \in Heap_t /\ Ordered(heap, U) /\ Used(heap, owned)
  BY DEF TypeOK, Sound
<1>2. a \in U
  BY DEF Starts
<1>3. /\ SameLimits(heap, k) /\ Ordered(k, U \ {a})
      /\ \A u \in U \ {a} : k.mem[u].size = heap.mem[u].size
  <2> HIDE DEF a, U
  <2> QED BY <1>1, <1>2, FreeOK, ZenonT(30)
<1> HIDE DEF k
<1>4. \A y, z \in owned : y.start = z.start => y = z
  BY <1>1, Zenon DEF Used
<1>5. Starts(owned \ {x}) = U \ {a}
  BY <1>4 DEF Starts
<1>6. \A y \in owned \ {x} : y.start \in U \ {a}
  BY <1>5, Zenon DEF Starts
<1>7. Used(k, owned \ {x})
  <2>1. \A y \in owned \ {x} : k.mem[y.start].size = y.size
    <3> HIDE DEF a, U
    <3> QED BY <1>1, <1>3, <1>6, Zenon DEF Used
  <2> QED BY <1>1, <2>1, Zenon DEF Used
<1>8. heap' = k /\ owned' = owned \ {x}
  BY DEF k
<1> QED BY <1>3, <1>5, <1>7, <1>8, Zenon DEF Sound

-----------------------------------------------------------------------------
(* Every operation keeps the invariant. *)

LEMMA InitOK == Init => IInv
<1> SUFFICES ASSUME Init PROVE IInv
  OBVIOUS
<1>1. heap = [head |-> NULL, heap_size |-> 0, frames |-> Frames, mem |-> [u \in Unit |-> Junk]]
  BY DEF Init
<1>2. heap \in Heap_t
  <2>1. Junk \in heap_block_t
    BY Numbers DEF Junk, heap_block_t
  <2> QED BY <1>1, <2>1, Numbers DEF Heap_t
<1>3. TypeOK
  <2>1. heap.heap_size + heap.frames * PageUnits <= Units
    BY <1>1, HeapAssumption DEF Units
  <2> QED BY <1>2, <2>1, Numbers, ZenonT(30) DEF TypeOK, Init, Outside, Kmain
<1>4. Sound(heap, owned)
  <2>1. owned = {} /\ Starts(owned) = {}
    BY ZenonT(30) DEF Init, Starts
  <2>2. Parted(heap, {}, {})
    <3>1. Listed(heap.head, NextsOf(heap), {}) /\ Sparse(SizesOf(heap), {})
      BY <1>1 DEF Listed, Sparse
    <3>2. Tiles(SizesOf(heap), {} \cup {}, 0)
      BY Numbers DEF Tiles
    <3> QED BY <1>1, <3>1, <3>2 DEF Parted
  <2>3. Ordered(heap, {})
    BY <2>2 DEF Ordered
  <2> QED BY <2>1, <2>3 DEF Sound, Used
<1> QED BY <1>1, <1>3, <1>4 DEF IInv, Init, Outside

LEMMA InstallOK ==
  ASSUME IInv, heap_install
  PROVE  IInv' /\ heap'.heap_size > heap.heap_size
<1> DEFINE U == Starts(owned)
           n == KERNEL_INITIAL_PAGES
           x == heap_expand_pages(heap, n)
<1>1. /\ heap \in Heap_t /\ heap.heap_size + heap.frames * PageUnits <= Units
      /\ heap.heap_size = 0 /\ heap.frames = Frames /\ Sound(heap, owned) /\ heap' = x
  BY ZenonT(30) DEF IInv, TypeOK, heap_install
<1>2. n \in Nat /\ 0 < n /\ n <= heap.frames
  BY <1>1, HeapAssumption
<1>3. U \subseteq Unit /\ Ordered(heap, U)
  BY <1>1, SoundOK, ZenonT(30) DEF Sound
<1>4. /\ x \in Heap_t /\ Ordered(x, U)
      /\ x.frames = heap.frames - n /\ x.heap_size > heap.heap_size
      /\ x.heap_size + x.frames * PageUnits <= Units
      /\ \A u \in U : x.mem[u].size = heap.mem[u].size
  <2> HIDE DEF n, U
  <2> QED BY <1>1, <1>2, <1>3, ExpandOK
<1> HIDE DEF x
<1>5. Sound(x, owned)
  <2>1. \A y \in owned : y.start \in U
    BY DEF Starts
  <2>2. \A y \in owned : x.mem[y.start].size = y.size
    <3> HIDE DEF U
    <3> QED BY <1>1, <1>4, <2>1, Zenon DEF Sound, Used
  <2> QED BY <1>1, <1>4, <2>2, Zenon DEF Sound, Used
<1>6. UNCHANGED <<lock, main, dead, hung, owned>>
  BY DEF heap_install
<1>7. main.at = "out"
  BY <1>1 DEF IInv, TypeOK
<1>8. x.heap_size # 0
  BY <1>1, <1>4
<1>9. TypeOK'
  BY <1>1, <1>4, <1>6, Zenon DEF IInv, TypeOK
<1>10. Sound(heap', owned')
  BY <1>1, <1>5, <1>6
<1> QED BY <1>1, <1>4, <1>6, <1>7, <1>8, <1>9, <1>10, ZenonT(30) DEF IInv

\* kmalloc of a process, or of kmain with the lock.
LEMMA KmallocOK ==
  ASSUME ~Preempted, IInv, NEW c \in Contexts, NEW sz \in Sizes, Work(c, sz, heap.head),
         main'.at = "out", main' \in Kmain,
         hung' = hung, ~hung, heap.heap_size > 0
  PROVE  /\ IInv' /\ heap'.heap_size >= heap.heap_size
         /\ Gives \/ owned' = owned
<1>1. TypeOK /\ Sound(heap, owned) /\ heap \in Heap_t
  BY DEF IInv, TypeOK
<1>2. /\ heap' \in Heap_t /\ heap'.heap_size + heap'.frames * PageUnits <= Units
      /\ heap'.heap_size >= heap.heap_size /\ Sound(heap', owned')
      /\ \/ Gives /\ lock' = NULL /\ dead' = dead
         \/ owned' = owned /\ lock' = c /\ dead' = dead \cup {c}
  BY <1>1, WorkOK
<1>3. heap'.heap_size # 0
  <2>1. heap.heap_size \in Nat /\ heap'.heap_size \in Nat
    BY <1>1, <1>2, Fields, Zenon
  <2> QED BY <1>2, <2>1
<1>4. lock' \in Contexts \cup {NULL} /\ dead' \subseteq Contexts /\ (lock' # NULL => lock' \in dead')
  BY <1>1, <1>2 DEF TypeOK
<1>5. TypeOK'
  BY <1>1, <1>2, <1>4, Zenon DEF TypeOK
<1>6. IInv'
  BY <1>2, <1>3, <1>4, <1>5, Zenon DEF IInv
<1> QED BY <1>2, <1>6

LEMMA KfreeOK ==
  ASSUME ~Preempted, IInv, NEW c \in Contexts, NEW x \in owned, kfree(c, x)
  PROVE  IInv' /\ heap'.heap_size = heap.heap_size /\ owned' = owned \ {x}
<1>1. TypeOK /\ Sound(heap, owned) /\ heap \in Heap_t
  BY DEF IInv, TypeOK
<1>2. /\ heap' = Insert(heap, x.start, heap.mem[x.start].size) /\ owned' = owned \ {x}
      /\ UNCHANGED <<lock, main, dead, hung>> /\ main.at = "out" /\ heap.heap_size > 0
  BY Zenon DEF kfree, CanRun, IInv, TypeOK
<1>3. SameLimits(heap, heap') /\ Sound(heap', owned')
  BY <1>1, <1>2, FreesOK, Zenon
<1>4. heap' \in Heap_t /\ heap'.heap_size = heap.heap_size /\ heap'.frames = heap.frames
  BY <1>3 DEF SameLimits
<1>5. TypeOK'
  BY <1>1, <1>2, <1>4, ZenonT(30) DEF TypeOK
<1> QED BY <1>2, <1>3, <1>4, <1>5, ZenonT(30) DEF IInv

AbsStep == [Abs!AbsNext]_<<owned, heap.heap_size>>

\* kmalloc hands out memory that nobody has: a step of the abstract heap.
LEMMA GivesOK ==
  ASSUME Gives, heap' \in Heap_t, Sound(heap', owned'), heap'.heap_size >= heap.heap_size
  PROVE  Abs!AbsNext
<1>1. PICK x \in owned' : x \notin owned /\ x.size >= x.payload + 1 /\ owned' = owned \cup {x}
  BY ZenonT(30) DEF Gives
<1>2. /\ \A y \in owned' : y.start \in Nat /\ y.size \in Nat /\ y.start + y.size <= heap'.heap_size
      /\ \A y, z \in owned' : y # z => y.start + y.size <= z.start \/ z.start + z.size <= y.start
  BY SoundOK
<1>3. \A y \in owned : Abs!Disjoint(x, y)
  <2>1. \A y \in owned : y \in owned' /\ x # y
    BY <1>1
  <2> QED BY <1>2, <2>1 DEF Abs!Disjoint
<1>4. x.start >= 0 /\ x.start + x.size <= heap'.heap_size
  BY <1>2
<1>5. Abs!Alloc(x)
  BY <1>1, <1>3, <1>4 DEF Abs!Alloc
<1> QED BY <1>5 DEF Abs!AbsNext

\* Every step keeps the invariant and is a step of the abstract heap.
LEMMA StepOK ==
  ASSUME ~Preempted, IInv, [Next]_vars
  PROVE  IInv' /\ AbsStep
<1>0. heap \in Heap_t /\ heap.heap_size \in Nat /\ TypeOK
  BY Fields, Zenon DEF IInv, TypeOK
<1>1. CASE heap_install
  <2>1. IInv' /\ heap'.heap_size > heap.heap_size /\ owned' = owned
    BY <1>1, InstallOK DEF heap_install
  <2>2. Abs!Grow
    BY <2>1 DEF Abs!Grow
  <2> QED BY <2>1, <2>2 DEF AbsStep, Abs!AbsNext
<1>2. ASSUME NEW c \in Contexts, NEW sz \in Sizes, Work(c, sz, heap.head),
             main'.at = "out", main' \in Kmain,
             hung' = hung, ~hung, heap.heap_size > 0
      PROVE  IInv' /\ AbsStep
  <2>1. IInv' /\ heap'.heap_size >= heap.heap_size /\ (Gives \/ owned' = owned)
    BY <1>2, KmallocOK
  <2>2. heap' \in Heap_t /\ Sound(heap', owned')
    BY <2>1, Zenon DEF IInv, TypeOK
  <2>3. CASE Gives
    BY <2>1, <2>2, <2>3, GivesOK DEF AbsStep
  <2>4. CASE owned' = owned
    <3>1. heap'.heap_size \in Nat
      BY <2>2, Fields
    <3>2. heap'.heap_size > heap.heap_size \/ heap'.heap_size = heap.heap_size
      BY <1>0, <2>1, <3>1
    <3> QED BY <2>1, <2>4, <3>2 DEF AbsStep, Abs!AbsNext, Abs!Grow
  <2> QED BY <2>1, <2>3, <2>4
<1>3. ASSUME NEW c \in Procs, NEW sz \in Sizes, kmalloc(c, sz) PROVE IInv' /\ AbsStep
  <2>1. /\ Work(c, sz, heap.head) /\ main' = main /\ hung' = hung /\ ~hung
        /\ heap.heap_size > 0 /\ main.at = "out" /\ c \in Contexts
    BY <1>0, <1>3 DEF kmalloc, CanRun, Contexts
  <2>2. main \in Kmain
    BY <1>0 DEF TypeOK
  <2> QED BY <1>2, <2>1, <2>2
<1>4. ASSUME NEW sz \in Sizes, kmalloc_reads(sz) PROVE IInv' /\ AbsStep
  <2>1. /\ main' = [at |-> "read", sz |-> sz, curr |-> heap.head]
        /\ UNCHANGED <<heap, lock, dead, hung, owned>> /\ heap.heap_size > 0 /\ main.at = "out"
    BY <1>4 DEF kmalloc_reads, CanRun
  <2>2. heap.head \in Ptr
    BY <1>0, Fields
  <2>3. main'.at = "read" /\ main'.sz = sz /\ main'.curr = heap.head /\ main' \in Kmain
    BY <2>1, <2>2 DEF Kmain
  <2>4. TypeOK'
    BY <1>0, <2>1, <2>2, <2>3, Zenon DEF TypeOK
  <2>5. IInv'
    BY <2>1, <2>3, <2>4 DEF IInv
  <2> QED BY <2>1, <2>5 DEF AbsStep
<1>5. CASE kmalloc_locks
  <2>1. /\ main.at = "read" /\ ~hung /\ lock' = Main /\ main' = [main EXCEPT !.at = "locked"]
        /\ UNCHANGED <<heap, dead, hung, owned>>
    BY <1>5 DEF kmalloc_locks
  <2>2. main \in Kmain
    BY <1>0 DEF TypeOK
  <2>3. main'.at = "locked" /\ main'.sz = main.sz /\ main'.curr = main.curr /\ main' \in Kmain
    BY <2>1, <2>2 DEF Kmain
  <2>4. TypeOK'
    BY <1>0, <2>1, <2>3 DEF TypeOK, Contexts
  <2>5. IInv'
    BY <2>1, <2>3, <2>4 DEF IInv
  <2> QED BY <2>1, <2>5 DEF AbsStep
<1>6. CASE kmalloc_works
  <2>1. /\ main.at = "locked" /\ ~hung /\ Work(Main, main.sz, main.curr)
        /\ main' = Outside /\ hung' = hung
    BY <1>6 DEF kmalloc_works
  <2>2. main.curr = heap.head /\ heap.heap_size > 0 /\ main.sz \in Sizes /\ Main \in Contexts
    BY <2>1 DEF IInv, Contexts
  <2>3. main'.at = "out" /\ main' \in Kmain
    BY <2>1, Numbers DEF Outside, Kmain
  <2> QED BY <1>2, <2>1, <2>2, <2>3
<1>7. ASSUME NEW c \in Contexts, NEW x \in owned, kfree(c, x) PROVE IInv' /\ AbsStep
  <2>1. IInv' /\ heap'.heap_size = heap.heap_size /\ owned' = owned \ {x}
    BY <1>7, KfreeOK
  <2>2. Abs!Free(x)
    BY <2>1 DEF Abs!Free
  <2> QED BY <2>1, <2>2 DEF AbsStep, Abs!AbsNext
<1>8. ASSUME NEW c \in Procs, Spins(c) PROVE IInv' /\ AbsStep
  <2>1. /\ lock # NULL /\ hung' = TRUE /\ main.at = "out"
        /\ UNCHANGED <<heap, lock, main, dead, owned>>
    BY <1>8 DEF Spins, CanRun
  <2>2. TypeOK'
    BY <1>0, <2>1 DEF TypeOK
  <2>3. IInv'
    BY <2>1, <2>2 DEF IInv
  <2> QED BY <2>1, <2>3 DEF AbsStep
<1>9. CASE UNCHANGED vars
  BY <1>9 DEF vars, IInv, TypeOK, AbsStep
<1> QED BY <1>1, <1>3, <1>4, <1>5, <1>6, <1>7, <1>8, <1>9 DEF Next

-----------------------------------------------------------------------------
(* What the invariant gives. *)

\* The free list reaches all free blocks and no other.
LEMMA FreeBlocksOK ==
  ASSUME heap \in Heap_t, NEW F \in SUBSET Unit, Parted(heap, F, Starts(owned))
  PROVE  FreeBlocks = {[start |-> a, size |-> heap.mem[a].size] : a \in F}
<1>1. Listed(heap.head, NextsOf(heap), F)
  BY DEF Parted
<1>2. Reached = F
  BY <1>1, ReachedOK
<1> QED BY <1>2 DEF FreeBlocks

LEMMA TilingOK ==
  ASSUME heap \in Heap_t, Sound(heap, owned)
  PROVE  Tiling
<1>1. PICK F \in SUBSET Unit : Parted(heap, F, Starts(owned))
  BY ZenonT(30) DEF Sound, Ordered
<1> DEFINE U == Starts(owned)
           T == F \cup U
           sz == SizesOf(heap)
           all == {<<"free", x>> : x \in FreeBlocks} \cup {<<"owned", x>> : x \in owned}
<1>2. F \cap U = {} /\ Tiles(sz, T, heap.heap_size)
  BY <1>1 DEF Parted
<1>3. /\ T \subseteq Unit
      /\ \A a \in T : a + sz[a] <= heap.heap_size
      /\ \A a, b \in T : a < b => a + sz[a] <= b
      /\ \A u \in Unit : u < heap.heap_size => \E a \in T : a <= u /\ u < a + sz[a]
  BY <1>2, Zenon DEF Tiles
<1>4. /\ \A a \in T : a \in Nat /\ sz[a] \in Nat /\ sz[a] = heap.mem[a].size
      /\ heap.heap_size \in Nat
  BY <1>3, Fields, Numbers, Zenon
<1>5. FreeBlocks = {[start |-> a, size |-> heap.mem[a].size] : a \in F}
  BY <1>1, FreeBlocksOK
<1>6. /\ \A x \in owned : x.start \in U /\ x.size = heap.mem[x.start].size
      /\ \A x, y \in owned : x.start = y.start => x = y
  BY DEF Sound, Used, Starts
<1>7. \A b \in all : b[2].start \in T /\ b[2].size = sz[b[2].start]
  <2>1. \A x \in FreeBlocks : x.start \in T /\ x.size = sz[x.start]
    BY <1>4, <1>5
  <2>2. \A x \in owned : x.start \in T /\ x.size = sz[x.start]
    BY <1>4, <1>6
  <2> HIDE DEF T, sz
  <2> QED BY <2>1, <2>2
<1>8. \A b, c \in all : b[2].start = c[2].start => b = c
  <2>1. \A x \in FreeBlocks : x.start \in F
    BY <1>5
  <2>2. \A x, y \in FreeBlocks : x.start = y.start => x = y
    BY <1>5
  <2>3. \A x \in owned : x.start \notin F
    BY <1>2, <1>6
  <2> HIDE DEF T, sz, U
  <2> QED BY <1>6, <2>1, <2>2, <2>3
<1>9. \A a \in T : \E b \in all : b[2].start = a
  <2>1. ASSUME NEW a \in F PROVE \E b \in all : b[2].start = a
    <3> DEFINE x == [start |-> a, size |-> heap.mem[a].size]
    <3>1. x \in FreeBlocks /\ x.start = a
      BY <1>5
    <3> HIDE DEF x
    <3>2. <<"free", x>> \in all /\ <<"free", x>>[2] = x
      BY <3>1
    <3> QED BY <3>1, <3>2, ZenonT(30)
  <2>2. ASSUME NEW a \in U PROVE \E b \in all : b[2].start = a
    <3>1. PICK x \in owned : x.start = a
      BY DEF Starts
    <3>2. <<"owned", x>> \in all /\ <<"owned", x>>[2] = x
      BY <3>1
    <3> QED BY <3>1, <3>2, ZenonT(30)
  <2> QED BY <2>1, <2>2
<1> HIDE DEF all, T, sz
<1>10. ASSUME NEW u \in Unit, u < heap.heap_size
       PROVE  \E b \in all : \A c \in all : Covers(c[2], u) <=> c = b
  <2>1. PICK a \in T : a <= u /\ u < a + sz[a]
    BY <1>3, <1>10
  <2>2. PICK b \in all : b[2].start = a
    BY <1>9
  <2>3. Covers(b[2], u)
    BY <1>7, <2>1, <2>2 DEF Covers
  <2>4. ASSUME NEW c \in all, Covers(c[2], u) PROVE c = b
    <3> DEFINE d == c[2].start
    <3>1. d \in T /\ d <= u /\ u < d + sz[d]
      BY <1>7, <2>4 DEF Covers
    <3> HIDE DEF d
    <3>2. (d < a => d + sz[d] <= a) /\ (a < d => a + sz[a] <= d)
      BY <1>3, <3>1
    <3>3. d \in Nat /\ a \in Nat /\ sz[d] \in Nat /\ sz[a] \in Nat /\ u \in Nat
      BY <1>4, <3>1, Numbers
    <3>4. d = a
      BY <2>1, <3>1, <3>2, <3>3
    <3> QED BY <1>8, <2>2, <3>4 DEF d
  <2> QED BY <2>3, <2>4
<1>11. ASSUME NEW u \in Unit, ~(u < heap.heap_size), NEW b \in all, Covers(b[2], u)
       PROVE  FALSE
  <2> DEFINE d == b[2].start
  <2>1. d \in T /\ u < d + sz[d]
    BY <1>7, <1>11 DEF Covers
  <2> HIDE DEF d
  <2>2. d + sz[d] <= heap.heap_size /\ d \in Nat /\ sz[d] \in Nat /\ u \in Nat
    BY <1>3, <1>4, <2>1, Numbers, Zenon
  <2> QED BY <1>4, <1>11, <2>1, <2>2
<1> QED BY <1>10, <1>11, Zenon DEF Tiling, all

LEMMA CoalescedOK ==
  ASSUME heap \in Heap_t, Sound(heap, owned)
  PROVE  Coalesced
<1>1. PICK F \in SUBSET Unit : Parted(heap, F, Starts(owned))
  BY ZenonT(30) DEF Sound, Ordered
<1>2. FreeBlocks = {[start |-> a, size |-> heap.mem[a].size] : a \in F}
  BY <1>1, FreeBlocksOK
<1>3. ASSUME NEW a \in F, heap.mem[a].next # NULL
      PROVE  a + heap.mem[a].size < heap.mem[a].next
  <2>1. NextsOf(heap)[a] = heap.mem[a].next /\ SizesOf(heap)[a] = heap.mem[a].size
    BY Fields
  <2>2. heap.mem[a].next \in F /\ a < heap.mem[a].next
    BY <1>1, <1>3, <2>1, Zenon DEF Parted, Listed
  <2> QED BY <1>1, <2>1, <2>2, ZenonT(30) DEF Parted, Sparse
<1>4. \A x \in FreeBlocks : x.start \in F /\ x.size = heap.mem[x.start].size
  BY <1>2
<1> QED BY <1>3, <1>4, Zenon DEF Coalesced

LEMMA IInvInv == IInv => Inv /\ OwnedDisjoint
<1> SUFFICES ASSUME IInv PROVE Inv /\ OwnedDisjoint
  OBVIOUS
<1>1. heap \in Heap_t /\ Sound(heap, owned) /\ TypeOK
  BY DEF IInv, TypeOK
<1>2. Tiling /\ Coalesced
  BY <1>1, TilingOK, CoalescedOK
<1>3. HeadersIntact
  BY <1>1 DEF HeadersIntact, Sound, Used
<1>4. SpinsBehindADead
  BY DEF SpinsBehindADead, IInv
<1>5. OwnedDisjoint
  BY <1>1, SoundOK DEF OwnedDisjoint, Abs!Disjoint
<1> QED BY <1>1, <1>2, <1>3, <1>4, <1>5 DEF Inv

-----------------------------------------------------------------------------
(* The results. *)

\* After any sequence of kmalloc, kfree and panics, in any order of the
\* callers, the free list ascends through exactly the blocks that are not in
\* use, and these and the used ones tile the heap; kmain, inside kmalloc, still
\* holds the heap_head that is there.
THEOREM HeapInvariance ==
  ASSUME ~Preempted
  PROVE  Spec => []IInv
<1>1. IInv /\ [Next]_vars => IInv'
  BY StepOK
<1> QED BY <1>1, InitOK, PTL DEF Spec

\* kmalloc, kfree and heap_expand_pages lose no unit of the heap and give none
\* twice, neighbours on the free list are merged, the headers that kfree trusts
\* are those that kmalloc wrote, and heap_lock is lost to a panic only: for
\* every number of frames and pages and every set of request sizes.
THEOREM HeapInOrder ==
  ASSUME ~Preempted
  PROVE  Spec => []Inv
  BY HeapInvariance, IInvInv, PTL

\* Two blocks that kmalloc has handed out never overlap, as long as kmain is
\* not preempted between its read of heap_head and spin_lock.
THEOREM BlocksDisjoint ==
  ASSUME ~Preempted
  PROVE  Spec => []OwnedDisjoint
  BY HeapInvariance, IInvInv, PTL

\* The free-list allocator of heap.c implements the abstract heap: every step
\* hands out a block that is large enough and free, takes one back, grows the
\* heap, or changes neither.
THEOREM HeapImplements ==
  ASSUME ~Preempted
  PROVE  Spec => Implements
<1>1. Init => Abs!AbsInit
  BY DEF Init, Abs!AbsInit
<1>2. IInv /\ [Next]_vars => [Abs!AbsNext]_<<owned, heap.heap_size>>
  BY StepOK DEF AbsStep
<1> QED BY <1>1, <1>2, HeapInvariance, PTL DEF Spec, Implements, Abs!AbsSpec
=============================================================================
