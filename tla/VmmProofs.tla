----------------------------- MODULE VmmProofs ------------------------------
(***************************************************************************)
(* The page tables stay trees that lose no frame and implement separate    *)
(* flat maps with a common kernel half, for every number of frames, every  *)
(* set of processes and of pages, and every width of a table.              *)
(***************************************************************************)
EXTENDS Vmm, TLAPS

\* The solver is given more time when it is slow to answer.
USE SMTT(10), SMTT(20), SMTT(40)

(* Tables and their levels. *)

Entry == Frame \cup {0} \cup Data
Memory == [Frame -> [Idx -> Entry]]

\* A level for every frame: 1 to 4 for a table, from the top, and 0 for a frame
\* that is none.
Levels == [Frame -> 0 .. 4]
At(lev, k) == {f \in Frame : lev[f] = k}
InTree(lev) == {f \in Frame : lev[f] # 0}

\* Entries lead one level down, and those of the last level to data.
Kids(m, lev) ==
  \A f \in Frame, i \in Idx : lev[f] \in 1 .. 3 /\ m[f][i] # 0 =>
    m[f][i] \in Frame /\ lev[m[f][i]] = lev[f] + 1

Leaves(m, lev) == \A f \in Frame, i \in Idx : lev[f] = 4 => m[f][i] \notin Frame

\* Two entries that lead to the same table are one of the kernel's entries in
\* two top-level tables.
Single(m, lev) ==
  \A f, g \in Frame, i, j \in Idx :
    lev[f] \in 1 .. 3 /\ lev[g] \in 1 .. 3 /\ m[f][i] # 0 /\ m[f][i] = m[g][j] =>
      i = j /\ (f = g \/ (lev[f] = 1 /\ lev[g] = 1 /\ i \in Upper))

Shared(m, lev) == \A f, g \in At(lev, 1), i \in Upper : m[f][i] = m[g][i]

\* Every table below the top level is reached.
Fed(m, lev) ==
  \A g \in Frame : lev[g] \in 2 .. 4 =>
    \E f \in Frame, i \in Idx : lev[f] \in 1 .. 3 /\ m[f][i] = g

Tree(m, lev) ==
  /\ m \in Memory /\ lev \in Levels
  /\ Kids(m, lev) /\ Leaves(m, lev) /\ Single(m, lev) /\ Shared(m, lev) /\ Fed(m, lev)

LEMMA Numbers ==
  /\ 0 \notin Frame /\ 0 \notin Data /\ Frame \cap Data = {} /\ Upper \subseteq Idx
  /\ Frame \subseteq Nat /\ Frame # {} /\ Empty \in [Idx -> Entry]
  /\ \A i \in Idx : Empty[i] = 0
<1>1. Upper \subseteq Idx /\ MaxFrame \in Nat \ {0} /\ Phys \in [Spaces -> SUBSET {f \in Nat : f > MaxFrame}]
  BY VmmAssumption, Zenon
<1>2. \A x \in Data : x \in Nat /\ x > MaxFrame
  BY <1>1, Zenon DEF Data
<1>3. \A f \in Frame : f \in Nat /\ f # 0 /\ ~(f > MaxFrame)
  BY <1>1 DEF Frame
<1>4. 1 \in Frame
  BY <1>1 DEF Frame
<1>5. 0 \notin Data
  BY <1>1, <1>2
<1> QED BY <1>1, <1>2, <1>3, <1>4, <1>5, Zenon DEF Empty, Entry

LEMMA VirtParts ==
  ASSUME NEW v \in Virt
  PROVE  /\ v[1] \in Idx /\ v[2] \in Idx /\ v[3] \in Idx /\ v[4] \in Idx
         /\ \A w \in Virt : v[1] = w[1] /\ v[2] = w[2] /\ v[3] = w[3] /\ v[4] = w[4] => v = w
  BY DEF Virt

-----------------------------------------------------------------------------
(* Walking down. *)

\* vmm_get_next_level, without allocating, gives a table one level down or none.
LEMMA DownOK ==
  ASSUME NEW m, NEW lev, Tree(m, lev), NEW k \in 1 .. 3, NEW x \in At(lev, k) \cup {0}, NEW i \in Idx
  PROVE  Down(m, x, i) \in At(lev, k + 1) \cup {0}
  BY Numbers, Zenon DEF Tree, Kids, At, Down

\* Two walks that meet come from the same table through the same entry, or from
\* two top-level tables through the same entry of the kernel's.
LEMMA DownSingle ==
  ASSUME NEW m, NEW lev, Tree(m, lev), NEW k \in 1 .. 3,
         NEW x \in At(lev, k) \cup {0}, NEW y \in At(lev, k) \cup {0}, NEW i \in Idx, NEW j \in Idx,
         Down(m, x, i) # 0, Down(m, x, i) = Down(m, y, j)
  PROVE  /\ i = j /\ x # 0 /\ y # 0
         /\ x = y \/ (k = 1 /\ i \in Upper)
  BY Numbers DEF Tree, Single, At, Down

\* The table of the last level for a page.
Third(m, t, v) == Down(m, Down(m, Down(m, t, v[1]), v[2]), v[3])

LEMMA TranslateThird ==
  ASSUME NEW m, NEW t, NEW v
  PROVE  Translate(m, t, v) = Down(m, Third(m, t, v), v[4])
  BY Zenon DEF Translate, Third

LEMMA ThirdOK ==
  ASSUME NEW m, NEW lev, Tree(m, lev), NEW t \in At(lev, 1) \cup {0}, NEW v \in Virt
  PROVE  Third(m, t, v) \in At(lev, 4) \cup {0}
<1>1. Down(m, t, v[1]) \in At(lev, 2) \cup {0}
  BY VirtParts, DownOK
<1>2. Down(m, Down(m, t, v[1]), v[2]) \in At(lev, 3) \cup {0}
  BY <1>1, VirtParts, DownOK
<1> QED BY <1>2, VirtParts, DownOK DEF Third

\* Two pages have the same last-level table if and only if they differ in the
\* last index at most, and belong to one address space or to the kernel.
LEMMA ThirdSingle ==
  ASSUME NEW m, NEW lev, Tree(m, lev), NEW t \in At(lev, 1), NEW u \in At(lev, 1),
         NEW v \in Virt, NEW w \in Virt, Third(m, t, v) # 0
  PROVE  Third(m, u, w) = Third(m, t, v) <=>
           v[1] = w[1] /\ v[2] = w[2] /\ v[3] = w[3] /\ (t = u \/ v[1] \in Upper)
<1> DEFINE a1 == Down(m, t, v[1])
           a2 == Down(m, a1, v[2])
           b1 == Down(m, u, w[1])
           b2 == Down(m, b1, w[2])
<1>1. /\ v[1] \in Idx /\ v[2] \in Idx /\ v[3] \in Idx
      /\ w[1] \in Idx /\ w[2] \in Idx /\ w[3] \in Idx
  BY VirtParts, Zenon
<1>2. a1 \in At(lev, 2) \cup {0} /\ b1 \in At(lev, 2) \cup {0}
  BY <1>1, DownOK
<1>3. a2 \in At(lev, 3) \cup {0} /\ b2 \in At(lev, 3) \cup {0}
  <2> HIDE DEF a1, b1
  <2> QED BY <1>1, <1>2, DownOK
<1>4. Third(m, t, v) = Down(m, a2, v[3]) /\ Third(m, u, w) = Down(m, b2, w[3])
  BY Zenon DEF Third
<1>5. ASSUME Third(m, u, w) = Third(m, t, v)
      PROVE  v[1] = w[1] /\ v[2] = w[2] /\ v[3] = w[3] /\ (t = u \/ v[1] \in Upper)
  <2>1. v[3] = w[3] /\ a2 = b2 /\ a2 # 0
    <3>1. Down(m, a2, v[3]) # 0 /\ Down(m, a2, v[3]) = Down(m, b2, w[3])
      BY <1>4, <1>5, Zenon
    <3> HIDE DEF a2, b2
    <3> QED BY <1>1, <1>3, <3>1, DownSingle
  <2>2. v[2] = w[2] /\ a1 = b1 /\ a1 # 0
    <3>1. Down(m, a1, v[2]) # 0 /\ Down(m, a1, v[2]) = Down(m, b1, w[2])
      BY <2>1, Zenon
    <3> HIDE DEF a1, b1
    <3> QED BY <1>1, <1>2, <3>1, DownSingle
  <2>3. v[1] = w[1] /\ (t = u \/ v[1] \in Upper)
    BY <1>1, <2>2, DownSingle
  <2> QED BY <2>1, <2>2, <2>3, Zenon
<1>6. ASSUME v[1] = w[1], v[2] = w[2], v[3] = w[3], t = u \/ v[1] \in Upper
      PROVE  Third(m, u, w) = Third(m, t, v)
  <2>1. a1 = b1
    <3>1. t # 0 /\ u # 0
      BY Numbers, Zenon DEF At
    <3>2. v[1] \in Upper => m[t][v[1]] = m[u][v[1]]
      BY Zenon DEF Tree, Shared
    <3> QED BY <1>6, <3>1, <3>2, Zenon DEF Down
  <2> QED BY <1>4, <1>6, <2>1, Zenon
<1> QED BY <1>5, <1>6, Zenon

-----------------------------------------------------------------------------
(* Changes that leave every translation as it is. *)

\* m2 has more tables than m, and those are empty.
Grown(m, m2, lev) ==
  \A g \in InTree(lev), j \in Idx :
    \/ m2[g][j] = m[g][j]
    \/ m[g][j] = 0 /\ lev[g] \in 1 .. 3 /\ m2[g][j] \in Frame /\ m2[m2[g][j]] = Empty

\* Where a walk leads in m and in m2.
Alike(m2, x, y) == x = y \/ (x = 0 /\ y \in Frame /\ m2[y] = Empty)

LEMMA GrownDown ==
  ASSUME NEW m, NEW m2, NEW lev, Grown(m, m2, lev), NEW k \in 1 .. 4,
         NEW x \in At(lev, k) \cup {0}, NEW y, Alike(m2, x, y), NEW i \in Idx
  PROVE  /\ Alike(m2, Down(m, x, i), Down(m2, y, i))
         /\ k = 4 => Down(m, x, i) = Down(m2, y, i)
<1>1. CASE x = 0 /\ y = 0
  BY <1>1, Zenon DEF Down, Alike
<1>2. CASE x = 0 /\ y \in Frame /\ m2[y] = Empty
  BY <1>2, Numbers, Zenon DEF Down, Alike
<1>3. CASE x \in At(lev, k) /\ y = x
  <2>1. x \in InTree(lev) /\ x # 0 /\ lev[x] = k
    BY <1>3, Numbers DEF At, InTree
  <2> QED BY <1>3, <2>1 DEF Down, Alike, Grown
<1> QED BY <1>1, <1>2, <1>3, Zenon DEF Alike

LEMMA GrownTranslates ==
  ASSUME NEW m, NEW m2, NEW lev, Tree(m, lev), Grown(m, m2, lev),
         NEW t \in At(lev, 1) \cup {0}, NEW v \in Virt
  PROVE  Translate(m2, t, v) = Translate(m, t, v)
<1> DEFINE x1 == Down(m, t, v[1])
           x2 == Down(m, x1, v[2])
           y1 == Down(m2, t, v[1])
           y2 == Down(m2, y1, v[2])
<1>1. v[1] \in Idx /\ v[2] \in Idx /\ v[3] \in Idx /\ v[4] \in Idx
  BY VirtParts, Zenon
<1>2. Alike(m2, x1, y1) /\ x1 \in At(lev, 2) \cup {0}
  BY <1>1, GrownDown, DownOK DEF Alike
<1>3. Alike(m2, x2, y2) /\ x2 \in At(lev, 3) \cup {0}
  <2> HIDE DEF x1, y1
  <2> QED BY <1>1, <1>2, GrownDown, DownOK
<1>4. Alike(m2, Third(m, t, v), Third(m2, t, v)) /\ Third(m, t, v) \in At(lev, 4) \cup {0}
  <2>1. Third(m, t, v) = Down(m, x2, v[3]) /\ Third(m2, t, v) = Down(m2, y2, v[3])
    BY Zenon DEF Third
  <2> HIDE DEF x2, y2
  <2> QED BY <1>1, <1>3, <2>1, GrownDown, DownOK
<1> QED BY <1>1, <1>4, GrownDown, TranslateThird

-----------------------------------------------------------------------------
(* What the operations do to one entry. *)

\* The only change is to entry i of t, and to the empty table f.
Linked(m, t, i, f) == [m EXCEPT ![f] = Empty, ![t][i] = f]
Raised(lev, f, k) == [lev EXCEPT ![f] = k]
Stored(m, t, i, x) == [m EXCEPT ![t][i] = x]

\* vmm_get_next_level makes a table and links it.
LEMMA LinkOK ==
  ASSUME NEW m, NEW lev, Tree(m, lev), NEW k \in 1 .. 3, NEW t \in At(lev, k), NEW i \in Idx,
         m[t][i] = 0, NEW f \in At(lev, 0), k = 1 /\ i \in Upper => At(lev, 1) = {t}
  PROVE  /\ Tree(Linked(m, t, i, f), Raised(lev, f, k + 1))
         /\ Grown(m, Linked(m, t, i, f), lev)
         /\ Linked(m, t, i, f)[t][i] = f /\ Linked(m, t, i, f)[f] = Empty
         /\ \A g \in InTree(lev) : g # t => Linked(m, t, i, f)[g] = m[g]
         /\ \A j \in Idx : j # i => Linked(m, t, i, f)[t][j] = m[t][j]
<1> DEFINE m2 == Linked(m, t, i, f)
           lev2 == Raised(lev, f, k + 1)
<1>1. /\ m \in Memory /\ lev \in Levels /\ t \in Frame /\ f \in Frame /\ lev[t] = k /\ lev[f] = 0
      /\ t # f
  BY DEF Tree, At
<1>2. m2 \in Memory /\ lev2 \in Levels
  BY <1>1, Numbers DEF Linked, Raised, Memory, Levels, Entry
<1>3. \A g \in Frame, j \in Idx :
        m2[g][j] = IF g = f THEN 0 ELSE IF g = t /\ j = i THEN f ELSE m[g][j]
  BY <1>1, Numbers DEF Linked, Memory
<1>4. \A g \in Frame : lev2[g] = IF g = f THEN k + 1 ELSE lev[g]
  BY <1>1, Zenon DEF Raised, Levels
<1>5. /\ m2[f] = Empty
      /\ \A g \in InTree(lev) : g # t => m2[g] = m[g]
  BY <1>1, Zenon DEF Linked, Memory, InTree
<1> HIDE DEF m2, lev2
<1>6. f # 0 /\ \A g \in Frame, j \in Idx : lev[g] \in 1 .. 3 => m[g][j] # f
  BY <1>1, Numbers DEF Tree, Kids
<1>7. Kids(m2, lev2)
  <2> SUFFICES ASSUME NEW g \in Frame, NEW j \in Idx, lev2[g] \in 1 .. 3, m2[g][j] # 0
               PROVE  m2[g][j] \in Frame /\ lev2[m2[g][j]] = lev2[g] + 1
    BY Zenon DEF Kids
  <2>1. g # f
    BY <1>3, Zenon
  <2>2. CASE g = t /\ j = i
    BY <1>1, <1>3, <1>4, <2>2
  <2>3. CASE ~(g = t /\ j = i)
    <3>1. m2[g][j] = m[g][j] /\ lev2[g] = lev[g]
      BY <1>3, <1>4, <2>1, <2>3, Zenon
    <3>2. m[g][j] \in Frame /\ lev[m[g][j]] = lev[g] + 1 /\ m[g][j] # f
      BY <1>6, <3>1, Zenon DEF Tree, Kids
    <3> QED BY <1>4, <3>1, <3>2, Zenon
  <2> QED BY <2>2, <2>3, Zenon
<1>8. Leaves(m2, lev2)
  BY <1>1, <1>3, <1>4, Numbers DEF Tree, Leaves
<1>9. Single(m2, lev2)
  <2> SUFFICES ASSUME NEW g \in Frame, NEW h \in Frame, NEW j \in Idx, NEW l \in Idx,
                      lev2[g] \in 1 .. 3, lev2[h] \in 1 .. 3, m2[g][j] # 0, m2[g][j] = m2[h][l]
               PROVE  j = l /\ (g = h \/ (lev2[g] = 1 /\ lev2[h] = 1 /\ j \in Upper))
    BY DEF Single
  <2>1. g # f /\ h # f /\ lev2[g] = lev[g] /\ lev2[h] = lev[h]
    BY <1>3, <1>4
  <2>2. m[g][j] # f /\ m[h][l] # f
    BY <1>6, <2>1, Zenon
  <2>3. CASE (g = t /\ j = i) \/ (h = t /\ l = i)
    BY <1>3, <2>1, <2>2, <2>3
  <2>4. CASE ~(g = t /\ j = i) /\ ~(h = t /\ l = i)
    <3>1. m[g][j] # 0 /\ m[g][j] = m[h][l]
      BY <1>3, <2>1, <2>4
    <3> QED BY <2>1, <3>1 DEF Tree, Single
  <2> QED BY <2>3, <2>4, Zenon
<1>10. At(lev2, 1) = At(lev, 1)
  BY <1>1, <1>4 DEF At
<1>11. Shared(m2, lev2)
  <2> SUFFICES ASSUME NEW g \in At(lev, 1), NEW h \in At(lev, 1), NEW j \in Upper
               PROVE  m2[g][j] = m2[h][j]
    BY <1>10 DEF Shared
  <2>1. g \in Frame /\ h \in Frame /\ g # f /\ h # f /\ j \in Idx /\ m[g][j] = m[h][j]
    BY <1>1, Numbers DEF Tree, Shared, At
  <2>2. (g = t \/ h = t) /\ j = i => g = h
    BY <1>1, Zenon DEF At
  <2> QED BY <1>3, <2>1, <2>2
<1>12. Fed(m2, lev2)
  <2> SUFFICES ASSUME NEW g \in Frame, lev2[g] \in 2 .. 4
               PROVE  \E h \in Frame, j \in Idx : lev2[h] \in 1 .. 3 /\ m2[h][j] = g
    BY Zenon DEF Fed
  <2>1. CASE g = f
    BY <1>1, <1>3, <1>4, <2>1
  <2>2. CASE g # f
    <3>1. PICK h \in Frame, j \in Idx : lev[h] \in 1 .. 3 /\ m[h][j] = g
      BY <1>4, <2>2, Zenon DEF Tree, Fed
    <3>2. h # f /\ ~(h = t /\ j = i)
      BY <1>1, <3>1, Numbers
    <3> QED BY <1>3, <1>4, <3>1, <3>2
  <2> QED BY <2>1, <2>2, Zenon
<1>13. Grown(m, m2, lev)
  BY <1>1, <1>3, <1>5 DEF Grown, InTree
<1>14. m2[t][i] = f /\ \A j \in Idx : j # i => m2[t][j] = m[t][j]
  BY <1>1, <1>3, Zenon
<1>15. Tree(m2, lev2)
  BY <1>2, <1>7, <1>8, <1>9, <1>11, <1>12, Zenon DEF Tree
<1> QED BY <1>5, <1>13, <1>14, <1>15, Zenon DEF m2, lev2

\* An entry of the last level is written.
LEMMA StoreOK ==
  ASSUME NEW m, NEW lev, Tree(m, lev), NEW t \in At(lev, 4), NEW i \in Idx, NEW x \in Data \cup {0}
  PROVE  Tree(Stored(m, t, i, x), lev)
<1> DEFINE m2 == Stored(m, t, i, x)
<1>1. m \in Memory /\ lev \in Levels /\ t \in Frame /\ lev[t] = 4 /\ x \in Entry /\ x \notin Frame
  BY Numbers, Zenon DEF Tree, At, Entry
<1>2. m2 \in Memory
  BY <1>1, Zenon DEF Stored, Memory
<1>3. \A g \in Frame, j \in Idx : m2[g][j] = IF g = t /\ j = i THEN x ELSE m[g][j]
  BY <1>1, Zenon DEF Stored, Memory
<1> HIDE DEF m2
<1>4. \A g \in Frame, j \in Idx : lev[g] \in 1 .. 3 => m2[g][j] = m[g][j]
  BY <1>1, <1>3
<1>5. Kids(m2, lev)
  BY <1>4 DEF Tree, Kids
<1>6. Leaves(m2, lev)
  BY <1>1, <1>3 DEF Tree, Leaves
<1>7. Single(m2, lev)
  BY <1>4 DEF Tree, Single
<1>8. Shared(m2, lev)
  <2> SUFFICES ASSUME NEW f \in At(lev, 1), NEW g \in At(lev, 1), NEW j \in Upper
               PROVE  m2[f][j] = m2[g][j]
    BY Zenon DEF Shared
  <2>1. f \in Frame /\ g \in Frame /\ lev[f] = 1 /\ lev[g] = 1 /\ j \in Idx
    BY Numbers, Zenon DEF At
  <2>2. m[f][j] = m[g][j]
    BY Zenon DEF Tree, Shared
  <2> QED BY <1>4, <2>1, <2>2
<1>9. Fed(m2, lev)
  BY <1>4 DEF Tree, Fed
<1> QED BY <1>1, <1>2, <1>5, <1>6, <1>7, <1>8, <1>9, Zenon DEF Tree, m2

\* vmm_unmap_page unlinks and frees a table that is empty.
LEMMA UnlinkOK ==
  ASSUME NEW m, NEW lev, Tree(m, lev), NEW k \in 1 .. 3, NEW t \in At(lev, k), NEW i \in Idx,
         m[t][i] # 0, m[m[t][i]] = Empty, ~(k = 1 /\ i \in Upper)
  PROVE  /\ Tree(Stored(m, t, i, 0), Raised(lev, m[t][i], 0))
         /\ Grown(Stored(m, t, i, 0), m, Raised(lev, m[t][i], 0))
         /\ m[t][i] \in At(lev, k + 1)
<1> DEFINE f == m[t][i]
           m2 == Stored(m, t, i, 0)
           lev2 == Raised(lev, f, 0)
<1>1. /\ m \in Memory /\ lev \in Levels /\ t \in Frame /\ lev[t] = k
      /\ f \in Frame /\ lev[f] = k + 1 /\ f # t
  BY DEF Tree, Kids, At
<1>2. m2 \in Memory /\ lev2 \in Levels
  BY <1>1, Numbers DEF Stored, Raised, Memory, Levels, Entry
<1>3. \A g \in Frame, j \in Idx : m2[g][j] = IF g = t /\ j = i THEN 0 ELSE m[g][j]
  BY <1>1, Zenon DEF Stored, Memory
<1>4. \A g \in Frame : lev2[g] = IF g = f THEN 0 ELSE lev[g]
  BY <1>1, Zenon DEF Raised, Levels
<1>5. \A g \in Frame, j \in Idx : lev[g] \in 1 .. 3 /\ m[g][j] = f => g = t /\ j = i
  BY <1>1 DEF Tree, Single
<1>6. m[t][i] = f /\ m[f] = Empty /\ f # 0
  BY Zenon
<1> HIDE DEF f, m2, lev2
<1>7. Kids(m2, lev2)
  <2> SUFFICES ASSUME NEW g \in Frame, NEW j \in Idx, lev2[g] \in 1 .. 3, m2[g][j] # 0
               PROVE  m2[g][j] \in Frame /\ lev2[m2[g][j]] = lev2[g] + 1
    BY Zenon DEF Kids
  <2>1. lev2[g] = lev[g] /\ ~(g = t /\ j = i) /\ m2[g][j] = m[g][j]
    BY <1>3, <1>4
  <2>2. m[g][j] \in Frame /\ lev[m[g][j]] = lev[g] + 1 /\ m[g][j] # f
    BY <1>5, <2>1, Zenon DEF Tree, Kids
  <2> QED BY <1>4, <2>1, <2>2, Zenon
<1>8. Leaves(m2, lev2)
  BY <1>1, <1>3, <1>4 DEF Tree, Leaves
<1>9. \A g \in Frame, j \in Idx : lev2[g] # 0 => lev2[g] = lev[g]
  BY <1>4, Zenon
<1>10. Single(m2, lev2)
  <2> SUFFICES ASSUME NEW g \in Frame, NEW h \in Frame, NEW j \in Idx, NEW l \in Idx,
                      lev2[g] \in 1 .. 3, lev2[h] \in 1 .. 3, m2[g][j] # 0, m2[g][j] = m2[h][l]
               PROVE  j = l /\ (g = h \/ (lev2[g] = 1 /\ lev2[h] = 1 /\ j \in Upper))
    BY DEF Single
  <2>1. /\ lev2[g] = lev[g] /\ lev2[h] = lev[h]
        /\ m[g][j] # 0 /\ m[g][j] = m[h][l]
    BY <1>3, <1>9
  <2> QED BY <2>1 DEF Tree, Single
<1>11. Shared(m2, lev2)
  <2> SUFFICES ASSUME NEW g \in At(lev2, 1), NEW h \in At(lev2, 1), NEW j \in Upper
               PROVE  m2[g][j] = m2[h][j]
    BY Zenon DEF Shared
  <2>1. g \in At(lev, 1) /\ h \in At(lev, 1) /\ g \in Frame /\ h \in Frame /\ j \in Idx
    BY <1>4, Numbers DEF At
  <2>2. ~(g = t /\ j = i) /\ ~(h = t /\ j = i)
    BY <1>1, <2>1, Zenon DEF At
  <2>3. m[g][j] = m[h][j]
    BY <2>1, Zenon DEF Tree, Shared
  <2> QED BY <1>3, <2>1, <2>2, <2>3, Zenon
<1>12. Fed(m2, lev2)
  <2> SUFFICES ASSUME NEW g \in Frame, lev2[g] \in 2 .. 4
               PROVE  \E h \in Frame, j \in Idx : lev2[h] \in 1 .. 3 /\ m2[h][j] = g
    BY Zenon DEF Fed
  <2>1. g # f /\ lev[g] \in 2 .. 4
    BY <1>4
  <2>2. PICK h \in Frame, j \in Idx : lev[h] \in 1 .. 3 /\ m[h][j] = g
    BY <2>1, Zenon DEF Tree, Fed
  <2>3. h # f /\ ~(h = t /\ j = i)
    BY <1>6, <2>1, <2>2, Numbers, Zenon
  <2> QED BY <1>3, <1>4, <2>2, <2>3
<1>13. Grown(m2, m, lev2)
  <2> SUFFICES ASSUME NEW g \in InTree(lev2), NEW j \in Idx
               PROVE  \/ m[g][j] = m2[g][j]
                      \/ m2[g][j] = 0 /\ lev2[g] \in 1 .. 3 /\ m[g][j] \in Frame /\ m[m[g][j]] = Empty
    BY Zenon DEF Grown
  <2>1. g \in Frame /\ lev2[g] = lev[g]
    BY <1>9, Zenon DEF InTree
  <2> QED BY <1>1, <1>3, <1>6, <2>1
<1>14. Tree(m2, lev2)
  BY <1>2, <1>7, <1>8, <1>10, <1>11, <1>12, Zenon DEF Tree
<1> QED BY <1>1, <1>13, <1>14, Zenon DEF m2, lev2, f, At

\* vmm_new_pagemap makes a top-level table with the kernel's entries of another.
Copied(m, t, f) == [m EXCEPT ![f] = [i \in Idx |-> IF i \in Upper THEN m[t][i] ELSE 0]]

LEMMA CopyOK ==
  ASSUME NEW m, NEW lev, Tree(m, lev), NEW t \in At(lev, 1), NEW f \in At(lev, 0)
  PROVE  /\ Tree(Copied(m, t, f), Raised(lev, f, 1))
         /\ Grown(m, Copied(m, t, f), lev)
<1> DEFINE m2 == Copied(m, t, f)
           lev2 == Raised(lev, f, 1)
<1>1. m \in Memory /\ lev \in Levels /\ t \in Frame /\ f \in Frame /\ lev[t] = 1 /\ lev[f] = 0
  BY Zenon DEF Tree, At
<1>2. m2 \in Memory /\ lev2 \in Levels
  BY <1>1, Numbers DEF Copied, Raised, Memory, Levels, Entry
<1>3. \A g \in Frame, j \in Idx :
        m2[g][j] = IF g # f THEN m[g][j] ELSE IF j \in Upper THEN m[t][j] ELSE 0
  BY <1>1, Zenon DEF Copied, Memory
<1>4. \A g \in Frame : lev2[g] = IF g = f THEN 1 ELSE lev[g]
  BY <1>1, Zenon DEF Raised, Levels
<1> HIDE DEF m2, lev2
<1>5. \A g \in Frame, j \in Idx : lev[g] \in 1 .. 3 => m[g][j] # f
  BY <1>1, Numbers DEF Tree, Kids
<1>6. Kids(m2, lev2)
  <2> SUFFICES ASSUME NEW g \in Frame, NEW j \in Idx, lev2[g] \in 1 .. 3, m2[g][j] # 0
               PROVE  m2[g][j] \in Frame /\ lev2[m2[g][j]] = lev2[g] + 1
    BY Zenon DEF Kids
  <2>1. PICK h \in Frame : lev[h] = lev2[g] /\ m2[g][j] = m[h][j]
    BY <1>1, <1>3, <1>4
  <2>2. m[h][j] \in Frame /\ lev[m[h][j]] = lev[h] + 1 /\ m[h][j] # f
    BY <1>5, <2>1, Zenon DEF Tree, Kids
  <2> QED BY <1>4, <2>1, <2>2, Zenon
<1>7. Leaves(m2, lev2)
  BY <1>3, <1>4 DEF Tree, Leaves
<1>8. Single(m2, lev2)
  <2> SUFFICES ASSUME NEW g \in Frame, NEW h \in Frame, NEW j \in Idx, NEW l \in Idx,
                      lev2[g] \in 1 .. 3, lev2[h] \in 1 .. 3, m2[g][j] # 0, m2[g][j] = m2[h][l]
               PROVE  j = l /\ (g = h \/ (lev2[g] = 1 /\ lev2[h] = 1 /\ j \in Upper))
    BY DEF Single
  <2>1. \A x \in Frame, y \in Idx : lev2[x] \in 1 .. 3 /\ m2[x][y] # 0 =>
          \/ x # f /\ lev[x] = lev2[x] /\ m2[x][y] = m[x][y]
          \/ x = f /\ lev2[x] = 1 /\ y \in Upper /\ m2[x][y] = m[t][y]
    BY <1>3, <1>4
  <2>2. CASE g # f /\ h # f
    <3>1. lev[g] = lev2[g] /\ lev[h] = lev2[h] /\ m[g][j] # 0 /\ m[g][j] = m[h][l]
      BY <2>1, <2>2, Zenon
    <3> QED BY <3>1 DEF Tree, Single
  <2>3. CASE g = f /\ h # f
    <3>1. /\ lev2[g] = 1 /\ j \in Upper /\ lev[h] = lev2[h]
          /\ m[t][j] # 0 /\ m[t][j] = m[h][l]
      BY <2>1, <2>3
    <3>2. j = l /\ (t = h \/ lev[h] = 1)
      BY <1>1, <3>1 DEF Tree, Single
    <3> QED BY <1>1, <3>1, <3>2, Zenon
  <2>4. CASE g # f /\ h = f
    <3>1. /\ lev2[h] = 1 /\ l \in Upper /\ lev[g] = lev2[g]
          /\ m[g][j] # 0 /\ m[g][j] = m[t][l]
      BY <2>1, <2>4
    <3>2. j = l /\ (t = g \/ lev[g] = 1)
      BY <1>1, <3>1 DEF Tree, Single
    <3> QED BY <1>1, <3>1, <3>2, Zenon
  <2>5. CASE g = f /\ h = f
    <3>1. j \in Upper /\ l \in Upper /\ m[t][j] # 0 /\ m[t][j] = m[t][l]
      BY <2>1, <2>5
    <3> QED BY <1>1, <2>5, <3>1 DEF Tree, Single
  <2> QED BY <2>2, <2>3, <2>4, <2>5, Zenon
<1>9. Shared(m2, lev2)
  <2> SUFFICES ASSUME NEW g \in At(lev2, 1), NEW h \in At(lev2, 1), NEW j \in Upper
               PROVE  m2[g][j] = m2[h][j]
    BY Zenon DEF Shared
  <2>1. \A x \in At(lev2, 1) : m2[x][j] = m[t][j]
    <3> SUFFICES ASSUME NEW x \in At(lev2, 1) PROVE m2[x][j] = m[t][j]
      BY Zenon
    <3>1. x \in Frame /\ j \in Idx /\ (x = f \/ x \in At(lev, 1))
      BY <1>4, Numbers, Zenon DEF At
    <3>2. x \in At(lev, 1) => m[x][j] = m[t][j]
      BY Zenon DEF Tree, Shared
    <3> QED BY <1>3, <3>1, <3>2, Zenon
  <2> QED BY <2>1, Zenon
<1>10. Fed(m2, lev2)
  <2> SUFFICES ASSUME NEW g \in Frame, lev2[g] \in 2 .. 4
               PROVE  \E h \in Frame, j \in Idx : lev2[h] \in 1 .. 3 /\ m2[h][j] = g
    BY Zenon DEF Fed
  <2>1. PICK h \in Frame, j \in Idx : lev[h] \in 1 .. 3 /\ m[h][j] = g
    BY <1>4 DEF Tree, Fed
  <2>2. h # f
    BY <1>1, <2>1
  <2> QED BY <1>3, <1>4, <2>1, <2>2
<1>11. Grown(m, m2, lev)
  BY <1>1, <1>3, Zenon DEF Grown, InTree
<1> QED BY <1>2, <1>6, <1>7, <1>8, <1>9, <1>10, <1>11, Zenon DEF Tree, m2, lev2

-----------------------------------------------------------------------------
(* Walks. *)

\* pmm_allocate gives one of the frames that are free; LowestOK shows it.
Picks == \A S \in SUBSET Frame : S # {} => Lowest(S) \in S

Walk == [mem : Memory, used : SUBSET Frame, t : Frame \cup {0}]

\* No table below the top level is empty, x apart.
NoEmpty(m, lev, x) == \A g \in Frame : lev[g] \in 2 .. 4 /\ g # x => m[g] # Empty

\* w stands on a table of level k, all other tables being in use.
Standing(w, lev, k) ==
  /\ w \in Walk /\ Tree(w.mem, lev) /\ w.used = InTree(lev)
  /\ w.t \in At(lev, k) /\ NoEmpty(w.mem, lev, w.t)

\* A walk that ended in a panic.
Stuck(w, lev) == w \in Walk /\ Tree(w.mem, lev) /\ w.used = InTree(lev) /\ w.t = 0 /\ w.used = Frame

\* Tables and entries may be added, and no translation changes.
More(m, lev, m2, lev2) ==
  /\ At(lev2, 1) = At(lev, 1)
  /\ \A g \in InTree(lev) : lev2[g] = lev[g]
  /\ \A g \in InTree(lev), j \in Idx : m[g][j] # 0 => m2[g][j] = m[g][j]
  /\ \A t \in At(lev, 1), v \in Virt : Translate(m2, t, v) = Translate(m, t, v)

LEMMA MoreMore ==
  ASSUME NEW m, NEW lev, NEW m2, NEW lev2, NEW m3, NEW lev3,
         More(m, lev, m2, lev2), More(m2, lev2, m3, lev3)
  PROVE  More(m, lev, m3, lev3)
<1>1. \A g \in InTree(lev) : g \in InTree(lev2)
  BY Zenon DEF More, InTree
<1> QED BY <1>1 DEF More

\* Entry i of the table that w stands on may be filled.
Fillable(w, lev, k, i) == k = 1 /\ i \in Upper => w.mem[w.t][i] # 0 \/ At(lev, 1) = {w.t}

Stepped(w, lev, k, i, w2, lev2) ==
  /\ lev2 \in Levels /\ Standing(w2, lev2, k + 1) /\ More(w.mem, lev, w2.mem, lev2)
  /\ w2.mem[w.t][i] = w2.t

\* vmm_get_next_level finds a table, makes one, or panics with no frame left.
LEMMA GetOK ==
  ASSUME Picks, NEW w, NEW lev, NEW k \in 1 .. 3, Standing(w, lev, k), NEW i \in Idx,
         Fillable(w, lev, k, i), NEW w2, w2 = vmm_get_next_level(w, i)
  PROVE  \/ Stuck(w2, lev) /\ w2.mem = w.mem
         \/ \E lev2 : Stepped(w, lev, k, i, w2, lev2)
<1>1. /\ w \in Walk /\ w.mem \in Memory /\ w.used \subseteq Frame /\ w.t \in Frame /\ lev[w.t] = k
      /\ w.t # 0 /\ w.t \in At(lev, k) /\ Tree(w.mem, lev) /\ w.used = InTree(lev) /\ lev \in Levels
      /\ NoEmpty(w.mem, lev, w.t) /\ w.t \in InTree(lev)
  BY Numbers DEF Standing, Walk, At, Tree, InTree
<1>0. w2 = NextLevel(w, i)
  BY <1>1, Zenon DEF vmm_get_next_level
<1>2. CASE w.mem[w.t][i] # 0
  <2> DEFINE f == w.mem[w.t][i]
  <2>1. f \in Frame /\ lev[f] = k + 1
    BY <1>1, <1>2, Zenon DEF Tree, Kids
  <2>2. w2 = [w EXCEPT !.t = f]
    BY <1>0, <1>2, Zenon DEF NextLevel
  <2> HIDE DEF f
  <2>3. w2 \in Walk /\ w2.mem = w.mem /\ w2.used = w.used /\ w2.t = f
    BY <1>1, <2>1, <2>2, Zenon DEF Walk
  <2>4. w2.mem[w.t][i] = w2.t
    BY <2>3, Zenon DEF f
  <2>5. NoEmpty(w2.mem, lev, f)
    <3>1. w.mem[w.t] # Empty
      BY <1>2, Numbers, Zenon
    <3> QED BY <1>1, <2>3, <3>1, Zenon DEF NoEmpty
  <2>6. More(w.mem, lev, w2.mem, lev)
    BY <2>3, Zenon DEF More
  <2>7. Standing(w2, lev, k + 1)
    BY <1>1, <2>1, <2>3, <2>5, Zenon DEF Standing, At
  <2> QED BY <1>1, <2>4, <2>6, <2>7, Zenon DEF Stepped
<1>3. CASE w.mem[w.t][i] = 0 /\ FreeFrames(w) = {}
  <2>1. w2 = [w EXCEPT !.t = 0]
    BY <1>0, <1>3, Zenon DEF NextLevel
  <2>2. w2 \in Walk /\ w2.mem = w.mem /\ w2.used = w.used /\ w2.t = 0
    BY <1>1, <2>1, Zenon DEF Walk
  <2>3. w.used = Frame
    BY <1>1, <1>3, Zenon DEF FreeFrames
  <2> QED BY <1>1, <2>2, <2>3, Zenon DEF Stuck
<1>4. CASE w.mem[w.t][i] = 0 /\ FreeFrames(w) # {}
  <2> DEFINE f == Lowest(FreeFrames(w))
             lev2 == Raised(lev, f, k + 1)
             m2 == Linked(w.mem, w.t, i, f)
  <2>1. f \in Frame /\ f \notin w.used
    BY <1>4, Zenon DEF FreeFrames, Picks
  <2>2. w2 = [mem |-> [w.mem EXCEPT ![f] = Empty, ![w.t][i] = f], used |-> w.used \cup {f}, t |-> f]
    BY <1>0, <1>4, Zenon DEF NextLevel
  <2> HIDE DEF f
  <2>3. w2.mem = m2 /\ w2.used = w.used \cup {f} /\ w2.t = f
    BY <2>2 DEF Linked
  <2>4. w2 = [mem |-> m2, used |-> w.used \cup {f}, t |-> f]
    BY <2>2, Zenon DEF Linked
  <2>5. f \in At(lev, 0)
    BY <1>1, <2>1, Zenon DEF InTree, At
  <2>6. k = 1 /\ i \in Upper => At(lev, 1) = {w.t}
    BY <1>4, Zenon DEF Fillable
  <2>7. /\ Tree(m2, lev2) /\ Grown(w.mem, m2, lev) /\ m2[w.t][i] = f /\ m2[f] = Empty
        /\ \A g \in InTree(lev) : g # w.t => m2[g] = w.mem[g]
        /\ \A j \in Idx : j # i => m2[w.t][j] = w.mem[w.t][j]
    BY <1>1, <1>4, <2>5, <2>6, LinkOK
  <2>8. \A g \in Frame : lev2[g] = IF g = f THEN k + 1 ELSE lev[g]
    BY <1>1, Zenon DEF Raised, Levels
  <2> HIDE DEF m2, lev2
  <2>9. w2 \in Walk
    BY <1>1, <2>1, <2>4, <2>7 DEF Walk, Tree
  <2>10. /\ InTree(lev2) = InTree(lev) \cup {f} /\ At(lev2, 1) = At(lev, 1) /\ f \in At(lev2, k + 1)
         /\ \A g \in InTree(lev) : lev2[g] = lev[g]
    BY <2>1, <2>5, <2>8 DEF InTree, At
  <2>11. \A t \in At(lev, 1), v \in Virt : Translate(m2, t, v) = Translate(w.mem, t, v)
    BY <1>1, <2>7, GrownTranslates
  <2>12. More(w.mem, lev, m2, lev2)
    BY <1>4, <2>7, <2>10, <2>11, Zenon DEF More
  <2>13. NoEmpty(m2, lev2, f)
    <3> SUFFICES ASSUME NEW g \in Frame, lev2[g] \in 2 .. 4, g # f PROVE m2[g] # Empty
      BY Zenon DEF NoEmpty
    <3>1. CASE g = w.t
      BY <2>1, <2>7, <3>1, Numbers
    <3>2. CASE g # w.t
      <4>1. lev[g] \in 2 .. 4 /\ g \in InTree(lev)
        BY <2>8 DEF InTree
      <4> QED BY <1>1, <2>7, <3>2, <4>1, Zenon DEF NoEmpty
    <3> QED BY <3>1, <3>2, Zenon
  <2>14. Standing(w2, lev2, k + 1)
    BY <1>1, <2>3, <2>7, <2>9, <2>10, <2>13, Zenon DEF Standing
  <2>15. lev2 \in Levels
    BY <2>7, Zenon DEF Tree
  <2> QED BY <2>3, <2>7, <2>12, <2>14, <2>15, Zenon DEF Stepped
<1> QED BY <1>2, <1>3, <1>4, Zenon

-----------------------------------------------------------------------------
(* vmm_map_page. *)

\* Page v of the space with table t now translates to x, and where else the
\* kernel's page v appears.
Changed(m, m2, lev, t, v, x) ==
  \A u \in At(lev, 1), y \in Virt :
    Translate(m2, u, y) = IF y = v /\ (u = t \/ v[1] \in Upper) THEN x ELSE Translate(m, u, y)

LEMMA StoreChanges ==
  ASSUME NEW m, NEW lev, Tree(m, lev), NEW t \in At(lev, 1), NEW v \in Virt,
         Third(m, t, v) # 0, NEW x
  PROVE  Changed(m, Stored(m, Third(m, t, v), v[4], x), lev, t, v, x)
<1> DEFINE pt == Third(m, t, v)
           m2 == Stored(m, pt, v[4], x)
<1> SUFFICES ASSUME NEW u \in At(lev, 1), NEW y \in Virt
             PROVE  Translate(m2, u, y) =
                      IF y = v /\ (u = t \/ v[1] \in Upper) THEN x ELSE Translate(m, u, y)
  BY Zenon DEF Changed
<1>1. pt \in Frame /\ lev[pt] = 4 /\ m \in Memory
  BY ThirdOK, Zenon DEF At, Tree
<1>2. /\ v[4] \in Idx /\ y[1] \in Idx /\ y[2] \in Idx /\ y[3] \in Idx /\ y[4] \in Idx
      /\ y[1] = v[1] /\ y[2] = v[2] /\ y[3] = v[3] /\ y[4] = v[4] => y = v
  BY VirtParts, Zenon
<1>3. Third(m, u, y) = pt <=> v[1] = y[1] /\ v[2] = y[2] /\ v[3] = y[3] /\ (t = u \/ v[1] \in Upper)
  BY ThirdSingle
<1>4. \A g \in Frame, j \in Idx : m2[g][j] = IF g = pt /\ j = v[4] THEN x ELSE m[g][j]
  BY <1>1, <1>2, Zenon DEF Stored, Memory
<1> HIDE DEF pt, m2
<1>5. \A k \in 1 .. 3 : \A z \in At(lev, k) \cup {0}, i \in Idx : Down(m2, z, i) = Down(m, z, i)
  BY <1>1, <1>4 DEF At, Down
<1>6. Down(m, u, y[1]) \in At(lev, 2) \cup {0}
  BY <1>2, DownOK
<1>7. Down(m, Down(m, u, y[1]), y[2]) \in At(lev, 3) \cup {0}
  BY <1>2, <1>6, DownOK
<1>8. Third(m2, u, y) = Third(m, u, y)
  BY <1>2, <1>5, <1>6, <1>7 DEF Third
<1>9. Third(m, u, y) \in At(lev, 4) \cup {0}
  BY ThirdOK, Zenon
<1>10. Translate(m2, u, y) = Down(m2, Third(m, u, y), y[4]) /\ Translate(m, u, y) = Down(m, Third(m, u, y), y[4])
  BY <1>8, TranslateThird, Zenon
<1>11. Third(m, u, y) # 0 => Third(m, u, y) \in Frame
  BY <1>9, Zenon DEF At
<1>12. CASE Third(m, u, y) = 0
  <2>1. ~(y = v /\ (u = t \/ v[1] \in Upper))
    BY <1>1, <1>3, <1>12, Numbers
  <2> QED BY <1>10, <1>12, <2>1, Zenon DEF Down
<1>13. CASE Third(m, u, y) # 0
  <2>1. /\ Translate(m2, u, y) = m2[Third(m, u, y)][y[4]]
        /\ Translate(m, u, y) = m[Third(m, u, y)][y[4]]
    BY <1>10, <1>13, Zenon DEF Down
  <2> QED BY <1>2, <1>3, <1>4, <1>11, <1>13, <2>1
<1> QED BY <1>12, <1>13, Zenon

\* What a call of vmm_map_page that returns has done.
Mapped(w, lev, v, x, w2, lev2) ==
  /\ Standing(w2, lev2, 1) /\ w2.t = w.t /\ At(lev2, 1) = At(lev, 1)
  /\ Changed(w.mem, w2.mem, lev, w.t, v, x)
  /\ \A g \in At(lev, 1), j \in Idx : w.mem[g][j] # 0 => w2.mem[g][j] # 0
  /\ w2.mem[w.t][v[1]] # 0

Panicked(w, lev, w2, lev2) == Stuck(w2, lev2) /\ More(w.mem, lev, w2.mem, lev2)

LEMMA MapPageOK ==
  ASSUME Picks, NEW w, NEW lev, Standing(w, lev, 1), NEW v \in Virt, NEW x \in Data,
         Fillable(w, lev, 1, v[1]), NEW w2, w2 = MapPage(v, w, x)
  PROVE  \E lev2 : Mapped(w, lev, v, x, w2, lev2) \/ Panicked(w, lev, w2, lev2)
<1> DEFINE a == vmm_get_next_level(w, v[1])
           b == vmm_get_next_level(a, v[2])
           c == vmm_get_next_level(b, v[3])
<1>0. v[1] \in Idx /\ v[2] \in Idx /\ v[3] \in Idx /\ v[4] \in Idx
  BY VirtParts, Zenon
<1>1. w2 = IF c.t = 0 THEN c ELSE [mem |-> [c.mem EXCEPT ![c.t][v[4]] = x], used |-> c.used, t |-> w.t]
  BY Zenon DEF MapPage
<1>2. \A z, i : z.t = 0 => vmm_get_next_level(z, i) = z
  BY Zenon DEF vmm_get_next_level
<1>3. More(w.mem, lev, w.mem, lev)
  BY Zenon DEF More
<1>4. \/ Stuck(a, lev) /\ a.mem = w.mem
      \/ \E l : Stepped(w, lev, 1, v[1], a, l)
  BY <1>0, GetOK
<1>5. CASE Stuck(a, lev) /\ a.mem = w.mem
  <2>1. a.t = 0
    BY <1>5, Zenon DEF Stuck
  <2>2. w2 = a
    BY <1>1, <1>2, <2>1, Zenon
  <2> HIDE DEF a
  <2> QED BY <1>3, <1>5, <2>2, Zenon DEF Panicked
<1>6. CASE \E l : Stepped(w, lev, 1, v[1], a, l)
  <2> HIDE DEF a
  <2>1. PICK la : Stepped(w, lev, 1, v[1], a, la)
    BY <1>6, Zenon
  <2>2. Standing(a, la, 2) /\ More(w.mem, lev, a.mem, la) /\ a.mem[w.t][v[1]] = a.t
    BY <2>1 DEF Stepped
  <2>3. \/ Stuck(b, la) /\ b.mem = a.mem
        \/ \E l : Stepped(a, la, 2, v[2], b, l)
    BY <1>0, <2>2, GetOK DEF Fillable
  <2>4. CASE Stuck(b, la) /\ b.mem = a.mem
    <3>1. b.t = 0
      BY <2>4, Zenon DEF Stuck
    <3>2. w2 = b
      BY <1>1, <1>2, <3>1, Zenon
    <3> HIDE DEF b
    <3> QED BY <2>2, <2>4, <3>2, Zenon DEF Panicked
  <2>5. CASE \E l : Stepped(a, la, 2, v[2], b, l)
    <3> HIDE DEF b
    <3>1. PICK lb : Stepped(a, la, 2, v[2], b, lb)
      BY <2>5, Zenon
    <3>2. Standing(b, lb, 3) /\ More(a.mem, la, b.mem, lb) /\ b.mem[a.t][v[2]] = b.t
      BY <3>1 DEF Stepped
    <3>3. More(w.mem, lev, b.mem, lb)
      BY <2>2, <3>2, MoreMore, Zenon
    <3>4. \/ Stuck(c, lb) /\ c.mem = b.mem
          \/ \E l : Stepped(b, lb, 3, v[3], c, l)
      BY <1>0, <3>2, GetOK DEF Fillable
    <3>5. CASE Stuck(c, lb) /\ c.mem = b.mem
      <4>1. c.t = 0
        BY <3>5, Zenon DEF Stuck
      <4>2. w2 = c
        BY <1>1, <4>1, Zenon
      <4> HIDE DEF c
      <4> QED BY <3>3, <3>5, <4>2, Zenon DEF Panicked
    <3>6. CASE \E l : Stepped(b, lb, 3, v[3], c, l)
      <4> HIDE DEF c
      <4>1. PICK lc : Stepped(b, lb, 3, v[3], c, lc)
        BY <3>6, Zenon
      <4>2. /\ Standing(c, lc, 4) /\ More(b.mem, lb, c.mem, lc) /\ c.mem[b.t][v[3]] = c.t
        BY <4>1 DEF Stepped
      <4>3. More(w.mem, lev, c.mem, lc)
        BY <3>3, <4>2, MoreMore, Zenon
      <4>4. /\ w.t \in At(lev, 1) /\ w.t \in InTree(lev) /\ a.t \in InTree(la) /\ b.t \in InTree(lb)
            /\ c.t \in At(lc, 4) /\ a.t \in Frame /\ b.t \in Frame /\ c.t \in Frame
            /\ a.t # 0 /\ b.t # 0 /\ c.t # 0 /\ w.t # 0
        BY <2>2, <3>2, <4>2, Numbers DEF Standing, At, InTree
      <4>5. /\ b.mem[w.t][v[1]] = a.t /\ c.mem[w.t][v[1]] = a.t
        <5>1. b.mem[w.t][v[1]] = a.t
          <6>1. w.t \in InTree(la)
            BY <2>2, <4>4, Zenon DEF More, InTree
          <6> QED BY <1>0, <2>2, <3>2, <4>4, <6>1, Zenon DEF More
        <5>2. w.t \in InTree(lb)
          BY <3>3, <4>4, Zenon DEF More, InTree
        <5> QED BY <1>0, <4>2, <4>4, <5>1, <5>2, Zenon DEF More
      <4>6. c.mem[a.t][v[2]] = b.t
        <5>1. a.t \in InTree(lb)
          BY <3>2, <4>4, Zenon DEF More, InTree
        <5> QED BY <1>0, <3>2, <4>2, <4>4, <5>1, Zenon DEF More
      <4>7. Third(c.mem, w.t, v) = c.t
        BY <4>2, <4>4, <4>5, <4>6, Zenon DEF Third, Down
      <4>8. w2 = [mem |-> Stored(c.mem, c.t, v[4], x), used |-> c.used, t |-> w.t]
        BY <1>1, <4>4, Zenon DEF Stored
      <4> DEFINE m2 == Stored(c.mem, c.t, v[4], x)
      <4>9. Tree(c.mem, lc) /\ w.t \in At(lc, 1) /\ At(lc, 1) = At(lev, 1) /\ c \in Walk
        BY <4>2, <4>3, <4>4, Zenon DEF Standing, More
      <4>10. Tree(m2, lc)
        BY <1>0, <4>4, <4>9, StoreOK, Zenon
      <4>11. Changed(c.mem, m2, lc, w.t, v, x)
        BY <4>4, <4>7, <4>9, StoreChanges, Zenon
      <4>12. Changed(w.mem, m2, lev, w.t, v, x)
        BY <4>3, <4>9, <4>11 DEF Changed, More
      <4>13. \A g \in Frame, j \in Idx : m2[g][j] = IF g = c.t /\ j = v[4] THEN x ELSE c.mem[g][j]
        BY <1>0, <4>4, <4>9, Zenon DEF Stored, Walk, Memory
      <4>14. \A g \in Frame : g # c.t => m2[g] = c.mem[g]
        BY <4>9, Zenon DEF Stored, Walk, Memory
      <4> HIDE DEF m2
      <4>15. NoEmpty(m2, lc, w.t)
        <5>1. m2[c.t] # Empty
          <6>1. c.t \in Frame /\ v[4] \in Idx
            BY <1>0, <4>4, Zenon
          <6>2. m2[c.t][v[4]] = x
            BY <4>13, <6>1, Zenon
          <6>3. Empty[v[4]] = 0 /\ x # 0
            BY <6>1, Numbers, Zenon
          <6> QED BY <6>2, <6>3, Zenon
        <5> QED BY <4>2, <4>4, <4>14, <5>1, Zenon DEF NoEmpty, Standing
      <4>16. /\ \A g \in At(lev, 1), j \in Idx : w.mem[g][j] # 0 => m2[g][j] # 0
             /\ m2[w.t][v[1]] # 0
        <5>1. \A g \in At(lev, 1) : g \in Frame /\ g \in InTree(lev) /\ g # c.t
          BY <4>4, <4>9 DEF At, InTree
        <5>2. \A g \in At(lev, 1) : m2[g] = c.mem[g]
          BY <4>14, <5>1, Zenon
        <5>3. \A g \in At(lev, 1), j \in Idx : w.mem[g][j] # 0 => c.mem[g][j] = w.mem[g][j]
          BY <4>3, <5>1, Zenon DEF More
        <5>4. \A g \in At(lev, 1), j \in Idx : w.mem[g][j] # 0 => m2[g][j] # 0
          BY <5>2, <5>3, Zenon
        <5>5. m2[w.t][v[1]] # 0
          BY <4>4, <4>5, <5>2, Zenon
        <5> QED BY <5>4, <5>5
      <4>17. w2 \in Walk /\ w2.mem = m2 /\ w2.used = InTree(lc) /\ w2.t = w.t
        BY <4>2, <4>4, <4>8, <4>9, <4>10 DEF Walk, Tree, Standing, At, m2
      <4>18. Standing(w2, lc, 1)
        BY <4>9, <4>10, <4>15, <4>17, Zenon DEF Standing
      <4> QED BY <4>9, <4>12, <4>16, <4>17, <4>18, Zenon DEF Mapped
    <3> QED BY <3>4, <3>5, <3>6, Zenon
  <2> QED BY <2>3, <2>4, <2>5, Zenon
<1> QED BY <1>4, <1>5, <1>6, Zenon

-----------------------------------------------------------------------------
(* vmm_unmap_page. *)

\* Tables may go, and neither a translation nor a kernel entry changes.
Less(m, lev, m2, lev2) ==
  /\ At(lev2, 1) = At(lev, 1)
  /\ \A t \in At(lev, 1), v \in Virt : Translate(m2, t, v) = Translate(m, t, v)
  /\ \A g \in At(lev, 1), j \in Upper : m2[g][j] = m[g][j]

LEMMA PruneOK ==
  ASSUME NEW m, NEW lev, Tree(m, lev), NEW k \in 1 .. 3, NEW t \in At(lev, k), NEW i \in Idx,
         NEW f, m[t][i] = f, f # 0, m[f] = Empty, ~(k = 1 /\ i \in Upper), NoEmpty(m, lev, f)
  PROVE  /\ Tree(Stored(m, t, i, 0), Raised(lev, f, 0))
         /\ Less(m, lev, Stored(m, t, i, 0), Raised(lev, f, 0))
         /\ InTree(Raised(lev, f, 0)) = InTree(lev) \ {f}
         /\ NoEmpty(Stored(m, t, i, 0), Raised(lev, f, 0), t)
         /\ \A g \in Frame : g # f => Raised(lev, f, 0)[g] = lev[g]
         /\ \A g \in Frame : g # t => Stored(m, t, i, 0)[g] = m[g]
<1> DEFINE m2 == Stored(m, t, i, 0)
           lev2 == Raised(lev, f, 0)
<1>1. Tree(m2, lev2) /\ Grown(m2, m, lev2) /\ f \in At(lev, k + 1)
  BY UnlinkOK, Zenon
<1>2. m \in Memory /\ lev \in Levels /\ f \in Frame /\ t \in Frame /\ lev[t] = k /\ lev[f] = k + 1
  BY <1>1, Zenon DEF Tree, At
<1>3. \A g \in Frame : lev2[g] = IF g = f THEN 0 ELSE lev[g]
  BY <1>2, Zenon DEF Raised, Levels
<1>4. \A g \in Frame : g # t => m2[g] = m[g]
  BY <1>2, Zenon DEF Stored, Memory
<1>5. \A g \in Frame, j \in Idx : ~(g = t /\ j = i) => m2[g][j] = m[g][j]
  BY <1>2, Zenon DEF Stored, Memory
<1> HIDE DEF m2, lev2
<1>6. At(lev2, 1) = At(lev, 1) /\ InTree(lev2) = InTree(lev) \ {f}
  BY <1>2, <1>3 DEF At, InTree
<1>7. \A u \in At(lev, 1), v \in Virt : Translate(m2, u, v) = Translate(m, u, v)
  BY <1>1, <1>6, GrownTranslates
<1>8. \A g \in At(lev, 1), j \in Upper : m2[g][j] = m[g][j]
  <2> SUFFICES ASSUME NEW g \in At(lev, 1), NEW j \in Upper PROVE m2[g][j] = m[g][j]
    BY Zenon
  <2>1. g \in Frame /\ lev[g] = 1 /\ j \in Idx
    BY Numbers, Zenon DEF At
  <2> QED BY <1>2, <1>5, <2>1
<1>9. NoEmpty(m2, lev2, t)
  BY <1>3, <1>4 DEF NoEmpty
<1> QED BY <1>1, <1>3, <1>4, <1>6, <1>7, <1>8, <1>9, Zenon DEF Less, m2, lev2

LEMMA LessLess ==
  ASSUME NEW m, NEW lev, NEW m2, NEW lev2, NEW m3, NEW lev3,
         Less(m, lev, m2, lev2), Less(m2, lev2, m3, lev3)
  PROVE  Less(m, lev, m3, lev3)
  BY DEF Less

\* What a call of vmm_unmap_page for a user's page has done.
Cleared(w, lev, v, w2, lev2) ==
  /\ Standing(w2, lev2, 1) /\ w2.t = w.t /\ At(lev2, 1) = At(lev, 1)
  /\ Changed(w.mem, w2.mem, lev, w.t, v, 0)
  /\ \A g \in At(lev, 1), j \in Upper : w2.mem[g][j] = w.mem[g][j]

\* The tables are as after clearing the entry of v, some empty ones being gone.
LEMMA ClearedLess ==
  ASSUME NEW w, NEW lev, NEW v, NEW m1, NEW lev2, NEW m2, NEW w2, NEW U,
         w \in Walk, w.t \in At(lev, 1), Changed(w.mem, m1, lev, w.t, v, 0),
         \A g \in At(lev, 1), j \in Upper : m1[g][j] = w.mem[g][j],
         Less(m1, lev, m2, lev2), Tree(m2, lev2), NoEmpty(m2, lev2, w.t),
         U \subseteq Frame, InTree(lev2) = U, w2 = [mem |-> m2, used |-> U, t |-> w.t]
  PROVE  Cleared(w, lev, v, w2, lev2)
<1>1. w2 \in Walk /\ w2.mem = m2 /\ w2.used = U /\ w2.t = w.t
  BY Zenon DEF Walk, Tree
<1>2. Standing(w2, lev2, 1)
  BY <1>1, Zenon DEF Standing, Less
<1> QED BY <1>1, <1>2 DEF Cleared, Less, Changed

LEMMA UnmapPageOK ==
  ASSUME NEW w, NEW lev, Standing(w, lev, 1), NEW v \in Virt, ~InKernelHalf(v),
         NEW w2, w2 = UnmapPage(v, w)
  PROVE  \E lev2 : Cleared(w, lev, v, w2, lev2)
<1> DEFINE pdpt == Down(w.mem, w.t, v[1])
           pd   == Down(w.mem, pdpt, v[2])
           pt   == Down(w.mem, pd, v[3])
           m1   == Stored(w.mem, pt, v[4], 0)
           m2   == Stored(m1, pd, v[3], 0)
           m3   == Stored(m2, pdpt, v[2], 0)
           m4   == Stored(m3, w.t, v[1], 0)
<1>0. /\ v[1] \in Idx /\ v[2] \in Idx /\ v[3] \in Idx /\ v[4] \in Idx
      /\ v[1] \notin Upper
  BY VirtParts, Zenon DEF InKernelHalf
<1>1. /\ w \in Walk /\ Tree(w.mem, lev) /\ w.used = InTree(lev) /\ w.t \in At(lev, 1) /\ w.t \in Frame
      /\ NoEmpty(w.mem, lev, w.t) /\ w.mem \in Memory /\ w.t # 0 /\ lev[w.t] = 1 /\ InTree(lev) \subseteq Frame
  BY Numbers, Zenon DEF Standing, At, Walk, InTree
<1> DEFINE Left(m, freed) == [mem |-> m, used |-> w.used \ freed, t |-> w.t]
<1>2. w2 = IF Translate(w.mem, w.t, v) = 0 THEN w
           ELSE IF m1[pt] # Empty THEN Left(m1, {})
           ELSE IF m2[pd] # Empty THEN Left(m2, {pt})
           ELSE IF m3[pdpt] # Empty \/ InKernelHalf(v) THEN Left(m3, {pt, pd})
           ELSE Left(m4, {pt, pd, pdpt})
  BY Zenon DEF UnmapPage, Stored
<1>5. ~InKernelHalf(v)
  BY <1>0, Zenon DEF InKernelHalf
<1>3. CASE Translate(w.mem, w.t, v) = 0
  <2>1. Changed(w.mem, w.mem, lev, w.t, v, 0)
    BY <1>0, <1>3, Zenon DEF Changed
  <2> QED BY <1>2, <1>3, <2>1, Zenon DEF Cleared
<1>4. CASE Translate(w.mem, w.t, v) # 0
  <2>1. pt = Third(w.mem, w.t, v) /\ Translate(w.mem, w.t, v) = Down(w.mem, pt, v[4])
    BY Zenon DEF Third, Translate
  <2>2. pt # 0 /\ pd # 0 /\ pdpt # 0
    <3>1. \A i : Down(w.mem, 0, i) = 0
      BY Zenon DEF Down
    <3> QED BY <1>4, <2>1, <3>1
  <2>3. pdpt \in At(lev, 2)
    BY <1>0, <1>1, <2>2, DownOK
  <2>4. pd \in At(lev, 3)
    <3> HIDE DEF pdpt
    <3> QED BY <1>0, <1>1, <2>2, <2>3, DownOK
  <2>5. pt \in At(lev, 4)
    <3> HIDE DEF pd
    <3> QED BY <1>0, <1>1, <2>2, <2>4, DownOK
  <2>6. w.mem[w.t][v[1]] = pdpt /\ w.mem[pdpt][v[2]] = pd /\ w.mem[pd][v[3]] = pt
    <3>1. \A f, i : f # 0 => Down(w.mem, f, i) = w.mem[f][i]
      BY Zenon DEF Down
    <3> QED BY <1>1, <2>2, <3>1, Zenon
  <2>7. Changed(w.mem, m1, lev, w.t, v, 0)
    BY <1>1, <2>1, <2>2, StoreChanges, Zenon
  <2> HIDE DEF pdpt, pd, pt
  <2>8. /\ pdpt \in Frame /\ pd \in Frame /\ pt \in Frame
        /\ lev[pdpt] = 2 /\ lev[pd] = 3 /\ lev[pt] = 4
    BY <2>3, <2>4, <2>5 DEF At
  <2>9. Tree(m1, lev)
    BY <1>0, <1>1, <2>5, StoreOK, Zenon
  <2>10. \A g \in Frame : g # pt => m1[g] = w.mem[g]
    BY <1>1, Zenon DEF Stored, Memory
  <2> HIDE DEF m1
  <2>11. NoEmpty(m1, lev, pt)
    BY <1>1, <2>10 DEF NoEmpty
  <2>12. \A g \in At(lev, 1), j \in Upper : m1[g][j] = w.mem[g][j]
    BY <2>8, <2>10 DEF At
  <2>13. Less(m1, lev, m1, lev)
    BY Zenon DEF Less
  <2>14. CASE m1[pt] # Empty
    <3>1. NoEmpty(m1, lev, w.t)
      BY <1>1, <2>11, <2>14, Zenon DEF NoEmpty
    <3>2. w2 = [mem |-> m1, used |-> w.used, t |-> w.t]
      BY <1>2, <1>4, <2>14, Zenon
    <3> QED BY <1>1, <2>7, <2>9, <2>12, <2>13, <3>1, <3>2, ClearedLess, Zenon
  <2>15. CASE m1[pt] = Empty
    <3> DEFINE l2 == Raised(lev, pt, 0)
    <3>1. m1[pd][v[3]] = pt
      BY <2>6, <2>8, <2>10
    <3>2. /\ Tree(m2, l2) /\ Less(m1, lev, m2, l2) /\ InTree(l2) = InTree(lev) \ {pt}
          /\ NoEmpty(m2, l2, pd)
          /\ \A g \in Frame : g # pt => l2[g] = lev[g]
          /\ \A g \in Frame : g # pd => m2[g] = m1[g]
      <4>1. v[3] \in Idx /\ 3 \in 1 .. 3 /\ ~(3 = 1 /\ v[3] \in Upper)
        BY <1>0
      <4> QED BY <2>2, <2>4, <2>9, <2>11, <2>15, <3>1, <4>1, PruneOK
    <3> HIDE DEF m2, l2
    <3>3. CASE m2[pd] # Empty
      <4>1. NoEmpty(m2, l2, w.t)
        BY <3>2, <3>3 DEF NoEmpty
      <4>2. w2 = [mem |-> m2, used |-> w.used \ {pt}, t |-> w.t]
        BY <1>2, <1>4, <1>5, <2>15, <3>3, Zenon
      <4>3. InTree(l2) = w.used \ {pt} /\ w.used \ {pt} \subseteq Frame
        BY <1>1, <3>2, Zenon
      <4> QED BY <1>1, <2>7, <2>12, <3>2, <4>1, <4>2, <4>3, ClearedLess, Zenon
    <3>4. CASE m2[pd] = Empty
      <4> DEFINE l3 == Raised(l2, pd, 0)
      <4>1. m2[pdpt][v[2]] = pd /\ pdpt \in At(l2, 2)
        <5>1. pdpt \in Frame /\ pdpt # pt /\ pdpt # pd
          BY <2>8
        <5>2. m2[pdpt] = w.mem[pdpt] /\ l2[pdpt] = 2
          BY <2>8, <2>10, <3>2, <5>1, Zenon
        <5> QED BY <2>6, <5>1, <5>2, Zenon DEF At
      <4>2. /\ Tree(m3, l3) /\ Less(m2, l2, m3, l3) /\ InTree(l3) = InTree(l2) \ {pd}
            /\ NoEmpty(m3, l3, pdpt)
            /\ \A g \in Frame : g # pd => l3[g] = l2[g]
            /\ \A g \in Frame : g # pdpt => m3[g] = m2[g]
        <5>1. v[2] \in Idx /\ 2 \in 1 .. 3 /\ ~(2 = 1 /\ v[2] \in Upper)
          BY <1>0
        <5> QED BY <2>2, <3>2, <3>4, <4>1, <5>1, PruneOK
      <4>3. Less(m1, lev, m3, l3)
        BY <3>2, <4>2, LessLess
      <4> HIDE DEF m3, l3
      <4>4. InTree(l3) = w.used \ {pt, pd} /\ w.used \ {pt, pd} \subseteq Frame
        BY <1>1, <3>2, <4>2
      <4>5. CASE m3[pdpt] # Empty
        <5>1. NoEmpty(m3, l3, w.t)
          BY <4>2, <4>5, Zenon DEF NoEmpty
        <5>2. w2 = [mem |-> m3, used |-> w.used \ {pt, pd}, t |-> w.t]
          BY <1>2, <1>4, <1>5, <2>15, <3>4, <4>5, Zenon
        <5> QED BY <1>1, <2>7, <2>12, <4>2, <4>3, <4>4, <5>1, <5>2, ClearedLess, Zenon
      <4>6. CASE m3[pdpt] = Empty
        <5> DEFINE l4 == Raised(l3, pdpt, 0)
        <5>1. m3[w.t][v[1]] = pdpt /\ w.t \in At(l3, 1)
          <6>1. w.t \in Frame /\ w.t # pt /\ w.t # pd /\ w.t # pdpt
            BY <1>1, <2>8
          <6>2. m3[w.t] = w.mem[w.t] /\ l3[w.t] = 1
            BY <1>1, <2>10, <3>2, <4>2, <6>1, Zenon
          <6> QED BY <2>6, <6>1, <6>2, Zenon DEF At
        <5>2. /\ Tree(m4, l4) /\ Less(m3, l3, m4, l4) /\ InTree(l4) = InTree(l3) \ {pdpt}
              /\ NoEmpty(m4, l4, w.t)
          <6>1. v[1] \in Idx /\ 1 \in 1 .. 3 /\ ~(1 = 1 /\ v[1] \in Upper)
            BY <1>0
          <6> QED BY <2>2, <4>2, <4>6, <5>1, <6>1, PruneOK
        <5>3. Less(m1, lev, m4, l4)
          BY <4>3, <5>2, LessLess
        <5> HIDE DEF m4, l4
        <5>4. InTree(l4) = w.used \ {pt, pd, pdpt} /\ w.used \ {pt, pd, pdpt} \subseteq Frame
          BY <1>1, <4>4, <5>2, Zenon
        <5>5. w2 = [mem |-> m4, used |-> w.used \ {pt, pd, pdpt}, t |-> w.t]
          BY <1>2, <1>4, <1>5, <2>15, <3>4, <4>6, Zenon
        <5> QED BY <1>1, <2>7, <2>12, <5>2, <5>3, <5>4, <5>5, ClearedLess, Zenon
      <4> QED BY <4>5, <4>6
    <3> QED BY <3>3, <3>4
  <2> QED BY <2>14, <2>15, Zenon
<1> QED BY <1>3, <1>4, Zenon

-----------------------------------------------------------------------------
(* The loops of vmm_install and process_reap. *)

\* What unmapping pages of one process has done.
Emptied(w, lev, w2, lev2) ==
  /\ Standing(w2, lev2, 1) /\ w2.t = w.t /\ At(lev2, 1) = At(lev, 1)
  /\ \A g \in At(lev, 1), j \in Upper : w2.mem[g][j] = w.mem[g][j]
  /\ \A u \in At(lev, 1), y \in Virt :
       \/ Translate(w2.mem, u, y) = Translate(w.mem, u, y)
       \/ u = w.t /\ y[1] \notin Upper /\ Translate(w2.mem, u, y) = 0

LEMMA ClearedEmptied ==
  ASSUME NEW w, NEW lev, NEW w1, NEW lev1, NEW w2, NEW lev2, NEW v, ~InKernelHalf(v),
         Emptied(w, lev, w1, lev1), Cleared(w1, lev1, v, w2, lev2)
  PROVE  Emptied(w, lev, w2, lev2)
<1>1. At(lev1, 1) = At(lev, 1) /\ At(lev2, 1) = At(lev, 1) /\ w1.t = w.t /\ w2.t = w.t /\ Standing(w2, lev2, 1)
  BY Zenon DEF Emptied, Cleared
<1>2. \A g \in At(lev, 1), j \in Upper : w2.mem[g][j] = w.mem[g][j]
  BY <1>1 DEF Emptied, Cleared
<1>3. ASSUME NEW u \in At(lev, 1), NEW y \in Virt
      PROVE  \/ Translate(w2.mem, u, y) = Translate(w.mem, u, y)
             \/ u = w.t /\ y[1] \notin Upper /\ Translate(w2.mem, u, y) = 0
  <2>1. \/ Translate(w1.mem, u, y) = Translate(w.mem, u, y)
        \/ u = w.t /\ y[1] \notin Upper /\ Translate(w1.mem, u, y) = 0
    BY Zenon DEF Emptied
  <2>2. Translate(w2.mem, u, y) = IF y = v /\ (u = w1.t \/ v[1] \in Upper) THEN 0 ELSE Translate(w1.mem, u, y)
    BY <1>1, Zenon DEF Cleared, Changed
  <2> QED BY <1>1, <2>1, <2>2, Zenon DEF InKernelHalf
<1> QED BY <1>1, <1>2, <1>3, Zenon DEF Emptied

\* The kernel's tables while vmm_install maps pages: the only top-level one is
\* t, with the entries of the first i pages, or a panic has ended the loop.
Booting(x, t, i) ==
  \/ \E l : Stuck(x, l) /\ At(l, 1) = {t}
  \/ /\ \E l : Standing(x, l, 1) /\ x.t = t /\ At(l, 1) = {t}
     /\ \A j \in 1 .. i : x.mem[t][Boot[j].virt[1]] # 0

LEMMA BootPages ==
  /\ Len(Boot) \in Nat
  /\ \A i \in 1 .. Len(Boot) : Boot[i].virt \in Virt /\ Boot[i].virt[1] \in Idx /\ Boot[i].phys \in Data
<1> DEFINE R == [virt : Virt, phys : Phys[Kernel]]
<1>1. Boot \in Seq(R)
  BY VmmAssumption, Zenon
<1>2. \A x \in R : x.virt \in Virt /\ x.virt[1] \in Idx /\ x.phys \in Data
  <2>1. Phys[Kernel] \subseteq Data
    BY Zenon DEF Data, Spaces
  <2> QED BY <2>1, VirtParts, Zenon
<1> HIDE DEF R
<1>3. \A i \in 1 .. Len(Boot) : Boot[i] \in R
  BY <1>1
<1> QED BY <1>1, <1>2, <1>3

LEMMA BootStep ==
  ASSUME Picks, NEW t, NEW i \in 1 .. Len(Boot), NEW x, Booting(x, t, i - 1),
         NEW x2, x2 = MapPage(Boot[i].virt, x, Boot[i].phys)
  PROVE  x2 \in Walk /\ Booting(x2, t, i)
<1> DEFINE v == Boot[i].virt
           p == Boot[i].phys
<1>1. v \in Virt /\ p \in Data
  BY BootPages, Zenon
<1> HIDE DEF v, p
<1>2. CASE \E l : Stuck(x, l) /\ At(l, 1) = {t}
  <2>1. x.t = 0 /\ x \in Walk
    BY <1>2, Zenon DEF Stuck
  <2>2. \A i1 : vmm_get_next_level(x, i1) = x
    BY <2>1, Zenon DEF vmm_get_next_level
  <2>3. x2 = x
    BY <2>1, <2>2, Zenon DEF MapPage
  <2> QED BY <1>2, <2>1, <2>3, Zenon DEF Booting
<1>3. CASE /\ \E l : Standing(x, l, 1) /\ x.t = t /\ At(l, 1) = {t}
           /\ \A j \in 1 .. (i - 1) : x.mem[t][Boot[j].virt[1]] # 0
  <2>1. PICK l : Standing(x, l, 1) /\ x.t = t /\ At(l, 1) = {t}
    BY <1>3, Zenon
  <2>2. Fillable(x, l, 1, v[1])
    BY <2>1, Zenon DEF Fillable
  <2>3. PICK l2 : Mapped(x, l, v, p, x2, l2) \/ Panicked(x, l, x2, l2)
    BY <1>1, <2>1, <2>2, MapPageOK, Zenon DEF v, p
  <2>4. CASE Panicked(x, l, x2, l2)
    <3>1. Stuck(x2, l2) /\ At(l2, 1) = {t} /\ x2 \in Walk
      BY <2>1, <2>4, Zenon DEF Panicked, More, Stuck
    <3> QED BY <3>1, Zenon DEF Booting
  <2>5. CASE Mapped(x, l, v, p, x2, l2)
    <3>1. Standing(x2, l2, 1) /\ x2.t = t /\ At(l2, 1) = {t} /\ x2 \in Walk /\ x2.mem[t][v[1]] # 0
      BY <2>1, <2>5, Zenon DEF Mapped, Standing
    <3>2. \A j \in 1 .. i : x2.mem[t][Boot[j].virt[1]] # 0
      <4> SUFFICES ASSUME NEW j \in 1 .. i PROVE x2.mem[t][Boot[j].virt[1]] # 0
        BY Zenon
      <4>1. CASE j = i
        BY <3>1, <4>1, Zenon DEF v
      <4>2. CASE j # i
        <5>1. j \in 1 .. (i - 1) /\ j \in 1 .. Len(Boot)
          BY <4>2
        <5>2. Boot[j].virt[1] \in Idx
          BY <5>1, BootPages, Zenon
        <5>3. x.mem[t][Boot[j].virt[1]] # 0
          BY <1>3, <5>1, Zenon
        <5> QED BY <2>1, <2>5, <5>2, <5>3, Zenon DEF Mapped
      <4> QED BY <4>1, <4>2, Zenon
    <3> QED BY <3>1, <3>2, Zenon DEF Booting
  <2> QED BY <2>3, <2>4, <2>5, Zenon
<1> QED BY <1>2, <1>3, Zenon DEF Booting

-----------------------------------------------------------------------------
(***************************************************************************)
(* The inductive invariant.  The tables have levels, the top-level ones    *)
(* being those of the processes, each with its own; the frames in use are  *)
(* the tables; a call that was not cut short leaves no empty table; and    *)
(* the kernel's entry for every page its heap may grow to is there before  *)
(* an address space is made.                                               *)
(***************************************************************************)
Ok(m, u, pm, lock, lev) ==
  /\ Tree(m, lev)
  /\ pm \in [Spaces -> Frame \cup {0}] /\ At(lev, 1) = {pm[s] : s \in Spaces} \ {0}
  /\ \A s, t \in Spaces : pm[s] = pm[t] /\ pm[s] # 0 => s = t
  /\ lock \in {"free", "held", "spun"}
  /\ lock # "spun" => u = InTree(lev)
  /\ lock = "spun" => \E f \in At(lev, 0) : u = InTree(lev) \cup {f}
  /\ lock = "free" => NoEmpty(m, lev, 0)
  /\ lock = "free" /\ pm[Kernel] # 0 => \A v \in LateVirts : m[pm[Kernel]][v[1]] # 0
  /\ lock = "held" => u = Frame
  /\ pm[Kernel] = 0 => \A s \in Spaces : pm[s] = 0

IInv == reaped \subseteq Users /\ \E lev : Ok(mem, used, pagemap, vmm_lock, lev)

LEMMA Pages ==
  /\ \A v \in InUse : v \in Virt /\ (v \in KernelVirts <=> v[1] \in Upper)
  /\ LateVirts \subseteq InUse /\ KernelVirts \subseteq InUse
  /\ \A p \in Users : UserVirts[p] \subseteq InUse /\ UserVirts[p] \in SUBSET {v \in Virt : ~InKernelHalf(v)}
  /\ \A p \in Users : Unmapped[p] \in Seq(UserVirts[p])
  /\ \A v \in LateVirts : v \in Virt /\ v[1] \in Upper
  /\ Kernel \in Spaces /\ Kernel \notin Users /\ Users \subseteq Spaces
<1>1. /\ UserVirts \in [Users -> SUBSET {v \in Virt : ~InKernelHalf(v)}]
      /\ LateVirts \subseteq {v \in Virt : InKernelHalf(v)}
      /\ \A p \in Users : Unmapped[p] \in Seq(UserVirts[p])
      /\ Kernel \notin Users
  BY VmmAssumption, Zenon
<1>2. \A p \in Users : UserVirts[p] \in SUBSET {v \in Virt : ~InKernelHalf(v)}
  BY <1>1, Zenon
<1>3. \A v \in LateVirts : v \in Virt /\ v[1] \in Upper
  BY <1>1, Zenon DEF InKernelHalf
<1>4. ASSUME NEW v \in InUse PROVE v \in Virt /\ (v \in KernelVirts <=> v[1] \in Upper)
  <2>1. CASE v \in LateVirts
    BY <1>3, <2>1, Zenon DEF KernelVirts
  <2>2. CASE v \in {Boot[i].virt : i \in 1 .. Len(Boot)}
    BY <1>3, <2>2, BootPages DEF KernelVirts, InKernelHalf
  <2>3. CASE \E p \in Users : v \in UserVirts[p]
    BY <1>2, <1>3, <2>3 DEF KernelVirts, InKernelHalf
  <2> QED BY <2>1, <2>2, <2>3 DEF InUse
<1>5. LateVirts \subseteq InUse /\ KernelVirts \subseteq InUse /\ \A p \in Users : UserVirts[p] \subseteq InUse
  BY Zenon DEF InUse, KernelVirts
<1>6. Kernel \in Spaces /\ Users \subseteq Spaces
  BY Zenon DEF Spaces
<1> QED BY <1>1, <1>2, <1>3, <1>4, <1>5, <1>6, Zenon

\* A call begins on the table of its process.
LEMMA HereStands ==
  ASSUME NEW lev, Ok(mem, used, pagemap, "free", lev), NEW s \in Spaces, pagemap[s] # 0
  PROVE  /\ Standing(Here(pagemap[s]), lev, 1) /\ pagemap[s] \in At(lev, 1) /\ pagemap[s] \in Frame
         /\ Here(pagemap[s]).mem = mem /\ Here(pagemap[s]).t = pagemap[s]
<1>1. pagemap[s] \in At(lev, 1) /\ pagemap[s] \in Frame
  BY DEF Ok
<1>2. used = InTree(lev) /\ used \subseteq Frame /\ mem \in Memory /\ NoEmpty(mem, lev, pagemap[s])
  BY Numbers, Zenon DEF Ok, InTree, NoEmpty, Tree
<1>3. Here(pagemap[s]) = [mem |-> mem, used |-> used, t |-> pagemap[s]]
  BY Zenon DEF Here
<1>4. Here(pagemap[s]) \in Walk
  BY <1>1, <1>2, <1>3 DEF Walk
<1> QED BY <1>1, <1>2, <1>3, <1>4 DEF Standing, Ok

-----------------------------------------------------------------------------
(* The steps of the abstract specification. *)

Step == Abs!AbsNext \/ (Translation' = Translation /\ pagemap' = pagemap /\ reaped' = reaped)

LEMMA Translations ==
  \A s \in Spaces, v \in InUse : Translation[s][v] = Translate(mem, pagemap[s], v)
  BY Zenon DEF Translation, vmm_virt_to_phys

LEMMA TranslationsAfter ==
  \A s \in Spaces, v \in InUse : Translation'[s][v] = Translate(mem', pagemap'[s], v)
  BY Zenon DEF Translation, vmm_virt_to_phys

LEMMA SameTranslation ==
  ASSUME \A s \in Spaces, v \in InUse : Translate(mem', pagemap'[s], v) = Translate(mem, pagemap[s], v)
  PROVE  Translation' = Translation
  BY Zenon DEF Translation, vmm_virt_to_phys

LEMMA NoTable == \A m, v : Translate(m, 0, v) = 0
  BY DEF Translate, Down

\* A page changes.
LEMMA SetStep ==
  ASSUME NEW lev, NEW u, NEW lock, Ok(mem, u, pagemap, lock, lev), NEW s \in Spaces, pagemap[s] # 0,
         s \notin reaped, NEW v \in InUse, NEW x \in Data \cup {0},
         Changed(mem, mem', lev, pagemap[s], v, x), UNCHANGED <<pagemap, reaped>>
  PROVE  Step
<1>1. \A t \in Spaces : pagemap[t] # 0 => pagemap[t] \in At(lev, 1) /\ (pagemap[t] = pagemap[s] => t = s)
  BY DEF Ok
<1>2. ASSUME NEW t \in Spaces, NEW y \in InUse
      PROVE  Translation'[t][y] = IF y = v /\ pagemap[t] # 0 /\ (t = s \/ v \in KernelVirts)
                                  THEN x ELSE Translation[t][y]
  <2>1. /\ Translation'[t][y] = Translate(mem', pagemap[t], y)
        /\ Translation[t][y] = Translate(mem, pagemap[t], y)
    BY Translations, TranslationsAfter
  <2>2. CASE pagemap[t] = 0
    BY <2>1, <2>2, NoTable
  <2>3. CASE pagemap[t] # 0
    <3>1. y \in Virt /\ (v \in KernelVirts <=> v[1] \in Upper)
      BY Pages, Zenon
    <3>2. Translate(mem', pagemap[t], y) =
            IF y = v /\ (pagemap[t] = pagemap[s] \/ v[1] \in Upper) THEN x ELSE Translate(mem, pagemap[t], y)
      BY <1>1, <2>3, <3>1, Zenon DEF Changed
    <3> QED BY <1>1, <2>1, <2>3, <3>1, <3>2, Zenon
  <2> QED BY <2>2, <2>3, Zenon
<1>3. Translation'[s][v] = x
  BY <1>2, Zenon
<1>4. CASE Translation[s][v] = x
  <2>1. \A t \in Spaces : pagemap[t] # 0 /\ v \in KernelVirts => Translation[t][v] = x
    <3> SUFFICES ASSUME NEW t \in Spaces, pagemap[t] # 0, v \in KernelVirts PROVE Translation[t][v] = x
      BY Zenon
    <3>1. v \in Virt /\ v[1] \in Upper
      BY Pages, Zenon
    <3>2. Translate(mem, pagemap[t], v) = Translate(mem, pagemap[s], v)
      <4>1. mem[pagemap[t]][v[1]] = mem[pagemap[s]][v[1]]
        BY <1>1, <3>1 DEF Ok, Tree, Shared
      <4>2. Down(mem, pagemap[t], v[1]) = Down(mem, pagemap[s], v[1])
        BY <4>1, Zenon DEF Down
      <4> QED BY <4>2, Zenon DEF Translate
    <3> QED BY <1>4, <3>2, Translations
  <2>2. \A t \in Spaces, y \in InUse : Translation'[t][y] = Translation[t][y]
    BY <1>2, <1>4, <2>1
  <2>3. Translation' = Translation
    BY <2>2, Translations, TranslationsAfter, SameTranslation
  <2> QED BY <2>3, Zenon DEF Step
<1>5. CASE Translation[s][v] # x
  <2>1. Abs!Set(s, v, Translation, Translation')
    <3>1. Translation[s][v] # Translation'[s][v] /\ Translation'[s][v] \in Data \cup {0}
      BY <1>3, <1>5
    <3>2. /\ {t \in Spaces : pagemap'[t] # 0} = {t \in Spaces : pagemap[t] # 0} /\ reaped' = reaped
          /\ s \in {t \in Spaces : pagemap[t] # 0} \ reaped
      BY Zenon
    <3> QED BY <1>2, <1>3, <3>1, <3>2 DEF Abs!Set
  <2> QED BY <2>1, Zenon DEF Step, Abs!AbsNext
<1> QED BY <1>4, <1>5

\* No page changes.
LEMMA SameStep ==
  ASSUME NEW lev, NEW u, NEW lock, Ok(mem, u, pagemap, lock, lev), UNCHANGED <<pagemap, reaped>>,
         \A t \in At(lev, 1), v \in Virt : Translate(mem', t, v) = Translate(mem, t, v)
  PROVE  Step
<1>1. ASSUME NEW s \in Spaces, NEW v \in InUse
      PROVE  Translate(mem', pagemap'[s], v) = Translate(mem, pagemap[s], v)
  <2>1. v \in Virt /\ (pagemap[s] # 0 => pagemap[s] \in At(lev, 1))
    BY Pages DEF Ok
  <2> QED BY <2>1, NoTable
<1>2. Translation' = Translation
  BY <1>1, SameTranslation
<1> QED BY <1>2, Zenon DEF Step

LEMMA SameRow ==
  ASSUME NEW s \in Spaces,
         \A v \in InUse : Translate(mem', pagemap'[s], v) = Translate(mem, pagemap[s], v)
  PROVE  Translation'[s] = Translation[s]
  BY Zenon DEF Translation, vmm_virt_to_phys

-----------------------------------------------------------------------------
(* Every step keeps the invariant and is a step of the abstract specification, *)
(* or changes nothing that it speaks of. *)

LEMMA MapStep ==
  ASSUME Picks, IInv, NEW s \in Spaces, NEW v, s \in Users => v \in UserVirts[s],
         s = Kernel => v \in LateVirts, vmm_map_page(s, v)
  PROVE  IInv' /\ Step
<1>1. /\ pagemap[s] # 0 /\ s \notin reaped /\ vmm_lock = "free" /\ UNCHANGED <<pagemap, reaped>>
      /\ \E x \in Phys[s] : AfterMap(MapPage(v, Here(pagemap[s]), x))
  BY Zenon DEF vmm_map_page, Calls
<1>2. PICK x \in Phys[s] : AfterMap(MapPage(v, Here(pagemap[s]), x))
  BY <1>1, Zenon
<1>3. x \in Data
  BY <1>2, Zenon DEF Data
<1>4. PICK lev : Ok(mem, used, pagemap, "free", lev)
  BY <1>1, Zenon DEF IInv
<1>5. v \in InUse /\ v \in Virt /\ (v[1] \in Upper => s = Kernel)
  BY Pages, Zenon DEF Spaces, InKernelHalf
<1> DEFINE w == Here(pagemap[s])
           w2 == MapPage(v, w, x)
<1>6. Standing(w, lev, 1) /\ pagemap[s] \in At(lev, 1) /\ w.mem = mem /\ w.t = pagemap[s]
  BY <1>1, <1>4, HereStands, Zenon
<1>7. mem' = w2.mem /\ used' = w2.used /\ vmm_lock' = IF w2.t = 0 THEN "held" ELSE "free"
  BY <1>2, Zenon DEF AfterMap, Becomes
<1>8. Fillable(w, lev, 1, v[1])
  <2>1. v[1] \in Upper => mem[pagemap[s]][v[1]] # 0
    BY <1>1, <1>4, <1>5, Zenon DEF Ok
  <2> HIDE DEF w
  <2> QED BY <1>6, <2>1, Zenon DEF Fillable
<1>9. PICK lev2 : Mapped(w, lev, v, x, w2, lev2) \/ Panicked(w, lev, w2, lev2)
  <2> HIDE DEF w
  <2> QED BY <1>3, <1>5, <1>6, <1>8, MapPageOK, Zenon
<1> HIDE DEF w, w2
<1>10. CASE Mapped(w, lev, v, x, w2, lev2)
  <2>1. /\ Standing(w2, lev2, 1) /\ w2.t = pagemap[s] /\ At(lev2, 1) = At(lev, 1)
        /\ Changed(mem, mem', lev, pagemap[s], v, x)
        /\ \A g \in At(lev, 1), j \in Idx : mem[g][j] # 0 => mem'[g][j] # 0
    BY <1>6, <1>7, <1>10, Zenon DEF Mapped
  <2>2. vmm_lock' = "free" /\ Tree(mem', lev2) /\ used' = InTree(lev2) /\ NoEmpty(mem', lev2, 0)
    <3>1. vmm_lock' = "free"
      BY <1>1, <1>7, <2>1, Zenon
    <3>2. Tree(mem', lev2) /\ used' = InTree(lev2) /\ NoEmpty(mem', lev2, pagemap[s])
      BY <1>7, <2>1, Zenon DEF Standing
    <3>3. lev2[pagemap[s]] = 1
      BY <1>6, <2>1, Zenon DEF At
    <3> QED BY <3>1, <3>2, <3>3 DEF NoEmpty
  <2>3. pagemap[Kernel] # 0 => \A y \in LateVirts : mem'[pagemap[Kernel]][y[1]] # 0
    <3>1. \A y \in LateVirts : y[1] \in Idx
      BY Pages, Numbers, Zenon
    <3>2. pagemap[Kernel] # 0 => pagemap[Kernel] \in At(lev, 1)
      BY <1>4, Pages DEF Ok
    <3>3. pagemap[Kernel] # 0 => \A y \in LateVirts : mem[pagemap[Kernel]][y[1]] # 0
      BY <1>4, Zenon DEF Ok
    <3> QED BY <2>1, <3>1, <3>2, <3>3, Zenon
  <2>4. Ok(mem', used', pagemap', vmm_lock', lev2)
    <3>1. /\ pagemap \in [Spaces -> Frame \cup {0}] /\ At(lev2, 1) = {pagemap[t] : t \in Spaces} \ {0}
          /\ \A t, u \in Spaces : pagemap[t] = pagemap[u] /\ pagemap[t] # 0 => t = u
          /\ pagemap[Kernel] = 0 => \A t \in Spaces : pagemap[t] = 0
      BY <1>4, <2>1, Zenon DEF Ok
    <3>2. "free" # "spun" /\ "free" # "held"
      OBVIOUS
    <3>3. Ok(mem', used', pagemap, "free", lev2)
      BY <2>2, <2>3, <3>1, <3>2, Zenon DEF Ok
    <3>4. pagemap' = pagemap
      BY <1>1, Zenon
    <3> QED BY <2>2, <3>3, <3>4, Zenon
  <2>5. Step
    BY <1>1, <1>3, <1>4, <1>5, <2>1, SetStep, Zenon
  <2> QED BY <1>1, <2>4, <2>5, Zenon DEF IInv
<1>11. CASE Panicked(w, lev, w2, lev2)
  <2>1. /\ Tree(mem', lev2) /\ used' = InTree(lev2) /\ used' = Frame /\ vmm_lock' = "held"
        /\ At(lev2, 1) = At(lev, 1)
        /\ \A t \in At(lev, 1), y \in Virt : Translate(mem', t, y) = Translate(mem, t, y)
    BY <1>6, <1>7, <1>11, Zenon DEF Panicked, Stuck, More
  <2>2. Ok(mem', used', pagemap', vmm_lock', lev2)
    <3>1. /\ pagemap \in [Spaces -> Frame \cup {0}] /\ At(lev2, 1) = {pagemap[t] : t \in Spaces} \ {0}
          /\ \A t, u \in Spaces : pagemap[t] = pagemap[u] /\ pagemap[t] # 0 => t = u
          /\ pagemap[Kernel] = 0 => \A t \in Spaces : pagemap[t] = 0
      BY <1>4, <2>1, Zenon DEF Ok
    <3>2. "held" # "spun" /\ "held" # "free"
      OBVIOUS
    <3>3. Ok(mem', used', pagemap, "held", lev2)
      BY <2>1, <3>1, <3>2, Zenon DEF Ok
    <3>4. pagemap' = pagemap
      BY <1>1, Zenon
    <3> QED BY <2>1, <3>3, <3>4, Zenon
  <2>3. Step
    BY <1>1, <1>4, <2>1, SameStep, Zenon
  <2> QED BY <1>1, <2>2, <2>3, Zenon DEF IInv
<1> QED BY <1>9, <1>10, <1>11

\* The tables of one process lose pages.
LEMMA KeepsOk ==
  ASSUME NEW lev, Ok(mem, used, pagemap, "free", lev), NEW s \in Spaces, pagemap[s] # 0,
         NEW w2, NEW lev2, Standing(w2, lev2, 1), w2.t = pagemap[s], At(lev2, 1) = At(lev, 1),
         \A g \in At(lev, 1), j \in Upper : w2.mem[g][j] = mem[g][j]
  PROVE  Ok(w2.mem, w2.used, pagemap, "free", lev2)
<1>1. Tree(w2.mem, lev2) /\ w2.used = InTree(lev2) /\ NoEmpty(w2.mem, lev2, 0)
  <2>1. lev2[pagemap[s]] = 1
    BY Zenon DEF Standing, At
  <2> QED BY <2>1 DEF Standing, NoEmpty
<1>2. pagemap[Kernel] # 0 => \A y \in LateVirts : w2.mem[pagemap[Kernel]][y[1]] # 0
  <2>1. pagemap[Kernel] # 0 => pagemap[Kernel] \in At(lev, 1)
    BY Pages, Zenon DEF Ok
  <2>2. pagemap[Kernel] # 0 => \A y \in LateVirts : mem[pagemap[Kernel]][y[1]] # 0
    BY Zenon DEF Ok
  <2> QED BY <2>1, <2>2, Pages, Zenon
<1> QED BY <1>1, <1>2, Zenon DEF Ok

LEMMA UnmapStep ==
  ASSUME IInv, NEW p \in Users, NEW i \in 1 .. Len(Unmapped[p]), vmm_unmap_page(p, Unmapped[p][i])
  PROVE  IInv' /\ Step
<1> DEFINE v == Unmapped[p][i]
           w == Here(pagemap[p])
           w2 == UnmapPage(v, w)
<1>1. /\ pagemap[p] # 0 /\ p \notin reaped /\ vmm_lock = "free" /\ UNCHANGED <<pagemap, reaped, vmm_lock>>
      /\ mem' = w2.mem /\ used' = w2.used
  BY Zenon DEF vmm_unmap_page, Calls, Becomes
<1>2. PICK lev : Ok(mem, used, pagemap, "free", lev)
  BY <1>1, Zenon DEF IInv
<1>3. p \in Spaces /\ v \in InUse /\ v \in Virt /\ ~InKernelHalf(v)
  <2>1. /\ p \in Spaces /\ Unmapped[p] \in Seq(UserVirts[p]) /\ UserVirts[p] \subseteq InUse
        /\ UserVirts[p] \in SUBSET {y \in Virt : ~InKernelHalf(y)}
    BY Pages, Zenon
  <2>2. v \in UserVirts[p]
    BY <2>1
  <2> HIDE DEF v
  <2> QED BY <2>1, <2>2
<1> HIDE DEF v
<1>4. Standing(w, lev, 1) /\ pagemap[p] \in At(lev, 1) /\ w.mem = mem /\ w.t = pagemap[p]
  BY <1>1, <1>2, <1>3, HereStands, Zenon
<1> HIDE DEF w
<1>5. PICK lev2 : Cleared(w, lev, v, w2, lev2)
  BY <1>3, <1>4, UnmapPageOK, Zenon
<1> HIDE DEF w2
<1>6. /\ Standing(w2, lev2, 1) /\ w2.t = pagemap[p] /\ At(lev2, 1) = At(lev, 1)
      /\ Changed(mem, mem', lev, pagemap[p], v, 0)
      /\ \A g \in At(lev, 1), j \in Upper : w2.mem[g][j] = mem[g][j]
  BY <1>1, <1>4, <1>5, Zenon DEF Cleared
<1>7. Ok(w2.mem, w2.used, pagemap, "free", lev2)
  BY <1>1, <1>2, <1>3, <1>6, KeepsOk, Zenon
<1>8. Ok(mem', used', pagemap', vmm_lock', lev2)
  BY <1>1, <1>7
<1>9. Step
  <2>1. 0 \in Data \cup {0} /\ UNCHANGED <<pagemap, reaped>>
    BY <1>1, Zenon
  <2> QED BY <1>1, <1>2, <1>3, <1>6, <2>1, SetStep, Zenon
<1> QED BY <1>1, <1>8, <1>9 DEF IInv

LEMMA NewStep ==
  ASSUME Picks, IInv, NEW p \in Users, vmm_new_pagemap(p)
  PROVE  IInv' /\ Step
<1> DEFINE top == Lowest(FreeFrames(Here(0)))
           k == pagemap[Kernel]
<1>1. pagemap[p] = 0 /\ k # 0 /\ vmm_lock = "free" /\ reaped' = reaped
  BY Zenon DEF vmm_new_pagemap, Calls
<1>2. PICK lev : Ok(mem, used, pagemap, "free", lev)
  BY <1>1, Zenon DEF IInv
<1>3. /\ p \in Spaces /\ Kernel \in Spaces /\ p # Kernel /\ used = InTree(lev) /\ Tree(mem, lev)
      /\ k \in At(lev, 1) /\ FreeFrames(Here(0)) = Frame \ used
  BY <1>1, <1>2, Pages, Zenon DEF Ok, FreeFrames, Here
<1>4. CASE FreeFrames(Here(0)) = {}
  <2>1. UNCHANGED <<mem, used, pagemap>> /\ vmm_lock' = "held"
    BY <1>4 DEF vmm_new_pagemap
  <2>2. used = Frame
    BY <1>3, <1>4 DEF InTree
  <2>3. Ok(mem', used', pagemap', vmm_lock', lev)
    BY <1>2, <2>1, <2>2 DEF Ok
  <2>4. Step
    BY <1>1, <1>2, <2>1, SameStep
  <2> QED BY <1>1, <2>3, <2>4 DEF IInv
<1>5. CASE FreeFrames(Here(0)) # {}
  <2>1. /\ mem' = Copied(mem, k, top) /\ used' = used \cup {top}
        /\ \/ pagemap' = [pagemap EXCEPT ![p] = top] /\ vmm_lock' = "free"
           \/ pagemap' = pagemap /\ vmm_lock' = "spun"
    BY <1>5, Zenon DEF vmm_new_pagemap, Copied
  <2>2. top \in At(lev, 0)
    <3>1. top \in Frame \ used
      BY <1>3, <1>5 DEF Picks
    <3> QED BY <1>3, <3>1 DEF InTree, At
  <2> HIDE DEF top
  <2> DEFINE lev2 == Raised(lev, top, 1)
  <2>3. Tree(mem', lev2) /\ Grown(mem, mem', lev)
    BY <1>3, <2>1, <2>2, CopyOK, Zenon
  <2>4. /\ top \in Frame /\ top # 0 /\ lev[top] = 0 /\ lev \in Levels /\ mem \in Memory
    BY <1>3, <2>2, Numbers DEF At, Tree
  <2>5. \A g \in Frame : lev2[g] = IF g = top THEN 1 ELSE lev[g]
    BY <2>4, Zenon DEF Raised, Levels
  <2>6. /\ \A g \in Frame : g # top => mem'[g] = mem[g]
        /\ \A j \in Idx : mem'[top][j] = IF j \in Upper THEN mem[k][j] ELSE 0
    BY <2>1, <2>4, Zenon DEF Copied, Memory
  <2> HIDE DEF lev2
  <2>7. \A t \in At(lev, 1), v \in Virt : Translate(mem', t, v) = Translate(mem, t, v)
    BY <1>3, <2>3, GrownTranslates
  <2>8. CASE pagemap' = pagemap /\ vmm_lock' = "spun"
    <3>1. Tree(mem', lev)
      <4>1. mem' \in Memory
        BY <2>3 DEF Tree
      <4>2. \A g \in Frame : lev[g] # 0 => mem'[g] = mem[g]
        BY <2>4, <2>6
      <4>3. Kids(mem', lev) /\ Leaves(mem', lev)
        BY <1>3, <4>2 DEF Tree, Kids, Leaves
      <4>4. Single(mem', lev)
        BY <1>3, <4>2 DEF Tree, Single
      <4>5. Shared(mem', lev)
        BY <1>3, <4>2 DEF Tree, Shared, At
      <4>6. Fed(mem', lev)
        BY <1>3, <4>2 DEF Tree, Fed
      <4> QED BY <1>3, <4>1, <4>3, <4>4, <4>5, <4>6, Zenon DEF Tree
    <3>2. used' = InTree(lev) \cup {top}
      BY <1>3, <2>1
    <3>3. Ok(mem', used', pagemap', vmm_lock', lev)
      BY <1>2, <2>2, <2>8, <3>1, <3>2 DEF Ok
    <3>4. Step
      BY <1>1, <1>2, <2>7, <2>8, SameStep
    <3> QED BY <1>1, <3>3, <3>4 DEF IInv
  <2>9. CASE pagemap' = [pagemap EXCEPT ![p] = top] /\ vmm_lock' = "free"
    <3>1. /\ pagemap \in [Spaces -> Frame \cup {0}] /\ At(lev, 1) = {pagemap[s] : s \in Spaces} \ {0}
          /\ \A s, t \in Spaces : pagemap[s] = pagemap[t] /\ pagemap[s] # 0 => s = t
          /\ NoEmpty(mem, lev, 0) /\ \A v \in LateVirts : mem[k][v[1]] # 0
      BY <1>1, <1>2, Zenon DEF Ok
    <3>2. \A s \in Spaces : pagemap'[s] = IF s = p THEN top ELSE pagemap[s]
      BY <2>9, <3>1
    <3>3. \A s \in Spaces : pagemap[s] # top
      BY <2>4, <3>1 DEF At
    <3>4. pagemap' \in [Spaces -> Frame \cup {0}] /\ pagemap'[Kernel] = k
      BY <1>3, <2>4, <2>9, <3>1, <3>2, Zenon
    <3>5. At(lev2, 1) = {pagemap'[s] : s \in Spaces} \ {0}
      <4>1. At(lev2, 1) = At(lev, 1) \cup {top}
        BY <2>4, <2>5 DEF At
      <4>2. {pagemap'[s] : s \in Spaces} \ {0} = ({pagemap[s] : s \in Spaces} \ {0}) \cup {top}
        BY <1>1, <1>3, <2>4, <3>2
      <4> QED BY <3>1, <4>1, <4>2, Zenon
    <3>6. \A s, t \in Spaces : pagemap'[s] = pagemap'[t] /\ pagemap'[s] # 0 => s = t
      BY <3>1, <3>2, <3>3
    <3>7. used' = InTree(lev2)
      BY <1>3, <2>1, <2>4, <2>5 DEF InTree
    <3>8. NoEmpty(mem', lev2, 0)
      BY <2>5, <2>6, <3>1 DEF NoEmpty
    <3>9. k # top /\ k \in Frame
      BY <1>3, <3>3 DEF At
    <3>10. \A v \in LateVirts : mem'[k][v[1]] # 0
      BY <2>6, <3>1, <3>9, Zenon
    <3>11. Ok(mem', used', pagemap', vmm_lock', lev2)
      BY <1>1, <2>3, <2>9, <3>4, <3>5, <3>6, <3>7, <3>8, <3>10, Zenon DEF Ok
    <3>12. \A t \in Spaces \ {p} : Translation'[t] = Translation[t]
      <4> SUFFICES ASSUME NEW t \in Spaces \ {p}, NEW y \in InUse
                   PROVE  Translate(mem', pagemap'[t], y) = Translate(mem, pagemap[t], y)
        BY SameRow
      <4>1. y \in Virt /\ pagemap'[t] = pagemap[t] /\ (pagemap[t] # 0 => pagemap[t] \in At(lev, 1))
        BY <3>1, <3>2, Pages
      <4> QED BY <2>7, <4>1, NoTable
    <3>13. \A y \in InUse : Translation'[p][y] = Translate(mem', top, y)
      BY <1>3, <3>2, TranslationsAfter
    <3>14. \A y \in InUse \ KernelVirts : Translation'[p][y] = 0
      <4> SUFFICES ASSUME NEW y \in InUse \ KernelVirts PROVE Translate(mem', top, y) = 0
        BY <3>13
      <4>1. y[1] \in Idx /\ y[1] \notin Upper
        BY Pages, VirtParts, Zenon
      <4>2. Down(mem', top, y[1]) = 0
        BY <2>4, <2>6, <4>1, Zenon DEF Down
      <4>3. \A i : Down(mem', 0, i) = 0
        BY Zenon DEF Down
      <4> QED BY <4>2, <4>3 DEF Translate
    <3>15. \A t \in Spaces, y \in KernelVirts : pagemap[t] # 0 => Translation'[p][y] = Translation[t][y]
      <4> SUFFICES ASSUME NEW t \in Spaces, NEW y \in KernelVirts, pagemap[t] # 0
                   PROVE  Translate(mem', top, y) = Translate(mem, pagemap[t], y)
        BY <3>13, Pages, Translations
      <4>1. y \in Virt /\ y[1] \in Upper /\ y[1] \in Idx /\ pagemap[t] \in At(lev, 1) /\ pagemap[t] \in Frame
        BY <3>1, Pages, VirtParts, Zenon
      <4>2. pagemap[t] # top
        BY <3>3
      <4>3. mem'[top][y[1]] = mem[k][y[1]] /\ mem'[pagemap[t]] = mem[pagemap[t]]
        BY <2>6, <4>1, <4>2, Zenon
      <4>4. mem[k][y[1]] = mem[pagemap[t]][y[1]]
        BY <1>3, <4>1 DEF Tree, Shared
      <4>5. Down(mem', top, y[1]) = Down(mem', pagemap[t], y[1])
        BY <2>4, <4>3, <4>4, Zenon DEF Down
      <4>6. Translate(mem', top, y) = Translate(mem', pagemap[t], y)
        BY <4>5 DEF Translate
      <4> QED BY <2>7, <4>1, <4>6
    <3>16. {s \in Spaces : pagemap'[s] # 0} = {s \in Spaces : pagemap[s] # 0} \cup {p}
      BY <1>3, <2>4, <3>2
    <3>17. Abs!Create(p, Translation, Translation')
      BY <1>1, <1>3, <3>12, <3>14, <3>15, <3>16, Zenon DEF Abs!Create
    <3>18. Step
      BY <1>3, <3>17 DEF Step, Abs!AbsNext
    <3> QED BY <1>1, <3>11, <3>18 DEF IInv
  <2> QED BY <2>1, <2>8, <2>9
<1> QED BY <1>4, <1>5

-----------------------------------------------------------------------------
(* The first state, and what the invariant says of the reachable tables. *)

LEMMA Begins == Init => IInv /\ Abs!AbsInit
<1> SUFFICES ASSUME Init PROVE IInv /\ Abs!AbsInit
  BY Zenon
<1> DEFINE lev == [f \in Frame |-> 0]
<1>1. /\ mem = [f \in Frame |-> Empty] /\ used = {} /\ pagemap = [s \in Spaces |-> 0]
      /\ vmm_lock = "free" /\ reaped = {}
  BY Zenon DEF Init
<1>2. mem \in Memory /\ lev \in Levels /\ \A f \in Frame : lev[f] = 0
  BY <1>1, Numbers DEF Memory, Levels
<1> HIDE DEF lev
<1>3. At(lev, 1) = {} /\ InTree(lev) = {} /\ {pagemap[s] : s \in Spaces} \ {0} = {}
  BY <1>1, <1>2 DEF At, InTree
<1>4. Kids(mem, lev) /\ Leaves(mem, lev) /\ Single(mem, lev)
  BY <1>2 DEF Kids, Leaves, Single
<1>5. Shared(mem, lev) /\ Fed(mem, lev) /\ NoEmpty(mem, lev, 0)
  BY <1>2, <1>3 DEF Shared, Fed, NoEmpty
<1>6. Ok(mem, used, pagemap, vmm_lock, lev)
  BY <1>1, <1>2, <1>3, <1>4, <1>5, Pages, Zenon DEF Ok, Tree
<1>7. Translation = [s \in Spaces |-> [v \in InUse |-> 0]]
  BY <1>1, NoTable DEF Translation, vmm_virt_to_phys
<1>8. {s \in Spaces : pagemap[s] # 0} = {}
  BY <1>1, Zenon
<1> QED BY <1>1, <1>6, <1>7, <1>8 DEF IInv, Abs!AbsInit

LEMMA IsBelow ==
  ASSUME NEW T, NEW t \in T, NEW i \in Idx, mem[t][i] # 0
  PROVE  mem[t][i] \in Below(T)
  BY DEF Below

\* The tables of the invariant are the ones that can be reached.
LEMMA Reached ==
  ASSUME NEW lev, Ok(mem, used, pagemap, vmm_lock, lev)
  PROVE  /\ Tops = At(lev, 1) /\ Pdpts = At(lev, 2) /\ Pds = At(lev, 3) /\ Pts = At(lev, 4)
         /\ Tables = InTree(lev)
<1>1. Tree(mem, lev) /\ lev \in Levels /\ Tops = At(lev, 1)
  BY Zenon DEF Ok, Tops, Tree
<1>2. ASSUME NEW k \in 1 .. 3 PROVE Below(At(lev, k)) = At(lev, k + 1)
  <2>1. ASSUME NEW f \in Below(At(lev, k)) PROVE f \in At(lev, k + 1)
    BY <1>1 DEF Below, At, Tree, Kids
  <2>2. ASSUME NEW f \in At(lev, k + 1) PROVE f \in Below(At(lev, k))
    <3>1. f \in Frame /\ lev[f] = k + 1 /\ f # 0
      BY Numbers, Zenon DEF At
    <3>2. PICK g \in Frame, i \in Idx : lev[g] \in 1 .. 3 /\ mem[g][i] = f
      BY <1>1, <3>1 DEF Tree, Fed
    <3>3. lev[g] = k
      BY <1>1, <3>1, <3>2 DEF Tree, Kids
    <3>4. g \in At(lev, k)
      BY <3>2, <3>3 DEF At
    <3> QED BY <3>1, <3>2, <3>4, IsBelow
  <2> QED BY <2>1, <2>2, Zenon
<1>3. Pdpts = At(lev, 2)
  BY <1>1, <1>2 DEF Pdpts
<1>4. Pds = At(lev, 3)
  BY <1>3, <1>2 DEF Pds
<1>5. Pts = At(lev, 4)
  BY <1>4, <1>2 DEF Pts
<1>6. InTree(lev) = At(lev, 1) \cup At(lev, 2) \cup At(lev, 3) \cup At(lev, 4)
  BY <1>1 DEF InTree, At, Levels
<1> QED BY <1>1, <1>3, <1>4, <1>5, <1>6 DEF Tables

LEMMA Suffices == IInv => Inv
<1> SUFFICES ASSUME IInv PROVE Inv
  BY Zenon
<1>1. PICK lev : Ok(mem, used, pagemap, vmm_lock, lev)
  BY Zenon DEF IInv
<1>2. /\ Tops = At(lev, 1) /\ Pdpts = At(lev, 2) /\ Pds = At(lev, 3) /\ Pts = At(lev, 4)
      /\ Tables = InTree(lev)
  BY <1>1, Reached
<1>3. Tree(mem, lev) /\ mem \in Memory /\ lev \in Levels
  BY <1>1, Zenon DEF Ok, Tree
<1>4. used \subseteq Frame
  BY <1>1 DEF Ok, InTree, At
<1>5. TypeOK
  BY <1>1, <1>3, <1>4, Zenon DEF TypeOK, Ok, IInv, Memory, Entry
<1>6. TablesAccounted
  BY <1>1, <1>2, Zenon DEF TablesAccounted, Spun, Ok, InTree, At
<1>7. OneEntry
  <2> SUFFICES ASSUME NEW t \in InTree(lev), NEW i \in Idx, mem[t][i] \in Frame
               PROVE  /\ mem[t][i] \notin Tops
                      /\ \A u \in InTree(lev), j \in Idx : mem[u][j] = mem[t][i] =>
                           i = j /\ (t = u \/ ({t, u} \subseteq Tops /\ i \in Upper))
    BY <1>2 DEF OneEntry
  <2>1. \A u \in InTree(lev), j \in Idx : mem[u][j] \in Frame => u \in Frame /\ lev[u] \in 1 .. 3
    BY <1>3 DEF InTree, Tree, Leaves, Levels
  <2>2. t \in Frame /\ lev[t] \in 1 .. 3 /\ mem[t][i] # 0
    BY <2>1, Numbers
  <2>3. mem[t][i] \notin Tops
    BY <1>2, <1>3, <2>2 DEF Tree, Kids, At
  <2>4. ASSUME NEW u \in InTree(lev), NEW j \in Idx, mem[u][j] = mem[t][i]
        PROVE  i = j /\ (t = u \/ ({t, u} \subseteq Tops /\ i \in Upper))
    <3>1. u \in Frame /\ lev[u] \in 1 .. 3
      BY <2>1, <2>4
    <3> QED BY <1>2, <1>3, <2>2, <2>4, <3>1 DEF Tree, Single, At
  <2> QED BY <2>3, <2>4, Zenon
<1>8. NoEmptyTable
  <2>1. \A t \in Pdpts \cup Pds \cup Pts : t \in Frame /\ lev[t] \in 2 .. 4 /\ t # 0
    BY <1>2, Numbers DEF At
  <2> QED BY <1>1, <2>1, Zenon DEF NoEmptyTable, Ok, NoEmpty
<1>9. LockLostToAPanic
  BY <1>1, Zenon DEF LockLostToAPanic, Ok
<1> QED BY <1>5, <1>6, <1>7, <1>8, <1>9 DEF Inv

-----------------------------------------------------------------------------
(* Induction over the naturals, stated with sets: the provers cannot       *)
(* instantiate the library's theorems, whose parameter is an operator.     *)

LOCAL INSTANCE WellFoundedInduction

\* A set of naturals that is not empty has a least member.
LEMMA LeastNatural ==
  ASSUME NEW T \in SUBSET Nat, T # {}
  PROVE  \E n \in T : \A k \in T : n <= k
<1> DEFINE R == OpToRel(<, Nat)
<1>1. IsWellFoundedOn(R, Nat)
  BY NatLessThanWellFounded, Zenon
<1>2. \A x, y \in Nat : x < y => <<x, y>> \in R
  BY Zenon DEF OpToRel
<1> HIDE DEF R
<1>3. PICK n \in T : \A k \in T : ~(<<k, n>> \in R)
  BY <1>1, WFMin, Zenon
<1>4. \A k \in T : ~(k < n)
  BY <1>2, <1>3, Zenon
<1> QED BY <1>3, <1>4

\* A set that has zero, and with a number the next one, has all the naturals.
LEMMA Inductive ==
  ASSUME NEW S, 0 \in S, \A n \in Nat : n \in S => n + 1 \in S
  PROVE  Nat \subseteq S
<1> SUFFICES ASSUME Nat \ S # {} PROVE FALSE
  BY Zenon
<1>1. PICK n \in Nat \ S : \A k \in Nat \ S : n <= k
  BY LeastNatural, Zenon
<1>2. n # 0 /\ n - 1 \in Nat /\ (n - 1) + 1 = n
  BY <1>1
<1>3. n - 1 \in S
  BY <1>1, <1>2
<1> QED BY <1>1, <1>2, <1>3

\* A loop of n rounds keeps what its first state has and every round keeps.
LEMMA LoopInvariant ==
  ASSUME NEW n \in Nat, NEW m, NEW G, m[0] \in G[0],
         \A i \in 1 .. n : m[i - 1] \in G[i - 1] => m[i] \in G[i]
  PROVE  \A i \in 0 .. n : m[i] \in G[i]
<1> DEFINE Good == {i \in Nat : i <= n => m[i] \in G[i]}
<1>1. 0 \in Good
  OBVIOUS
<1>2. ASSUME NEW i \in Nat, i \in Good PROVE i + 1 \in Good
  <2> SUFFICES ASSUME i + 1 <= n PROVE m[i + 1] \in G[i + 1]
    OBVIOUS
  <2>1. i + 1 \in 1 .. n /\ (i + 1) - 1 = i /\ m[i] \in G[i]
    BY <1>2
  <2> QED BY <2>1
<1>3. Nat \subseteq Good
  <2> HIDE DEF Good
  <2> QED BY <1>1, <1>2, Inductive
<1> QED BY <1>3

\* f holds the states of a loop of n rounds, from s on.
Rounds(n, S, s, step, f) ==
  f \in [0 .. n -> S] /\ f[0] = s /\ \A i \in 1 .. n : f[i] = step[i][f[i - 1]]

\* The states of a loop exist.
LEMMA LoopExists ==
  ASSUME NEW n \in Nat, NEW S, NEW s \in S, NEW step \in [1 .. n -> [S -> S]]
  PROVE  \E f : Rounds(n, S, s, step, f)
<1> DEFINE Upto(k, f) == f[0] = s /\ \A i \in 1 .. k : f[i] = step[i][f[i - 1]]
           Good == {k \in Nat : k <= n => \E f \in [0 .. k -> S] : Upto(k, f)}
<1>1. 0 \in Good
  <2>1. [i \in 0 .. 0 |-> s] \in [0 .. 0 -> S] /\ Upto(0, [i \in 0 .. 0 |-> s])
    OBVIOUS
  <2> HIDE DEF Upto
  <2> QED BY <2>1
<1>2. ASSUME NEW k \in Nat, k \in Good PROVE k + 1 \in Good
  <2> SUFFICES ASSUME k + 1 <= n PROVE \E f \in [0 .. k + 1 -> S] : Upto(k + 1, f)
    OBVIOUS
  <2>1. PICK f \in [0 .. k -> S] : Upto(k, f)
    <3> HIDE DEF Upto
    <3> QED BY <1>2
  <2> DEFINE last == step[k + 1][f[k]]
             g == [i \in 0 .. k + 1 |-> IF i = k + 1 THEN last ELSE f[i]]
  <2>2. last \in S
    BY <2>1
  <2>3. last = step[k + 1][f[k]]
    OBVIOUS
  <2> HIDE DEF last
  <2>4. g \in [0 .. k + 1 -> S]
    BY <2>1, <2>2
  <2>5. g[k + 1] = last /\ \A i \in 0 .. k : g[i] = f[i]
    OBVIOUS
  <2> HIDE DEF g
  <2>6. Upto(k + 1, g)
    <3>1. g[0] = s
      BY <2>1, <2>5
    <3>2. ASSUME NEW i \in 1 .. k + 1 PROVE g[i] = step[i][g[i - 1]]
      <4>1. CASE i = k + 1
        BY <2>3, <2>5, <4>1
      <4>2. CASE i \in 1 .. k
        <5>1. i - 1 \in 0 .. k /\ i \in 0 .. k
          BY <4>2
        <5> QED BY <2>1, <2>5, <4>2, <5>1
      <4> QED BY <4>1, <4>2
    <3> QED BY <3>1, <3>2
  <2> HIDE DEF Upto
  <2> QED BY <2>4, <2>6
<1>3. Nat \subseteq Good
  <2> HIDE DEF Good
  <2> QED BY <1>1, <1>2, Inductive
<1>4. n \in Good
  BY <1>3
<1> QED BY <1>4 DEF Rounds

-----------------------------------------------------------------------------
(* Loops, and the steps that consist of one. *)

\* pmm_allocate gives one of the frames that are free.
LEMMA LowestOK == Picks
<1> SUFFICES ASSUME NEW S \in SUBSET Frame, S # {}
             PROVE  Lowest(S) \in S
  BY DEF Picks
<1>1. S \subseteq Nat
  BY Numbers
<1>2. \E f \in S : \A g \in S : f <= g
  BY <1>1, LeastNatural, Zenon
<1> QED BY <1>2, Zenon DEF Lowest

LEMMA UnmapAllOK ==
  ASSUME NEW w, NEW lev, Standing(w, lev, 1), NEW U \in SUBSET {v \in Virt : ~InKernelHalf(v)},
         NEW vs \in Seq(U)
  PROVE  \E lev2 : Emptied(w, lev, UnmapAll(vs, w), lev2)
<1> DEFINE n == Len(vs)
           Good == {x \in Walk : \E l : Emptied(w, lev, x, l)}
           step == [i \in 1 .. n |-> [x \in Good |-> UnmapPage(vs[i], x)]]
           Eq(f) == f = [i \in 0 .. n |-> IF i = 0 THEN w ELSE UnmapPage(vs[i], f[i - 1])]
           r == CHOOSE f : Eq(f)
<1>1. n \in Nat /\ \A i \in 1 .. n : vs[i] \in Virt /\ ~InKernelHalf(vs[i])
  OBVIOUS
<1>2. UnmapAll(vs, w) = r[n]
  BY DEF UnmapAll
<1> HIDE DEF n
<1>3. w \in Good
  <2>1. Emptied(w, lev, w, lev) /\ w \in Walk
    BY DEF Emptied, Standing
  <2> QED BY <2>1
<1>4. ASSUME NEW i \in 1 .. n, NEW x \in Good PROVE UnmapPage(vs[i], x) \in Good
  <2>1. PICK l : Emptied(w, lev, x, l)
    BY Zenon
  <2>2. Standing(x, l, 1)
    BY <2>1, Zenon DEF Emptied
  <2>3. PICK l2 : Cleared(x, l, vs[i], UnmapPage(vs[i], x), l2)
    BY <1>1, <2>2, UnmapPageOK
  <2>4. Emptied(w, lev, UnmapPage(vs[i], x), l2) /\ UnmapPage(vs[i], x) \in Walk
    BY <1>1, <2>1, <2>3, ClearedEmptied, Zenon DEF Cleared, Standing
  <2> QED BY <2>4
<1> HIDE DEF Good
<1>5. step \in [1 .. n -> [Good -> Good]]
  BY <1>4
<1>6. \A i \in 1 .. n, x \in Good : step[i][x] = UnmapPage(vs[i], x)
  OBVIOUS
<1> HIDE DEF step
<1>7. PICK f : Rounds(n, Good, w, step, f)
  BY <1>1, <1>3, <1>5, LoopExists, Zenon
<1>8. Eq(f)
  <2>1. \A i \in 1 .. n : i - 1 \in 0 .. n
    BY <1>1
  <2>2. \A i \in 0 .. n : f[i] = IF i = 0 THEN w ELSE UnmapPage(vs[i], f[i - 1])
    BY <1>1, <1>6, <1>7, <2>1 DEF Rounds
  <2> QED BY <1>7, <2>2 DEF Rounds
<1>9. Eq(r)
  <2> HIDE DEF Eq
  <2> QED BY <1>8
<1> HIDE DEF r
<1>10. r[0] = w /\ \A i \in 1 .. n : r[i] = UnmapPage(vs[i], r[i - 1])
  <2>1. 0 \in 0 .. n /\ \A i \in 1 .. n : i \in 0 .. n /\ i # 0
    BY <1>1
  <2> QED BY <1>9, <2>1, ZenonT(30)
<1> DEFINE G == [i \in 0 .. n |-> Good]
<1>11. \A i \in 0 .. n : r[i] \in G[i]
  <2>1. r[0] \in G[0]
    BY <1>1, <1>3, <1>10
  <2>2. ASSUME NEW i \in 1 .. n, r[i - 1] \in G[i - 1] PROVE r[i] \in G[i]
    <3>1. i - 1 \in 0 .. n /\ i \in 0 .. n
      BY <1>1
    <3>2. r[i - 1] \in Good
      BY <2>2, <3>1
    <3> QED BY <1>4, <1>10, <3>1, <3>2
  <2> HIDE DEF G
  <2> QED BY <1>1, <2>1, <2>2, LoopInvariant, Zenon
<1>12. r[n] \in Good
  BY <1>1, <1>11
<1> QED BY <1>2, <1>12 DEF Good

LEMMA MapBootOK ==
  ASSUME NEW t, NEW w \in Walk, Booting(w, t, 0)
  PROVE  MapBoot(w) \in Walk /\ Booting(MapBoot(w), t, Len(Boot))
<1> DEFINE n == Len(Boot)
           step == [i \in 1 .. n |-> [x \in Walk |->
                      IF Booting(x, t, i - 1) THEN MapPage(Boot[i].virt, x, Boot[i].phys) ELSE x]]
           Eq(f) == f = [i \in 0 .. n |-> IF i = 0 THEN w ELSE MapPage(Boot[i].virt, f[i - 1], Boot[i].phys)]
           r == CHOOSE f : Eq(f)
           G == [i \in 0 .. n |-> {x \in Walk : Booting(x, t, i)}]
<1>1. n \in Nat
  BY BootPages
<1>2. MapBoot(w) = r[n]
  BY DEF MapBoot
<1>3. ASSUME NEW i \in 1 .. n, NEW x, Booting(x, t, i - 1)
      PROVE  MapPage(Boot[i].virt, x, Boot[i].phys) \in Walk /\ Booting(MapPage(Boot[i].virt, x, Boot[i].phys), t, i)
  BY <1>3, BootStep, LowestOK
<1> HIDE DEF n
<1>4. step \in [1 .. n -> [Walk -> Walk]]
  <2>1. \A i \in 1 .. n, x \in Walk :
          (IF Booting(x, t, i - 1) THEN MapPage(Boot[i].virt, x, Boot[i].phys) ELSE x) \in Walk
    BY <1>3
  <2> QED BY <2>1
<1>5. \A i \in 1 .. n, x \in Walk : Booting(x, t, i - 1) => step[i][x] = MapPage(Boot[i].virt, x, Boot[i].phys)
  OBVIOUS
<1>6. \A i \in 0 .. n : \A x : x \in G[i] <=> x \in Walk /\ Booting(x, t, i)
  OBVIOUS
<1> HIDE DEF step, G
<1>7. PICK f : Rounds(n, Walk, w, step, f)
  BY <1>1, <1>4, LoopExists, Zenon
<1>8. \A i \in 1 .. n : i - 1 \in 0 .. n /\ i \in 0 .. n /\ i # 0
  BY <1>1
<1>9. f[0] \in G[0]
  BY <1>1, <1>6, <1>7 DEF Rounds
<1>10. ASSUME NEW i \in 1 .. n, f[i - 1] \in G[i - 1]
       PROVE  f[i] \in G[i] /\ f[i] = MapPage(Boot[i].virt, f[i - 1], Boot[i].phys)
  <2>1. f[i - 1] \in Walk /\ Booting(f[i - 1], t, i - 1)
    BY <1>6, <1>8, <1>10
  <2>2. f[i] = MapPage(Boot[i].virt, f[i - 1], Boot[i].phys)
    BY <1>5, <1>7, <2>1 DEF Rounds
  <2> QED BY <1>3, <1>6, <1>8, <2>1, <2>2, Zenon
<1>11. \A i \in 0 .. n : f[i] \in G[i]
  BY <1>1, <1>9, <1>10, LoopInvariant
<1>12. Eq(f)
  <2>1. \A i \in 0 .. n : f[i] = IF i = 0 THEN w ELSE MapPage(Boot[i].virt, f[i - 1], Boot[i].phys)
    BY <1>1, <1>7, <1>8, <1>10, <1>11 DEF Rounds
  <2> QED BY <1>7, <2>1 DEF Rounds
<1>13. Eq(r)
  <2> HIDE DEF Eq
  <2> QED BY <1>12
<1> HIDE DEF r
<1>14. r[0] = w /\ \A i \in 1 .. n : r[i] = MapPage(Boot[i].virt, r[i - 1], Boot[i].phys)
  <2>1. 0 \in 0 .. n
    BY <1>1
  <2> QED BY <1>8, <1>13, <2>1, ZenonT(30)
<1>15. \A i \in 0 .. n : r[i] \in G[i]
  <2>1. r[0] \in G[0]
    BY <1>1, <1>6, <1>14
  <2>2. ASSUME NEW i \in 1 .. n, r[i - 1] \in G[i - 1] PROVE r[i] \in G[i]
    BY <1>3, <1>6, <1>8, <1>14, <2>2
  <2> QED BY <1>1, <2>1, <2>2, LoopInvariant
<1>16. n \in 0 .. n
  BY <1>1
<1> QED BY <1>2, <1>6, <1>15, <1>16 DEF n

LEMMA ReapStep ==
  ASSUME IInv, NEW p \in Users, process_reap(p)
  PROVE  IInv' /\ Step
<1> DEFINE w == Here(pagemap[p])
           w2 == UnmapAll(Unmapped[p], w)
<1>1. /\ pagemap[p] # 0 /\ p \notin reaped /\ vmm_lock = "free" /\ UNCHANGED <<pagemap, vmm_lock>>
      /\ mem' = w2.mem /\ used' = w2.used /\ reaped' = reaped \cup {p}
  BY DEF process_reap, Calls, Becomes
<1>2. PICK lev : Ok(mem, used, pagemap, "free", lev)
  BY <1>1 DEF IInv
<1>3. /\ p \in Spaces /\ Unmapped[p] \in Seq(UserVirts[p])
      /\ UserVirts[p] \in SUBSET {y \in Virt : ~InKernelHalf(y)}
  BY Pages
<1>4. Standing(w, lev, 1) /\ pagemap[p] \in At(lev, 1) /\ w.mem = mem /\ w.t = pagemap[p]
  BY <1>1, <1>2, <1>3, HereStands, Zenon
<1> HIDE DEF w
<1>5. PICK lev2 : Emptied(w, lev, w2, lev2)
  BY <1>3, <1>4, UnmapAllOK
<1> HIDE DEF w2
<1>6. /\ Standing(w2, lev2, 1) /\ w2.t = pagemap[p] /\ At(lev2, 1) = At(lev, 1)
      /\ \A g \in At(lev, 1), j \in Upper : w2.mem[g][j] = mem[g][j]
      /\ \A u \in At(lev, 1), y \in Virt :
           \/ Translate(mem', u, y) = Translate(mem, u, y)
           \/ u = pagemap[p] /\ y[1] \notin Upper /\ Translate(mem', u, y) = 0
  BY <1>1, <1>4, <1>5, Zenon DEF Emptied
<1>7. Ok(w2.mem, w2.used, pagemap, "free", lev2)
  BY <1>1, <1>2, <1>3, <1>6, KeepsOk, Zenon
<1>8. Ok(mem', used', pagemap', vmm_lock', lev2)
  BY <1>1, <1>7
<1>9. \A t \in Spaces : pagemap[t] # 0 => pagemap[t] \in At(lev, 1) /\ (pagemap[t] = pagemap[p] => t = p)
  BY <1>2, <1>3, Zenon DEF Ok
<1>10. \A t \in Spaces \ {p} : Translation'[t] = Translation[t]
  <2> SUFFICES ASSUME NEW t \in Spaces \ {p}, NEW y \in InUse
               PROVE  Translate(mem', pagemap'[t], y) = Translate(mem, pagemap[t], y)
    BY SameRow
  <2>1. y \in Virt
    BY Pages
  <2> QED BY <1>1, <1>3, <1>6, <1>9, <2>1, NoTable
<1>11. \A y \in InUse : Translation'[p][y] # Translation[p][y] => y \notin KernelVirts /\ Translation'[p][y] = 0
  <2> SUFFICES ASSUME NEW y \in InUse
               PROVE  \/ Translate(mem', pagemap'[p], y) = Translate(mem, pagemap[p], y)
                      \/ y \notin KernelVirts /\ Translate(mem', pagemap'[p], y) = 0
    BY <1>3, Translations, TranslationsAfter
  <2>1. y \in Virt /\ (y \in KernelVirts <=> y[1] \in Upper)
    BY Pages
  <2> QED BY <1>1, <1>4, <1>6, <2>1, Zenon
<1>12. Abs!Retire(p, Translation, Translation')
  BY <1>1, <1>3, <1>10, <1>11, Zenon DEF Abs!Retire
<1>13. Step
  BY <1>3, <1>12 DEF Step, Abs!AbsNext
<1>14. reaped' \subseteq Users
  BY <1>1 DEF IInv
<1> QED BY <1>8, <1>13, <1>14 DEF IInv

LEMMA InstallStep ==
  ASSUME IInv, vmm_install
  PROVE  IInv' /\ Step
<1> DEFINE top == Lowest(Frame)
           m0 == [mem EXCEPT ![top] = Empty]
           w == [mem |-> m0, used |-> {top}, t |-> top]
           w2 == MapBoot(w)
           lev == [f \in Frame |-> IF f = top THEN 1 ELSE 0]
<1>1. /\ pagemap[Kernel] = 0 /\ reaped' = reaped /\ mem' = w2.mem /\ used' = w2.used
      /\ vmm_lock' = IF w2.t = 0 THEN "held" ELSE "free"
      /\ pagemap' = [pagemap EXCEPT ![Kernel] = top]
  BY Zenon DEF vmm_install, AfterMap, Becomes
<1>2. PICK l0 : Ok(mem, used, pagemap, vmm_lock, l0)
  BY DEF IInv
<1>3. /\ mem \in Memory /\ pagemap \in [Spaces -> Frame \cup {0}] /\ \A s \in Spaces : pagemap[s] = 0
  BY <1>1, <1>2, Zenon DEF Ok, Tree
<1>4. top \in Frame /\ top # 0
  BY LowestOK, Numbers DEF Picks
<1>5. w = [mem |-> m0, used |-> {top}, t |-> top]
  OBVIOUS
<1> HIDE DEF top
<1>6. m0 \in Memory /\ \A j \in Idx : m0[top][j] = 0
  BY <1>3, <1>4, Numbers DEF Memory
<1> HIDE DEF w, m0
<1>7. lev \in Levels /\ \A f \in Frame : lev[f] = IF f = top THEN 1 ELSE 0
  BY DEF Levels
<1> HIDE DEF lev
<1>8. At(lev, 1) = {top} /\ InTree(lev) = {top}
  BY <1>4, <1>7 DEF At, InTree
<1>9. Tree(m0, lev)
  <2>1. \A f \in Frame : (lev[f] \in 1 .. 3 => f = top) /\ lev[f] \notin 2 .. 4
    BY <1>7
  <2>2. Kids(m0, lev) /\ Single(m0, lev)
    BY <1>6, <2>1 DEF Kids, Single
  <2>3. Leaves(m0, lev) /\ Fed(m0, lev)
    BY <2>1 DEF Leaves, Fed
  <2>4. Shared(m0, lev)
    BY <1>8 DEF Shared
  <2> QED BY <1>6, <1>7, <2>2, <2>3, <2>4 DEF Tree
<1>10. w \in Walk /\ w.mem = m0 /\ w.used = {top} /\ w.t = top
  BY <1>4, <1>5, <1>6 DEF Walk
<1>11. Standing(w, lev, 1)
  <2>1. NoEmpty(m0, lev, top)
    BY <1>7 DEF NoEmpty
  <2> QED BY <1>8, <1>9, <1>10, <2>1 DEF Standing
<1>12. Booting(w, top, 0)
  <2>1. \A j \in 1 .. 0 : w.mem[top][Boot[j].virt[1]] # 0
    OBVIOUS
  <2> QED BY <1>8, <1>10, <1>11, <2>1, Zenon DEF Booting
<1>13. w2 \in Walk /\ Booting(w2, top, Len(Boot))
  BY <1>10, <1>12, MapBootOK
<1> HIDE DEF w2
<1>14. \A s \in Spaces : pagemap'[s] = IF s = Kernel THEN top ELSE 0
  BY <1>1, <1>3
<1>15. /\ pagemap' \in [Spaces -> Frame \cup {0}] /\ {pagemap'[s] : s \in Spaces} \ {0} = {top}
       /\ \A s, t \in Spaces : pagemap'[s] = pagemap'[t] /\ pagemap'[s] # 0 => s = t
       /\ pagemap'[Kernel] = top
  BY <1>1, <1>3, <1>4, <1>14, Pages
<1>16. \E l : Ok(mem', used', pagemap', vmm_lock', l)
  <2>1. CASE \E l : Stuck(w2, l) /\ At(l, 1) = {top}
    <3>1. PICK l : Stuck(w2, l) /\ At(l, 1) = {top}
      BY <2>1
    <3>2. Tree(mem', l) /\ used' = InTree(l) /\ used' = Frame /\ vmm_lock' = "held"
      BY <1>1, <3>1 DEF Stuck
    <3>3. Ok(mem', used', pagemap', vmm_lock', l)
      BY <1>4, <1>15, <3>1, <3>2, Zenon DEF Ok
    <3> QED BY <3>3
  <2>2. CASE /\ \E l : Standing(w2, l, 1) /\ w2.t = top /\ At(l, 1) = {top}
             /\ \A j \in 1 .. Len(Boot) : w2.mem[top][Boot[j].virt[1]] # 0
    <3>1. PICK l : Standing(w2, l, 1) /\ w2.t = top /\ At(l, 1) = {top}
      BY <2>2, Zenon
    <3>2. vmm_lock' = "free" /\ Tree(mem', l) /\ used' = InTree(l) /\ NoEmpty(mem', l, 0)
      <4>1. vmm_lock' = "free"
        BY <1>1, <1>4, <3>1
      <4>2. Tree(mem', l) /\ used' = InTree(l) /\ NoEmpty(mem', l, top) /\ l[top] = 1
        BY <1>1, <3>1 DEF Standing, At
      <4> QED BY <4>1, <4>2 DEF NoEmpty
    <3>3. \A v \in LateVirts : mem'[top][v[1]] # 0
      <4>1. \A v \in LateVirts : \E j \in 1 .. Len(Boot) : Boot[j].virt[1] = v[1]
        BY VmmAssumption, Zenon
      <4> QED BY <1>1, <2>2, <4>1, Zenon
    <3>4. Ok(mem', used', pagemap', vmm_lock', l)
      BY <1>4, <1>15, <3>1, <3>2, <3>3, Zenon DEF Ok
    <3> QED BY <3>4
  <2> QED BY <1>13, <2>1, <2>2, Zenon DEF Booting
<1>17. \A t \in Spaces \ {Kernel} : Translation'[t] = Translation[t]
  <2> SUFFICES ASSUME NEW t \in Spaces \ {Kernel}, NEW y \in InUse
               PROVE  Translate(mem', pagemap'[t], y) = Translate(mem, pagemap[t], y)
    BY SameRow
  <2> QED BY <1>3, <1>14, NoTable
<1>18. Abs!Create(Kernel, Translation, Translation')
  <2>1. {s \in Spaces : pagemap[s] # 0} = {} /\ {s \in Spaces : pagemap'[s] # 0} = {Kernel} /\ Kernel \in Spaces
    BY <1>3, <1>4, <1>14, Pages
  <2> QED BY <1>1, <1>17, <2>1, Zenon DEF Abs!Create
<1>19. Step
  BY <1>18, Pages DEF Step, Abs!AbsNext
<1> QED BY <1>1, <1>16, <1>19 DEF IInv

-----------------------------------------------------------------------------
(* The theorems. *)

LEMMA Steps == IInv /\ [Next]_vars => IInv' /\ Step
<1> SUFFICES ASSUME IInv, [Next]_vars PROVE IInv' /\ Step
  BY Zenon
<1>1. CASE vmm_install
  BY <1>1, InstallStep
<1>2. CASE \E p \in Users : vmm_new_pagemap(p)
  BY <1>2, NewStep, LowestOK
<1>3. CASE \E p \in Users : \E v \in UserVirts[p] : vmm_map_page(p, v)
  BY <1>3, MapStep, LowestOK, Pages, Zenon
<1>4. CASE \E v \in LateVirts : vmm_map_page(Kernel, v)
  BY <1>4, MapStep, LowestOK, Pages
<1>5. CASE \E p \in Users : \E i \in 1 .. Len(Unmapped[p]) : vmm_unmap_page(p, Unmapped[p][i])
  BY <1>5, UnmapStep
<1>6. CASE \E p \in Users : process_reap(p)
  BY <1>6, ReapStep
<1>7. CASE UNCHANGED vars
  <2>1. UNCHANGED <<mem, used, pagemap, vmm_lock, reaped>>
    BY <1>7 DEF vars
  <2>2. IInv'
    BY <2>1, Zenon DEF IInv
  <2>3. Translation' = Translation
    BY <2>1, SameTranslation
  <2> QED BY <2>1, <2>2, <2>3 DEF Step
<1> QED BY <1>1, <1>2, <1>3, <1>4, <1>5, <1>6, <1>7, Zenon DEF Next

(***************************************************************************)
(* vmm_map_page, vmm_unmap_page, vmm_new_pagemap, vmm_install and the loop *)
(* of process_reap keep the tables four-level trees that share the kernel  *)
(* half, lose and double no frame, leave no empty table and hold vmm_lock  *)
(* only when a panic or malloc inside them never came back.                *)
(***************************************************************************)
THEOREM VmmInvariance == Spec => []Inv
<1>1. Init => IInv
  BY Begins
<1>2. IInv /\ [Next]_vars => IInv'
  BY Steps
<1> QED BY <1>1, <1>2, Suffices, PTL DEF Spec

(***************************************************************************)
(* What vmm_virt_to_phys answers is a flat map per process, with a common  *)
(* kernel half: a call changes the page it is given and no other, also in  *)
(* address spaces made before the kernel's heap grew.                      *)
(***************************************************************************)
THEOREM VmmImplements == Spec => Implements
<1>1. Init => IInv /\ Abs!AbsInit
  BY Begins
<1>2. IInv /\ [Next]_vars => IInv'
  BY Steps
<1>3. IInv /\ [Next]_vars => [Abs!AbsNext]_<<{s \in Spaces : pagemap[s] # 0}, reaped, Translation>>
  <2> SUFFICES ASSUME IInv, [Next]_vars
               PROVE  [Abs!AbsNext]_<<{s \in Spaces : pagemap[s] # 0}, reaped, Translation>>
    OBVIOUS
  <2>1. Step
    BY Steps
  <2> QED BY <2>1 DEF Step
<1> QED BY <1>1, <1>2, <1>3, PTL DEF Spec, Implements, Abs!AbsSpec
=============================================================================
