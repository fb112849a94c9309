----------------------------- MODULE Ac97Proofs -----------------------------
(***************************************************************************)
(* Sound, for any number of players, files, buffers and buffer sizes: the  *)
(* stream is kept, the driver panics only behind a free lap, and the       *)
(* device plays what it is given in order.                                 *)
(***************************************************************************)
EXTENDS Ac97, SequenceTheorems, WellFoundedInduction, TLAPS

-----------------------------------------------------------------------------
(* Induction over the naturals, stated with sets: the provers cannot       *)
(* instantiate the library's theorems, whose parameter is an operator.     *)

\* A set of naturals that is not empty has a least member.
LEMMA LeastNatural ==
  ASSUME NEW T \in SUBSET Nat, T # {}
  PROVE  \E n \in T : \A k \in T : n <= k
<1> DEFINE R == OpToRel(<, Nat)
<1>1. IsWellFoundedOn(R, Nat)
  BY NatLessThanWellFounded, Zenon
<1>2. \A x, y \in Nat : x < y => <<x, y>> \in R
  BY Zenon DEF OpToRel
<1> HIDE DEF R
<1>3. PICK n \in T : \A k \in T : ~(<<k, n>> \in R)
  BY <1>1, WFMin, Zenon
<1>4. \A k \in T : ~(k < n)
  BY <1>2, <1>3, Zenon
<1> QED BY <1>3, <1>4

\* A set that has zero, and with a number the next one, has all the naturals.
LEMMA Inductive ==
  ASSUME NEW S, 0 \in S, \A n \in Nat : n \in S => n + 1 \in S
  PROVE  Nat \subseteq S
<1> SUFFICES ASSUME Nat \ S # {} PROVE FALSE
  BY Zenon
<1>1. PICK n \in Nat \ S : \A k \in Nat \ S : n <= k
  BY LeastNatural, Zenon
<1>2. n # 0 /\ n - 1 \in Nat /\ (n - 1) + 1 = n
  BY <1>1
<1>3. n - 1 \in S
  BY <1>1, <1>2
<1> QED BY <1>1, <1>2, <1>3, Zenon

-----------------------------------------------------------------------------
\* The solver is given more time when it is slow to answer.
USE SMTT(10), SMTT(20), SMTT(40)

\* Concatenation, kept closed where it does not matter what it does.
Joined(s, t) == s \o t

LEMMA JoinedAssociative ==
  \A A : \A x, y, z \in Seq(A) : Joined(Joined(x, y), z) = Joined(x, Joined(y, z))
BY ConcatAssociative, Zenon DEF Joined

\* The concatenations of the first 1, 2, ... sequences of c, as FlattenSeq has them.
Sums(c, f) ==
  f = [i \in 1 .. Len(c) |-> IF i = 1 THEN c[i] ELSE Joined(f[i - 1], c[i])]

\* They exist ...
LEMMA SumsExist ==
  ASSUME NEW S, NEW c \in Seq(S)
  PROVE  \E f : Sums(c, f)
<1> DEFINE Upto(n, f) == f = [i \in 1 .. n |-> IF i = 1 THEN c[i] ELSE Joined(f[i - 1], c[i])]
           Good == {n \in Nat : \E f : Upto(n, f)}
<1>1. 0 \in Good
  <2>1. Upto(0, [i \in 1 .. 0 |-> 0])
    OBVIOUS
  <2> QED BY <2>1, Zenon
<1>2. ASSUME NEW n \in Nat, n \in Good
      PROVE  n + 1 \in Good
  <2>1. PICK f : Upto(n, f)
    BY <1>2, Zenon
  <2> DEFINE g == [i \in 1 .. n + 1 |->
                     IF i \in 1 .. n THEN f[i] ELSE IF i = 1 THEN c[i] ELSE Joined(f[i - 1], c[i])]
  <2>2. \A i \in 1 .. n : g[i] = f[i] /\ f[i] = IF i = 1 THEN c[i] ELSE Joined(f[i - 1], c[i])
    BY <2>1
  <2>3. \A i \in 1 .. n + 1 : i # 1 => i - 1 \in 1 .. n /\ g[i - 1] = f[i - 1]
    BY <2>2
  <2>4. \A i \in 1 .. n + 1 : g[i] = IF i = 1 THEN c[i] ELSE Joined(g[i - 1], c[i])
    <3> TAKE i \in 1 .. n + 1
    <3>1. CASE i \in 1 .. n
      <4>1. g[i] = IF i = 1 THEN c[i] ELSE Joined(f[i - 1], c[i])
        BY <2>2, <3>1, Zenon
      <4> HIDE DEF g
      <4> QED BY <2>3, <4>1, Zenon
    <3>2. CASE i \notin 1 .. n
      <4>1. g[i] = IF i = 1 THEN c[i] ELSE Joined(f[i - 1], c[i])
        BY <3>2, Zenon
      <4> HIDE DEF g
      <4> QED BY <2>3, <4>1, Zenon
    <3> QED BY <3>1, <3>2, Zenon
  <2>5. Upto(n + 1, g)
    BY <2>4, Zenon
  <2>6. \E h : Upto(n + 1, h)
    <3> HIDE DEF Upto, g
    <3> QED BY <2>5, Zenon
  <2> QED BY <2>6
<1>3. Nat \subseteq Good
  <2> HIDE DEF Good
  <2> QED BY <1>1, <1>2, Inductive, Zenon
<1>4. Len(c) \in Good
  BY <1>3
<1> QED BY <1>4, Zenon DEF Sums

\* ... are sequences, and those of a longer list begin with those of a shorter one.
LEMMA SumsAgree ==
  ASSUME NEW S, NEW c \in Seq(Seq(S)), NEW d \in Seq(Seq(S)), NEW f, NEW g,
         Sums(c, f), Sums(d, g), Len(c) <= Len(d), \A i \in 1 .. Len(c) : c[i] = d[i]
  PROVE  \A i \in 1 .. Len(c) : f[i] = g[i] /\ f[i] \in Seq(S)
<1> DEFINE Good == {n \in Nat : n + 1 \in 1 .. Len(c) => f[n + 1] = g[n + 1] /\ f[n + 1] \in Seq(S)}
<1>0. Len(c) \in Nat /\ Len(d) \in Nat
  OBVIOUS
<1>1. 0 \in Good
  BY <1>0 DEF Sums
<1>2. ASSUME NEW n \in Nat, n \in Good
      PROVE  n + 1 \in Good
  <2> SUFFICES ASSUME n + 2 \in 1 .. Len(c)
               PROVE  f[n + 2] = g[n + 2] /\ f[n + 2] \in Seq(S)
    OBVIOUS
  <2>1. f[n + 1] = g[n + 1] /\ f[n + 1] \in Seq(S)
    BY <1>0, <1>2
  <2>2. f[n + 2] = Joined(f[n + 1], c[n + 2]) /\ g[n + 2] = Joined(g[n + 1], d[n + 2])
    <3> DEFINE m == n + 2
    <3>1. m \in 1 .. Len(c) /\ m \in 1 .. Len(d) /\ m # 1 /\ m - 1 = n + 1
      BY <1>0
    <3> HIDE DEF m
    <3>2. f[m] = Joined(f[m - 1], c[m]) /\ g[m] = Joined(g[m - 1], d[m])
      BY <3>1, Zenon DEF Sums
    <3> QED BY <3>1, <3>2, Zenon DEF m
  <2>3. c[n + 2] \in Seq(S) /\ c[n + 2] = d[n + 2]
    BY ElementOfSeq, Zenon
  <2> QED BY <2>1, <2>2, <2>3 DEF Joined
<1>3. Nat \subseteq Good
  <2> HIDE DEF Good
  <2> QED BY <1>1, <1>2, Inductive, Zenon
<1> SUFFICES ASSUME NEW i \in 1 .. Len(c) PROVE f[i] = g[i] /\ f[i] \in Seq(S)
  BY Zenon
<1>4. i - 1 \in Nat /\ (i - 1) + 1 = i
  BY <1>0
<1> QED BY <1>3, <1>4, Zenon

LEMMA FlattenIsLastSum ==
  ASSUME NEW S, NEW c \in Seq(Seq(S)), c # <<>>
  PROVE  \E f : Sums(c, f) /\ FlattenSeq(c) = f[Len(c)]
<1> DEFINE f == CHOOSE f : Sums(c, f)
<1>1. Sums(c, f)
  BY SumsExist, Zenon
<1>2. Len(c) # 0
  BY EmptySeq, Zenon
<1>3. FlattenSeq(c) = f[Len(c)]
  BY <1>2, Zenon DEF FlattenSeq, Sums, Joined
<1> QED BY <1>1, <1>3, Zenon

\* Flattening a list with one sequence more.
LEMMA FlattenAppend ==
  ASSUME NEW S, NEW c \in Seq(Seq(S)), NEW t \in Seq(S)
  PROVE  FlattenSeq(Append(c, t)) = FlattenSeq(c) \o t /\ FlattenSeq(c) \in Seq(S)
<1> DEFINE d == Append(c, t)
           n == Len(c)
<1>1. /\ d \in Seq(Seq(S)) /\ d # <<>> /\ n \in Nat /\ Len(d) = n + 1 /\ d[n + 1] = t
      /\ \A i \in 1 .. n : d[i] = c[i]
  BY AppendProperties, EmptySeq
<1>2. PICK g : Sums(d, g) /\ FlattenSeq(d) = g[n + 1]
  BY <1>1, FlattenIsLastSum, Zenon
<1> HIDE DEF d
<1>3. CASE c = <<>>
  <2>1. FlattenSeq(c) = <<>>
    BY <1>3, Zenon DEF FlattenSeq
  <2>2. n = 0
    BY <1>3, Zenon
  <2>3. g[1] = t
    BY <1>1, <1>2, <2>2 DEF Sums
  <2> QED BY <1>2, <2>1, <2>2, <2>3, ConcatEmptySeq, EmptySeq DEF d
<1>4. CASE c # <<>>
  <2>1. PICK f : Sums(c, f) /\ FlattenSeq(c) = f[n]
    BY <1>4, FlattenIsLastSum, Zenon
  <2>2. n \in 1 .. n
    BY <1>1, <1>4, EmptySeq
  <2>3. f[n] = g[n] /\ f[n] \in Seq(S)
    <3>1. Len(c) <= Len(d) /\ \A i \in 1 .. Len(c) : c[i] = d[i]
      BY <1>1
    <3>2. \A i \in 1 .. Len(c) : f[i] = g[i] /\ f[i] \in Seq(S)
      BY <1>1, <1>2, <2>1, <3>1, SumsAgree, Zenon
    <3> QED BY <2>2, <3>2, Zenon
  <2>4. g[n + 1] = g[n] \o t
    <3> DEFINE m == n + 1
    <3>1. m \in 1 .. Len(d) /\ m # 1 /\ m - 1 = n /\ d[m] = t
      BY <1>1, <2>2
    <3> HIDE DEF m
    <3>2. g[m] = Joined(g[m - 1], d[m])
      BY <1>2, <3>1, Zenon DEF Sums
    <3> QED BY <3>1, <3>2, Zenon DEF m, Joined
  <2> QED BY <1>2, <2>1, <2>3, <2>4, Zenon DEF d
<1> QED BY <1>3, <1>4, Zenon

-----------------------------------------------------------------------------
\* The code's arithmetic on the ring, without its modulus.
LEMMA RingSteps ==
  /\ 0 \in Idx
  /\ \A i \in Idx : (i + 1) % AC97_BUFFERS = After(i) /\ After(i) \in Idx
  /\ \A i \in Idx : (i + AC97_BUFFERS - 1) % AC97_BUFFERS = Before(i) /\ Before(i) \in Idx
<1> DEFINE N == AC97_BUFFERS
<1>1. N \in Nat /\ N >= 4
  BY Ac97Assumption, Zenon
<1> HIDE DEF N
<1>2. \A x \in 0 .. N - 1 : x % N = x
  BY <1>1
<1>3. \A x \in N .. 2 * N - 1 : x % N = x - N
  BY <1>1
<1> QED BY <1>1, <1>2, <1>3 DEF Idx, After, Before, N

\* The count of free buffers is zero exactly when the device is one ahead of entry.
LEMMA NoneLeft ==
  ASSUME NEW e \in Idx, NEW r \in Idx
  PROVE  BufferLeft(e, r) \in Nat /\ (BufferLeft(e, r) = 0 <=> r = After(e))
BY Ac97Assumption DEF Idx, BufferLeft, After

\* Once around the ring, with at least four buffers.
LEMMA Around ==
  \A i \in Idx : /\ Before(After(i)) = i /\ After(Before(i)) = i
                 /\ After(i) # i /\ After(i) # Before(i)
BY Ac97Assumption DEF Idx, After, Before

LEMMA InitHolds == Init => IInv
<1> SUFFICES ASSUME Init PROVE IInv
  BY Zenon
<1>1. <<>> \in Block /\ <<>> \in Seq(Block) /\ 0 \in Idx
  BY RingSteps DEF Block
<1>2. TypeOK
  BY <1>1 DEF Init, TypeOK, Silent, PlayerState
<1>3. StreamKept
  <2>1. FlattenSeq(<<>>) = <<>>
    BY Zenon DEF FlattenSeq
  <2> QED BY <2>1 DEF Init, StreamKept
<1>4. RingInStep
  BY Zenon DEF Init, RingInStep
<1> QED BY <1>2, <1>3, <1>4, Zenon DEF IInv

\* Actions before a player has been given the CPU, and the device's reset.
LEMMA InstallHolds ==
  ASSUME IInv, DeviceNotFound \/ ResetChannel \/ StartChannel \/ ClearReset
  PROVE  IInv'
<1>1. TypeOK /\ StreamKept /\ RingInStep
  BY Zenon DEF IInv
<1>2. /\ UNCHANGED <<op, player, accepted, committed, heard, late>>
      /\ ac97'.entry = ac97.entry /\ ac97'.temp = ac97.temp
      /\ dev'.civ = dev.civ /\ dev'.lvi = dev.lvi
      /\ TypeOK'
  <2>1. CASE DeviceNotFound
    BY <1>1, <2>1, Zenon DEF DeviceNotFound, TypeOK
  <2>2. CASE ResetChannel
    BY <1>1, <2>2, Zenon DEF ResetChannel, TypeOK
  <2>3. CASE StartChannel
    BY <1>1, <2>3, Zenon DEF StartChannel, TypeOK
  <2>4. CASE ClearReset
    BY <1>1, <2>4, Zenon DEF ClearReset, TypeOK
  <2> QED BY <2>1, <2>2, <2>3, <2>4, Zenon
<1> QED BY <1>1, <1>2, Zenon DEF IInv, StreamKept, RingInStep

LEMMA PlayHolds ==
  ASSUME IInv, Play
  PROVE  IInv'
<1> DEFINE next == (dev.civ + 1) % AC97_BUFFERS
<1>1. TypeOK /\ StreamKept /\ RingInStep
  BY Zenon DEF IInv
<1>2. dev.civ \in Idx /\ ac97.entry \in Idx /\ next = After(dev.civ) /\ next \in Idx
  BY <1>1, RingSteps, Zenon DEF TypeOK
<1>3. /\ dev' = [dev EXCEPT !.civ = next, !.playing = ac97.buffers[next]]
      /\ dev.civ # dev.lvi
      /\ UNCHANGED <<ac97, op, player, accepted, committed, late>>
  BY Zenon DEF Play
<1>4. heard' \in Seq(Block)
  BY <1>1 DEF Play, TypeOK
<1> HIDE DEF next
<1>5. TypeOK'
  BY <1>1, <1>2, <1>3, <1>4, Zenon DEF TypeOK
<1>6. dev'.civ = After(dev.civ) /\ dev'.lvi = dev.lvi
  BY <1>1, <1>2, <1>3, Zenon DEF TypeOK
<1>7. ASSUME dev.lvi = Before(Before(ac97.entry)), dev.civ \notin {ac97.entry, Before(ac97.entry)}
      PROVE  After(dev.civ) \notin {ac97.entry, Before(ac97.entry), After(ac97.entry)}
  BY <1>2, <1>3, <1>7, Ac97Assumption DEF Idx, After, Before
<1>8. RingInStep'
  BY <1>1, <1>3, <1>6, <1>7, Zenon DEF RingInStep
<1> QED BY <1>1, <1>3, <1>5, <1>8, Zenon DEF IInv, StreamKept

\* A step that leaves ring, staging and histories alone, and whose write is not
\* past ac97_can_write unless it was before.
LEMMA SameRing ==
  ASSUME IInv, TypeOK', UNCHANGED <<dev, accepted, committed, late>>,
         ac97'.entry = ac97.entry, ac97'.temp = ac97.temp,
         op'.pc \in {"ac97_write_pcm", "ac97_write_buffer"} =>
           op.pc \in {"ac97_write_pcm", "ac97_write_buffer"}
  PROVE  IInv'
BY Zenon DEF IInv, StreamKept, RingInStep

LEMMA FreadHolds ==
  ASSUME IInv, NEW p \in Players, Fread(p)
  PROVE  IInv'
<1>1. TypeOK /\ UNCHANGED <<dev, ac97, op, accepted, committed, heard, late>>
  BY Zenon DEF IInv, Fread
<1>2. Least(PCM_BUFFER, FileLen[p] - player[p].pos) \in Int
  BY <1>1, Ac97Assumption DEF TypeOK, PlayerState, Least
<1>3. \E r \in PlayerState : player' = [player EXCEPT ![p] = r]
  <2> DEFINE n == Least(PCM_BUFFER, FileLen[p] - player[p].pos)
             end == [player[p] EXCEPT !.state = "done"]
             more == [player[p] EXCEPT !.pos = @ + n, !.got = n, !.sent = 0]
  <2>1. player[p] \in PlayerState
    BY <1>1, Zenon DEF TypeOK
  <2>2. player' = [player EXCEPT ![p] = IF n = 0 THEN end ELSE more]
    BY Zenon DEF Fread
  <2>3. end \in PlayerState /\ more \in PlayerState
    <3>1. n \in Int
      BY <1>2, Zenon
    <3> HIDE DEF n
    <3> DEFINE m1 == [player[p] EXCEPT !.pos = @ + n]
               m2 == [m1 EXCEPT !.got = n]
    <3>2. m1 \in PlayerState
      BY <2>1, <3>1 DEF PlayerState
    <3> HIDE DEF m1
    <3>3. m2 \in PlayerState
      BY <3>1, <3>2, Zenon DEF PlayerState
    <3> HIDE DEF m2
    <3>4. [m2 EXCEPT !.sent = 0] \in PlayerState
      BY <3>3 DEF PlayerState
    <3>5. end \in PlayerState
      BY <2>1, Zenon DEF PlayerState
    <3> QED BY <3>4, <3>5, Zenon DEF m1, m2
  <2> HIDE DEF n, end, more
  <2> QED BY <2>2, <2>3, Zenon
<1>4. TypeOK'
  BY <1>1, <1>3 DEF TypeOK
<1> QED BY <1>1, <1>4, SameRing, Zenon

LEMMA FwriteHolds ==
  ASSUME IInv, NEW p \in Players, Fwrite(p)
  PROVE  IInv'
<1> DEFINE pl == player[p]
           buf == [i \in 1 .. pl.got - pl.sent |-> <<p, pl.pos - pl.got + pl.sent + i>>]
<1>1. /\ TypeOK /\ UNCHANGED <<dev, ac97, player, accepted, committed, heard, late>>
      /\ op' = [pc |-> "_audio_write", by |-> p, buf |-> buf] /\ pl.sent < pl.got
  BY Zenon DEF IInv, Fwrite
<1>2. buf \in Block
  <2>1. pl.got \in Int /\ pl.sent \in Int /\ pl.pos \in Int
    BY <1>1, Zenon DEF TypeOK, PlayerState
  <2>2. pl.got - pl.sent \in Nat
    BY <1>1, <2>1
  <2>3. \A i \in 1 .. pl.got - pl.sent : <<p, pl.pos - pl.got + pl.sent + i>> \in Players \X Int
    BY <2>1
  <2> QED BY <2>2, <2>3, IsASeq DEF Block
<1> HIDE DEF buf
<1>3. TypeOK'
  BY <1>1, <1>2, Zenon DEF TypeOK
<1> QED BY <1>1, <1>3, SameRing, Zenon

\* What a call leaves behind when it is over.
LEMMA Over ==
  ASSUME TypeOK, op # Idle, Panic \/ \E n \in Int : Return(n)
  PROVE  /\ op' = Idle
         /\ player' \in [Players -> PlayerState]
<1>1. op' = Idle
  BY Zenon DEF Panic, Return
<1>2. op.by \in Players /\ player[op.by] \in PlayerState
  BY Zenon DEF TypeOK
<1>3. \E r \in PlayerState : player' = [player EXCEPT ![op.by] = r]
  <2> DEFINE pl == player[op.by]
             killed == [pl EXCEPT !.state = "killed"]
             failed == [pl EXCEPT !.state = "failed"]
             went(n) == [pl EXCEPT !.sent = @ + n]
  <2>1. killed \in PlayerState /\ failed \in PlayerState /\ \A n \in Int : went(n) \in PlayerState
    BY <1>2 DEF PlayerState
  <2>2. CASE Panic
    <3>1. player' = [player EXCEPT ![op.by] = killed]
      BY <2>2, Zenon DEF Panic
    <3> HIDE DEF killed
    <3> QED BY <2>1, <3>1, Zenon
  <2>3. ASSUME NEW n \in Int, Return(n)
        PROVE  \E r \in PlayerState : player' = [player EXCEPT ![op.by] = r]
    <3>1. player' = [player EXCEPT ![op.by] = IF n = 0 THEN failed ELSE went(n)]
      BY <2>3, Zenon DEF Return
    <3>2. (IF n = 0 THEN failed ELSE went(n)) \in PlayerState
      BY <2>1, Zenon
    <3> HIDE DEF failed, went
    <3> QED BY <3>1, <3>2, Zenon
  <2> QED BY <2>2, <2>3, Zenon
<1>4. player' \in [Players -> PlayerState]
  BY <1>2, <1>3, Zenon DEF TypeOK
<1> QED BY <1>1, <1>4, Zenon

LEMMA FailsHolds ==
  ASSUME IInv, _audio_writeFails
  PROVE  IInv'
<1>1. TypeOK /\ Return(0) /\ UNCHANGED <<dev, ac97, accepted, committed, heard, late>> /\ op # Idle
  BY DEF IInv, _audio_writeFails, Idle
<1>2. op' = Idle /\ TypeOK'
  BY <1>1, Over DEF TypeOK
<1> QED BY <1>1, <1>2, SameRing, Zenon DEF Idle

LEMMA CanWriteHolds ==
  ASSUME IInv, ac97_can_write
  PROVE  IInv'
<1>1. /\ TypeOK /\ StreamKept /\ RingInStep
      /\ UNCHANGED <<dev, ac97, player, accepted, committed, heard, late>>
      /\ op.pc = "_audio_write" /\ op' = [op EXCEPT !.pc = "ac97_write_pcm"]
  BY Zenon DEF IInv, ac97_can_write
<1>2. TypeOK'
  <2>1. op \in [pc : {"_audio_write", "ac97_write_pcm"}, by : Players, buf : Block]
    BY <1>1 DEF TypeOK, Idle
  <2>2. op' \in [pc : {"_audio_write", "ac97_write_pcm"}, by : Players, buf : Block]
    BY <1>1, <2>1, Zenon
  <2> QED BY <1>1, <2>2, Zenon DEF TypeOK
<1>3. dev.civ # After(ac97.entry)
  <2>1. dev.civ \in Idx /\ ac97.entry \in Idx /\ BufferLeft(ac97.entry, dev.civ) > 0
    BY <1>1, Zenon DEF TypeOK, ac97_can_write
  <2> QED BY <2>1, NoneLeft
<1> QED BY <1>1, <1>2, <1>3, Zenon DEF IInv, StreamKept, RingInStep

LEMMA WritePcmHolds ==
  ASSUME IInv, ac97_write_pcm
  PROVE  IInv'
<1> DEFINE n == Least(Len(op.buf), AC97_BUFFER_SIZE - Len(ac97.temp))
           s == SubSeq(op.buf, 1, n)
<1>1. TypeOK /\ StreamKept /\ RingInStep /\ op.pc = "ac97_write_pcm" /\ op # Idle
  BY DEF IInv, ac97_write_pcm, Idle
<1>2. op.buf \in Block /\ op.by \in Players /\ ac97.temp \in Block /\ accepted \in Block
  BY <1>1, Zenon DEF TypeOK
<1>3. UNCHANGED <<dev, committed, heard, late>>
  BY Zenon DEF ac97_write_pcm
<1>4. CASE n = 0
  <2>1. Panic /\ UNCHANGED <<ac97, accepted>>
    BY <1>4 DEF ac97_write_pcm
  <2>2. op' = Idle /\ TypeOK'
    BY <1>1, <1>3, <2>1, Over, Zenon DEF TypeOK
  <2> QED BY <1>3, <2>1, <2>2, SameRing, Zenon DEF Idle
<1>5. CASE n # 0
  <2>1. /\ n > 0
        /\ ac97' = [ac97 EXCEPT !.temp = @ \o s]
        /\ accepted' = accepted \o s
        /\ \/ Return(n)
           \/ op' = [pc |-> "ac97_write_buffer", by |-> op.by, n |-> n] /\ UNCHANGED player
    BY <1>5, Zenon DEF ac97_write_pcm
  <2>2. n \in Int /\ n <= Len(op.buf)
    BY <1>2, Ac97Assumption DEF Least, Block
  <2>3. s \in Block
    BY <1>2, <2>1, <2>2, SubSeqProperties DEF Block
  <2> HIDE DEF s, n
  <2>4. ac97.temp \o s \in Block /\ accepted \o s \in Block
    BY <1>2, <2>3, ConcatProperties, Zenon DEF Block
  <2>5. /\ player' \in [Players -> PlayerState]
        /\ op' = Idle \/ op' = [pc |-> "ac97_write_buffer", by |-> op.by, n |-> n]
    BY <1>1, <2>1, <2>2, Over, Zenon DEF TypeOK
  <2>6. TypeOK'
    <3>1. op' \in {Idle} \cup [pc : {"ac97_write_buffer"}, by : Players, n : Int]
      BY <1>2, <2>2, <2>5
    <3> DEFINE t == ac97.temp \o s
               a == accepted \o s
    <3>2. t \in Block /\ a \in Block /\ ac97' = [ac97 EXCEPT !.temp = t] /\ accepted' = a
      BY <2>1, <2>4, Zenon
    <3> HIDE DEF t, a
    <3>3. ac97' \in [initialized : BOOLEAN, installing : {"no", "waiting", "done", "failed"},
                     buffers : [Idx -> Block], entry : Idx, lock : BOOLEAN, temp : Block]
      BY <1>1, <3>2, Zenon DEF TypeOK
    <3> QED BY <1>1, <1>3, <2>5, <3>1, <3>2, <3>3, Zenon DEF TypeOK
  <2>7. ac97'.temp = ac97.temp \o s /\ ac97'.entry = ac97.entry
    BY <1>1, <2>1, Zenon DEF TypeOK
  <2>8. StreamKept'
    <3>1. committed \in Seq(Seq(Players \X Int))
      BY <1>1, Zenon DEF TypeOK, Block
    <3>2. FlattenSeq(committed) \in Seq(Players \X Int)
      BY <3>1, <1>2, FlattenAppend, Zenon DEF Block
    <3>3. (FlattenSeq(committed) \o ac97.temp) \o s = FlattenSeq(committed) \o (ac97.temp \o s)
      <4> DEFINE a == FlattenSeq(committed)
                 t == ac97.temp
                 B == Seq(Players \X Int)
      <4>1. a \in B /\ t \in B /\ s \in B
        BY <1>2, <2>3, <3>2, Zenon DEF Block
      <4> HIDE DEF a, t
      <4>2. Joined(Joined(a, t), s) = Joined(a, Joined(t, s))
        BY <4>1, JoinedAssociative
      <4> QED BY <4>2, Zenon DEF a, t, Joined
    <3> QED BY <1>1, <1>3, <2>1, <2>7, <3>3, Zenon DEF StreamKept
  <2>9. RingInStep'
    BY <1>1, <1>3, <2>7, Zenon DEF RingInStep
  <2> QED BY <2>6, <2>8, <2>9, Zenon DEF IInv
<1> QED BY <1>4, <1>5, Zenon

LEMMA NoBuffersHolds ==
  ASSUME IInv, NoBuffersLeft
  PROVE  IInv'
<1>1. /\ TypeOK /\ Panic /\ UNCHANGED <<dev, accepted, committed, heard, late>> /\ op # Idle
      /\ ac97' = [ac97 EXCEPT !.lock = TRUE]
  BY DEF IInv, NoBuffersLeft, Idle
<1>2. op' = Idle /\ TypeOK' /\ ac97'.entry = ac97.entry /\ ac97'.temp = ac97.temp
  BY <1>1, Over, Zenon DEF TypeOK
<1> QED BY <1>1, <1>2, SameRing, Zenon DEF Idle

LEMMA WriteBufferHolds ==
  ASSUME IInv, ac97_write_buffer
  PROVE  IInv'
<1> DEFINE e == ac97.entry
           late1 == IF dev.civ = e THEN ToSet(committed') ELSE late
<1>1. TypeOK /\ StreamKept /\ RingInStep /\ op.pc = "ac97_write_buffer" /\ op # Idle
  BY DEF IInv, ac97_write_buffer, Idle
<1>2. e \in Idx /\ dev.civ \in Idx /\ ac97.temp \in Block /\ committed \in Seq(Block)
  BY <1>1, Zenon DEF TypeOK
<1>3. op.n \in Int
  BY <1>1, Zenon DEF TypeOK, Idle
<1>4. op' = Idle /\ player' \in [Players -> PlayerState]
  BY <1>1, <1>3, Over, Zenon DEF ac97_write_buffer
<1>5. /\ committed' = Append(committed, ac97.temp)
      /\ late' = late1
      /\ UNCHANGED <<accepted, heard>>
  BY Zenon DEF ac97_write_buffer
<1>6. /\ committed' \in Seq(Block) /\ committed' # <<>>
      /\ Last(committed') = ac97.temp /\ ac97.temp \in ToSet(committed')
      /\ ToSet(committed') \subseteq Block
  <2>1. /\ committed' \in Seq(Block) /\ committed' # <<>> /\ Len(committed') = Len(committed) + 1
        /\ committed'[Len(committed) + 1] = ac97.temp /\ Len(committed) \in Nat
    BY <1>2, <1>5, AppendProperties, EmptySeq
  <2>2. \A i \in 1 .. Len(committed') : committed'[i] \in Block
    BY <2>1, ElementOfSeq, Zenon
  <2>3. Len(committed) + 1 \in 1 .. Len(committed')
    BY <2>1
  <2> QED BY <2>1, <2>2, <2>3 DEF Last, ToSet
<1>7. /\ ac97' = [ac97 EXCEPT !.buffers[e] = ac97.temp, !.entry = After(e), !.temp = <<>>]
      /\ dev' = [dev EXCEPT !.lvi = Before(e), !.run = TRUE,
                            !.playing = IF dev.civ = e THEN Silent ELSE @]
      /\ After(e) \in Idx /\ Before(e) \in Idx
  BY <1>2, RingSteps, Zenon DEF ac97_write_buffer
<1>8. TypeOK'
  <2>1. <<>> \in Block
    BY DEF Block
  <2>2. ac97' \in [initialized : BOOLEAN, installing : {"no", "waiting", "done", "failed"},
                   buffers : [Idx -> Block], entry : Idx, lock : BOOLEAN, temp : Block]
    BY <1>1, <1>2, <1>7, <2>1, Zenon DEF TypeOK
  <2>3. dev' \in [civ : Idx, lvi : Idx, run : BOOLEAN, reset : BOOLEAN, playing : Block]
    BY <1>1, <1>7, <2>1, Zenon DEF TypeOK, Silent
  <2>4. late' \subseteq Block
    BY <1>1, <1>5, <1>6, Zenon DEF TypeOK
  <2> QED BY <1>1, <1>4, <1>5, <1>6, <2>2, <2>3, <2>4, Zenon DEF TypeOK
<1>9. ac97'.entry = After(e) /\ ac97'.temp = <<>> /\ dev'.civ = dev.civ /\ dev'.lvi = Before(e)
  BY <1>1, <1>7, Zenon DEF TypeOK
<1>10. StreamKept'
  <2> DEFINE a == FlattenSeq(committed)
             t == ac97.temp
  <2>1. FlattenSeq(Append(committed, t)) = a \o t /\ a \in Seq(Players \X Int)
    BY <1>2, FlattenAppend, Zenon DEF Block
  <2>2. accepted \in Seq(Players \X Int) /\ accepted = a \o t
    BY <1>1, Zenon DEF TypeOK, StreamKept, Block
  <2>3. accepted \o <<>> = accepted
    BY <2>2, ConcatEmptySeq, Zenon
  <2> QED BY <1>5, <1>9, <2>1, <2>2, <2>3, Zenon DEF StreamKept
<1>11. RingInStep'
  <2> SUFFICES ASSUME Last(committed') \notin late'
               PROVE  /\ dev'.lvi = Before(Before(ac97'.entry))
                      /\ dev'.civ \notin {ac97'.entry, Before(ac97'.entry)}
    BY <1>4, <1>6, Zenon DEF RingInStep, Idle
  <2>1. dev.civ # e
    BY <1>5, <1>6, Zenon
  <2>2. dev.civ # After(e)
    BY <1>2, NoneLeft DEF ac97_write_buffer
  <2> QED BY <1>2, <1>9, <2>1, <2>2, Around, Zenon
<1> QED BY <1>8, <1>10, <1>11, Zenon DEF IInv

LEMMA StepHolds == IInv /\ [Next]_vars => IInv'
<1> SUFFICES ASSUME IInv, [Next]_vars PROVE IInv'
  BY Zenon
<1>1. CASE DeviceNotFound \/ ResetChannel \/ StartChannel \/ ClearReset
  BY <1>1, InstallHolds, Zenon
<1>2. CASE Play
  BY <1>2, PlayHolds, Zenon
<1>3. ASSUME NEW p \in Players, Fread(p) PROVE IInv'
  BY <1>3, FreadHolds, Zenon
<1>4. ASSUME NEW p \in Players, Fwrite(p) PROVE IInv'
  BY <1>4, FwriteHolds, Zenon
<1>5. CASE _audio_writeFails
  BY <1>5, FailsHolds, Zenon
<1>6. CASE ac97_can_write
  BY <1>6, CanWriteHolds, Zenon
<1>7. CASE ac97_write_pcm
  BY <1>7, WritePcmHolds, Zenon
<1>8. CASE NoBuffersLeft
  BY <1>8, NoBuffersHolds, Zenon
<1>9. CASE ac97_write_buffer
  BY <1>9, WriteBufferHolds, Zenon
<1>10. CASE UNCHANGED vars
  BY <1>10 DEF vars, IInv, TypeOK, StreamKept, RingInStep
<1> QED BY <1>1, <1>2, <1>3, <1>4, <1>5, <1>6, <1>7, <1>8, <1>9, <1>10, Zenon DEF Next

\* The inductive invariant: stream, ring and device stay in step through every
\* interleaving of the players' writes with the device.
THEOREM Invariance == Spec => []IInv
BY InitHolds, StepHolds, PTL DEF Spec

\* Nothing ac97_write_pcm accepts is lost, doubled or reordered on the way to the
\* ring, for any players, files, number of buffers and buffer size.
THEOREM StreamStaysKept == Spec => []StreamKept
<1>1. IInv => StreamKept
  BY Zenon DEF IInv
<1> QED BY <1>1, Invariance, PTL

\* "no buffers left!" is reached in ac97_write_buffer only while the device is on
\* a free lap: behind every other write, what ac97_can_write saw still holds.
THEOREM PanicNeedsAFreeLap == Spec => PanicsOnlyOnAFreeLap
<1>1. IInv /\ NoBuffersLeft => committed # <<>> /\ Last(committed) \in late
  <2> SUFFICES ASSUME IInv, NoBuffersLeft PROVE committed # <<>> /\ Last(committed) \in late
    BY Zenon
  <2>1. ac97.entry \in Idx /\ dev.civ \in Idx /\ RingInStep
    BY Zenon DEF IInv, TypeOK
  <2>2. dev.civ = After(ac97.entry) /\ op.pc = "ac97_write_buffer"
    BY <2>1, NoneLeft, Zenon DEF NoBuffersLeft
  <2>3. committed # <<>>
    BY <2>1, <2>2, Around, Zenon DEF RingInStep
  <2> QED BY <2>1, <2>2, <2>3, Zenon DEF RingInStep
<1>2. IInv => [NoBuffersLeft => committed # <<>> /\ Last(committed) \in late]_vars
  BY <1>1, Zenon
<1> QED BY <1>2, Invariance, PTL DEF PanicsOnlyOnAFreeLap

-----------------------------------------------------------------------------
(* What Without does to a sequence. *)

LEMMA WithoutAppend ==
  ASSUME NEW A, NEW s \in Seq(A), NEW x \in A, NEW S
  PROVE  /\ Without(s, S) \in Seq(A)
         /\ x \in S => Without(Append(s, x), S) = Without(s, S)
         /\ x \notin S => Without(Append(s, x), S) = Append(Without(s, S), x)
<1> DEFINE Kept(y) == IF y \in S THEN <<>> ELSE <<y>>
           c == [i \in 1 .. Len(s) |-> Kept(s[i])]
           u == Append(s, x)
           d == [i \in 1 .. Len(u) |-> Kept(u[i])]
<1>1. \A y \in A : Kept(y) \in Seq(A)
  OBVIOUS
<1>2. /\ u \in Seq(A) /\ Len(s) \in Nat /\ Len(u) = Len(s) + 1 /\ u[Len(s) + 1] = x
      /\ \A i \in 1 .. Len(s) : u[i] = s[i]
  BY AppendProperties
<1>3. (\A i \in 1 .. Len(s) : s[i] \in A) /\ \A i \in 1 .. Len(u) : u[i] \in A
  BY <1>2, ElementOfSeq, Zenon
<1> HIDE DEF Kept, u
<1>4. c \in Seq(Seq(A)) /\ d \in Seq(Seq(A))
  BY <1>1, <1>2, <1>3
<1>5. Len(c) = Len(s) /\ Len(d) = Len(s) + 1
  BY <1>2
<1>6. /\ \A i \in 1 .. Len(s) : c[i] = Kept(s[i]) /\ d[i] = Kept(s[i])
      /\ d[Len(s) + 1] = Kept(x)
  BY <1>2
<1> HIDE DEF c, d
<1>7. d = Append(c, Kept(x))
  <2> DEFINE a == Append(c, Kept(x))
  <2>1. /\ a \in Seq(Seq(A)) /\ Len(a) = Len(c) + 1 /\ a[Len(c) + 1] = Kept(x)
        /\ \A i \in 1 .. Len(c) : a[i] = c[i]
    BY <1>1, <1>4, AppendProperties
  <2> HIDE DEF a
  <2>2. Len(d) = Len(a) /\ \A i \in 1 .. Len(d) : d[i] = a[i]
    BY <1>2, <1>5, <1>6, <2>1
  <2>3. d = a
    BY <1>4, <2>1, <2>2, SeqEqual, Zenon
  <2> QED BY <2>3, Zenon DEF a
<1>8. FlattenSeq(d) = FlattenSeq(c) \o Kept(x) /\ FlattenSeq(c) \in Seq(A)
  BY <1>1, <1>4, <1>7, FlattenAppend, Zenon
<1>9. Without(s, S) = FlattenSeq(c) /\ Without(u, S) = FlattenSeq(d)
  BY Zenon DEF Without, c, d, Kept
<1>10. x \in S => FlattenSeq(c) \o Kept(x) = FlattenSeq(c)
  BY <1>8, ConcatEmptySeq, Zenon DEF Kept
<1>11. x \notin S => FlattenSeq(c) \o Kept(x) = Append(FlattenSeq(c), x)
  BY <1>8, AppendIsConcat, Zenon DEF Kept
<1> QED BY <1>8, <1>9, <1>10, <1>11, Zenon DEF u

LEMMA WithoutNone == \A S : Without(<<>>, S) = <<>>
<1> TAKE S
<1> DEFINE c == [i \in 1 .. Len(<<>>) |-> IF <<>>[i] \in S THEN <<>> ELSE <<(<<>>[i])>>]
<1>1. c \in Seq({}) /\ Len(c) = 0
  OBVIOUS
<1>2. c = <<>>
  BY <1>1, EmptySeq, Zenon
<1> HIDE DEF c
<1>3. FlattenSeq(c) = <<>>
  BY <1>1, <1>2, Zenon DEF FlattenSeq
<1> QED BY <1>3, Zenon DEF Without, c

\* Nothing is left of a sequence that is wholly in the set.
LEMMA WithoutAll ==
  ASSUME NEW A, NEW S, NEW s \in Seq(A), ToSet(s) \subseteq S
  PROVE  Without(s, S) = <<>>
<1> DEFINE Good == {n \in Nat : \A t \in Seq(A) :
                      Len(t) = n /\ (\A i \in 1 .. Len(t) : t[i] \in S) => Without(t, S) = <<>>}
<1>0. \A r \in Seq(A), x \in A : x \in S => Without(Append(r, x), S) = Without(r, S)
  <2> TAKE r \in Seq(A), x \in A
  <2> QED BY WithoutAppend
<1>1. 0 \in Good
  BY WithoutNone
<1>2. ASSUME NEW n \in Nat, n \in Good
      PROVE  n + 1 \in Good
  <2> SUFFICES ASSUME NEW t \in Seq(A), Len(t) = n + 1, \A i \in 1 .. n + 1 : t[i] \in S
               PROVE  Without(t, S) = <<>>
    OBVIOUS
  <2>0. t # <<>>
    BY EmptySeq
  <2>1. PICK r \in Seq(A), x \in A : t = Append(r, x)
    BY <2>0, SequenceEmptyOrAppend, Zenon
  <2>2. Len(r) = n /\ (\A i \in 1 .. Len(r) : r[i] \in S) /\ x \in S
    <3>1. /\ Len(t) = Len(r) + 1 /\ Len(r) \in Nat /\ t[Len(r) + 1] = x
          /\ \A i \in 1 .. Len(r) : t[i] = r[i]
      BY <2>1, AppendProperties
    <3>2. Len(r) = n
      BY <3>1
    <3> QED BY <3>1, <3>2
  <2>3. Without(r, S) = <<>>
    BY <1>2, <2>2, Zenon
  <2>4. Without(Append(r, x), S) = Without(r, S)
    BY <1>0, <2>2, Zenon
  <2> QED BY <2>1, <2>3, <2>4, Zenon
<1>3. Nat \subseteq Good
  <2> HIDE DEF Good
  <2> QED BY <1>1, <1>2, Inductive, Zenon
<1>4. Len(s) \in Nat /\ \A i \in 1 .. Len(s) : s[i] \in S
  BY DEF ToSet
<1> QED BY <1>3, <1>4
-----------------------------------------------------------------------------
(* Every byte is passed on once. *)

\* The bytes passed on or staged are bytes of the players' files.
LEMMA BytesTyped ==
  ASSUME TypeOK
  PROVE  Passed \cup ToSet(ac97.temp) \subseteq Players \X Int
<1>1. committed \in Seq(Block) /\ ac97.temp \in Block
  BY Zenon DEF TypeOK
<1>2. \A b \in Block : ToSet(b) \subseteq Players \X Int
  BY DEF Block, ToSet
<1>3. \A i \in 1 .. Len(committed) : committed[i] \in Block
  BY <1>1, ElementOfSeq, Zenon
<1> QED BY <1>1, <1>2, <1>3, Zenon DEF Passed

\* How far a player has been served is a number.
LEMMA TakenTyped ==
  ASSUME TypeOK, NEW p \in Players
  PROVE  /\ Taken(p) \in Int
         /\ player[p].pos \in Int /\ player[p].got \in Int /\ player[p].sent \in Int
<1>1. player[p].pos \in Int /\ player[p].got \in Int /\ player[p].sent \in Int
  BY Zenon DEF TypeOK, PlayerState
<1>2. op.pc = "ac97_write_buffer" => op.n \in Int
  BY DEF TypeOK, Idle
<1> QED BY <1>1, <1>2 DEF Taken

\* A step that neither stages nor passes on a byte, and does not serve a player.
LEMMA SameBytes ==
  ASSUME BytesOnce, UNCHANGED <<op, player, committed>>, ac97'.temp = ac97.temp
  PROVE  BytesOnce'
<1>1. Passed' = Passed /\ \A p : Taken(p)' = Taken(p)
  BY Zenon DEF Passed, Taken
<1> QED BY <1>1, Zenon DEF BytesOnce

\* A call that is over without a byte served: its player does not play on.
LEMMA OverUnserved ==
  ASSUME TypeOK, BytesOnce, op # Idle, Panic \/ Return(0),
         UNCHANGED committed, ac97'.temp = ac97.temp
  PROVE  BytesOnce'
<1>1. op' = Idle /\ op.by \in Players /\ player \in [Players -> PlayerState]
  BY Zenon DEF Panic, Return, TypeOK
<1>2. \A p \in Players : player'[p].state = "plays" => p # op.by /\ player'[p] = player[p]
  BY <1>1 DEF Panic, Return, PlayerState
<1>3. \A p \in Players : p # op.by /\ player'[p] = player[p] => Taken(p)' = Taken(p)
  BY <1>1, Zenon DEF Taken, Idle
<1>4. Passed' = Passed
  BY Zenon DEF Passed
<1> QED BY <1>1, <1>2, <1>3, <1>4, Zenon DEF BytesOnce, Idle

\* A call that is over with n bytes served.
LEMMA OverServed ==
  ASSUME TypeOK, op # Idle, NEW n \in Int, n # 0, Return(n)
  PROVE  /\ op' = Idle
         /\ \A p \in Players : player'[p].state = player[p].state
         /\ \A p \in Players : Taken(p)' = player[p].pos - player[p].got + player[p].sent
                                             + (IF p = op.by THEN n ELSE 0)
<1>1. op' = Idle /\ op.by \in Players /\ player \in [Players -> PlayerState]
  BY Zenon DEF Return, TypeOK
<1>2. player' = [player EXCEPT ![op.by] = [player[op.by] EXCEPT !.sent = @ + n]]
  BY Zenon DEF Return
<1>3. \A p \in Players : /\ player'[p].state = player[p].state /\ player'[p].pos = player[p].pos
                         /\ player'[p].got = player[p].got
                         /\ player'[p].sent = player[p].sent + (IF p = op.by THEN n ELSE 0)
  BY <1>1, <1>2 DEF PlayerState
<1>4. \A p \in Players : Taken(p)' = player'[p].pos - player'[p].got + player'[p].sent
  <2> TAKE p \in Players
  <2>1. player'[p].pos \in Int /\ player'[p].got \in Int /\ player'[p].sent \in Int
    BY <1>1, <1>3 DEF PlayerState
  <2> QED BY <1>1, <2>1 DEF Taken, Idle
<1>5. \A p \in Players : player[p].pos \in Int /\ player[p].got \in Int /\ player[p].sent \in Int
  BY <1>1, Zenon DEF PlayerState
<1> QED BY <1>1, <1>3, <1>4, <1>5

LEMMA FreadBytes ==
  ASSUME TypeOK, BytesOnce, NEW p \in Players, Fread(p)
  PROVE  BytesOnce'
<1> DEFINE n == Least(PCM_BUFFER, FileLen[p] - player[p].pos)
<1>1. /\ UNCHANGED <<ac97, op, committed>> /\ op = Idle /\ player[p].sent = player[p].got
      /\ player' = [player EXCEPT ![p] =
           IF n = 0 THEN [player[p] EXCEPT !.state = "done"]
                    ELSE [player[p] EXCEPT !.pos = @ + n, !.got = n, !.sent = 0]]
  BY Zenon DEF Fread
<1>2. n \in Int /\ player \in [Players -> PlayerState]
  BY Ac97Assumption DEF TypeOK, PlayerState, Least
<1> HIDE DEF n
<1>3. \A q \in Players : player'[q].state = "plays" =>
        /\ player[q].state = "plays"
        /\ player'[q].pos - player'[q].got + player'[q].sent
             = player[q].pos - player[q].got + player[q].sent
  <2> TAKE q \in Players
  <2>1. CASE q # p
    BY <1>1, <1>2, <2>1, Zenon
  <2>2. CASE q = p /\ n = 0
    BY <1>1, <1>2, <2>2, Zenon DEF PlayerState
  <2>3. CASE q = p /\ n # 0
    <3>1. player[p] \in PlayerState
      BY <1>2, Zenon
    <3>2. player'[p] = [player[p] EXCEPT !.pos = @ + n, !.got = n, !.sent = 0]
      BY <1>1, <1>2, <2>3, Zenon
    <3>3. /\ player'[p].pos = player[p].pos + n /\ player'[p].got = n /\ player'[p].sent = 0
          /\ player'[p].state = player[p].state
      BY <3>1, <3>2, Zenon DEF PlayerState
    <3>4. player[p].pos \in Int /\ player[p].got \in Int /\ player[p].sent = player[p].got
      BY <1>1, <3>1, Zenon DEF PlayerState
    <3> QED BY <1>2, <2>3, <3>3, <3>4
  <2> QED BY <2>1, <2>2, <2>3, Zenon
<1>4. \A q \in Players : player'[q].state = "plays" =>
        player[q].state = "plays" /\ Taken(q)' = Taken(q)
  BY <1>1, <1>3, Zenon DEF Taken, Idle
<1>5. Passed' = Passed /\ ac97'.temp = ac97.temp
  BY <1>1, Zenon DEF Passed
<1> QED BY <1>1, <1>4, <1>5, Zenon DEF BytesOnce, Idle

LEMMA FwriteBytes ==
  ASSUME TypeOK, BytesOnce, NEW p \in Players, Fwrite(p)
  PROVE  BytesOnce'
<1> DEFINE pl == player[p]
           buf == [i \in 1 .. pl.got - pl.sent |-> <<p, pl.pos - pl.got + pl.sent + i>>]
<1>1. /\ UNCHANGED <<ac97, player, committed>> /\ op = Idle /\ pl.state = "plays"
      /\ op' = [pc |-> "_audio_write", by |-> p, buf |-> buf] /\ pl.sent < pl.got
  BY Zenon DEF Fwrite
<1>2. pl.pos \in Int /\ pl.got \in Int /\ pl.sent \in Int
  BY TakenTyped, Zenon
<1>3. \A q : Taken(q)' = Taken(q)
  BY <1>1, Zenon DEF Taken, Idle
<1>4. Taken(p) = pl.pos - pl.got + pl.sent
  BY <1>1, <1>2 DEF Taken, Idle
<1>5. \A i \in 1 .. Len(buf) : buf[i] = <<p, Taken(p) + i>>
  BY <1>1, <1>2, <1>4
<1> HIDE DEF buf, pl
<1>6. Passed' = Passed /\ ac97'.temp = ac97.temp
  BY <1>1, Zenon DEF Passed
<1>7. /\ op'.pc = "_audio_write" /\ op'.by = p /\ op'.buf = buf /\ player'[op'.by].state = "plays"
  BY <1>1, Zenon DEF pl
<1> QED BY <1>1, <1>3, <1>5, <1>6, <1>7, Zenon DEF BytesOnce
LEMMA CanWriteBytes ==
  ASSUME TypeOK, BytesOnce, ac97_can_write
  PROVE  BytesOnce'
<1>1. /\ UNCHANGED <<ac97, player, committed>> /\ op.pc = "_audio_write"
      /\ op' = [op EXCEPT !.pc = "ac97_write_pcm"]
  BY Zenon DEF ac97_can_write
<1>2. op \in [pc : {"_audio_write", "ac97_write_pcm"}, by : Players, buf : Block]
  BY <1>1 DEF TypeOK, Idle
<1>3. op'.pc = "ac97_write_pcm" /\ op'.by = op.by /\ op'.buf = op.buf /\ op # Idle
  BY <1>1, <1>2 DEF Idle
<1>4. \A p : Taken(p)' = Taken(p)
  BY <1>1, <1>3, Zenon DEF Taken
<1>5. Passed' = Passed /\ ac97'.temp = ac97.temp
  BY <1>1, Zenon DEF Passed
<1> QED BY <1>1, <1>3, <1>4, <1>5, Zenon DEF BytesOnce

\* The bytes staged follow those taken from the same player before.
LEMMA WritePcmBytes ==
  ASSUME TypeOK, BytesOnce, ac97_write_pcm
  PROVE  BytesOnce'
<1> DEFINE n == Least(Len(op.buf), AC97_BUFFER_SIZE - Len(ac97.temp))
           s == SubSeq(op.buf, 1, n)
           by == op.by
<1>1. op.pc = "ac97_write_pcm" /\ op # Idle /\ UNCHANGED committed
  BY DEF ac97_write_pcm, Idle
<1>2. op.buf \in Block /\ by \in Players /\ ac97.temp \in Block
  BY <1>1, Zenon DEF TypeOK
<1>3. CASE n = 0
  <2>1. Panic /\ UNCHANGED ac97
    BY <1>3 DEF ac97_write_pcm
  <2> QED BY <1>1, <2>1, OverUnserved, Zenon
<1>4. CASE n # 0
  <2>1. /\ n > 0
        /\ ac97' = [ac97 EXCEPT !.temp = @ \o s]
        /\ \/ Return(n)
           \/ op' = [pc |-> "ac97_write_buffer", by |-> by, n |-> n] /\ UNCHANGED player
    BY <1>4, Zenon DEF ac97_write_pcm
  <2>2. n \in Int /\ n <= Len(op.buf) /\ Len(op.buf) \in Nat
    BY <1>2, Ac97Assumption DEF Least, Block
  <2>3. Taken(by) \in Int /\ \A i \in 1 .. Len(op.buf) : op.buf[i] = <<by, Taken(by) + i>>
    BY <1>1, <1>2, TakenTyped, Zenon DEF BytesOnce
  <2>4. s \in Block /\ Len(s) = n /\ \A i \in 1 .. n : s[i] = <<by, Taken(by) + i>>
    <3>1. \A i \in 1 .. n : op.buf[i] \in Players \X Int
      BY <1>2, <2>2 DEF Block
    <3>2. s \in Block /\ Len(s) = n /\ \A i \in 1 .. n : s[i] = op.buf[i]
      BY <2>1, <2>2, <3>1, SubSeqProperties DEF Block
    <3> HIDE DEF s, n, by
    <3> QED BY <2>2, <2>3, <3>2
  <2> HIDE DEF s, n
  <2>5. ac97'.temp = ac97.temp \o s
    BY <2>1, Zenon DEF TypeOK
  <2>6. ToSet(ac97'.temp) = ToSet(ac97.temp) \cup ToSet(s) /\ Len(ac97'.temp) > 0
    <3> DEFINE t == ac97.temp
               r == ac97'.temp
    <3>1. /\ Len(t) \in Nat /\ Len(r) = Len(t) + n /\ DOMAIN r = 1 .. Len(t) + n
          /\ DOMAIN t = 1 .. Len(t) /\ DOMAIN s = 1 .. n
          /\ \A i \in 1 .. Len(t) : r[i] = t[i]
          /\ \A i \in 1 .. n : r[Len(t) + i] = s[i]
      <4> DEFINE PI == Players \X Int
      <4>1. t \in Seq(PI) /\ s \in Seq(PI) /\ r = t \o s /\ Len(s) = n
        BY <1>2, <2>4, <2>5, Zenon DEF Block
      <4> HIDE DEF t, r, PI
      <4>2. r \in Seq(PI) /\ Len(r) = Len(t) + n
        <5>1. t \o s \in Seq(PI) /\ Len(t \o s) = Len(t) + Len(s)
          BY <4>1, ConcatProperties, Zenon
        <5> QED BY <4>1, <5>1, Zenon
      <4>3. /\ Len(t) \in Nat /\ DOMAIN t = 1 .. Len(t) /\ DOMAIN s = 1 .. Len(s)
            /\ DOMAIN r = 1 .. Len(r)
        BY <4>1, <4>2, LenProperties, Zenon
      <4>4. (\A i \in 1 .. Len(t) : r[i] = t[i]) /\ \A i \in 1 .. n : r[Len(t) + i] = s[i]
        BY <2>2, <4>1, <4>3
      <4> QED BY <4>1, <4>2, <4>3, <4>4, Zenon
    <3> HIDE DEF t, r
    <3>2. \A i \in 1 .. Len(t) : i \in 1 .. Len(t) + n
      BY <2>1, <2>2, <3>1
    <3>3. \A i \in 1 .. n : Len(t) + i \in 1 .. Len(t) + n
      BY <2>1, <2>2, <3>1
    <3>4. \A i \in 1 .. Len(t) + n : i \in 1 .. Len(t) \/ \E j \in 1 .. n : i = Len(t) + j
      <4> TAKE i \in 1 .. Len(t) + n
      <4>1. i \notin 1 .. Len(t) => i - Len(t) \in 1 .. n /\ i = Len(t) + (i - Len(t))
        BY <2>2, <3>1
      <4> QED BY <4>1, Zenon
    <3>5. ToSet(r) = ToSet(t) \cup ToSet(s)
      <4>1. \A x \in ToSet(r) : x \in ToSet(t) \cup ToSet(s)
        <5> TAKE x \in ToSet(r)
        <5>1. PICK i \in 1 .. Len(t) + n : x = r[i]
          BY <3>1, Zenon DEF ToSet
        <5>2. CASE i \in 1 .. Len(t)
          BY <3>1, <5>1, <5>2, Zenon DEF ToSet
        <5>3. ASSUME NEW j \in 1 .. n, i = Len(t) + j PROVE x \in ToSet(s)
          BY <3>1, <5>1, <5>3, Zenon DEF ToSet
        <5> QED BY <3>4, <5>1, <5>2, <5>3, Zenon
      <4>2. \A x \in ToSet(t) \cup ToSet(s) : x \in ToSet(r)
        BY <3>1, <3>2, <3>3, Zenon DEF ToSet
      <4> QED BY <4>1, <4>2, Zenon
    <3> QED BY <2>1, <2>2, <3>1, <3>5 DEF t, r
  <2>7. \A x \in ToSet(s) : x[1] = by /\ x[2] \in Int /\ x[2] > Taken(by) /\ x[2] <= Taken(by) + n
    <3>1. DOMAIN s = 1 .. n
      BY <2>4, LenProperties, Zenon DEF Block
    <3> QED BY <2>2, <2>3, <2>4, <3>1 DEF ToSet
  <2>8. \A p \in Players : /\ player'[p].state = player[p].state
                           /\ Taken(p)' = Taken(p) + (IF p = by THEN n ELSE 0)
    <3>1. \A p \in Players : /\ Taken(p) = player[p].pos - player[p].got + player[p].sent
                             /\ Taken(p) \in Int
      BY <1>1, TakenTyped DEF Taken
    <3>2. CASE Return(n)
      BY <1>1, <1>4, <2>2, <3>1, <3>2, OverServed, Zenon
    <3>3. CASE op' = [pc |-> "ac97_write_buffer", by |-> by, n |-> n] /\ UNCHANGED player
      <4>1. op'.pc = "ac97_write_buffer" /\ op'.by = by /\ op'.n = n
        BY <3>3, Zenon
      <4> HIDE DEF by
      <4> QED BY <2>2, <3>1, <3>3, <4>1, Zenon DEF Taken
    <3> QED BY <2>1, <3>2, <3>3, Zenon
  <2>9. Passed' = Passed
    BY <1>1, Zenon DEF Passed
  <2>10. op' = Idle \/ (op'.pc = "ac97_write_buffer" /\ op'.by = by /\ op'.n = n)
    BY <2>1 DEF Return
  <2>11. player[by].state = "plays" /\ ToSet(ac97.temp) \cap Passed = {}
    BY <1>1, Zenon DEF BytesOnce
  <2>12. \A p \in Players : player[p].state = "plays" =>
           \A x \in Passed \cup ToSet(ac97.temp) : x[1] = p => x[2] \in Int /\ x[2] <= Taken(p)
    BY BytesTyped, Zenon DEF BytesOnce
  <2>13. ToSet(ac97'.temp) \cap Passed = {}
    <3>1. ASSUME NEW x \in ToSet(s), x \in Passed PROVE FALSE
      BY <1>2, <2>3, <2>7, <2>11, <2>12, <3>1
    <3> QED BY <2>6, <2>11, <3>1, Zenon
  <2>14. \A p \in Players : player'[p].state = "plays" =>
           \A x \in Passed \cup ToSet(ac97'.temp) : x[1] = p => x[2] <= Taken(p)'
    <3> SUFFICES ASSUME NEW p \in Players, player[p].state = "plays",
                        NEW x \in Passed \cup ToSet(ac97'.temp), x[1] = p
                 PROVE  x[2] <= Taken(p)'
      BY <2>8, Zenon
    <3>1. Taken(p) \in Int /\ Taken(p)' = Taken(p) + (IF p = by THEN n ELSE 0)
      BY <2>8, TakenTyped, Zenon
    <3>2. CASE x \in Passed \cup ToSet(ac97.temp)
      <4>1. x[2] \in Int /\ x[2] <= Taken(p)
        BY <2>12, <3>2, Zenon
      <4> HIDE DEF by
      <4> QED BY <2>1, <2>2, <3>1, <4>1
    <3>3. CASE x \in ToSet(s)
      <4>1. p = by /\ x[2] \in Int /\ x[2] <= Taken(by) + n
        BY <2>7, <3>3, Zenon
      <4> HIDE DEF by
      <4> QED BY <3>1, <4>1, Zenon
    <3> QED BY <2>6, <3>2, <3>3, Zenon
  <2> QED BY <1>2, <2>1, <2>6, <2>8, <2>9, <2>10, <2>11, <2>13, <2>14 DEF BytesOnce, Idle
<1> QED BY <1>3, <1>4, Zenon

LEMMA WriteBufferBytes ==
  ASSUME TypeOK, BytesOnce, ac97_write_buffer
  PROVE  BytesOnce'
<1>1. /\ op.pc = "ac97_write_buffer" /\ op # Idle /\ Return(op.n)
      /\ committed' = Append(committed, ac97.temp)
  BY DEF ac97_write_buffer, Idle
<1>2. op.n \in Int /\ op.n > 0
  BY <1>1, Zenon DEF TypeOK, Idle, BytesOnce
<1>3. ac97'.temp = <<>> /\ ToSet(ac97'.temp) = {}
  BY DEF ac97_write_buffer, TypeOK, ToSet
<1>4. Passed' = Passed \cup ToSet(ac97.temp)
  <2> DEFINE m == Len(committed)
  <2>1. /\ m \in Nat /\ Len(committed') = m + 1 /\ committed'[m + 1] = ac97.temp
        /\ \A i \in 1 .. m : committed'[i] = committed[i]
    <3>1. committed \in Seq(Block) /\ ac97.temp \in Block
      BY Zenon DEF TypeOK
    <3> QED BY <1>1, <3>1, AppendProperties, LenProperties
  <2> HIDE DEF m
  <2>2. \A i \in 1 .. m + 1 : i \in 1 .. m \/ i = m + 1
    BY <2>1
  <2>3. m + 1 \in 1 .. m + 1 /\ \A i \in 1 .. m : i \in 1 .. m + 1
    BY <2>1
  <2>4. \A x \in Passed' : x \in Passed \cup ToSet(ac97.temp)
    BY <2>1, <2>2, Zenon DEF Passed, m
  <2>5. \A x \in Passed \cup ToSet(ac97.temp) : x \in Passed'
    BY <2>1, <2>3, Zenon DEF Passed, m
  <2> QED BY <2>4, <2>5, Zenon
<1>5. /\ op' = Idle
      /\ \A p \in Players : player'[p].state = player[p].state /\ Taken(p)' = Taken(p)
  <2>1. \A p \in Players : Taken(p) = player[p].pos - player[p].got + player[p].sent
                                        + (IF p = op.by THEN op.n ELSE 0)
    BY <1>1, Zenon DEF Taken
  <2> QED BY <1>1, <1>2, <2>1, OverServed
<1> QED BY <1>3, <1>4, <1>5, Zenon DEF BytesOnce, Idle

LEMMA InitBytes == Init => BytesOnce
BY DEF Init, BytesOnce, Passed, ToSet, Idle

LEMMA StepBytes == IInv /\ BytesOnce /\ [Next]_vars => BytesOnce'
<1> SUFFICES ASSUME TypeOK, BytesOnce, [Next]_vars PROVE BytesOnce'
  BY Zenon DEF IInv
<1>1. CASE DeviceNotFound \/ ResetChannel \/ StartChannel \/ ClearReset \/ Play \/ UNCHANGED vars
  <2>1. UNCHANGED <<op, player, committed>> /\ ac97'.temp = ac97.temp
    <3>1. CASE DeviceNotFound \/ ResetChannel \/ StartChannel
      BY <3>1, Zenon DEF DeviceNotFound, ResetChannel, StartChannel, TypeOK
    <3>2. CASE ClearReset \/ Play \/ UNCHANGED vars
      BY <3>2, Zenon DEF ClearReset, Play, vars
    <3> QED BY <1>1, <3>1, <3>2, Zenon
  <2> QED BY <2>1, SameBytes, Zenon
<1>2. ASSUME NEW p \in Players, Fread(p) PROVE BytesOnce'
  BY <1>2, FreadBytes, Zenon
<1>3. ASSUME NEW p \in Players, Fwrite(p) PROVE BytesOnce'
  BY <1>3, FwriteBytes, Zenon
<1>4. CASE _audio_writeFails \/ NoBuffersLeft
  <2>1. (Panic \/ Return(0)) /\ UNCHANGED committed /\ ac97'.temp = ac97.temp /\ op # Idle
    BY <1>4 DEF _audio_writeFails, NoBuffersLeft, TypeOK, Idle
  <2> QED BY <2>1, OverUnserved, Zenon
<1>5. CASE ac97_can_write
  BY <1>5, CanWriteBytes, Zenon
<1>6. CASE ac97_write_pcm
  BY <1>6, WritePcmBytes, Zenon
<1>7. CASE ac97_write_buffer
  BY <1>7, WriteBufferBytes, Zenon
<1> QED BY <1>1, <1>2, <1>3, <1>4, <1>5, <1>6, <1>7, Zenon DEF Next
-----------------------------------------------------------------------------
(* What the device plays. *)

\* Going round the ring, one buffer is one step nearer to the block just written;
\* once a block is written, every other buffer is one step further from it.
LEMMA BehindSteps ==
  ASSUME NEW e \in Idx, ac97.entry = e
  PROVE  /\ \A i \in Idx : Behind(i) \in Nat
         /\ \A i \in Idx : i # Before(e) => Behind(After(i)) = Behind(i) - 1
         /\ ac97'.entry = After(e) =>
              /\ Behind(e)' = 0
              /\ \A i \in Idx : i # e => Behind(i)' = Behind(i) + 1
<1>1. AC97_BUFFERS \in Nat /\ AC97_BUFFERS >= 4
  BY Ac97Assumption, Zenon
<1>2. \A i \in Idx : Behind(i) \in Nat
  BY <1>1 DEF Idx, Behind
<1>3. \A i \in Idx : i # Before(e) => Behind(After(i)) = Behind(i) - 1
  BY <1>1 DEF Idx, Behind, After, Before
<1>4. ac97'.entry = After(e) =>
        /\ Behind(e)' = 0
        /\ \A i \in Idx : i # e => Behind(i)' = Behind(i) + 1
  BY <1>1 DEF Idx, Behind, After
<1> QED BY <1>2, <1>3, <1>4, Zenon

\* What is due, and what of it was heard, are sequences of blocks.
LEMMA DueTyped ==
  ASSUME TypeOK
  PROVE  Due \in Seq(Block) /\ Without(heard, late) \in Seq(Block) /\ Len(Due) \in Nat
<1>1. committed \in Seq(Block) /\ heard \in Seq(Block) /\ <<>> \in Block
  BY DEF TypeOK, Block
<1>2. Due \in Seq(Block) /\ Without(heard, late) \in Seq(Block)
  BY <1>1, WithoutAppend, Zenon DEF Due
<1> QED BY <1>2, LenProperties, Zenon

\* A buffer that the window reaches holds a block that was passed on; the others
\* hold a late block or none.
LEMMA HeldBlock ==
  ASSUME TypeOK, InWindow, NEW b, NEW k \in Nat, Holds(b, k)
  PROVE  /\ b \in ToSet(committed) \cup {Silent}
         /\ k < Len(Due) => b = Due[Len(Due) - k] /\ b \notin late /\ b # Silent
         /\ ~(k < Len(Due)) => b \in late \cup {Silent}
<1>1. Len(Due) \in Nat
  BY DueTyped, Zenon
<1>2. CASE k < Len(Due)
  <2>1. b = Due[Len(Due) - k] /\ Len(Due) - k \in 1 .. Len(Due)
    BY <1>1, <1>2 DEF Holds
  <2> QED BY <1>2, <2>1, Zenon DEF InWindow
<1>3. CASE ~(k < Len(Due))
  BY <1>3, Zenon DEF Holds, InWindow
<1> QED BY <1>2, <1>3, Zenon

\* A step that leaves the ring, the device's place in it and the histories alone.
LEMMA SameWindow ==
  ASSUME InWindow, UNCHANGED <<committed, heard, late>>,
         ac97'.buffers = ac97.buffers, ac97'.entry = ac97.entry,
         dev'.civ = dev.civ, dev'.playing = dev.playing
  PROVE  InWindow'
<1>1. Due' = Due /\ Without(heard, late)' = Without(heard, late)
  BY Zenon DEF Due, Without
<1>2. \A i : Behind(i)' = Behind(i)
  BY Zenon DEF Behind
<1>3. \A i : Holds(ac97.buffers[i], Behind(i))' <=> Holds(ac97.buffers[i], Behind(i))
  BY <1>1, <1>2, Zenon DEF Holds
<1>4. Holds(dev.playing, Behind(dev.civ))' <=> Holds(dev.playing, Behind(dev.civ))
  BY <1>1, <1>2, Zenon DEF Holds
<1>5. Behind(dev.civ)' = Behind(dev.civ)
  BY Zenon DEF Behind
<1> QED BY <1>1, <1>3, <1>4, <1>5, Zenon DEF InWindow

LEMMA PlayWindow ==
  ASSUME IInv, InWindow, Play
  PROVE  InWindow'
<1> DEFINE e == ac97.entry
           k == Behind(dev.civ)
           b == dev.playing
           h == Without(heard, late)
           D == Due
<1>1. TypeOK /\ RingInStep
  BY Zenon DEF IInv
<1>2. dev.civ \in Idx /\ e \in Idx /\ After(dev.civ) \in Idx /\ heard \in Seq(Block) /\ b \in Block
  BY <1>1, RingSteps, Zenon DEF TypeOK
<1>3. /\ dev'.civ = After(dev.civ) /\ dev'.playing = ac97.buffers[After(dev.civ)]
      /\ dev.civ # dev.lvi
      /\ heard' = IF b = Silent THEN heard ELSE Append(heard, b)
      /\ UNCHANGED <<ac97, committed, late>>
  BY <1>1, <1>2, RingSteps, Zenon DEF Play, TypeOK
<1>4. Due' = D /\ (\A i : Behind(i)' = Behind(i)) /\ k \in Nat
  BY <1>2, <1>3, BehindSteps, Zenon DEF Due, Behind
<1>5. \A c, j : Holds(c, j) <=> IF j < Len(D) THEN c = D[Len(D) - j] ELSE c \in late \cup {Silent}
  BY Zenon DEF Holds
<1>6. D \in Seq(Block) /\ h \in Seq(Block) /\ Len(D) \in Nat
  BY <1>1, DueTyped, Zenon
<1>7. /\ b \in late \cup {Silent} => Without(heard', late) = h
      /\ b \notin late \cup {Silent} => Without(heard', late) = Append(h, b)
  <2>1. CASE b = Silent
    BY <1>3, <2>1, Zenon
  <2>2. CASE b # Silent
    <3>1. heard' = Append(heard, b)
      BY <1>3, <2>2, Zenon
    <3>2. /\ b \in late => Without(Append(heard, b), late) = h
          /\ b \notin late => Without(Append(heard, b), late) = Append(h, b)
      <4>1. \A s \in Seq(Block), x \in Block :
              /\ x \in late => Without(Append(s, x), late) = Without(s, late)
              /\ x \notin late => Without(Append(s, x), late) = Append(Without(s, late), x)
        BY WithoutAppend
      <4> QED BY <1>2, <4>1, Zenon
    <3> QED BY <2>2, <3>1, <3>2, Zenon
  <2> QED BY <2>1, <2>2, Zenon
<1>8. b \in ToSet(committed) \cup {Silent}
  <2>1. CASE D = <<>>
    BY <2>1, Zenon DEF InWindow
  <2>2. CASE D # <<>>
    <3>1. Holds(b, k)
      BY <2>2, Zenon DEF InWindow
    <3> QED BY <1>1, <1>4, <3>1, HeldBlock, Zenon
  <2> QED BY <2>1, <2>2, Zenon
<1>9. ToSet(heard') \subseteq ToSet(committed)
  <2>1. ToSet(heard) \subseteq ToSet(committed)
    BY Zenon DEF InWindow
  <2>2. ToSet(heard') \subseteq ToSet(heard) \cup {b}
    BY <1>2, <1>3 DEF ToSet
  <2>3. b = Silent => heard' = heard
    BY <1>3, Zenon
  <2> QED BY <1>8, <2>1, <2>2, <2>3, Zenon
<1>10. ASSUME D = <<>>
       PROVE  dev'.playing \in late \cup {Silent} /\ Without(heard', late) = <<>>
  <2>1. /\ Holds(ac97.buffers[After(dev.civ)], Behind(After(dev.civ)))
        /\ Behind(After(dev.civ)) \in Nat
    BY <1>2, BehindSteps, Zenon DEF InWindow
  <2>2. ~(Behind(After(dev.civ)) < Len(D))
    BY <1>10, <2>1
  <2>3. b \in late \cup {Silent} /\ h = <<>>
    BY <1>10, Zenon DEF InWindow
  <2> QED BY <1>3, <1>7, <2>1, <2>2, <2>3, Zenon DEF Holds
<1>11. ASSUME D # <<>>
       PROVE  /\ committed # <<>> /\ Last(committed) \notin late
              /\ Holds(dev'.playing, k - 1)
              /\ Behind(After(dev.civ)) = k - 1
              /\ Without(heard', late) = SubSeq(D, 1, Len(D) - (k - 1) - 1)
  <2>1. /\ committed # <<>> /\ Last(committed) \notin late /\ Holds(b, k)
        /\ h = SubSeq(D, 1, Len(D) - k - 1)
    BY <1>11, Zenon DEF InWindow
  <2>2. Behind(After(dev.civ)) = k - 1
    BY <1>1, <1>2, <2>1, BehindSteps, Zenon DEF RingInStep
  <2>3. Holds(dev'.playing, k - 1)
    <3>1. Holds(ac97.buffers[After(dev.civ)], Behind(After(dev.civ)))
      BY <1>2, Zenon DEF InWindow
    <3> QED BY <1>3, <2>2, <3>1, Zenon
  <2>4. Without(heard', late) = SubSeq(D, 1, Len(D) - k)
    <3>1. CASE k < Len(D)
      <4>1. b = D[Len(D) - k] /\ b \notin late \cup {Silent}
        BY <1>1, <1>4, <2>1, <3>1, HeldBlock, Zenon
      <4>2. Without(heard', late) = Append(SubSeq(D, 1, Len(D) - k - 1), D[Len(D) - k])
        <5> HIDE DEF h, b, D, k
        <5> QED BY <1>7, <2>1, <4>1, Zenon
      <4> DEFINE m == Len(D) - k
      <4>3. m \in 1 .. Len(D) /\ Len(D) - k - 1 = m - 1
        BY <1>4, <1>6, <3>1
      <4> HIDE DEF m, D, k
      <4>4. Append(SubSeq(D, 1, m - 1), D[m]) = SubSeq(D, 1, m)
        BY <1>6, <4>3
      <4> QED BY <4>2, <4>3, <4>4, Zenon DEF m
    <3>2. CASE ~(k < Len(D))
      <4>1. b \in late \cup {Silent}
        BY <1>1, <1>4, <2>1, <3>2, HeldBlock, Zenon
      <4>2. Without(heard', late) = SubSeq(D, 1, Len(D) - k - 1)
        BY <1>7, <2>1, <4>1, Zenon
      <4>3. SubSeq(D, 1, Len(D) - k - 1) = <<>> /\ SubSeq(D, 1, Len(D) - k) = <<>>
        <5> HIDE DEF D, k
        <5>1. \A m \in Int : m < 1 => SubSeq(D, 1, m) = <<>>
          BY SubSeqEmpty
        <5>2. Len(D) - k \in Int /\ Len(D) - k < 1 /\ Len(D) - k - 1 \in Int /\ Len(D) - k - 1 < 1
          BY <1>4, <1>6, <3>2
        <5> QED BY <5>1, <5>2, Zenon
      <4> HIDE DEF D, k
      <4> QED BY <4>2, <4>3, Zenon
    <3> QED BY <3>1, <3>2, Zenon
  <2>5. Len(D) - (k - 1) - 1 = Len(D) - k
    BY <1>4, <1>6
  <2> QED BY <2>1, <2>2, <2>3, <2>4, <2>5, Zenon
<1> HIDE DEF h, D, k, b
<1>12. Behind(dev.civ)' = Behind(After(dev.civ))
  BY <1>3, Zenon DEF Behind
<1>13. \A i \in Idx : Holds(ac97.buffers[i], Behind(i))'
  <2>1. \A i \in Idx : Holds(ac97.buffers[i], Behind(i))
    BY Zenon DEF InWindow
  <2> QED BY <1>3, <1>4, <2>1, Zenon DEF Holds, D
<1>14. D # <<>> => Holds(dev.playing, Behind(dev.civ))'
  BY <1>3, <1>4, <1>11, <1>12, Zenon DEF Holds, D
<1>15. /\ \A c \in ToSet(committed) : c # Silent
       /\ late \cup ToSet(heard') \subseteq ToSet(committed)
       /\ \A j \in 1 .. Len(D) : D[j] \in ToSet(committed) /\ D[j] \notin late
  BY <1>9, Zenon DEF InWindow, D
<1> QED BY <1>3, <1>4, <1>10, <1>11, <1>12, <1>13, <1>14, <1>15, Zenon DEF InWindow

\* A block with a byte in it that was not passed on before is a new one.
LEMMA NewBlock ==
  ASSUME TypeOK, BytesOnce, InWindow, op.pc = "ac97_write_buffer"
  PROVE  ac97.temp # Silent /\ ac97.temp \notin ToSet(committed) /\ ac97.temp \notin late
<1>1. ac97.temp \in Block /\ Len(ac97.temp) > 0 /\ committed \in Seq(Block)
  BY Zenon DEF TypeOK, BytesOnce
<1>2. ac97.temp[1] \in ToSet(ac97.temp)
  BY <1>1 DEF ToSet, Block
<1>3. ac97.temp # Silent
  BY <1>1 DEF Silent
<1>4. ac97.temp \notin ToSet(committed)
  <2> SUFFICES ASSUME NEW i \in 1 .. Len(committed), ac97.temp = committed[i] PROVE FALSE
    BY <1>1, LenProperties, Zenon DEF ToSet
  <2>1. ac97.temp[1] \in Passed
    BY <1>2, Zenon DEF Passed
  <2> QED BY <1>2, <2>1, Zenon DEF BytesOnce
<1> QED BY <1>3, <1>4, Zenon DEF InWindow

\* A block is written where the device is: everything passed on is late.
LEMMA WriteBufferLate ==
  ASSUME TypeOK, TypeOK', InWindow, ac97_write_buffer, dev.civ = ac97.entry, ac97.temp # Silent
  PROVE  InWindow'
<1>1. /\ committed' = Append(committed, ac97.temp) /\ late' = ToSet(committed') /\ heard' = heard
      /\ committed \in Seq(Block) /\ ac97.temp \in Block
  BY Zenon DEF ac97_write_buffer, TypeOK
<1>2. dev'.playing = Silent
  BY Zenon DEF ac97_write_buffer, TypeOK
<1>3. ToSet(committed') = ToSet(committed) \cup {ac97.temp}
  BY <1>1 DEF ToSet
<1>4. committed' \in Seq(Block) /\ heard' \in Seq(Block)
  BY Zenon DEF TypeOK
<1>5. ToSet(heard') \subseteq late'
  BY <1>1, <1>3, Zenon DEF InWindow
<1>6. Due' = <<>> /\ Without(heard', late') = <<>>
  <2>1. \A s \in Seq(Block) : \A S : ToSet(s) \subseteq S => Without(s, S) = <<>>
    BY WithoutAll, Zenon
  <2>2. ToSet(committed') \subseteq late'
    BY <1>1, Zenon
  <2>3. Without(committed', late') = <<>> /\ Without(heard', late') = <<>>
    BY <1>4, <1>5, <2>1, <2>2, Zenon
  <2> QED BY <2>3, Zenon DEF Due
<1>7. \A i \in Idx : ac97'.buffers[i] \in late' \cup {Silent}
  <2> TAKE i \in Idx
  <2>1. ac97'.buffers[i] \in {ac97.buffers[i], ac97.temp}
    BY Zenon DEF ac97_write_buffer, TypeOK
  <2>2. ac97.buffers[i] \in ToSet(committed) \cup {Silent}
    <3>1. Holds(ac97.buffers[i], Behind(i)) /\ Behind(i) \in Nat
      BY BehindSteps, Zenon DEF InWindow, TypeOK
    <3> QED BY <3>1, HeldBlock, Zenon
  <2> QED BY <1>1, <1>3, <2>1, <2>2, Zenon
<1>8. \A i \in Idx : Holds(ac97.buffers[i], Behind(i))'
  <2>1. \A i \in Idx : Behind(i)' \in Nat
    <3>1. AC97_BUFFERS \in Nat /\ ac97'.entry \in Idx
      BY Ac97Assumption, Zenon DEF TypeOK
    <3> QED BY <3>1 DEF Behind, Idx
  <2>2. Len(Due') = 0
    BY <1>6, Zenon
  <2>3. \A i \in Idx : ~(Behind(i)' < Len(Due'))
    BY <2>1, <2>2
  <2> QED BY <1>7, <2>3, Zenon DEF Holds
<1>9. \A b \in ToSet(committed') : b # Silent
  BY <1>3, Zenon DEF InWindow
<1>10. \A j \in 1 .. Len(Due') : FALSE
  BY <1>6
<1> QED BY <1>1, <1>2, <1>5, <1>6, <1>8, <1>9, <1>10, Zenon DEF InWindow

\* A block is written elsewhere: the window has one block more.
LEMMA WriteBufferDue ==
  ASSUME TypeOK, InWindow, ac97_write_buffer, dev.civ # ac97.entry,
         ac97.temp # Silent, ac97.temp \notin late
  PROVE  InWindow'
<1> DEFINE e == ac97.entry
           t == ac97.temp
           D == Due
           h == Without(heard, late)
           k == Behind(dev.civ)
<1>1. /\ committed' = Append(committed, t) /\ late' = late /\ heard' = heard
      /\ committed \in Seq(Block) /\ t \in Block /\ e \in Idx /\ dev.civ \in Idx
  BY Zenon DEF ac97_write_buffer, TypeOK
<1>2. /\ dev'.civ = dev.civ /\ dev'.playing = dev.playing /\ ac97'.entry = After(e)
      /\ ac97'.buffers = [ac97.buffers EXCEPT ![e] = t] /\ ac97.buffers \in [Idx -> Block]
  BY <1>1, RingSteps, Zenon DEF ac97_write_buffer, TypeOK
<1>3. D \in Seq(Block) /\ Len(D) \in Nat
  BY DueTyped, Zenon
<1>4. Due' = Append(D, t)
  <2>1. Without(Append(committed, t), late) = Append(Without(committed, late), t)
    <3>1. \A s \in Seq(Block), x \in Block :
            x \notin late => Without(Append(s, x), late) = Append(Without(s, late), x)
      BY WithoutAppend
    <3> QED BY <1>1, <3>1, Zenon
  <2> QED BY <1>1, <2>1, Zenon DEF Due
<1>5. ToSet(committed') = ToSet(committed) \cup {t} /\ committed' # <<>> /\ Last(committed') = t
  BY <1>1, AppendProperties DEF ToSet, Last
<1>6. /\ \A i \in Idx : Behind(i) \in Nat
      /\ \A i \in Idx : i # e => Behind(i)' = Behind(i) + 1
      /\ \A i \in Idx : i = e => Behind(i)' = 0
  BY <1>1, <1>2, BehindSteps, Zenon
<1> HIDE DEF D, t, k, h, e
<1>7. /\ Len(Due') = Len(D) + 1 /\ Due'[Len(D) + 1] = t /\ Due' # <<>>
      /\ \A j \in 1 .. Len(D) : Due'[j] = D[j]
  BY <1>1, <1>3, <1>4, AppendProperties
<1>8. ASSUME NEW b, NEW j \in Nat, Holds(b, j)
      PROVE  IF j + 1 < Len(Due') THEN b = Due'[Len(Due') - (j + 1)] ELSE b \in late \cup {Silent}
  <2>1. CASE j < Len(D)
    <3>1. Len(D) - j \in 1 .. Len(D) /\ Len(Due') - (j + 1) = Len(D) - j /\ j + 1 < Len(Due')
      BY <1>3, <1>7, <2>1
    <3>2. b = D[Len(D) - j]
      BY <1>8, <2>1, Zenon DEF Holds, D
    <3> QED BY <1>7, <3>1, <3>2, Zenon
  <2>2. CASE ~(j < Len(D))
    <3>1. ~(j + 1 < Len(Due'))
      BY <1>3, <1>7, <2>2
    <3>2. b \in late \cup {Silent}
      BY <1>8, <2>2, Zenon DEF Holds, D
    <3> QED BY <3>1, <3>2, Zenon
  <2> QED BY <2>1, <2>2, Zenon
<1>9. ASSUME NEW i \in Idx
      PROVE  Holds(ac97.buffers[i], Behind(i))'
  <2>1. CASE i = e
    <3>1. ac97'.buffers[i] = t /\ Behind(i)' = 0
      BY <1>2, <1>6, <2>1, Zenon
    <3>2. 0 < Len(Due') /\ Due'[Len(Due') - 0] = t
      BY <1>3, <1>7
    <3> QED BY <3>1, <3>2, Zenon DEF Holds
  <2>2. CASE i # e
    <3>1. ac97'.buffers[i] = ac97.buffers[i] /\ Behind(i)' = Behind(i) + 1 /\ Behind(i) \in Nat
      BY <1>2, <1>6, <2>2, Zenon
    <3>2. Holds(ac97.buffers[i], Behind(i))
      BY Zenon DEF InWindow
    <3>3. IF Behind(i) + 1 < Len(Due') THEN ac97.buffers[i] = Due'[Len(Due') - (Behind(i) + 1)]
                                       ELSE ac97.buffers[i] \in late \cup {Silent}
      BY <1>8, <3>1, <3>2, Zenon
    <3> QED BY <1>1, <3>1, <3>3, Zenon DEF Holds
  <2> QED BY <2>1, <2>2, Zenon
<1>10. k \in Nat /\ Behind(dev.civ)' = k + 1
  BY <1>1, <1>2, <1>6, Zenon DEF k, e
<1>11. Holds(dev.playing, k)
  <2>1. CASE D = <<>>
    <3>1. ~(k < Len(Due)) /\ dev.playing \in late \cup {Silent}
      BY <1>10, <2>1 DEF InWindow, D
    <3> QED BY <3>1, Zenon DEF Holds
  <2>2. CASE D # <<>>
    BY <2>2, Zenon DEF InWindow, D, k
  <2> QED BY <2>1, <2>2, Zenon
<1>12. Holds(dev.playing, Behind(dev.civ))'
  <2>1. IF k + 1 < Len(Due') THEN dev.playing = Due'[Len(Due') - (k + 1)]
                             ELSE dev.playing \in late \cup {Silent}
    BY <1>8, <1>10, <1>11, Zenon
  <2> QED BY <1>1, <1>2, <1>10, <2>1, Zenon DEF Holds
<1>13. Without(heard', late') = SubSeq(Due', 1, Len(Due') - (k + 1) - 1)
  <2> DEFINE m == Len(D) - k - 1
  <2>1. m \in Int /\ m <= Len(D) /\ Len(Due') - (k + 1) - 1 = m
    BY <1>3, <1>7, <1>10
  <2>2. h = SubSeq(D, 1, m)
    <3>1. CASE D = <<>>
      <4>1. h = <<>>
        BY <3>1, Zenon DEF InWindow, D, h
      <4>2. m < 1
        BY <1>10, <3>1
      <4> HIDE DEF m
      <4> QED BY <2>1, <4>1, <4>2, SubSeqEmpty
    <3>2. CASE D # <<>>
      BY <3>2, Zenon DEF InWindow, D, h, k
    <3> QED BY <3>1, <3>2, Zenon
  <2> HIDE DEF m
  <2>3. SubSeq(D, 1, m) = SubSeq(Due', 1, m)
    <3>1. \A A \in Seq(Block) :
            (\A j \in 1 .. Len(D) : A[j] = D[j]) => SubSeq(D, 1, m) = SubSeq(A, 1, m)
      BY <1>3, <2>1
    <3>2. Due' \in Seq(Block)
      BY <1>1, <1>3, <1>4, AppendProperties, Zenon
    <3> QED BY <1>7, <3>1, <3>2, Zenon
  <2> QED BY <1>1, <2>1, <2>2, <2>3, Zenon DEF h
<1>14. \A j \in 1 .. Len(Due') : Due'[j] \in ToSet(committed') /\ Due'[j] \notin late
  <2> TAKE j \in 1 .. Len(Due')
  <2>1. CASE j \in 1 .. Len(D)
    <3>1. D[j] \in ToSet(committed) /\ D[j] \notin late
      BY <2>1, Zenon DEF InWindow, D
    <3> QED BY <1>5, <1>7, <2>1, <3>1, Zenon
  <2>2. CASE j = Len(D) + 1
    BY <1>5, <1>7, <2>2, Zenon DEF t
  <2> QED BY <1>3, <1>7, <2>1, <2>2
<1>15. /\ \A b \in ToSet(committed') : b # Silent
       /\ late' \cup ToSet(heard') \subseteq ToSet(committed')
  BY <1>1, <1>5, Zenon DEF InWindow, t
<1> QED BY <1>1, <1>5, <1>7, <1>9, <1>10, <1>12, <1>13, <1>14, <1>15, Zenon DEF InWindow, t

LEMMA InitWindow == Init => InWindow
<1> SUFFICES ASSUME Init PROVE InWindow
  BY Zenon
<1>1. committed = <<>> /\ heard = <<>> /\ late = {} /\ dev.playing = Silent /\ ac97.entry = 0
  BY Zenon DEF Init
<1>2. Due = <<>> /\ Without(heard, late) = <<>>
  BY <1>1, WithoutNone, Zenon DEF Due
<1>3. Len(Due) = 0 /\ ToSet(committed) = {} /\ ToSet(heard) = {}
  BY <1>1, <1>2 DEF ToSet
<1>4. \A i \in Idx : ac97.buffers[i] = Silent /\ Behind(i) \in Nat
  BY <1>1, BehindSteps, RingSteps, Zenon DEF Init
<1>5. \A i \in Idx : Holds(ac97.buffers[i], Behind(i))
  BY <1>3, <1>4 DEF Holds
<1> QED BY <1>1, <1>2, <1>3, <1>5 DEF InWindow

LEMMA StepWindow == IInv /\ IInv' /\ BytesOnce /\ InWindow /\ [Next]_vars => InWindow'
<1> SUFFICES ASSUME IInv, IInv', BytesOnce, InWindow, [Next]_vars PROVE InWindow'
  BY Zenon
<1>1. TypeOK /\ TypeOK'
  BY Zenon DEF IInv
<1> DEFINE Same == /\ UNCHANGED <<committed, heard, late>>
                   /\ ac97'.buffers = ac97.buffers /\ ac97'.entry = ac97.entry
                   /\ dev'.civ = dev.civ /\ dev'.playing = dev.playing
<1>2. CASE DeviceNotFound \/ ResetChannel \/ StartChannel \/ ClearReset
  <2>1. CASE DeviceNotFound
    BY <1>1, <2>1, SameWindow, Zenon DEF DeviceNotFound, TypeOK
  <2>2. CASE ResetChannel
    BY <1>1, <2>2, SameWindow, Zenon DEF ResetChannel, TypeOK
  <2>3. CASE StartChannel
    BY <1>1, <2>3, SameWindow, Zenon DEF StartChannel, TypeOK
  <2>4. CASE ClearReset
    BY <1>1, <2>4, SameWindow, Zenon DEF ClearReset, TypeOK
  <2> QED BY <1>2, <2>1, <2>2, <2>3, <2>4, Zenon
<1>3. CASE Play
  BY <1>3, PlayWindow, Zenon
<1>4. ASSUME NEW p \in Players, Fread(p) \/ Fwrite(p) PROVE InWindow'
  <2>1. Same
    BY <1>4, Zenon DEF Fread, Fwrite
  <2> QED BY <2>1, SameWindow, Zenon
<1>5. CASE _audio_writeFails \/ ac97_can_write \/ UNCHANGED vars
  <2>1. Same
    BY <1>5, Zenon DEF _audio_writeFails, ac97_can_write, vars
  <2> QED BY <2>1, SameWindow, Zenon
<1>6. CASE ac97_write_pcm
  <2>1. Same
    BY <1>1, <1>6, Zenon DEF ac97_write_pcm, TypeOK
  <2> QED BY <2>1, SameWindow, Zenon
<1>7. CASE NoBuffersLeft
  <2>1. Same
    BY <1>1, <1>7, Zenon DEF NoBuffersLeft, TypeOK
  <2> QED BY <2>1, SameWindow, Zenon
<1>8. CASE ac97_write_buffer
  <2>1. op.pc = "ac97_write_buffer"
    BY <1>8, Zenon DEF ac97_write_buffer
  <2> QED BY <1>1, <1>8, <2>1, NewBlock, WriteBufferLate, WriteBufferDue, Zenon
<1> QED BY <1>2, <1>3, <1>4, <1>5, <1>6, <1>7, <1>8, Zenon DEF Next

\* The device plays what ac97_write_buffer gave it in order and each block once,
\* but for the blocks up to the last one written into the very buffer the device
\* was in: no write overtakes the device, and the device overtakes no write.
THEOREM PlayedInOrder == Spec => []HeardInOrder
<1>1. IInv /\ InWindow => HeardInOrder
  <2> SUFFICES ASSUME IInv, InWindow PROVE HeardInOrder
    BY Zenon
  <2> DEFINE h == Without(heard, late)
             D == Due
             m == Len(D) - Behind(dev.civ) - 1
  <2>1. TypeOK /\ dev.civ \in Idx /\ ac97.entry \in Idx
    BY Zenon DEF IInv, TypeOK
  <2>2. D \in Seq(Block) /\ Len(D) \in Nat /\ Behind(dev.civ) \in Nat
    BY <2>1, DueTyped, BehindSteps, Zenon
  <2>3. h = <<>> \/ h = SubSeq(D, 1, m)
    BY Zenon DEF InWindow
  <2>4. m \in Int /\ m <= Len(D)
    BY <2>2
  <2> HIDE DEF h, D, m
  <2>5. IsPrefix(h, D)
    <3>1. CASE h = <<>>
      BY <2>2, <3>1 DEF IsPrefix
    <3>2. CASE h = SubSeq(D, 1, m)
      BY <2>2, <2>4, <3>2 DEF IsPrefix
    <3> QED BY <2>3, <3>1, <3>2, Zenon
  <2> QED BY <2>5, Zenon DEF HeardInOrder, h, D, Due
<1> QED BY <1>1, Invariance, InitBytes, StepBytes, InitWindow, StepWindow, PTL DEF Spec
=============================================================================
