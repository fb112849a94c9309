----------------------------- MODULE VfsProofs ------------------------------
(***************************************************************************)
(* The descriptor table, tarfs_read and the keyboard, for any number of    *)
(* processes, files, structures and descriptors.                           *)
(***************************************************************************)
EXTENDS Vfs, TLAPS

-----------------------------------------------------------------------------
(* Induction over the naturals, stated with sets: the provers cannot       *)
(* instantiate the library's theorems, whose parameter is an operator.     *)

LOCAL INSTANCE WellFoundedInduction

\* A set of naturals that is not empty has a least member.
LEMMA LeastNatural ==
  ASSUME NEW T \in SUBSET Nat, T # {}
  PROVE  \E n \in T : \A k \in T : n <= k
<1> DEFINE R == OpToRel(<, Nat)
<1>1. IsWellFoundedOn(R, Nat)
  BY NatLessThanWellFounded, Zenon
<1>2. \A x, y \in Nat : x < y => <<x, y>> \in R
  BY DEF OpToRel
<1> HIDE DEF R
<1>3. PICK n \in T : \A k \in T : ~(<<k, n>> \in R)
  BY <1>1, WFMin, Zenon
<1>4. \A k \in T : ~(k < n)
  BY <1>2, <1>3, Zenon
<1> QED BY <1>3, <1>4

-----------------------------------------------------------------------------
\* The solver is given more time when it is slow to answer.
USE SMTT(10), SMTT(20), SMTT(40)

\* _vfs_get_fd answers -1 exactly when no slot is free, and a free slot otherwise.
LEMMA FreeSlot ==
  ASSUME NEW files
  PROVE  LET fd == _vfs_get_fd(files)
         IN  \/ fd = -1 /\ \A i \in Fds : files[i] # NULL
             \/ fd \in Fds /\ files[fd] = NULL
<1> DEFINE free == {i \in Fds : files[i] = NULL}
<1>1. Fds \subseteq Nat
  BY VfsAssumption DEF Fds
<1>2. CASE free = {}
  BY <1>2 DEF _vfs_get_fd
<1>3. CASE free # {}
  <2>1. \E i \in free : \A j \in free : i <= j
    BY <1>1, <1>3, LeastNatural, Zenon
  <2>2. _vfs_get_fd(files) \in free
    BY <1>3, <2>1 DEF _vfs_get_fd
  <2> QED BY <2>2
<1> QED BY <1>2, <1>3

\* A conversion to int stays in its range, one to size_t is a natural.
LEMMA Conversions ==
  /\ \A x \in Int : ToInt(x) \in -(2 ^ (IntBits - 1)) .. 2 ^ (IntBits - 1) - 1
  /\ \A x \in Int : ToSize(x) \in Nat
  /\ \A x \in Nat : ToSize(x) <= x
<1> DEFINE H == 2 ^ (IntBits - 1)
           W == 2 ^ SizeBits
<1>1. H \in Nat \ {0} /\ W \in Nat \ {0} /\ 2 ^ IntBits = 2 * H
  BY WidthAssumption
<1> HIDE DEF H, W
<1>2. \A x \in Int : ToInt(x) \in -H .. H - 1
  <2> SUFFICES ASSUME NEW x \in Int PROVE ToInt(x) \in -H .. H - 1
    OBVIOUS
  <2> DEFINE y == x % (2 * H)
  <2>1. y \in 0 .. 2 * H - 1
    BY <1>1
  <2>2. ToInt(x) = IF y >= H THEN y - 2 * H ELSE y
    BY <1>1 DEF ToInt, H
  <2> HIDE DEF y
  <2> QED BY <1>1, <2>1, <2>2
<1>3. \A x \in Int : x % W \in Nat
  BY <1>1
<1>4. \A x \in Nat : x % W <= x
  BY <1>1
<1> QED BY <1>2, <1>3, <1>4 DEF ToSize, H, W

-----------------------------------------------------------------------------
LEMMA InitHolds == Init => IInv
<1> SUFFICES ASSUME Init PROVE IInv
  OBVIOUS
<1> USE VfsAssumption, WidthAssumption DEF Init
<1>1. TypeOK
  <2>1. seek_pos \in [TarFiles -> -(2 ^ (IntBits - 1)) .. 2 ^ (IntBits - 1) - 1]
    OBVIOUS
  <2>2. text \in [Procs -> [Buffers -> Paths]]
    BY DEF Paths
  <2> QED BY <2>1, <2>2, Zenon DEF TypeOK
<1>2. SlotsMatch /\ NoFileLost
  BY DEF SlotsMatch, NoFileLost, Fds
<1> QED BY <1>1, <1>2 DEF IInv, TableRight, ReadInside, FullBufferEndsAProgram

\* What a step that keeps the table, and the structures, must still show.
LEMMA SameTable ==
  ASSUME IInv, UNCHANGED table, TypeOK', ReadInside', FullBufferEndsAProgram'
  PROVE  IInv'
BY DEF IInv, TableRight, SlotsMatch, NoFileLost, table

\* Programs only end, and only the handler stores a key.
LEMMA NoKeyStored ==
  ASSUME TypeOK, FullBufferEndsAProgram, live' \subseteq live, halted' = halted,
         input_buffer_index' \in Nat, input_buffer_index' <= input_buffer_index
  PROVE  FullBufferEndsAProgram'
<1>1. input_buffer_index' >= KB_BUFFER_SIZE => input_buffer_index >= KB_BUFFER_SIZE
  BY VfsAssumption DEF TypeOK
<1>2. live' = Procs => live = Procs
  <2>1. live \subseteq Procs
    BY Zenon DEF TypeOK
  <2> QED BY <2>1, Zenon
<1> QED BY <1>1, <1>2, Zenon DEF FullBufferEndsAProgram

LEMMA KeysKept ==
  ASSUME TypeOK, FullBufferEndsAProgram, live' \subseteq live, UNCHANGED keyboard
  PROVE  FullBufferEndsAProgram'
<1>1. halted' = halted /\ input_buffer_index' = input_buffer_index /\ input_buffer_index \in Nat
  BY Zenon DEF keyboard, TypeOK
<1>2. input_buffer_index' \in Nat /\ input_buffer_index' <= input_buffer_index
  BY <1>1
<1> QED BY <1>1, <1>2, NoKeyStored, Zenon

LEMMA OpenHolds ==
  ASSUME IInv, NEW p \in Procs, NEW b \in Buffers, NEW o \in Objects, syscall_open(p, b, o)
  PROVE  IInv'
<1> DEFINE path == text[p][b]
           fd   == _vfs_get_fd(open_files)
           new  == [id |-> fd, loc |-> b, fs |-> path[1]]
           known == path[2] # Missing
<1>1. TypeOK /\ SlotsMatch /\ NoFileLost /\ ReadInside /\ FullBufferEndsAProgram
  BY DEF IInv, TableRight
<1>2. file[o] = NULL /\ UNCHANGED <<keyboard, seek_pos, copied>>
  BY DEF syscall_open
<1>3. \/ fd = -1 /\ \A i \in Fds : open_files[i] # NULL
      \/ fd \in Fds /\ open_files[fd] = NULL
  BY FreeSlot
<1>4. live' \subseteq live /\ text' \in [Procs -> [Buffers -> Paths]]
  BY <1>1 DEF syscall_open, TypeOK, Dies, memory
<1>5. ReadInside' /\ FullBufferEndsAProgram'
  BY <1>1, <1>2, <1>4, KeysKept, Zenon DEF ReadInside
<1>6. path \in Paths /\ o \notin lost
  BY <1>1, <1>2 DEF TypeOK, IInv
<1>7. known => path[1] \in {"/init/", "/dev/"}
  BY <1>6 DEF Paths
<1>8. CASE UNCHANGED table
  <2>1. TypeOK'
    BY <1>1, <1>2, <1>4, <1>8 DEF TypeOK, table, keyboard
  <2> QED BY <1>5, <1>8, <2>1, SameTable
<1>9. ASSUME NEW r \in Structures, file' = [file EXCEPT ![o] = r], lost' = lost \cup {o},
             open_files' = open_files, before' \in Objects \cup {NULL}
      PROVE  IInv'
  <2>1. TypeOK'
    BY <1>1, <1>2, <1>4, <1>9 DEF TypeOK, keyboard
  <2>2. r # NULL /\ \A x \in Objects : file'[x] = IF x = o THEN r ELSE file[x]
    BY <1>1, <1>9, VfsAssumption DEF TypeOK
  <2>3. \A i \in DOMAIN open_files : open_files[i] # NULL => open_files[i] \in Objects \ {o}
    BY <1>1, <1>2 DEF TypeOK, SlotsMatch
  <2>4. SlotsMatch'
    BY <1>1, <1>9, <2>2, <2>3 DEF SlotsMatch, TypeOK
  <2>5. NoFileLost'
    BY <1>1, <1>2, <1>9, <2>2 DEF NoFileLost, TypeOK
  <2> QED BY <1>5, <1>9, <2>1, <2>2, <2>4, <2>5 DEF IInv, TableRight, TypeOK
<1>10. ASSUME known, fd # -1, file' = [file EXCEPT ![o] = new],
              open_files' = [open_files EXCEPT ![fd] = o], UNCHANGED <<before, lost, memory>>
       PROVE  IInv'
  <2>1. fd \in Fds /\ open_files[fd] = NULL /\ new \in Structures /\ new # NULL /\ new.id = fd
    BY <1>3, <1>7, <1>10, VfsAssumption DEF Structures
  <2> HIDE DEF new, fd
  <2>2. Fds \subseteq DOMAIN open_files
    BY <1>1, VfsAssumption DEF TypeOK, Fds
  <2>3. TypeOK'
    BY <1>1, <1>2, <1>4, <1>10, <2>1, <2>2 DEF TypeOK, keyboard
  <2>4. /\ \A x \in Objects : file'[x] = IF x = o THEN new ELSE file[x]
        /\ \A i \in DOMAIN open_files : open_files'[i] = IF i = fd THEN o ELSE open_files[i]
        /\ DOMAIN open_files' = DOMAIN open_files /\ o # NULL
    BY <1>1, <1>10, <2>2, VfsAssumption DEF TypeOK
  <2>5. \A i \in DOMAIN open_files : open_files[i] # NULL => open_files[i] \in Objects \ {o}
    BY <1>1, <1>2 DEF TypeOK, SlotsMatch
  <2>6. SlotsMatch'
    BY <1>1, <2>1, <2>4, <2>5 DEF SlotsMatch
  <2>7. NoFileLost'
    <3>1. {x \in Objects : file'[x] # NULL} = {x \in Objects : file[x] # NULL} \cup {o}
      BY <2>1, <2>4
    <3>2. {open_files'[i] : i \in Fds} \ {NULL} = ({open_files[i] : i \in Fds} \ {NULL}) \cup {o}
      BY <2>1, <2>2, <2>4
    <3> QED BY <1>1, <1>6, <1>10, <3>1, <3>2 DEF NoFileLost
  <2>8. \A x \in lost' : file'[x] # NULL
    BY <1>1, <1>6, <1>10, <2>4 DEF IInv, TypeOK
  <2> QED BY <1>5, <2>3, <2>6, <2>7, <2>8 DEF IInv, TableRight, TypeOK
<1>11. CASE /\ path[1] = "/init/" /\ ~known /\ Dies(p)
            /\ file' = [file EXCEPT ![o] = [id |-> 0, loc |-> b, fs |-> "none"]]
            /\ lost' = lost \cup {o}
            /\ UNCHANGED <<open_files, before>>
  <2>1. [id |-> 0, loc |-> b, fs |-> "none"] \in Structures
    BY DEF Structures
  <2> QED BY <1>1, <1>9, <1>11, <2>1, Zenon DEF TypeOK
<1>12. CASE /\ known /\ fd = -1
            /\ file' = [file EXCEPT ![o] = new]
            /\ before' = o
            /\ lost' = lost \cup {o}
            /\ UNCHANGED <<open_files, memory>>
  <2>1. new \in Structures
    BY <1>7, <1>12 DEF Structures
  <2> QED BY <1>9, <1>12, <2>1, Zenon
<1> QED BY <1>8, <1>10, <1>11, <1>12 DEF syscall_open

LEMMA CloseHolds ==
  ASSUME IInv, NEW p \in Procs, NEW fd \in DOMAIN open_files, syscall_close(p, fd)
  PROVE  IInv'
<1> DEFINE o == open_files[fd]
<1>1. TypeOK /\ SlotsMatch /\ NoFileLost /\ ReadInside /\ FullBufferEndsAProgram
  BY DEF IInv, TableRight
<1>2. /\ o # NULL /\ open_files' = [open_files EXCEPT ![file[o].id] = NULL]
      /\ file' = [file EXCEPT ![o] = NULL]
      /\ UNCHANGED <<before, lost, seek_pos, memory, keyboard, copied>>
  BY DEF syscall_close, vfs_get_from_fd
<1>3. o \in Objects /\ file[o].id = fd /\ fd \in Fds
  BY <1>1, <1>2 DEF TypeOK, SlotsMatch
<1> HIDE DEF o
<1>4. TypeOK'
  BY <1>1, <1>2, <1>3 DEF TypeOK, memory, keyboard
<1>5. /\ \A x \in Objects : file'[x] = IF x = o THEN NULL ELSE file[x]
      /\ \A i \in DOMAIN open_files : open_files'[i] = IF i = fd THEN NULL ELSE open_files[i]
      /\ DOMAIN open_files' = DOMAIN open_files
  BY <1>1, <1>2, <1>3 DEF TypeOK
<1>6. \A i \in DOMAIN open_files : open_files[i] # NULL /\ i # fd => open_files[i] \in Objects \ {o}
  BY <1>1, <1>3 DEF TypeOK, SlotsMatch
<1>7. SlotsMatch'
  BY <1>1, <1>5, <1>6 DEF SlotsMatch
<1>8. o \notin lost
  BY <1>1, <1>2, <1>3 DEF NoFileLost, o
<1>9. NoFileLost'
  <2>1. {x \in Objects : file'[x] # NULL} = {x \in Objects : file[x] # NULL} \ {o}
    BY <1>3, <1>5
  <2>2. Fds \subseteq DOMAIN open_files
    BY <1>1, VfsAssumption DEF TypeOK, Fds
  <2>3. {open_files'[i] : i \in Fds} \ {NULL} = ({open_files[i] : i \in Fds} \ {NULL}) \ {o}
    BY <1>3, <1>5, <1>6, <2>2 DEF o
  <2> QED BY <1>1, <1>2, <2>1, <2>3 DEF NoFileLost
<1>10. live' \subseteq live /\ ReadInside'
  BY <1>1, <1>2, Zenon DEF memory, ReadInside
<1>11. FullBufferEndsAProgram'
  BY <1>1, <1>2, <1>10, KeysKept, Zenon
<1> QED BY <1>1, <1>2, <1>4, <1>5, <1>7, <1>8, <1>9, <1>10, <1>11 DEF IInv, TableRight, TypeOK

\* tarfs_read moves the position inside an int, and copies from inside the file.
LEMMA ReadBounded ==
  ASSUME TypeOK, NEW f \in TarFiles, NEW sz \in Sizes, tarfs_read(f, sz), ReadInside
  PROVE  ReadInside' /\ seek_pos' \in [TarFiles -> -(2 ^ (IntBits - 1)) .. 2 ^ (IntBits - 1) - 1]
<1> DEFINE from == ToSize(seek_pos[f])
           left == ToSize(FileSize[f] - from)
           n    == Smaller(left, sz)
<1>1. seek_pos[f] \in Int /\ FileSize[f] \in Nat /\ sz \in Nat
  BY VfsAssumption, WidthAssumption DEF TypeOK
<1>2. from \in Nat
  BY <1>1, Conversions
<1>3. from <= FileSize[f] => left \in Nat /\ left <= FileSize[f] - from
  BY <1>1, <1>2, Conversions
<1>4. from <= FileSize[f] => n \in Nat /\ from + n <= FileSize[f]
  BY <1>1, <1>2, <1>3 DEF Smaller
<1>5. CASE UNCHANGED <<seek_pos, copied>>
  BY <1>5 DEF TypeOK, ReadInside
<1>6. CASE /\ from <= FileSize[f]
           /\ seek_pos' = [seek_pos EXCEPT ![f] = ToInt(@ + n)]
           /\ copied' = <<f, from, n>>
  <2>1. ToInt(seek_pos[f] + n) \in -(2 ^ (IntBits - 1)) .. 2 ^ (IntBits - 1) - 1
    BY <1>1, <1>4, <1>6, Conversions
  <2> HIDE DEF n, from
  <2> QED BY <1>4, <1>6, <2>1 DEF TypeOK, ReadInside
<1> QED BY <1>1, <1>2, <1>5, <1>6 DEF tarfs_read

LEMMA ReadHolds ==
  ASSUME IInv, NEW p \in Procs, NEW fd \in DOMAIN open_files, NEW sz \in Sizes,
         syscall_read(p, fd, sz)
  PROVE  IInv'
<1>1. TypeOK /\ ReadInside /\ FullBufferEndsAProgram /\ UNCHANGED <<table, halted>>
  BY DEF IInv, TableRight, syscall_read
<1>2. sz \in Nat /\ input_buffer_index \in Nat /\ KB_BUFFER_SIZE \in Nat
  BY <1>1, VfsAssumption DEF TypeOK
<1>3. live' \subseteq live /\ text' \in [Procs -> [Buffers -> Paths]]
  BY <1>1 DEF syscall_read, TypeOK, Dies, memory
<1>4. input_buffer_index' \in Nat /\ input_buffer_index' <= input_buffer_index
  BY <1>2 DEF syscall_read, _keyboard_read, Smaller
<1>5. ReadInside' /\ seek_pos' \in [TarFiles -> -(2 ^ (IntBits - 1)) .. 2 ^ (IntBits - 1) - 1]
  <2>1. CASE UNCHANGED <<seek_pos, copied>>
    BY <1>1, <2>1 DEF TypeOK, ReadInside
  <2>2. CASE \E f \in TarFiles : tarfs_read(f, sz)
    BY <1>1, <2>2, ReadBounded
  <2> QED BY <2>1, <2>2 DEF syscall_read
<1>6. TypeOK'
  BY <1>1, <1>3, <1>4, <1>5 DEF TypeOK, table
<1>7. FullBufferEndsAProgram'
  BY <1>1, <1>3, <1>4, NoKeyStored, Zenon
<1> QED BY <1>1, <1>5, <1>6, <1>7, SameTable

LEMMA SeekHolds ==
  ASSUME IInv, NEW p \in Procs, NEW fd \in DOMAIN open_files, NEW offset \in Offsets,
         syscall_seek(p, fd, offset)
  PROVE  IInv'
<1>1. TypeOK /\ ReadInside /\ FullBufferEndsAProgram /\ UNCHANGED <<table, keyboard, copied>>
  BY DEF IInv, TableRight, syscall_seek
<1>2. ToInt(offset) \in -(2 ^ (IntBits - 1)) .. 2 ^ (IntBits - 1) - 1
  BY WidthAssumption, Conversions
<1>3. seek_pos' \in [TarFiles -> -(2 ^ (IntBits - 1)) .. 2 ^ (IntBits - 1) - 1]
  BY <1>1, <1>2 DEF syscall_seek, TypeOK
<1>4. live' \subseteq live /\ text' \in [Procs -> [Buffers -> Paths]]
  BY <1>1 DEF syscall_seek, TypeOK, Dies, memory
<1>5. TypeOK'
  BY <1>1, <1>3, <1>4 DEF TypeOK, table, keyboard
<1>6. FullBufferEndsAProgram' /\ ReadInside'
  BY <1>1, <1>4, KeysKept, Zenon DEF ReadInside
<1> QED BY <1>1, <1>5, <1>6, SameTable, Zenon

LEMMA KeyHolds ==
  ASSUME IInv, keyboard_handler
  PROVE  IInv'
<1>1. TypeOK /\ ReadInside /\ UNCHANGED <<table, seek_pos, copied>>
  BY DEF IInv, TableRight, keyboard_handler
<1>2. live' \subseteq live /\ text' \in [Procs -> [Buffers -> Paths]]
  BY <1>1 DEF keyboard_handler, TypeOK, Dies, memory
<1>3. halted' \in BOOLEAN /\ input_buffer_index' \in Nat
  <2>1. halted' \in BOOLEAN
    BY <1>1, Zenon DEF keyboard_handler, TypeOK
  <2>2. input_buffer_index \in Nat /\ input_buffer_index' = input_buffer_index + 1
    BY <1>1, Zenon DEF keyboard_handler, TypeOK
  <2> QED BY <2>1, <2>2
<1>4. TypeOK'
  BY <1>1, <1>2, <1>3 DEF TypeOK, table
<1>5. FullBufferEndsAProgram'
  <2>1. CASE input_buffer_index' < KB_BUFFER_SIZE
    BY <1>3, <2>1, VfsAssumption DEF FullBufferEndsAProgram
  <2>2. CASE \/ \E p \in live : Dies(p) /\ UNCHANGED halted
             \/ halted' = TRUE /\ UNCHANGED memory
    BY <1>1, <2>2 DEF FullBufferEndsAProgram, Dies, TypeOK
  <2> QED BY <2>1, <2>2, Zenon DEF keyboard_handler
<1> QED BY <1>1, <1>4, <1>5, SameTable DEF ReadInside

\* Programs that write a path or end, and steps that change nothing here.
LEMMA ProgramHolds ==
  ASSUME IInv, UNCHANGED <<table, keyboard, seek_pos, copied>>,
         live' \subseteq live, text' \in [Procs -> [Buffers -> Paths]]
  PROVE  IInv'
<1>1. TypeOK'
  BY DEF IInv, TableRight, TypeOK, table, keyboard
<1>2. FullBufferEndsAProgram' /\ ReadInside'
  BY KeysKept, Zenon DEF IInv, TableRight, ReadInside
<1> QED BY <1>1, <1>2, SameTable, Zenon DEF table

LEMMA StepHolds == IInv /\ [Next]_vars => IInv'
<1> SUFFICES ASSUME IInv, [Next]_vars PROVE IInv'
  OBVIOUS
<1>1. live \subseteq Procs /\ text \in [Procs -> [Buffers -> Paths]]
  BY DEF IInv, TableRight, TypeOK
<1>2. CASE UNCHANGED vars
  BY <1>1, <1>2, ProgramHolds DEF vars, table, keyboard
<1>3. ASSUME NEW p \in Procs, NEW b \in Buffers, NEW path \in Paths, Rewrites(p, b, path)
      PROVE  IInv'
  BY <1>1, <1>3, ProgramHolds DEF Rewrites
<1>4. ASSUME NEW p \in Procs, Exits(p)
      PROVE  IInv'
  BY <1>1, <1>4, ProgramHolds DEF Exits, Dies
<1> QED BY <1>2, <1>3, <1>4, OpenHolds, CloseHolds, ReadHolds, SeekHolds, KeyHolds DEF Next

\* The inductive invariant holds in every reachable state.
THEOREM Invariance == Spec => []IInv
<1> QED BY InitHolds, StepHolds, PTL DEF Spec

\* However many processes open, close and reuse descriptors of one table, slots
\* and structures stay matched in both directions (vfs_open, vfs_close).
THEOREM TableStaysRight == Spec => []TableRight
<1>1. IInv => TableRight
  BY DEF IInv
<1> QED BY <1>1, Invariance, PTL

\* tarfs_read copies nothing from behind a file, for every width of int and
\* size_t and every position left behind.
THEOREM ReadsStayInside == Spec => []ReadInside
<1>1. IInv => ReadInside
  BY DEF IInv
<1> QED BY <1>1, Invariance, PTL

\* A key goes behind input_buffer only after a full buffer has ended a program
\* (KB_PUSH, panic), for every size of the buffer and any number of programs.
THEOREM OverrunIsWarned == Spec => []FullBufferEndsAProgram
<1>1. IInv => FullBufferEndsAProgram
  BY DEF IInv
<1> QED BY <1>1, Invariance, PTL
=============================================================================
