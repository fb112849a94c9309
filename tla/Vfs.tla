-------------------------------- MODULE Vfs ---------------------------------
(***************************************************************************)
(* Files: the descriptor table in kernel/fs/vfs.c and vfs_sys.c, the file  *)
(* systems devfs.c and tarfs.c behind it, and the keyboard, which an       *)
(* interrupt fills and /dev/keyboard empties.                              *)
(*                                                                         *)
(* There is one table for all processes.  An open file keeps the caller's  *)
(* pointer to the path, not the path: every later call reads the name      *)
(* again, in the memory of whoever calls.  The position in a file of the   *)
(* archive belongs to the file, not to the descriptor.                     *)
(*                                                                         *)
(* System calls run with interrupts off (PreemptionDiscipline in module    *)
(* Switch), so each is one step; a panic in one ends the process there.    *)
(***************************************************************************)
EXTENDS Integers

CONSTANTS
  Procs, Buffers,             \* user processes; places where they keep a path
  TarFiles, Devices,          \* names in the archive and in devfs
  Keyboard,                   \* the device that reads keys
  FileSize,                   \* length of each file of the archive
  Objects,                    \* vfs_file_t structures (bound)
  VFS_FD_OFFSET, VFS_MAX_FILE_DESCRIPTORS,
  Sizes, Offsets,             \* arguments of read and seek
  IntBits, SizeBits,          \* widths of int and size_t
  KB_BUFFER_SIZE, NULL

Fds == VFS_FD_OFFSET .. VFS_MAX_FILE_DESCRIPTORS - 1
Missing == "missing"
Unmapped == "unmapped"

\* What a path buffer can hold: a name under a mount point, or it is not mapped.
Paths == {<<"/init/", n>> : n \in TarFiles \cup {Missing}}
         \cup {<<"/dev/", n>> : n \in Devices \cup {Missing}}
         \cup {<<"none", Missing>>, <<Unmapped, Missing>>}

\* A vfs_file_t: its descriptor, the caller's pointer to the path, the mount point.
Structures == [id : Fds \cup {-1, 0}, loc : Buffers, fs : {"/init/", "/dev/", "none"}]

ASSUME VfsAssumption ==
  /\ Keyboard \in Devices /\ Missing \notin TarFiles \cup Devices
  /\ FileSize \in [TarFiles -> Nat \ {0}] /\ Sizes \subseteq Nat
  /\ VFS_FD_OFFSET \in Nat \ {0} /\ VFS_MAX_FILE_DESCRIPTORS \in Nat
  /\ VFS_FD_OFFSET < VFS_MAX_FILE_DESCRIPTORS
  /\ NULL \notin Objects /\ NULL \notin Structures /\ KB_BUFFER_SIZE \in Nat \ {0}

\* An int is shorter than a size_t, and the length of a file fits one.
ASSUME WidthAssumption ==
  /\ {IntBits, SizeBits} \subseteq Nat \ {0} /\ IntBits < SizeBits
  /\ {2 ^ (IntBits - 1), 2 ^ SizeBits} \subseteq Nat \ {0}
  /\ 2 ^ IntBits = 2 * 2 ^ (IntBits - 1)
  /\ \A f \in TarFiles : FileSize[f] < 2 ^ (IntBits - 1)
  /\ Offsets \subseteq 0 .. 2 ^ SizeBits - 1

VARIABLES
  open_files,  \* the table
  before,      \* the word in front of open_files[0]
  file,        \* file[o]: a vfs_file_t, or NULL if o is not allocated
  seek_pos,    \* of each tarfs_file_t, an int
  text,        \* text[p][b]: the path in buffer b of process p
  live,        \* processes that have not ended
  input_buffer_index,  \* keys that wait; which keys is left out
  halted,      \* a panic while idle ran has stopped the machine
  lost,        \* structures no descriptor leads to
  copied       \* the last memcpy of tarfs_read: <<file, from, length>>

vars == <<open_files, before, file, seek_pos, text, live, input_buffer_index,
          halted, lost, copied>>
table == <<open_files, before, file, lost>>
keyboard == <<input_buffer_index, halted>>
memory == <<text, live>>

-----------------------------------------------------------------------------
(* Conversions. *)

ToInt(x) == LET y == x % 2 ^ IntBits
            IN IF y >= 2 ^ (IntBits - 1) THEN y - 2 ^ IntBits ELSE y

ToSize(i) == i % 2 ^ SizeBits

Smaller(a, b) == IF a < b THEN a ELSE b

-----------------------------------------------------------------------------
\* A key was stored behind input_buffer, over another variable of the kernel:
\* what follows is undefined, and the model ends there.
Overrun == input_buffer_index > KB_BUFFER_SIZE

Runs(p) == p \in live /\ ~halted /\ ~Overrun

\* panic ends the calling process.
Dies(p) == live' = live \ {p} /\ UNCHANGED text

\* vfs_get_from_fd.
vfs_get_from_fd(fd) == IF fd \in DOMAIN open_files THEN open_files[fd] ELSE NULL

\* The name file o has now for process p: its path is read through the pointer
\* and cut behind the mount point it was opened under.
NameOf(p, o) ==
  LET t == text[p][file[o].loc] IN IF t[1] = file[o].fs THEN t[2] ELSE Missing

Faults(p, o) == text[p][file[o].loc][1] = Unmapped

\* _vfs_get_fd: the lowest slot that is free, -1 if there is none.
_vfs_get_fd(files) ==
  LET free == {i \in Fds : files[i] = NULL}
  IN IF free = {} THEN -1 ELSE CHOOSE i \in free : \A j \in free : i <= j

(***************************************************************************)
(* syscall_open.  devfs_exists answers; tarfs_exists panics for a name     *)
(* that is not in the archive, after the structure was allocated.  With    *)
(* no slot left the structure is stored in front of the table and -1 is    *)
(* returned.                                                               *)
(***************************************************************************)
syscall_open(p, b, o) ==
  LET path == text[p][b]
      fd   == _vfs_get_fd(open_files)
      new  == [id |-> fd, loc |-> b, fs |-> path[1]]
      known == path[2] # Missing
  IN /\ Runs(p) /\ file[o] = NULL
     /\ \/ path[1] = Unmapped /\ Dies(p) /\ UNCHANGED table
        \/ path[1] = "none" /\ UNCHANGED <<table, memory>>
        \/ path[1] = "/dev/" /\ ~known /\ UNCHANGED <<table, memory>>
        \/ /\ path[1] = "/init/" /\ ~known /\ Dies(p)
           /\ file' = [file EXCEPT ![o] = [id |-> 0, loc |-> b, fs |-> "none"]]
           /\ lost' = lost \cup {o}
           /\ UNCHANGED <<open_files, before>>
        \/ /\ known /\ fd # -1
           /\ file' = [file EXCEPT ![o] = new]
           /\ open_files' = [open_files EXCEPT ![fd] = o]
           /\ UNCHANGED <<before, lost, memory>>
        \/ /\ known /\ fd = -1
           /\ file' = [file EXCEPT ![o] = new]
           /\ before' = o
           /\ lost' = lost \cup {o}
           /\ UNCHANGED <<open_files, memory>>
     /\ UNCHANGED <<keyboard, seek_pos, copied>>

\* Mutant: the slot that is cleared is not the file's.
syscall_closeFirst(p, fd) ==
  LET o == vfs_get_from_fd(fd)
  IN /\ Runs(p) /\ o # NULL
     /\ open_files' = [open_files EXCEPT ![VFS_FD_OFFSET] = NULL]
     /\ file' = [file EXCEPT ![o] = NULL]
     /\ UNCHANGED <<before, lost, seek_pos, memory, keyboard, copied>>

\* syscall_close, by any process.
syscall_close(p, fd) ==
  LET o == vfs_get_from_fd(fd)
  IN /\ Runs(p) /\ o # NULL
     /\ open_files' = [open_files EXCEPT ![file[o].id] = NULL]
     /\ file' = [file EXCEPT ![o] = NULL]
     /\ UNCHANGED <<before, lost, seek_pos, memory, keyboard, copied>>

\* Mutant: the check against the size is missing.
tarfs_readUnchecked(f, sz) ==
  LET from == ToSize(seek_pos[f])
      n == Smaller(ToSize(FileSize[f] - from), sz)
  IN IF n = 0 THEN UNCHANGED <<seek_pos, copied>>
     ELSE /\ seek_pos' = [seek_pos EXCEPT ![f] = ToInt(@ + n)]
          /\ copied' = <<f, from, n>>

\* tarfs_read: seek_pos is compared and subtracted as a size_t.
tarfs_read(f, sz) ==
  LET from == ToSize(seek_pos[f])
      n == Smaller(ToSize(FileSize[f] - from), sz)
  IN IF from > FileSize[f] \/ n = 0
     THEN UNCHANGED <<seek_pos, copied>>
     ELSE /\ seek_pos' = [seek_pos EXCEPT ![f] = ToInt(@ + n)]
          /\ copied' = <<f, from, n>>

\* KB_POP, sz times: the newest key first, zeros once there is none.
_keyboard_read(sz) ==
  input_buffer_index' = input_buffer_index - Smaller(sz, input_buffer_index)

\* syscall_read.  What a device or a missing name answers leaves no trace.
syscall_read(p, fd, sz) ==
  LET o == vfs_get_from_fd(fd)
      f == NameOf(p, o)
  IN /\ Runs(p) /\ o # NULL
     /\ IF Faults(p, o) THEN Dies(p) /\ UNCHANGED <<seek_pos, input_buffer_index, copied>>
        ELSE IF f \in TarFiles /\ file[o].fs = "/init/"
        THEN tarfs_read(f, sz) /\ UNCHANGED <<memory, input_buffer_index>>
        ELSE IF f = Keyboard /\ file[o].fs = "/dev/"
        THEN _keyboard_read(sz) /\ UNCHANGED <<memory, seek_pos, copied>>
        ELSE UNCHANGED <<memory, seek_pos, input_buffer_index, copied>>
     /\ UNCHANGED <<table, halted>>

\* syscall_seek: whence is ignored, devfs has no seek, tarfs_seek panics for a
\* name that is not in the archive.
syscall_seek(p, fd, offset) ==
  LET o == vfs_get_from_fd(fd)
      f == NameOf(p, o)
  IN /\ Runs(p) /\ o # NULL /\ file[o].fs = "/init/"
     /\ IF Faults(p, o) \/ f = Missing
        THEN Dies(p) /\ UNCHANGED seek_pos
        ELSE seek_pos' = [seek_pos EXCEPT ![f] = ToInt(offset)] /\ UNCHANGED memory
     /\ UNCHANGED <<table, keyboard, copied>>

\* A program writes another path into a buffer, or gives its memory back.
Rewrites(p, b, path) ==
  /\ Runs(p) /\ text[p][b] # path
  /\ text' = [text EXCEPT ![p][b] = path]
  /\ UNCHANGED <<table, live, keyboard, seek_pos, copied>>

\* A program ends: nothing closes its descriptors.
Exits(p) ==
  /\ Runs(p) /\ Dies(p)
  /\ UNCHANGED <<table, keyboard, seek_pos, copied>>

\* Mutant: the assertion lets the index reach the size.
keyboard_handlerAssertsLate ==
  /\ ~halted /\ ~Overrun
  /\ input_buffer_index' = input_buffer_index + 1
  /\ IF input_buffer_index' <= KB_BUFFER_SIZE THEN UNCHANGED <<halted, memory>>
     ELSE \/ \E p \in live : Dies(p) /\ UNCHANGED halted
          \/ halted' = TRUE /\ UNCHANGED memory
  /\ UNCHANGED <<table, seek_pos, copied>>

(***************************************************************************)
(* keyboard_handler.  It can interrupt programs and idle.  Every scancode  *)
(* is stored, those of the shift keys and of releases too.  The assertion  *)
(* in KB_PUSH is behind the store; when it fails, panic ends the program   *)
(* that was interrupted (the machine halts if that was idle).  The irq_ack *)
(* of the handler is not reached then, but process_exit schedules, and the *)
(* irq_ack(0) there ends the service of whatever interrupt is in service:  *)
(* the next key arrives, and goes where the index was left, behind the     *)
(* buffer unless somebody has read a key in between.                       *)
(***************************************************************************)
keyboard_handler ==
  /\ ~halted /\ ~Overrun
  /\ input_buffer_index' = input_buffer_index + 1
  /\ IF input_buffer_index' < KB_BUFFER_SIZE THEN UNCHANGED <<halted, memory>>
     ELSE \/ \E p \in live : Dies(p) /\ UNCHANGED halted
          \/ halted' = TRUE /\ UNCHANGED memory
  /\ UNCHANGED <<table, seek_pos, copied>>

(***************************************************************************)
(* When the programs start, kernel_info and run_elf have opened, read to   *)
(* the end and closed some files of the archive; positions were zero       *)
(* before, because a heap from which nothing was freed holds zeros.        *)
(***************************************************************************)
Init ==
  /\ open_files = [i \in 0 .. VFS_MAX_FILE_DESCRIPTORS - 1 |-> NULL]
  /\ before = NULL /\ file = [o \in Objects |-> NULL] /\ lost = {}
  /\ \E read \in SUBSET TarFiles :
       seek_pos = [f \in TarFiles |-> IF f \in read THEN FileSize[f] ELSE 0]
  /\ text = [p \in Procs |-> [b \in Buffers |-> <<"none", Missing>>]]
  /\ live = Procs
  /\ input_buffer_index = 0 /\ halted = FALSE
  /\ copied = <<>>

Next ==
  \/ \E p \in Procs, b \in Buffers, o \in Objects : syscall_open(p, b, o)
  \/ \E p \in Procs, fd \in DOMAIN open_files :
       \/ syscall_close(p, fd)
       \/ \E sz \in Sizes : syscall_read(p, fd, sz)
       \/ \E offset \in Offsets : syscall_seek(p, fd, offset)
  \/ \E p \in Procs, b \in Buffers, path \in Paths : Rewrites(p, b, path)
  \/ \E p \in Procs : Exits(p)
  \/ keyboard_handler

Spec == Init /\ [][Next]_vars

-----------------------------------------------------------------------------
(* Properties. *)

TypeOK ==
  /\ open_files \in [0 .. VFS_MAX_FILE_DESCRIPTORS - 1 -> Objects \cup {NULL}]
  /\ before \in Objects \cup {NULL} /\ lost \subseteq Objects
  /\ file \in [Objects -> Structures \cup {NULL}]
  /\ seek_pos \in [TarFiles -> -(2 ^ (IntBits - 1)) .. 2 ^ (IntBits - 1) - 1]
  /\ text \in [Procs -> [Buffers -> Paths]] /\ live \subseteq Procs
  /\ input_buffer_index \in Nat /\ halted \in BOOLEAN

(***************************************************************************)
(* However processes open and close each other's descriptors: a slot in    *)
(* use leads to an allocated structure that knows the slot as its own, so  *)
(* vfs_close clears the right one and no call uses memory that was freed.  *)
(***************************************************************************)
SlotsMatch ==
  \A fd \in DOMAIN open_files : open_files[fd] # NULL =>
    fd \in Fds /\ file[open_files[fd]] # NULL /\ file[open_files[fd]].id = fd

(***************************************************************************)
(* A structure that is allocated has a descriptor, so that it can be freed *)
(* again; the exceptions are an open that finds the table full and one     *)
(* that tarfs_exists ends.                                                 *)
(***************************************************************************)
NoFileLost ==
  {o \in Objects : file[o] # NULL} \ lost = {open_files[fd] : fd \in Fds} \ {NULL}

\* The table and the structures agree in both directions.
TableRight == TypeOK /\ SlotsMatch /\ NoFileLost

(***************************************************************************)
(* What tarfs_read copies lies inside the file, whatever position several  *)
(* processes have left behind: beyond the end, or negative because an      *)
(* offset did not fit an int.                                              *)
(***************************************************************************)
ReadInside == copied # <<>> => copied[2] + copied[3] <= FileSize[copied[1]]

(***************************************************************************)
(* What the assertion of KB_PUSH gives: a key is stored behind             *)
(* input_buffer only after another one has filled it and has ended the     *)
(* program it interrupted; no reader and no order of reads and keys gets   *)
(* there without that warning, and never while every program is alive.     *)
(* More it does not give, ~Overrun is not an invariant: it comes after the *)
(* store and leaves the index where it is, at the size of the buffer.      *)
(***************************************************************************)
FullBufferEndsAProgram ==
  input_buffer_index >= KB_BUFFER_SIZE => halted \/ live # Procs

\* What makes the three inductive: a lost structure is never freed, so it is not
\* allocated again.
IInv ==
  /\ TableRight /\ ReadInside /\ FullBufferEndsAProgram
  /\ \A o \in lost : file[o] # NULL
=============================================================================
