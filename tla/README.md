# A TLA+ model of the riria kernel

riria is a small x86_64 kernel for one CPU (`make run` starts qemu with `-smp 1`).
Nothing in it runs in parallel with the kernel except devices; what makes it hard
to get right is the timer interrupt, which may switch processes between any two
instructions of code that has interrupts on, and long chains of legal calls on
hand-made linked lists, bitmaps and page tables. This project models those parts
in TLA+, checks them with TLC on small instances and proves the central ones with
TLAPS for every instance.

## The system

| Part | State | Operations | Hard behaviour |
|---|---|---|---|
| Context switch, `process.c`, `asm/*.S` | `process_t`, CR3, TSS `rsp0`, FS and GS bases, saved frames | `process_schedule`, `process_sleep`, `process_exit`, `process_create(_user)`, `syscall_trap` | preemption of user programs and of kmain; exits inside system calls; swapgs pairing |
| Interrupt masking, `irq.c` | `sync_depth`, `sync_was_enabled`, IF | `IRQ_OFF`, `IRQ_RES`, `IRQ_ON` | one counter shared by all processes; paths that never return |
| Run queue, `process.c` | circular list of nodes, `process_head` | `PROCESS_PUSH`, `process_reap`, the skip loop | unlinking while walking; a push split by the timer |
| Page frames, `pmm.c` | bitmap and counters | `pmm_install`, `pmm_allocate`, `pmm_free` | overlapping and ragged memory maps; clearing outside the lock |
| Kernel heap, `heap.c` | free list in the free memory, `heap_lock` | `heap_install`, `kmalloc`, `kfree`, `heap_expand_pages` | splitting, merging, growth; the head read before the lock; panics under the lock |
| Page tables, `vmm.c` | four levels of tables in frames | `vmm_map_page`, `vmm_unmap_page`, `vmm_new_pagemap`, `vmm_pagefault` | freeing empty tables; a kernel half shared by all pagemaps; a lock held across `malloc` |
| User memory, `syscall.c`, `process.c` | heap position and mappings of a process | `process_spawn_elf`, `syscall_mmap`, `syscall_unmap`, page faults, `process_reap` | frames freed before they are unmapped; device frames mapped like RAM |
| Files, `fs/` | global descriptor table, `vfs_file_t`, device and archive lists | `vfs_open` … `vfs_close`, `vfs_sys_*` | full tables, descriptors shared by all processes, one seek position per file |
| Sound, `ac97.c`, `dev/audio.c` | staging buffer, ring of DMA buffers, the device's CIV and LVI, `lock` | `ac97_install`, `ac97_can_write`, `ac97_write_pcm`, `ac97_write_buffer` | the device plays while the driver fills; its position is read twice; a wait with interrupts off |
| Keyboard, `ps2.keyboard.c` | buffer of key codes | interrupt pushes, `read` pops | a buffer at its limit |
| Loader and boot, `elf.c`, `entry.c`, `boot.c` | — | `elf64_load`, `kmain` | malformed headers, order of installation |
| Terminal, `fb0.c`, `printf.c`, flanterm | grid, queue of changed cells, cursor, colours, parser state | `flanterm_write`, `double_buffer_flush`, `flanterm_fb_init`, `plot_char_*` | drawing is delayed to the end of a write; sequences are split over writes; a fixed queue, a fixed list of values, a fixed memory pool |
| Formatter, `nanoprintf.h` | — | `npf_vsnprintf` | width, precision, flags and integer widths interact |

How they interact: everything allocates from the heap; the heap and the page
tables take frames from the page allocator; `process_reap`, running inside
`process_schedule`, calls back into the heap and the page tables; a panic inside
any of them ends the current user process in the middle of what it was doing.

## Modules

* `Switch` — processes and the context switch. `proc` holds each `process_t`
  (state, saved context, FS base, remaining sleep), `cpu` the registers that the
  switch saves, loads or relies on, `sync` the masking counter. An action is a
  stretch of kernel code no interrupt can split: a timer interrupt with the
  switch it causes (`TimerIRQ`), `process_sleep`, the end of a kernel process
  (`EntryReturns`), `SYSCALL_EXIT`, a fatal fault, `write_fsbase`, and the two
  ways to create a process. Which runnable process is picked is left open. The
  history `overlapped` is set when a user program starts while another one is
  preempted; until then `StacksSafe` counts the stack the system call entry would
  take through GS among those a process is going to use.
* `Process` — extends `Switch` with the linked ring: `process_reap` and the skip
  loop walk `nxt` as the code does, and `PROCESS_PUSH` in kmain is two steps,
  because a timer interrupt can come between them. `RSpec` implements `Switch`
  (`SwitchSpec` is checked as a property).
* `Pmm` — the page allocator, from the boot loader's memory map on. The bitmap is
  the set of pages whose bit is set. `pmm_allocate` is two steps: up to `IRQ_RES`,
  and the `memset` after it.
* `Heap` — the kernel heap in units of `HEAP_ALIGNMENT`, block headers in memory,
  list walks as loops of a bounded number of rounds (`Loop`). Contexts with interrupts off run `kmalloc`
  in one step; kmain's is three (read `heap_head`, lock, walk). `HeapAbs` is the
  promise to callers; `Heap` implements it.
* `Vmm` — the page tables. `mem` is the contents of the frames that hold tables,
  `used` the frames `pmm_allocate` has handed out for them. `vmm_map_page`
  allocates the levels it misses, `vmm_unmap_page` frees the ones it empties,
  `vmm_new_pagemap` copies the kernel half; running out of frames is a panic
  with `vmm_lock` held. A walk is a record of memory and the table reached, three
  steps of `vmm_get_next_level` deep. `VmmAbs` is the promise: one flat map from pages to frames
  per address space, the kernel's part the same in all; `Vmm` implements it.
* `UserMem` — composes free frames (what `Pmm` promises) and flat maps (what `Vmm`
  promises) with the handlers that use both: `process_spawn_elf`, `syscall_mmap`
  of memory and of the framebuffer (whose mapping ends where the length asked for
  ends, not where the framebuffer does), `syscall_unmap`, `vmm_pagefault` (absent
  pages, and pages executed without permission), `process_exit` and
  `process_reap`. A panic inside a handler ends the process with the work half done.
* `Vfs` — the descriptor table (`open_files`), the `vfs_file_t` objects, the seek
  position of each archive file, and the keyboard's fill level. System calls are
  open, close, read and seek; the keyboard interrupt comes between them. An
  object keeps the caller's pointer to the path, so `text`, the paths in each
  process's memory, is state, and a process may overwrite or unmap it. `int` and
  `size_t` keep their widths (scaled down). A key stored behind `input_buffer` is the
  last step of a behaviour: what it overwrites is undefined.
* `Elf` — `elf64_load` with the loops of `vmm_map_copy` and `vmm_map_zero`, one
  round at a time, and the first heap page; the result is compared with `Image`,
  a definition of a loaded program that does not mention pages.
* `Ac97` — the sound driver against its device. `ac97` is the driver's state (entry,
  buffers, staging buffer, lock), `dev` the registers the device moves (CIV, LVI,
  run, reset), `op` the system call under way. Players run `play_pcm` of the shell:
  read a chunk, write it until all is written. A byte is `<<player, index>>`, so loss,
  repetition and order can be told. The device (external) moves between any two
  steps of a write. `accepted`, `committed`, `heard` and `late` are histories.
* `Fb`, `Sgr`, `Unicode`, `Term` — the terminal. `Fb` is the framebuffer backend as
  operators on the context: grid, queue and map, scrolling, flush, cursor. `Sgr` has
  the colours, `Unicode` the width and glyph of a code point, `Term` the parser
  (`flanterm_putchar`, escape, control and OSC sequences, UTF-8) one byte a step, and
  `printf` on top, which writes a message and then a reset.
* `Printf` — `npf_vsnprintf` as configured by `printf.c`: parsing of a conversion,
  conversion, padding, and the bounded buffer. The integer types wrap at their
  widths, which are parameters. Its reference, `FormatRight`, is written from the
  rules of C and shares no definition with the code's steps.
* `Plot` — `flanterm_fb_init`'s geometry and allocations, the four `plot_char_*`
  functions with their strides and phases, and the addresses of `full_refresh`; the
  reference says which pixel of which cell each address is.
* `Algorithms` — one problem (a format, a drawing, an initialisation, a code point, a
  list of colour codes) per behaviour, for TLC.
* `ProcessProofs` (of `Switch` and `Process`), `PmmProofs`, `HeapProofs`, `VmmProofs`,
  `UserMemProofs`, `VfsProofs`, `ElfProofs`, `Ac97Proofs` — theorems. `MC*` —
  instances for TLC.

The modules fit together by what they promise. `PreemptionDiscipline` of `Switch`
(proved) says that only user programs and idle (which is kmain's own context) run with interrupts on, so
in the other modules a system call or a call from a kernel process is one step.
`Pmm` promises exclusive, zeroed frames: `Vmm`, `UserMem` and `Elf` start from
that. `Vmm` promises flat address spaces: `UserMem` and `Elf` start from that. A
system call being one step does not hold against a device: in `Ac97` a write is as
many steps as it has reads of the device's position. Processes print with interrupts
off, so `Term` takes a byte a step only to keep the model simple; kmain's own `printf`
has interrupts on and runs, at the modelled revision, while nobody else prints.

`kmain` at the modelled revision creates only the idle process; the calls that
create `kernel_info` and `userspace_shell` (entry.c 58 and 61) are commented out.
`Switch` takes the list of processes kmain creates as the constant `BootEntries`,
and the runs use both of them, the configuration the rest of the code is for. In
`Heap`, `Preempted = FALSE` is the revision as it stands (kmain allocates while
no other process exists) and `TRUE` is the boot sequence with those calls.

## Runs

| Run | Shows | Bounds |
|---|---|---|
| `processes` | current process, address space, thread pointer, interrupt flag and stacks (to return to, of interrupts, of system calls) stay in step; the ring holds exactly the living, takes them in turn (`RoundRobin`) and implements `Switch`; everyone gets the CPU again and again and the dead are reaped | 6 pids (idle, two kernel processes and the three programs `userspace_shell` starts, so that every pair of kinds switches and a pid is waiting behind two programs), sleeps of up to 2 ticks, 2 FS bases |
| `gs_two_users` (violation) | with two user processes, the system call entry can find the other's `process_t` through GS, and so run on the other's stack | 5 pids |
| `pmm` | exclusive frames, none reserved; an owner finds what it wrote, or zeros (`ContentsKept`); counters agree | 8 pages, a map with overlaps and ragged ends that exceeds the bitmap, and a plain one; kernel and two users |
| `heap` | free and owned blocks partition the heap; list sorted and merged; nobody spins on the lock but behind a process that died holding it; implements `HeapAbs` | 9 units in 3 pages, requests of 2, 3 and 7 units with header: exact fits, splits, merges on both sides, several expansions for one request, exhaustion |
| `heap_stale_head` (violation) | kmain walks from a `heap_head` read before the lock | same |
| `vmm` | every table in use is reached by one entry, no frame is leaked or shared, no table but a top one is empty, the lock is lost only to a panic; implements `VmmAbs` | 4 levels of 3 entries, two of them the kernel's; 2 users and the kernel; user pages that share a last-level table, a second-level table only, or less; 19 frames for tables: enough to reap one process and start another, few enough to run out |
| `usermem` | no frame of RAM is in two places or both free and mapped; nothing but the stack lies above the heap position, and reaping leaves exactly the first heap page of a process whose position never moved; frames are lost only where mmap or a fault replaces a page, once for each page (`LossBounded`) | 2 users, 7 RAM frames, 2 device frames of which the page allocator accepts one, address spaces of 4 pages (image, two of the heap, stack), mmap and munmap of up to 2 pages: memory runs out in the middle of a call, heaps grow over the stack. Pages behind the stack are left to the proof |
| `vfs` | table and objects agree, and no object is lost except by an open that finds the table full or that `tarfs_exists` ends; reads stay inside the file; the key buffer is not overrun before a full one has ended a program (`FullBufferEndsAProgram`) | 2 processes, 3 objects, 2 descriptors, files of 1 and 3 bytes, `int` of 3 bits, key buffer of 2 |
| `elf` | a loaded program's memory is `Image`; loading ends | pages of 3 bytes, up to 2 headers of every alignment offered, empty, overlapping and out-of-file ones included |
| `ac97` | what is accepted reaches the ring in order, without loss or repetition (the last partial block stays staged); the device plays it in order; the panic "no buffers left!" only on a free lap; every write ends | 2 players, files of 15 and 4 bytes, chunks of 3, 4 buffers of 2 bytes: blocks for two laps and a half, lengths that fit neither chunk nor block |
| `term` | the queue fits its memory; after each write the screen shows text and cursor; the list of values is not overrun; plain text comes out as on paper; printing stays in the scroll region | 3 rows of 4 columns, 3 messages out of some fifty, each followed by a reset: text, control characters, whole and broken UTF-8, every escape and control sequence, sequences cut by the end of a message |
| `algorithms` | formats are what C says, cut to the buffer; a character is drawn in its cell and nowhere else; the memory pool suffices; widths are those of the tables; reverse video can be undone | integer widths of 3, 4, 5 and 7 bits, every flag, widths and precisions absent, literal and from arguments; 11 screen sizes around the limits, 4 rotations, several font scales and a margin; both ends of every interval of code points; colour lists of up to 4 codes |

`FullBufferEndsAProgram` is as much as `KB_PUSH` gives. Its assertion comes after the
store, ends the interrupted program and leaves the index at the size of the buffer;
`process_schedule` acknowledges the interrupt, so the next key, unless one was read in
between, is stored behind `input_buffer`. TLC reaches that state (`Overrun`) in a few
steps.

`HeardInOrder` makes one exception, which is what the code does: a write into the
very buffer the device is in (the first write is one) puts LVI behind the device,
which then runs a whole lap freely. The panic in `ac97_write_buffer` can be reached
on such a lap only, and `WritesEnd` shows that the lock it leaves taken blocks
nobody: the full staging buffer stops every later write first.

Fairness. In `processes`: the timer keeps firing while interrupts are on (the PIT
runs at 1 kHz for ever), `kernel_info` reaches its next `sleep`, and
`userspace_shell` returns (three bounded calls). The last two assume that neither
spins on a lock of a process that a panic ended, as `heap_lock` can be (see `Inv` of
`Heap`). Nothing is assumed of user programs. In `elf`: a sequential loader that nothing preempts takes its next step.
In `ac97`: the device goes on playing while CIV differs from LVI and its run bit is
set, and the CPU, which has interrupts off in a system call, goes on with the one it
is in. Nothing is assumed of the device's reset or of the players.

Deadlock checking is on in `processes` and `gs_two_users`, where idle can always be
interrupted. It is off elsewhere: a kernel panic halts the machine (`pmm`, `heap`,
`heap_stale_head`, `vmm`), the processes of the instance have all ended (`usermem`,
`vfs`), the program is loaded (`elf`), the files are played (`ac97`), the bound on
messages is reached (`term`), or the one problem is solved (`algorithms`).

### Assumptions about callers

Some properties depend on what other code does. Each such assumption is a named
constant or guard, and the runs say which value they take.

* `EarlyReturn = FALSE` (`Process`): `kernel_info`, which loops for ever, is not
  reaped while kmain is between the two stores of a `PROCESS_PUSH`. With `TRUE`
  TLC breaks `RingIntact`: the push links the freed node back into the ring.
* `Preempted = FALSE` (`Heap`, run `heap`): kmain does not allocate while other
  processes can run. `heap_stale_head` takes `TRUE`.
* `RestOfImageReported` (`Pmm`): `k_phys_end` counts the image from `_text_begin`
  although `physical_base` is where it starts, so the reservation ends early; the boot
  loader must not report the end of the image as usable memory, and Limine does not.
* `UserMemAssumption`: the framebuffer, and what a mapping beyond its end reaches, is
  not RAM (the machine has 256 MiB, `Makefile` 18). A `munmap` of it gives its frames
  to `pmm_free`, which takes those up to `highest_page`; they are then handed out as
  memory. `Apart` is about RAM for that reason.
* `ROWS <= COLS` (`Term`): `flanterm_fb_raw_putchar` bounds the row by the number of
  columns (`fb.c` 1013). `TextAsOnPaper` and `RegionKept` rely on it.
* `Ac97`: a DMA buffer, heap memory whose pages are allocated one by one, is physically
  contiguous, as the device, which gets its first address only, takes it to be.
* `AC97_BUFFERS >= 4` (`Ac97`; the code has 32): with fewer, "two behind" and "one
  ahead" are the same buffer.
* `Elf`: `filesz <= memsz` in each header and the entry point lies in the image.
* `Vfs`: a fresh `tarfs_file_t` has `seek_pos` 0 or the file's size, because the heap
  memory it comes from at boot is zero.

## Proofs

Every safety property of the runs `processes`, `pmm`, `heap`, `vmm`, `usermem`, `vfs`,
`elf` and `ac97` is proved for every value of the constants, the three
refinements included. Each proof module has one lemma per action or loop and one
theorem per property.

`ProcessProofs` first proves of `Switch`, for every number of processes, every boot
list with the shell last, and any scheduling order, that `process_get_current` names
the process that executes, that CR3, TSS and FS base are its own, who can be
preempted, and that no live stack is freed or shared. None of these is inductive
alone: a switch resumes from the saved context, so `IInv` adds where the context of
each suspended process lies and how it left the CPU (`SuspendedOK`), that idle is
always ready (`RunningOK`), and that no masking has leaked while kmain still creates
processes (`BootOK`; user processes exist only later, and only they leak). The
dispatch is proved once and used by five actions. That a system call finds the stack
of its own process needs a second invariant, `GsInv`: until two user programs overlap,
GS names the one that runs or was preempted.

It then proves of the ring of `Process`, assuming `~EarlyReturn`, that it stays one
cycle through the living (`RingIntact`), that turns come in order (`RoundRobin`) and
that `RSpec` implements `Switch`. A cycle is awkward to reason about, so `RInv` says
that the ring can be numbered: the numbers are distinct, the head has zero, each
`next` is the least larger number or, from the largest, the head (`Linked`), and
whoever had a turn while `p` waited comes after `p` (`InTurn`). A push makes room for
the number of the new node, a switch renumbers from the new head on, and the walks of
`process_reap` and of the skip loop go up the numbers, so they end.

`PmmProofs` proves the properties of the `pmm` run for every memory map, page
size and bitmap size, assuming (`PmmAssumption`) that the map has a topmost entry
and that the kernel starts on a page boundary, and `RestOfImageReported`. `IInv` adds
that no frame is given out before `pmm_install`, that clients write to their own frames
(`WrittenHeld`), and ties `highest_page` and `total_ram_pages` to the map.

`HeapProofs` proves `Inv`, `OwnedDisjoint` and the refinement of `HeapAbs` for every
number of frames, page and request size, assuming `~Preempted` (the run
`heap_stale_head` shows what happens without). `Inv` speaks of the blocks reached
along the list; `IInv` replaces them by a set `F`: the list ascends through exactly
`F` (`Listed`), no two blocks of `F` touch (`Sparse`), and `F` with the used blocks
tiles the heap (`Tiles`). With these, `FirstFit` and `LastBelow` are loops over an
ascending list, which end after at most as many rounds as there are units; taking,
splitting, inserting and merging each change `F` by a block or two; and at the end
`F` is shown to be the set reached.

`VmmProofs` proves `Inv` and the refinement of `VmmAbs` for every number of frames,
processes, pages and entries of a table. `Inv` finds the tables level by level from
the top; the inductive invariant `IInv` gives every frame a level instead, 1 to 4 or
none (`Tree`): entries lead one level down, an entry that is not the kernel's leads to
a table no other entry leads to, the top-level tables agree on the kernel's entries,
every table below the top is led to, and the frames in use are the ones that have a
level. `GetOK` (one step down, with or without a new table), `MapPageOK` and
`UnmapPageOK` (freeing up to three tables) say what a call does to levels and
translations; `Standing`, `Stepped` and `Stuck` are the states of a walk, the last
one a panic for want of frames. The loops of `vmm_install` and `process_reap` are
recursive functions, handled by induction over the calls. What makes
`vmm_map_page` of a kernel page show in all address spaces is part of `IInv`: the
top-level entries of kernel pages mapped late are present since boot, so no new
top-level entry is needed.

`UserMemProofs` proves `Apart`, `HeapTracked` and `LossBounded` for any number of
processes, pages and frames. `KeptApart` is `Apart` said page by page; it is inductive
with the types. `HeapTracked` needs `IInv`: tracking must survive a panic in the middle
of a handler, a process that was not spawned maps nothing, and the first heap page stays
mapped until the position has moved. `LossBounded` follows from `LossTracked`, which
counts frames against pages: a page that cannot be executed lies below the position, so
`syscall_mmap` does not come back to it, and it is executed once at most. A
handler is a loop, written as a recursive function; `SpawnLoop`, `MmapLoop` and
`UnmapLoop` show that the function exists and unfold it, and each claim is then a loop
invariant.

`VfsProofs` proves `TableRight`, `ReadInside` and `FullBufferEndsAProgram` for any number of
processes, descriptors, structures and files and any widths of `int` and `size_t`
with files no larger than the largest `int` (`WidthAssumption`). `IInv` adds that a lost
structure was allocated and stays so.

`ElfProofs` proves `Loaded` for every page size, file and list of headers
(`ElfAssumption`). `IInv` adds what has been done so far (`Loading`): the pages each
segment owns up to the position reached, each owned by one segment, and the bytes
copied; everything else is zero. The lemmas are about rounding and about the chunks
that `vmm_map_copy` and `vmm_map_zero` cut at page ends.

`Ac97Proofs` proves `StreamKept`, `HeardInOrder` and `PanicsOnlyOnAFreeLap` for any players, files,
buffer size, and ring of four buffers or more. `IInv` adds `RingInStep`: off a free
lap LVI is two behind `entry`, the device is neither in `entry` nor in the buffer
before it, and from `ac97_can_write` to the end of the write it is not in the buffer
after it, which is what a count of zero means (`NoneLeft`). `StreamKept` rests on
`FlattenAppend`, what the concatenation of a longer list is, by induction over it.
`HeardInOrder` needs to know what the ring holds: no byte is passed on twice
(`BytesOnce`), so a block is its own name, and the buffers, counted back from `entry`,
are a window of the blocks due (`InWindow`), which the device has played up to the
buffer it is in.

Induction over the naturals is stated with sets instead of operators (the set of the
numbers for which a claim holds has zero and is closed under successor), which the
backends can instantiate; it follows from the library's theorem that a well-founded
relation has minimal elements. The few lemmas (`LeastNatural`, `Inductive`, and for
loops the existence and the unfolding of a function defined by recursion on a
number) are repeated in the modules that need them, at the place of first use: they
make every later step slower, so a module has those it needs and has them late.
Leaves that need no arithmetic name Zenon, which is faster there.

Only model-checked:

* liveness (`EveryoneGetsATurn`, `DeadAreReaped`, `LoadingEnds`, `WritesEnd`): the
  prover has no fairness;
* the terminal (`Term`), whose operators are folds over grids and queues, and the
  algorithms (`Printf`, `Plot`, `Sgr`, `Unicode`), where what is claimed is what a
  recursive definition computes: induction over data, with operators as parameters.

## Not modelled

* PCI (`pci.c`): register reads and writes at boot; `Ac97` has their one outcome that
  matters, device found or not. `ac97_set_volume` writes a mixer register.
* Serial port (`serial.c`), `zero.c`, `stdout.c`: no state.
* Descriptor tables and CPU features: filled in once at boot. `isr.c` prints and
  ends the process, which `Switch` has as a fault.
* Registration of interrupt handlers: fixed at boot.
* The walk over the archive's headers in `tarfs_install`, once, at boot.
* Which character a scancode gives, and what `kernel_info` draws.
* The string functions of the kernel's libc, loops over bytes without state, and
  `ubsan.c`, which only reports.
* Of flanterm: `flanterm_deinit` and `flanterm_fb_deinit` (no caller); fonts and
  canvases of other formats than the kernel passes; the check of the mask sizes
  (`fb.c` 1135 to 1138).
* Of nanoprintf: floating point and write-back, which are configured out.
* `ssfn.h`, the font renderer of `kernel_info`, and `limine.h`, the declarations of the
  boot protocol: vendored.
* User programs: the environment, any sequence of system calls; `play_pcm` of the
  shell is in `Ac97`.

Where the vendored code departs from the reference used here, the reference says so
and leaves the case out: nanoprintf keeps the `0` flag with a negative `*` width or
precision, and with a precision in `%b`, where C's rules drop it; a terminal that is
turned sideways on a screen above the pool's limits keeps the offset of its window
in the turned axes. `Term` has, as the code does, that an ESC or an unknown byte in a
control sequence returns early from `control_sequence_parse`: the sequence stays open
and scrolling stays disabled (the comment at `flanterm.c` 587 says "start a new one").
`TextAsOnPaper` is about plain text and `RegionKept` holds either way.

## Plan

Next, in this order: `QueueFits` of the terminal, with the queue's map as a
partial injection of cells; the walk over the archive's headers against a reference
definition.
