-------------------------------- MODULE Ac97 --------------------------------
(***************************************************************************)
(* Sound: play_pcm of the shell, the device file /dev/audio and the AC97   *)
(* driver, against a device that plays while they write.                   *)
(*                                                                         *)
(* A system call runs with interrupts off, so one write at a time is under *)
(* way; the device does not stop for it.  Each step below is a stretch     *)
(* between two looks at the device.  A byte is <<player, position in its   *)
(* file>>.  The histories accepted and committed say what the driver was   *)
(* given and what it passed on, heard what the device played from start to *)
(* end, late the blocks up to the last one written where the device was.   *)
(***************************************************************************)
EXTENDS Integers, Sequences, SequencesExt

CONSTANTS
  Players,          \* shells that play a file
  FileLen,          \* bytes in the file each of them plays, a function
  PCM_BUFFER,       \* bytes play_pcm reads from its file at a time
  AC97_BUFFERS,     \* buffers in the ring
  AC97_BUFFER_SIZE  \* bytes in one of them

ASSUME Ac97Assumption ==
  /\ FileLen \in [Players -> Nat] /\ PCM_BUFFER \in Nat \ {0} /\ AC97_BUFFER_SIZE \in Nat \ {0}
  /\ AC97_BUFFERS \in Nat /\ AC97_BUFFERS >= 4

VARIABLES
  dev,        \* the device: its registers, and the block it is playing
  ac97,       \* the driver: ac97_initialized, buffers, entry, lock, temp_buffer
  op,         \* the write under way: whose, of which bytes, how far
  player,     \* play_pcm of each player
  accepted, committed, heard, late   \* histories

vars == <<dev, ac97, op, player, accepted, committed, heard, late>>

Idx    == 0 .. AC97_BUFFERS - 1
Silent == <<>>
Idle   == [pc |-> "idle"]

Init ==
  /\ dev = [civ |-> 0, lvi |-> 0, run |-> FALSE, reset |-> FALSE, playing |-> Silent]
  /\ ac97 = [initialized |-> FALSE, installing |-> "no",
             buffers |-> [i \in Idx |-> Silent], entry |-> 0,
             lock |-> FALSE, temp |-> <<>>]
  /\ op = Idle
  /\ player = [p \in Players |-> [pos |-> 0, got |-> 0, sent |-> 0, state |-> "plays"]]
  /\ accepted = <<>> /\ committed = <<>> /\ heard = <<>> /\ late = {}

-----------------------------------------------------------------------------
(***************************************************************************)
(* ac97_install.  No device on the bus: nothing is installed.  Otherwise   *)
(* the output channel is reset, the driver waits until the device clears   *)
(* the bit, points it at the ring and starts it.                           *)
(***************************************************************************)
DeviceNotFound ==
  /\ ac97.installing = "no"
  /\ ac97' = [ac97 EXCEPT !.installing = "failed"]
  /\ UNCHANGED <<dev, op, player, accepted, committed, heard, late>>

ResetChannel ==
  /\ ac97.installing = "no"
  /\ ac97' = [ac97 EXCEPT !.installing = "waiting"]
  /\ dev' = [dev EXCEPT !.reset = TRUE]
  /\ UNCHANGED <<op, player, accepted, committed, heard, late>>

StartChannel ==
  /\ ac97.installing = "waiting" /\ ~dev.reset
  /\ ac97' = [ac97 EXCEPT !.installing = "done", !.initialized = TRUE]
  /\ dev' = [dev EXCEPT !.run = TRUE]
  /\ UNCHANGED <<op, player, accepted, committed, heard, late>>

-----------------------------------------------------------------------------
(***************************************************************************)
(* The device.  It plays the buffer at CIV, moves on at its end unless CIV *)
(* is LVI, the last valid one, and plays what the next buffer holds when   *)
(* it gets there; a block written over while it plays is not heard.        *)
(***************************************************************************)
ClearReset ==
  /\ dev.reset
  /\ dev' = [dev EXCEPT !.reset = FALSE]
  /\ UNCHANGED <<ac97, op, player, accepted, committed, heard, late>>

Play ==
  /\ dev.run /\ dev.civ # dev.lvi
  /\ LET next == (dev.civ + 1) % AC97_BUFFERS
     IN  dev' = [dev EXCEPT !.civ = next, !.playing = ac97.buffers[next]]
  /\ heard' = IF dev.playing = Silent THEN heard ELSE Append(heard, dev.playing)
  /\ UNCHANGED <<ac97, op, player, accepted, committed, late>>

-----------------------------------------------------------------------------
(***************************************************************************)
(* play_pcm: read a chunk, write it until all of it is written, read the   *)
(* next one; a write of nothing ends it.                                   *)
(***************************************************************************)
Least(a, b) == IF a < b THEN a ELSE b

Fread(p) ==
  LET pl == player[p]
      n  == Least(PCM_BUFFER, FileLen[p] - pl.pos)
  IN  /\ ac97.installing \in {"done", "failed"}
      /\ op = Idle /\ pl.state = "plays" /\ pl.sent = pl.got
      /\ player' = [player EXCEPT ![p] =
           IF n = 0 THEN [pl EXCEPT !.state = "done"]
                    ELSE [pl EXCEPT !.pos = @ + n, !.got = n, !.sent = 0]]
      /\ UNCHANGED <<dev, ac97, op, accepted, committed, heard, late>>

Fwrite(p) ==
  LET pl == player[p]
  IN  /\ op = Idle /\ pl.state = "plays" /\ pl.sent < pl.got
      /\ op' = [pc |-> "_audio_write", by |-> p,
                buf |-> [i \in 1 .. pl.got - pl.sent |-> <<p, pl.pos - pl.got + pl.sent + i>>]]
      /\ UNCHANGED <<dev, ac97, player, accepted, committed, heard, late>>

\* The system call returns n to the player.
Return(n) ==
  /\ op' = Idle
  /\ LET pl == player[op.by]
     IN  player' = [player EXCEPT ![op.by] =
           IF n = 0 THEN [pl EXCEPT !.state = "failed"] ELSE [pl EXCEPT !.sent = @ + n]]

\* panic, in the system call of a user process: the process is killed.
Panic ==
  /\ op' = Idle
  /\ player' = [player EXCEPT ![op.by].state = "killed"]

-----------------------------------------------------------------------------
\* Free buffers, as ac97_can_write and ac97_write_buffer compute them.
BufferLeft(entry, read_ptr) ==
  IF entry >= read_ptr
  THEN LET left == AC97_BUFFERS - entry
       IN  IF read_ptr = 0 /\ left > 0 THEN left - 1 ELSE left
  ELSE read_ptr - entry - 1

\* _audio_write: without a device -1, which MLIBC_HACK in vfs_sys_write makes 0.
_audio_writeFails ==
  /\ op.pc = "_audio_write" /\ ~ac97.initialized
  /\ Return(0)
  /\ UNCHANGED <<dev, ac97, accepted, committed, heard, late>>

\* One round of the loop on ac97_can_write; the last one goes on.
ac97_can_write ==
  /\ op.pc = "_audio_write" /\ ac97.initialized
  /\ BufferLeft(ac97.entry, dev.civ) > 0
  /\ op' = [op EXCEPT !.pc = "ac97_write_pcm"]
  /\ UNCHANGED <<dev, ac97, player, accepted, committed, heard, late>>

\* A write is staged over what an earlier one left.
ac97_write_pcmStartsOver ==
  LET n == Least(Len(op.buf), AC97_BUFFER_SIZE - Len(ac97.temp))
  IN  /\ op.pc = "ac97_write_pcm" /\ n > 0
      /\ ac97' = [ac97 EXCEPT !.temp = SubSeq(op.buf, 1, n)]
      /\ accepted' = accepted \o SubSeq(op.buf, 1, n)
      /\ IF Len(ac97.temp) + n < AC97_BUFFER_SIZE
         THEN Return(n)
         ELSE op' = [pc |-> "ac97_write_buffer", by |-> op.by, n |-> n] /\ UNCHANGED player
      /\ UNCHANGED <<dev, committed, heard, late>>

\* ac97_write_pcm up to the call of ac97_write_buffer: fill temp_buffer.
\* memcpy asserts that there is something to copy.
ac97_write_pcm ==
  LET n == Least(Len(op.buf), AC97_BUFFER_SIZE - Len(ac97.temp))
  IN  /\ op.pc = "ac97_write_pcm"
      /\ \/ /\ n = 0
            /\ Panic
            /\ UNCHANGED <<ac97, accepted>>
         \/ /\ n > 0
            /\ ac97' = [ac97 EXCEPT !.temp = @ \o SubSeq(op.buf, 1, n)]
            /\ accepted' = accepted \o SubSeq(op.buf, 1, n)
            /\ IF Len(ac97.temp) + n < AC97_BUFFER_SIZE
               THEN Return(n)
               ELSE op' = [pc |-> "ac97_write_buffer", by |-> op.by, n |-> n] /\ UNCHANGED player
      /\ UNCHANGED <<dev, committed, heard, late>>

\* ac97_write_buffer takes the lock and reads the device's position again.  With
\* the lock taken already it spins for ever: nobody else runs.  No buffer left:
\* panic, with the lock taken and temp_buffer full.
NoBuffersLeft ==
  /\ op.pc = "ac97_write_buffer" /\ ~ac97.lock
  /\ BufferLeft(ac97.entry, dev.civ) = 0
  /\ ac97' = [ac97 EXCEPT !.lock = TRUE]
  /\ Panic
  /\ UNCHANGED <<dev, accepted, committed, heard, late>>

\* LVI is computed after entry has moved on, and with the sign wrong.
ac97_write_bufferLviAhead ==
  /\ op.pc = "ac97_write_buffer" /\ ~ac97.lock
  /\ BufferLeft(ac97.entry, dev.civ) > 0
  /\ ac97' = [ac97 EXCEPT !.buffers[ac97.entry] = ac97.temp,
                          !.entry = (@ + 1) % AC97_BUFFERS, !.temp = <<>>]
  /\ dev' = [dev EXCEPT !.lvi = (ac97.entry + 2) % AC97_BUFFERS, !.run = TRUE,
                        !.playing = IF dev.civ = ac97.entry THEN Silent ELSE @]
  /\ committed' = Append(committed, ac97.temp)
  /\ late' = IF dev.civ = ac97.entry THEN ToSet(committed') ELSE late
  /\ Return(op.n)
  /\ UNCHANGED <<accepted, heard>>

\* LVI is not written.
ac97_write_bufferKeepsLvi ==
  /\ op.pc = "ac97_write_buffer" /\ ~ac97.lock
  /\ BufferLeft(ac97.entry, dev.civ) > 0
  /\ ac97' = [ac97 EXCEPT !.buffers[ac97.entry] = ac97.temp,
                          !.entry = (@ + 1) % AC97_BUFFERS, !.temp = <<>>]
  /\ dev' = [dev EXCEPT !.run = TRUE]
  /\ committed' = Append(committed, ac97.temp)
  /\ Return(op.n)
  /\ UNCHANGED <<accepted, heard, late>>

\* The block goes into the ring; the one before it becomes the last valid one,
\* ac97_flush sets the run bit, and ac97_write_pcm empties temp_buffer.
ac97_write_buffer ==
  /\ op.pc = "ac97_write_buffer" /\ ~ac97.lock
  /\ BufferLeft(ac97.entry, dev.civ) > 0
  /\ ac97' = [ac97 EXCEPT !.buffers[ac97.entry] = ac97.temp,
                          !.entry = (@ + 1) % AC97_BUFFERS, !.temp = <<>>]
  /\ dev' = [dev EXCEPT !.lvi = (ac97.entry + AC97_BUFFERS - 1) % AC97_BUFFERS, !.run = TRUE,
                        !.playing = IF dev.civ = ac97.entry THEN Silent ELSE @]
  /\ committed' = Append(committed, ac97.temp)
  /\ late' = IF dev.civ = ac97.entry THEN ToSet(committed') ELSE late
  /\ Return(op.n)
  /\ UNCHANGED <<accepted, heard>>

-----------------------------------------------------------------------------
Next ==
  \/ DeviceNotFound \/ ResetChannel \/ StartChannel
  \/ ClearReset \/ Play
  \/ \E p \in Players : Fread(p) \/ Fwrite(p)
  \/ _audio_writeFails \/ ac97_can_write \/ ac97_write_pcm
  \/ NoBuffersLeft \/ ac97_write_buffer

\* The device keeps playing what it is given, and the CPU goes on with the
\* system call it is in.
Spec ==
  /\ Init /\ [][Next]_vars
  /\ WF_vars(Play) /\ WF_vars(ac97_can_write) /\ WF_vars(_audio_writeFails)
  /\ WF_vars(ac97_write_pcm)
  /\ WF_vars(NoBuffersLeft) /\ WF_vars(ac97_write_buffer)

-----------------------------------------------------------------------------
\* Nothing ac97_write_pcm accepted is lost, doubled or reordered on the way to
\* the ring: the blocks passed on, and then what temp_buffer still stages, are
\* the bytes accepted, whoever wrote them, whichever write filled a block, and
\* through a panic in the middle of one.
StreamKept == accepted = FlattenSeq(committed) \o ac97.temp

\* The blocks of s that are not in S, in their order.
Without(s, S) == FlattenSeq([i \in 1 .. Len(s) |-> IF s[i] \in S THEN <<>> ELSE <<s[i]>>])

\* The device plays the blocks in the order they were written, each once, none
\* overwritten before it was played: with LVI kept one behind the block just
\* written, writer and device do not pass each other.  The exception is a write
\* into the very buffer the device is in, as the first one is: LVI is then behind
\* the device, which is free to run a whole lap over what the ring holds, and the
\* blocks written so far may be heard a lap late or not at all.
HeardInOrder == IsPrefix(Without(heard, late), Without(committed, late))

\* ac97_can_write and ac97_write_buffer read the device's position one after
\* the other, and the device moves in between.  The second read contradicts the
\* first, and the panic "no buffers left!" follows, only while the device is on
\* such a free lap: the last write was one into the buffer it was in.
PanicsOnlyOnAFreeLap ==
  [][NoBuffersLeft => committed # <<>> /\ Last(committed) \in late]_vars

\* A write to /dev/audio ends, by return or by panic.  The loop on ac97_can_write
\* is not left spinning with interrupts off, because LVI always leaves the device
\* a buffer to move on to while the ring is full; and nobody spins on the lock
\* that the panic above leaves taken, because the full temp_buffer stays, so that
\* a later write has nothing to copy and the assertion in memcpy stops it first.
WritesEnd == op.pc # "idle" ~> op.pc = "idle"

-----------------------------------------------------------------------------
(* What the proofs rest on. *)

Block == Seq(Players \X Int)

PlayerState ==
  [pos : Int, got : Int, sent : Int, state : {"plays", "done", "failed", "killed"}]

TypeOK ==
  /\ dev \in [civ : Idx, lvi : Idx, run : BOOLEAN, reset : BOOLEAN, playing : Block]
  /\ ac97 \in [initialized : BOOLEAN, installing : {"no", "waiting", "done", "failed"},
               buffers : [Idx -> Block], entry : Idx, lock : BOOLEAN, temp : Block]
  /\ op \in {Idle}
            \cup [pc : {"_audio_write", "ac97_write_pcm"}, by : Players, buf : Block]
            \cup [pc : {"ac97_write_buffer"}, by : Players, n : Int]
  /\ player \in [Players -> PlayerState]
  /\ accepted \in Block /\ committed \in Seq(Block) /\ heard \in Seq(Block)
  /\ late \subseteq Block

\* The neighbours of a buffer in the ring.
After(i)  == IF i = AC97_BUFFERS - 1 THEN 0 ELSE i + 1
Before(i) == IF i = 0 THEN AC97_BUFFERS - 1 ELSE i - 1

\* Unless it is on a free lap, the device stops two buffers short of entry and is
\* not in the last of the buffers filled; once ac97_can_write has seen a free
\* buffer, entry stays one.
RingInStep ==
  /\ committed = <<>> => ac97.entry = 0 /\ dev.civ = 0 /\ dev.lvi = 0
  /\ committed # <<>> /\ Last(committed) \notin late =>
       /\ dev.lvi = Before(Before(ac97.entry))
       /\ dev.civ \notin {ac97.entry, Before(ac97.entry)}
       /\ op.pc \in {"ac97_write_pcm", "ac97_write_buffer"} => dev.civ # After(ac97.entry)

IInv == TypeOK /\ StreamKept /\ RingInStep

\* Every byte is passed on once: Passed are the bytes in the ring so far, Taken is
\* how far into its file a player has been served.
Passed == UNION {ToSet(committed[i]) : i \in 1 .. Len(committed)}

Taken(p) ==
  player[p].pos - player[p].got + player[p].sent
    + (IF op.pc = "ac97_write_buffer" THEN IF op.by = p THEN op.n ELSE 0 ELSE 0)

BytesOnce ==
  /\ ToSet(ac97.temp) \cap Passed = {}
  /\ \A p \in Players : player[p].state = "plays" =>
       \A x \in Passed \cup ToSet(ac97.temp) : x[1] = p => x[2] <= Taken(p)
  /\ op # Idle => player[op.by].state = "plays"
  /\ op.pc \in {"_audio_write", "ac97_write_pcm"} =>
       \A i \in 1 .. Len(op.buf) : op.buf[i] = <<op.by, Taken(op.by) + i>>
  /\ op.pc = "ac97_write_buffer" => op.n > 0 /\ Len(ac97.temp) > 0

\* The blocks after the last late one are the last ones the ring was given.  Behind
\* counts the buffers filled after buffer i; where it reaches no such block, the
\* buffer holds a late one or none.
Due == Without(committed, late)

Behind(i) == IF i < ac97.entry THEN ac97.entry - 1 - i ELSE ac97.entry - 1 - i + AC97_BUFFERS

Holds(b, k) == IF k < Len(Due) THEN b = Due[Len(Due) - k] ELSE b \in late \cup {Silent}

\* The device has played what is due up to the buffer it is in.
InWindow ==
  /\ \A b \in ToSet(committed) : b # Silent
  /\ late \cup ToSet(heard) \subseteq ToSet(committed)
  /\ \A k \in 1 .. Len(Due) : Due[k] \in ToSet(committed) /\ Due[k] \notin late
  /\ \A i \in Idx : Holds(ac97.buffers[i], Behind(i))
  /\ Due = <<>> => dev.playing \in late \cup {Silent} /\ Without(heard, late) = <<>>
  /\ Due # <<>> =>
       /\ committed # <<>> /\ Last(committed) \notin late
       /\ Holds(dev.playing, Behind(dev.civ))
       /\ Without(heard, late) = SubSeq(Due, 1, Len(Due) - Behind(dev.civ) - 1)
=============================================================================
