---------------------------------- MODULE Fb ----------------------------------
(***************************************************************************)
(* The framebuffer backend of the terminal, flanterm_backends/fb.c.        *)
(*                                                                         *)
(* Text is not drawn when it is put.  grid holds what was drawn last;      *)
(* a cell that changes gets an item in queue, which map leads to from the  *)
(* cell, and double_buffer_flush draws the items.  Every operator takes    *)
(* the context t, a record with the fields of flanterm_context and         *)
(* flanterm_fb_context, and returns it changed.  t.screen is what the      *)
(* framebuffer shows in each cell.                                         *)
(***************************************************************************)
EXTENDS Integers, Sequences, SequencesExt

CONSTANTS ROWS, COLS   \* rows and cols of the context

ASSUME FbAssumption == ROWS \in Nat \ {0} /\ COLS \in Nat \ {0}

Cells == 0 .. ROWS * COLS - 1

\* Loops: from a up to b, and from a down to b.
Up(a, b)   == [k \in 1 .. b - a + 1 |-> a + k - 1]
Down(a, b) == [k \in 1 .. a - b + 1 |-> a - k + 1]

Smaller(a, b) == IF a < b THEN a ELSE b

\* A char: what it shows, and its colours.
Char(c, fg, bg) == [c |-> c, fg |-> fg, bg |-> bg]
Empty(t)        == Char(" ", t.text_fg, t.text_bg)
Inverted(ch)    == Char(ch.c, ch.bg, ch.fg)

\* What cell i holds: its queued char, or the one drawn last.
At(t, i) == IF t.map[i] # 0 THEN t.queue[t.map[i]].c ELSE t.grid[i]

-----------------------------------------------------------------------------
\* A cell that is queued twice.
push_to_queueAgain(t, ch, x, y) ==
  LET i == y * COLS + x
  IN  IF x >= COLS \/ y >= ROWS \/ t.grid[i] = ch THEN t
      ELSE [t EXCEPT !.queue = Append(@, [i |-> i, c |-> ch]),
                     !.map[i] = Len(t.queue) + 1]

\* A queued cell that gets back the char drawn last is left as it was queued.
push_to_queueDropsBack(t, ch, x, y) ==
  LET i == y * COLS + x
  IN  IF x >= COLS \/ y >= ROWS \/ t.grid[i] = ch THEN t
      ELSE IF t.map[i] # 0 THEN [t EXCEPT !.queue[t.map[i]].c = ch]
      ELSE [t EXCEPT !.queue = Append(@, [i |-> i, c |-> ch]),
                     !.map[i] = Len(t.queue) + 1]

push_to_queue(t, ch, x, y) ==
  LET i == y * COLS + x
  IN  IF x >= COLS \/ y >= ROWS THEN t
      ELSE IF t.map[i] # 0 THEN [t EXCEPT !.queue[t.map[i]].c = ch]
      ELSE IF t.grid[i] = ch THEN t
      ELSE [t EXCEPT !.queue = Append(@, [i |-> i, c |-> ch]),
                     !.map[i] = Len(t.queue) + 1]

\* Cell i, moved by d cells.
Shift(t, i, d) == push_to_queue(t, At(t, i), (i + d) % COLS, (i + d) \div COLS)

ClearLine(t, y) ==
  LET Blank(u, x) == push_to_queue(u, Empty(t), x, y)
  IN  FoldLeft(Blank, t, Up(0, COLS - 1))

\* Lines of the scroll region move down by one; its first line is cleared.
revscroll(t) ==
  LET Lower(u, i) == Shift(u, i, COLS)
  IN  ClearLine(FoldLeft(Lower, t, Down((t.scroll_bottom_margin - 1) * COLS - 1,
                                        t.scroll_top_margin * COLS)),
                t.scroll_top_margin)

\* The last line of the region is taken for the last of the screen.
scrollWhole(t) ==
  LET Raise(u, i) == Shift(u, i, 0 - COLS)
  IN  ClearLine(FoldLeft(Raise, t, Up((t.scroll_top_margin + 1) * COLS, ROWS * COLS - 1)),
                ROWS - 1)

\* Lines of the scroll region move up by one; its last line is cleared.
scroll(t) ==
  LET Raise(u, i) == Shift(u, i, 0 - COLS)
  IN  ClearLine(FoldLeft(Raise, t, Up((t.scroll_top_margin + 1) * COLS,
                                      t.scroll_bottom_margin * COLS - 1)),
                t.scroll_bottom_margin - 1)

clear(t, move) ==
  LET Blank(u, y) == ClearLine(u, y)
      all == FoldLeft(Blank, t, Up(0, ROWS - 1))
  IN  IF move THEN [all EXCEPT !.cursor_x = 0, !.cursor_y = 0] ELSE all

\* A coordinate below 0 wraps around; the backend takes it for 0.
Clamp(v, n) == IF v < 0 THEN 0 ELSE IF v >= n THEN n - 1 ELSE v

set_cursor_pos(t, x, y) ==
  [t EXCEPT !.cursor_x = Clamp(x, COLS), !.cursor_y = Clamp(y, ROWS)]

\* get_cursor_pos: after the last column the cursor is still reported in it.
CursorX(t) == Clamp(t.cursor_x, COLS)
CursorY(t) == Clamp(t.cursor_y, ROWS)

move_character(t, new_x, new_y, old_x, old_y) ==
  IF old_x >= COLS \/ old_y >= ROWS \/ new_x >= COLS \/ new_y >= ROWS THEN t
  ELSE push_to_queue(t, At(t, old_x + old_y * COLS), new_x, new_y)

-----------------------------------------------------------------------------
plot_char(t, ch, i) == [t EXCEPT !.screen[i] = ch]

\* The char under the cursor, colours swapped; if it was queued, it is no more.
draw_cursor(t) ==
  LET i == t.cursor_x + t.cursor_y * COLS
  IN  IF t.cursor_x >= COLS \/ t.cursor_y >= ROWS THEN t
      ELSE [plot_char(t, Inverted(At(t, i)), i) EXCEPT !.grid[i] = At(t, i), !.map[i] = 0]

\* The cell the cursor leaves is not drawn again.
double_buffer_flushLeavesCursor(t) ==
  LET drawn == IF t.cursor_enabled THEN draw_cursor(t) ELSE t
      Draw(u, q) == IF u.map[q.i] = 0 THEN u
                    ELSE [plot_char(u, q.c, q.i) EXCEPT !.grid[q.i] = q.c, !.map[q.i] = 0]
  IN  [FoldLeft(Draw, drawn, drawn.queue) EXCEPT
         !.old_cursor_x = t.cursor_x, !.old_cursor_y = t.cursor_y, !.queue = <<>>]

double_buffer_flush(t) ==
  LET drawn == IF t.cursor_enabled THEN draw_cursor(t) ELSE t
      Draw(u, q) == IF u.map[q.i] = 0 THEN u
                    ELSE [plot_char(u, q.c, q.i) EXCEPT !.grid[q.i] = q.c, !.map[q.i] = 0]
      all  == FoldLeft(Draw, drawn, drawn.queue)
      left == /\ \/ t.old_cursor_x # t.cursor_x
                 \/ t.old_cursor_y # t.cursor_y
                 \/ ~t.cursor_enabled
              /\ t.old_cursor_x < COLS /\ t.old_cursor_y < ROWS
      old  == t.old_cursor_x + t.old_cursor_y * COLS
  IN  [(IF left THEN plot_char(all, all.grid[old], old) ELSE all) EXCEPT
         !.old_cursor_x = t.cursor_x, !.old_cursor_y = t.cursor_y, !.queue = <<>>]

\* Put ch at the cursor; a cursor past the last column wraps first.  The row is
\* checked against cols, not rows.  Columns from COLS on are one to every test.
raw_putchar(t, c) ==
  LET wraps == /\ t.cursor_x >= COLS
               /\ t.cursor_y < t.scroll_bottom_margin - 1 \/ t.scroll_enabled
      next == [t EXCEPT !.cursor_x = 0, !.cursor_y = @ + 1]
      in   == IF next.cursor_y = t.scroll_bottom_margin
              THEN scroll([next EXCEPT !.cursor_y = @ - 1]) ELSE next
      at   == IF wraps THEN [in EXCEPT !.cursor_y = Smaller(@, COLS - 1)] ELSE t
  IN  [push_to_queue(at, Char(c, t.text_fg, t.text_bg), at.cursor_x, at.cursor_y)
         EXCEPT !.cursor_x = Smaller(@ + 1, COLS)]

\* n chars c in a row.
Repeat(t, c, n) ==
  LET Put(u, k) == raw_putchar(u, c)
  IN  FoldLeft(Put, t, Up(1, n))

full_refresh(t) ==
  LET drawn == [t EXCEPT !.screen = t.grid]
  IN  IF t.cursor_enabled THEN draw_cursor(drawn) ELSE drawn
=============================================================================
