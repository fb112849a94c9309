--------------------------------- MODULE Term ---------------------------------
(***************************************************************************)
(* The terminal, flanterm.c, over its framebuffer backend, and printf,     *)
(* which gives it a message and then RESET, each with a flanterm_write of  *)
(* its own.  A byte is a string: a printable one is itself, a control      *)
(* character has its ASCII name, the bytes of UTF-8 are in hexadecimal.    *)
(* A write runs with interrupts off; one step puts one byte.               *)
(***************************************************************************)
EXTENDS Fb, Sgr, Unicode, TLC

CONSTANTS
  MAX_ESC_VALUES,   \* FLANTERM_MAX_ESC_VALUES
  Messages,         \* what printf is asked to print
  MaxPrintf         \* how often: a bound

\* No more rows than columns, as on every screen that is not far higher than wide:
\* flanterm_fb_raw_putchar bounds the row by the number of columns (fb.c 1013).
ASSUME TermAssumption ==
  MAX_ESC_VALUES \in Nat \ {0, 1} /\ MaxPrintf \in Nat /\ ROWS <= COLS

VARIABLES
  term,     \* the context
  todo,     \* the writes of the printf under way, what is left of each
  printed,  \* how many messages were printed
  typed     \* what they said while all of them were plain text, a history

vars == <<term, todo, printed, typed>>

RESET == <<"ESC", "[", "0", "m">>

-----------------------------------------------------------------------------
Digits == <<"0", "1", "2", "3", "4", "5", "6", "7", "8", "9">>
IsDigit(c) == c \in ToSet(Digits)
ValueOf(c) == (CHOOSE k \in 1 .. 10 : Digits[k] = c) - 1

\* UTF-8: a lead byte says how many bytes follow, and the first bits.
Leads == "C3" :> [more |-> 1, bits |-> 3 * 64] @@ "CC" :> [more |-> 1, bits |-> 12 * 64]
      @@ "E4" :> [more |-> 2, bits |-> 4 * 4096]
Follows == "80" :> 0 @@ "A9" :> 41 @@ "B8" :> 56

Controls == {"NUL", "DEL", "ESC", "TAB", "VT", "FF", "LF", "BS", "CR", "BEL", "SO", "SI",
             "CAN", "SUB"}
IsPrintable(c) == c \notin Controls \union DOMAIN Leads \union DOMAIN Follows

\* The bytes 0x40 to 0x7e that occur: they end a control sequence.
IsFinal(c) == IsPrintable(c) /\ c \notin ToSet(Digits) \union {" ", ";", "?", "(", ")", "-", ",", ".", "+"}

\* The glyph of a char of the DEC special set, by its number in code page 437.
DecSpecial ==
  "GRAVE" :> 4 @@ "0" :> 219 @@ "-" :> 24 @@ "," :> 27 @@ "." :> 25 @@ "a" :> 177 @@ "f" :> 248
  @@ "g" :> 241 @@ "h" :> 176 @@ "j" :> 217 @@ "k" :> 191 @@ "l" :> 218 @@ "m" :> 192
  @@ "n" :> 197 @@ "q" :> 196 @@ "s" :> 95 @@ "t" :> 195 @@ "u" :> 180 @@ "v" :> 193
  @@ "w" :> 194 @@ "x" :> 179 @@ "y" :> 243 @@ "z" :> 242 @@ "~" :> 250 @@ "_" :> 255
  @@ "+" :> 26 @@ "{" :> 227 @@ "}" :> 156

Replacement == ToString(254)

-----------------------------------------------------------------------------
\* flanterm_context_reinit.  The colours and the saved state stay.
flanterm_context_reinit(t) ==
  [t EXCEPT !.cursor_enabled = TRUE, !.scroll_enabled = TRUE,
            !.control_sequence = FALSE, !.escape = FALSE, !.osc = FALSE, !.osc_escape = FALSE,
            !.rrr = FALSE, !.discard_next = FALSE, !.bold = FALSE, !.bg_bold = FALSE,
            !.reverse_video = FALSE, !.dec_private = FALSE, !.insert_mode = FALSE,
            !.csi_unhandled = FALSE, !.unicode_remaining = 0, !.g_select = 0,
            !.charsets = <<"default", "dec_special">>, !.current_charset = 0,
            !.escape_offset = 0, !.esc_values_i = 0,
            !.saved_cursor_x = 0, !.saved_cursor_y = 0,
            !.current_primary = None, !.current_bg = None,
            !.scroll_top_margin = 0, !.scroll_bottom_margin = ROWS]

Attributes == {"bold", "bg_bold", "reverse_video", "current_charset", "current_primary",
               "current_bg", "text_fg", "text_bg", "cursor_x", "cursor_y"}

save_state(t)    == [t EXCEPT !.saved_state = [a \in Attributes |-> t[a]]]
restore_state(t) == [f \in DOMAIN t |-> IF f \in Attributes THEN t.saved_state[f] ELSE t[f]]

\* What flanterm_fb_init leaves: memory of zeros, the grid blank, all of it drawn.
Zeroed ==
  [bold |-> FALSE, bg_bold |-> FALSE, reverse_video |-> FALSE, current_charset |-> 0,
   current_primary |-> 0, current_bg |-> 0, text_fg |-> Palette(FALSE, 0),
   text_bg |-> Palette(FALSE, 0), cursor_x |-> 0, cursor_y |-> 0]

Blank == [i \in Cells |-> Char(" ", DefaultOf(TRUE, FALSE), DefaultOf(FALSE, FALSE))]

flanterm_fb_init ==
  full_refresh(flanterm_context_reinit(
    [cursor_enabled |-> FALSE, scroll_enabled |-> FALSE,
     control_sequence |-> FALSE, escape |-> FALSE, osc |-> FALSE, osc_escape |-> FALSE,
     rrr |-> FALSE, discard_next |-> FALSE, bold |-> FALSE, bg_bold |-> FALSE,
     reverse_video |-> FALSE, dec_private |-> FALSE, insert_mode |-> FALSE,
     csi_unhandled |-> FALSE, unicode_remaining |-> 0, code_point |-> 0, g_select |-> 0,
     charsets |-> <<>>, current_charset |-> 0, escape_offset |-> 0,
     esc_values |-> [i \in 1 .. MAX_ESC_VALUES |-> 0], esc_values_i |-> 0,
     saved_cursor_x |-> 0, saved_cursor_y |-> 0, saved_state |-> Zeroed,
     current_primary |-> 0, current_bg |-> 0, scroll_top_margin |-> 0, scroll_bottom_margin |-> 0,
     text_fg |-> DefaultOf(TRUE, FALSE), text_bg |-> DefaultOf(FALSE, FALSE),
     cursor_x |-> 0, cursor_y |-> 0, old_cursor_x |-> 0, old_cursor_y |-> 0,
     grid |-> Blank, queue |-> <<>>, map |-> [i \in Cells |-> 0], screen |-> Blank]))

-----------------------------------------------------------------------------
\* Control sequences.  v is the first value given, or its default.
First(t)  == t.esc_values[1]
Second(t) == t.esc_values[2]

\* A move from row a to row b crosses, or touches, a margin of the region.
CrossesMargin(t, a, b) ==
  \/ a <= t.scroll_top_margin /\ t.scroll_top_margin <= b
  \/ a <= t.scroll_bottom_margin /\ t.scroll_bottom_margin <= b

MoveUp(t, x, y) ==
  LET dest == y - Smaller(First(t), y)
  IN  set_cursor_pos(t, x, IF CrossesMargin(t, dest, y) /\ dest < t.scroll_top_margin
                           THEN t.scroll_top_margin ELSE dest)

MoveDown(t, x, y) ==
  LET dest == Smaller(y + First(t), ROWS - 1)
  IN  set_cursor_pos(t, x, IF CrossesMargin(t, y, dest) /\ dest >= t.scroll_bottom_margin
                           THEN t.scroll_bottom_margin - 1 ELSE dest)

\* d, G and the grave accent: a coordinate counted from 1; 0 wraps around and is the last one.
Absolute(v, n) == IF v = 0 THEN n - 1 ELSE Smaller(v - 1, n - 1)

MoveCursor(t, c, x, y) ==
  CASE c = "A" -> MoveUp(t, x, y)
    [] c = "F" -> MoveUp(t, 0, y)
    [] c \in {"B", "e"} -> MoveDown(t, x, y)
    [] c = "E" -> MoveDown(t, 0, y)
    [] c \in {"C", "a"} -> set_cursor_pos(t, Smaller(x + First(t), COLS - 1), y)
    [] c = "D" -> set_cursor_pos(t, x - Smaller(First(t), x), y)
    [] c = "d" -> set_cursor_pos(t, x, Absolute(First(t), ROWS))
    [] c \in {"G", "GRAVE"} -> set_cursor_pos(t, Absolute(First(t), COLS), y)
    [] c \in {"H", "f"} -> set_cursor_pos(t, Smaller(IF Second(t) = 0 THEN 0 ELSE Second(t) - 1, COLS - 1),
                                             Smaller(IF First(t) = 0 THEN 0 ELSE First(t) - 1, ROWS - 1))
    [] c = "s" -> [t EXCEPT !.saved_cursor_x = x, !.saved_cursor_y = y]
    [] c = "u" -> set_cursor_pos(t, t.saved_cursor_x, t.saved_cursor_y)

ScrollLines(t, n) ==
  LET Once(u, k) == scroll(u) IN FoldLeft(Once, t, Up(1, n))

\* L: lines are inserted at the cursor, which is the top margin for as long.
InsertLines(t, y) ==
  LET Once(u, k) == revscroll(u)
      in == FoldLeft(Once, [t EXCEPT !.scroll_top_margin = y], Up(1, Smaller(First(t), ROWS)))
  IN  [in EXCEPT !.scroll_top_margin = t.scroll_top_margin]

\* @: chars from the cursor on move right, blanks in their place.
InsertChars(t, x, y) ==
  LET Step(u, i) == raw_putchar(set_cursor_pos(move_character(u, i + First(t), y, i, y), i, y), " ")
  IN  set_cursor_pos(FoldLeft(Step, t, Down(COLS - 1, x)), x, y)

\* X: blanks from the cursor on, and P: chars move left first.
EraseChars(t, x, y) == set_cursor_pos(Repeat(t, " ", Smaller(First(t), COLS)), x, y)

DeleteChars(t, x, y) ==
  LET Step(u, i) == move_character(u, i - First(t), y, i, y)
  IN  EraseChars(set_cursor_pos(FoldLeft(Step, t, Up(x + First(t), COLS - 1)),
                                COLS - First(t), y), x, y)

\* J and K: a part of the screen or of the line, by blanks put one by one.
EraseDisplay(t, x, y) ==
  CASE First(t) = 0 -> set_cursor_pos(Repeat(t, " ", (ROWS - (y + 1)) * COLS + COLS - x), x, y)
    [] First(t) = 1 -> set_cursor_pos(Repeat(set_cursor_pos(t, 0, 0), " ", y * COLS + x + 1), x, y)
    [] First(t) \in {2, 3} -> clear(t, FALSE)
    [] OTHER -> t

EraseLine(t, x, y) ==
  CASE First(t) = 0 -> set_cursor_pos(Repeat(t, " ", COLS - x), x, y)
    [] First(t) = 1 -> Repeat(set_cursor_pos(t, 0, y), " ", x)
    [] First(t) = 2 -> set_cursor_pos(Repeat(set_cursor_pos(t, 0, y), " ", COLS), x, y)
    [] OTHER -> t

\* r: the scroll region; one that is empty or off the screen is all of it.
SetRegion(t) ==
  LET top == IF t.esc_values_i > 0 /\ First(t) # 0 THEN First(t) - 1 ELSE 0
      bottom == IF t.esc_values_i > 1
                THEN IF Second(t) = 0 THEN 1 ELSE Second(t) ELSE ROWS
      whole == top >= ROWS \/ bottom > ROWS \/ top >= bottom - 1
  IN  set_cursor_pos([t EXCEPT !.scroll_top_margin = IF whole THEN 0 ELSE top,
                               !.scroll_bottom_margin = IF whole THEN ROWS ELSE bottom], 0, 0)

\* h and l: mode 4 is insert mode.
mode_toggle(t, c) ==
  IF t.esc_values_i # 0 /\ First(t) = 4 THEN [t EXCEPT !.insert_mode = c = "h"] ELSE t

\* The same with a question mark: mode 25 is the cursor.
dec_private_parse(t, c) ==
  [t EXCEPT !.dec_private = FALSE,
            !.cursor_enabled = IF t.esc_values_i # 0 /\ First(t) = 25 /\ c \in {"h", "l"}
                               THEN c = "h" ELSE @]

Moves == {"A", "F", "B", "e", "E", "C", "a", "D", "d", "G", "GRAVE", "H", "f", "s", "u"}
Ignored == {"c", "n", "q", "]"}   \* they call the callback, and there is none
Known == Moves \union Ignored
           \union {"M", "L", "J", "@", "P", "X", "m", "K", "r", "l", "h"}

Execute(t, c, x, y) ==
  CASE c \in Moves -> MoveCursor(t, c, x, y)
    [] c = "M" -> ScrollLines(t, Smaller(First(t), ROWS))
    [] c = "L" -> InsertLines(t, y)
    [] c = "J" -> EraseDisplay(t, x, y)
    [] c = "@" -> InsertChars(t, x, y)
    [] c = "P" -> DeleteChars(t, x, y)
    [] c = "X" -> EraseChars(t, x, y)
    [] c = "m" -> sgr(t)
    [] c = "K" -> EraseLine(t, x, y)
    [] c = "r" -> SetRegion(t)
    [] c \in {"l", "h"} -> mode_toggle(t, c)
    [] c \in Ignored -> t

-----------------------------------------------------------------------------
Cleanup(t) == [t EXCEPT !.control_sequence = FALSE, !.escape = FALSE]

\* A digit is taken however many values there are.
PutDigitUnchecked(t, c) ==
  [t EXCEPT !.rrr = TRUE,
            !.esc_values = [i \in DOMAIN @ |-> IF i = t.esc_values_i + 1
                                               THEN @[i] * 10 + ValueOf(c) ELSE @[i]]]

PutDigit(t, c) ==
  IF t.esc_values_i = MAX_ESC_VALUES THEN t
  ELSE [t EXCEPT !.rrr = TRUE, !.esc_values[t.esc_values_i + 1] = @ * 10 + ValueOf(c)]

\* A semicolon with no digit before it.
PutEmpty(t) ==
  IF t.esc_values_i = MAX_ESC_VALUES THEN t
  ELSE [t EXCEPT !.esc_values[t.esc_values_i + 1] = 0, !.esc_values_i = @ + 1]

\* The rest of control_sequence_parse, for a byte that is no part of a value:
\* values not given get their default, and the sequence is carried out with
\* scrolling disabled.  ESC, an unknown byte, and the bytes skipped after one
\* return early, with scrolling still disabled.
FinishSequence(t, c) ==
  LET default == IF c \in {"J", "K", "q"} THEN 0 ELSE 1
      filled == [t EXCEPT !.esc_values = [i \in DOMAIN @ |-> IF i > t.esc_values_i THEN default ELSE @[i]]]
      off == [filled EXCEPT !.scroll_enabled = FALSE]
  IN  IF t.dec_private THEN Cleanup(dec_private_parse(filled, c))
      ELSE IF t.csi_unhandled
      THEN IF IsFinal(c) THEN Cleanup([off EXCEPT !.csi_unhandled = FALSE]) ELSE off
      ELSE IF c = "ESC" THEN off
      ELSE IF c \notin Known THEN [off EXCEPT !.csi_unhandled = TRUE]
      ELSE Cleanup([Execute(off, c, CursorX(t), CursorY(t)) EXCEPT !.scroll_enabled = t.scroll_enabled])

control_sequence_parse(t, c) ==
  LET counted == [t EXCEPT !.esc_values_i = @ + 1, !.rrr = FALSE]
  IN  CASE t.escape_offset = 2 /\ c = "[" -> Cleanup([t EXCEPT !.discard_next = TRUE])
        [] t.escape_offset = 2 /\ c = "?" -> [t EXCEPT !.dec_private = TRUE]
        [] IsDigit(c) -> PutDigit(t, c)
        [] c = ";" -> IF t.rrr THEN counted ELSE PutEmpty(t)
        [] OTHER -> FinishSequence(IF t.rrr THEN counted ELSE t, c)

\* An operating system command is skipped, up to BEL or ESC \.
osc_parse(t, c) ==
  IF t.osc_escape THEN [t EXCEPT !.osc = FALSE, !.osc_escape = FALSE, !.escape = FALSE]
  ELSE CASE c = "ESC" -> [t EXCEPT !.osc_escape = TRUE]
         [] c = "BEL" -> [t EXCEPT !.osc = FALSE, !.escape = FALSE]
         [] OTHER -> t

\* LF, ESC D and ESC E: the next line, which scrolls in from below at the bottom
\* of the region.
LineFeed(t, x, y) ==
  IF y = t.scroll_bottom_margin - 1 THEN set_cursor_pos(scroll(t), x, y)
  ELSE set_cursor_pos(t, x, y + 1)

ReverseLineFeed(t, y) ==
  IF y = t.scroll_top_margin THEN set_cursor_pos(revscroll(t), 0, y)
  ELSE set_cursor_pos(t, 0, y - 1)

\* The byte after ESC.
EscapeCode(t, c, x, y) ==
  LET done == [t EXCEPT !.escape = FALSE]
  IN  CASE c = "]" -> [t EXCEPT !.osc_escape = FALSE, !.osc = TRUE]
        [] c = "[" -> [t EXCEPT !.esc_values = [i \in DOMAIN @ |-> 0], !.esc_values_i = 0,
                                !.rrr = FALSE, !.csi_unhandled = FALSE, !.control_sequence = TRUE]
        [] c = "7" -> save_state(done)
        [] c = "8" -> restore_state(done)
        [] c = "c" -> clear(flanterm_context_reinit(done), TRUE)
        [] c = "D" -> LineFeed(done, x, y)
        [] c = "E" -> LineFeed(done, 0, y)
        [] c = "M" -> ReverseLineFeed(done, y)
        [] c = "(" -> [done EXCEPT !.g_select = 1]
        [] c = ")" -> [done EXCEPT !.g_select = 2]
        [] OTHER -> done

\* escape_offset is only ever compared with 2.
escape_parse(t, c) ==
  LET in == [t EXCEPT !.escape_offset = Smaller(@ + 1, 3)]
      fails == in.osc_escape /\ c # "\\"
      after == IF in.osc THEN [in EXCEPT !.osc = FALSE, !.osc_escape = FALSE] ELSE in
  IN  IF in.osc /\ ~fails THEN osc_parse(in, c)
      ELSE IF after.control_sequence THEN control_sequence_parse(after, c)
      ELSE EscapeCode(after, c, CursorX(after), CursorY(after))

-----------------------------------------------------------------------------
\* CAN, SUB and the byte to discard end whatever is under way.
Abandon(t) ==
  [t EXCEPT !.discard_next = FALSE, !.escape = FALSE, !.control_sequence = FALSE,
            !.unicode_remaining = 0, !.osc = FALSE, !.osc_escape = FALSE, !.g_select = 0]

\* A byte that continues a code point; the last one puts its glyph, or a
\* replacement as wide as it is.
ContinueUnicode(t, c) ==
  LET more == t.unicode_remaining - 1
      in == [t EXCEPT !.unicode_remaining = more, !.code_point = @ + Follows[c] * 64 ^ more]
      glyph == unicode_to_cp437(in.code_point)
      width == mk_wcwidth(in.code_point)
  IN  IF more # 0 THEN in
      ELSE IF glyph # -1 THEN raw_putchar(in, ToString(glyph))
      ELSE IF width = 0 THEN in
      ELSE Repeat(raw_putchar(in, Replacement), " ", width - 1)

\* A control character; the callback for BEL is not set.
Control(t, c, x, y) ==
  CASE c = "ESC" -> [t EXCEPT !.escape_offset = 0, !.escape = TRUE]
    [] c = "TAB" -> set_cursor_pos(t, IF x \div 8 + 1 >= COLS THEN COLS - 1 ELSE (x \div 8 + 1) * 8, y)
    [] c \in {"VT", "FF", "LF"} -> LineFeed(t, 0, y)
    [] c = "BS" -> set_cursor_pos(t, x - 1, y)
    [] c = "CR" -> set_cursor_pos(t, 0, y)
    [] c = "SO" -> [t EXCEPT !.current_charset = 1]
    [] c = "SI" -> [t EXCEPT !.current_charset = 0]
    [] OTHER -> t

\* A char to put, in insert mode after the rest of the line has moved.
Put(t, c, x, y) ==
  LET Right(u, i) == move_character(u, i + 1, y, i, y)
      in == IF t.insert_mode THEN FoldLeft(Right, t, Down(COLS - 1, x)) ELSE t
  IN  raw_putchar(in, IF /\ t.charsets[t.current_charset + 1] = "dec_special"
                         /\ c \in DOMAIN DecSpecial
                      THEN ToString(DecSpecial[c])
                      ELSE IF IsPrintable(c) THEN c ELSE Replacement)

SelectCharset(t, c) ==
  [t EXCEPT !.g_select = 0,
            !.charsets[t.g_select] = IF c = "B" THEN "default" ELSE IF c = "0" THEN "dec_special" ELSE @]

flanterm_putchar(t, c) ==
  LET u == [t EXCEPT !.unicode_remaining = 0]
  IN  CASE t.discard_next \/ c \in {"CAN", "SUB"} -> Abandon(t)
        [] t.unicode_remaining # 0 /\ c \in DOMAIN Follows -> ContinueUnicode(t, c)
        [] c \in DOMAIN Leads -> [t EXCEPT !.unicode_remaining = Leads[c].more, !.code_point = Leads[c].bits]
        [] t.escape -> escape_parse(u, c)
        [] t.g_select # 0 -> SelectCharset(u, c)
        [] c \in Controls -> Control(u, c, CursorX(u), CursorY(u))
        [] OTHER -> Put(u, c, CursorX(u), CursorY(u))

-----------------------------------------------------------------------------
PlainBytes == {"a", "b", "LF"}
Mixed == <<"mixed">>

Init ==
  /\ term = flanterm_fb_init
  /\ todo = <<>> /\ printed = 0 /\ typed = <<>>

\* printf: the message, then RESET.
printf(m) ==
  /\ todo = <<>> /\ printed < MaxPrintf
  /\ todo' = <<m, RESET>>
  /\ printed' = printed + 1
  /\ typed' = IF typed # Mixed /\ ToSet(m) \subseteq PlainBytes THEN typed \o m ELSE Mixed
  /\ UNCHANGED term

\* flanterm_write puts its bytes one by one ...
Putchar ==
  /\ todo # <<>> /\ Head(todo) # <<>>
  /\ term' = flanterm_putchar(term, Head(Head(todo)))
  /\ todo' = [todo EXCEPT ![1] = Tail(@)]
  /\ UNCHANGED <<printed, typed>>

\* ... and draws.
Flush ==
  /\ todo # <<>> /\ Head(todo) = <<>>
  /\ term' = double_buffer_flush(term)
  /\ todo' = Tail(todo)
  /\ UNCHANGED <<printed, typed>>

Next == Putchar \/ Flush \/ \E m \in Messages : printf(m)

Spec == Init /\ [][Next]_vars

-----------------------------------------------------------------------------
\* What the terminal holds, drawn or not.
Text == [i \in Cells |-> At(term, i)]

\* The queue never outgrows its memory, one item a cell, whatever is put between
\* two flushes: map leads from each queued cell to its one item, and push_to_queue
\* takes no second item for a cell that has one.
QueueFits ==
  /\ Len(term.queue) <= ROWS * COLS
  /\ \A i \in Cells : term.map[i] # 0 => term.queue[term.map[i]].i = i
  /\ \A q \in DOMAIN term.queue : term.map[term.queue[q].i] = q

\* After a flush the screen shows the text, and the cursor, colours swapped, on
\* its cell and on no other: no char is left undrawn in the queue, and the cell
\* the cursor left is drawn again.
ScreenShowsText ==
  todo \in {<<>>, <<RESET>>} =>
    \A i \in Cells : term.screen[i] =
      IF /\ term.cursor_enabled /\ term.cursor_x < COLS
         /\ i = term.cursor_x + term.cursor_y * COLS
      THEN Inverted(Text[i]) ELSE Text[i]

\* control_sequence_parse never writes past esc_values: a value is open only
\* where there is room for it.
ValuesFit ==
  /\ term.esc_values_i <= MAX_ESC_VALUES
  /\ term.rrr => term.esc_values_i < MAX_ESC_VALUES

\* Plain text on paper: a line takes COLS chars, the next char starts a new line.
\* The terminal shows the last ROWS lines of it.
Paper ==
  LET Type(lines, c) ==
        IF c = "LF" THEN Append(lines, <<>>)
        ELSE IF Len(Last(lines)) = COLS THEN Append(lines, <<c>>)
        ELSE Append(Front(lines), Append(Last(lines), c))
  IN  FoldLeft(Type, <<<<>>>>, typed)

\* As long as only plain text is printed, the terminal holds what paper would:
\* wrapping after the last column, scrolling after the last line, and the RESET
\* after every message neither lose nor move a char.
TextAsOnPaper ==
  todo = <<>> /\ typed # Mixed =>
    LET scrolled == IF Len(Paper) > ROWS THEN Len(Paper) - ROWS ELSE 0
        Shown(i) == LET y == i \div COLS + 1 + scrolled
                        x == (i % COLS) + 1
                    IN  IF y <= Len(Paper) /\ x <= Len(Paper[y]) THEN Paper[y][x] ELSE " "
    IN  \A i \in Cells : Text[i].c = Shown(i)

\* Printing inside the scroll region leaves the lines outside alone, wherever a
\* char wraps and a line feed, either way, scrolls.  Control sequences and the
\* full reset ESC c are made to do more.
InRegion(y) == term.scroll_top_margin <= y /\ y < term.scroll_bottom_margin
RegionKept ==
  [][(/\ Putchar /\ InRegion(term.cursor_y)
      /\ ~term.control_sequence /\ ~(term.escape /\ Head(Head(todo)) = "c")) =>
       \A i \in Cells : ~InRegion(i \div COLS) => Text'[i] = Text[i]]_vars

=============================================================================
