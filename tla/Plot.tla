-------------------------------- MODULE Plot --------------------------------
(***************************************************************************)
(* How the framebuffer terminal is laid out and drawn: flanterm_fb_init's   *)
(* geometry and allocations, the four plot_char functions and the address   *)
(* computation of full_refresh (drivers/video/flanterm/flanterm_backends/   *)
(* fb.c).  Pixels are numbered in words from the framebuffer's first; a     *)
(* colour is a name, None being 0xffffffff, and the canvas gives each of    *)
(* its pixels a colour of its own.                                          *)
(***************************************************************************)
EXTENDS Integers, Sequences, SequencesExt

CONSTANTS
  POOL_SIZE,                  \* FLANTERM_FB_BUMP_ALLOC_POOL_SIZE
  WIDTH_LIMIT, HEIGHT_LIMIT,  \* FLANTERM_FB_WIDTH_LIMIT, FLANTERM_FB_HEIGHT_LIMIT
  CONTEXT_SIZE,               \* sizeof(struct flanterm_fb_context)
  Font(_, _)                  \* row y of glyph i in builtin_font, a byte

Transparent == "0xffffffff"

Sideways(rotation) == rotation \in {90, 270}

-----------------------------------------------------------------------------
(* flanterm_fb_init.  A screen s is what the caller passes: width, height,   *)
(* pitch (in pixels), rotation, font scales, margin, whether a canvas is     *)
(* given, and whether it brings its own malloc.                              *)

Oriented(s) ==
  IF Sideways(s.rotation) THEN [s EXCEPT !.width = s.height, !.height = s.width] ELSE s

Scaled(s) ==
  LET both(n) == [s EXCEPT !.scale_x = n, !.scale_y = n]
  IN  CASE s.scale_x # 0 /\ s.scale_y # 0 -> s
        [] s.width >= 3840 + 3840 \div 3 /\ s.height >= 2160 + 2160 \div 3 -> both(4)
        [] s.width >= 1920 + 1920 \div 3 /\ s.height >= 1080 + 1080 \div 3 -> both(2)
        [] OTHER -> both(1)

\* Only the width is limited.
LimitedWidthOnly(s) ==
  LET w == Min({s.width, WIDTH_LIMIT})
  IN  IF s.malloc THEN s
      ELSE [s EXCEPT !.width = w, !.canvas = FALSE, !.framebuffer = s.width \div 2 - w \div 2]

\* Limited to what the pool can serve, the terminal takes the middle of the screen.
Limited(s) ==
  LET w == Min({s.width, WIDTH_LIMIT})
      h == Min({s.height, HEIGHT_LIMIT})
  IN  IF s.malloc THEN s
      ELSE [s EXCEPT !.width = w, !.height = h, !.canvas = FALSE,
                     !.framebuffer = (s.height \div 2 - h \div 2) * s.pitch
                                       + (s.width \div 2 - w \div 2)]

font_width == 8 + 1

font_height == 16

\* A column that fits only in part is counted.
GeometryRoundsUp(s) ==
  LET gw == font_width * s.scale_x
      gh == font_height * s.scale_y
      w == s.width - s.margin * 2
      h == s.height - s.margin * 2
  IN  [screen |-> s, glyph_width |-> gw, glyph_height |-> gh,
       cols |-> (w + gw - 1) \div gw, rows |-> h \div gh,
       offset_x |-> s.margin + (w % gw) \div 2, offset_y |-> s.margin + (h % gh) \div 2]

Geometry(s) ==
  LET gw == font_width * s.scale_x
      gh == font_height * s.scale_y
      w == s.width - s.margin * 2
      h == s.height - s.margin * 2
  IN  [screen |-> s, glyph_width |-> gw, glyph_height |-> gh,
       cols |-> w \div gw, rows |-> h \div gh,
       offset_x |-> s.margin + (w % gw) \div 2, offset_y |-> s.margin + (h % gh) \div 2]

\* The context of the terminal on screen s.
Context(s) == Geometry(Limited(Scaled(Oriented(s))))

\* What init allocates, in its order, in bytes.
Allocations(ctx) ==
  LET cells == ctx.rows * ctx.cols
  IN  <<CONTEXT_SIZE, (8 * font_height * 256) \div 8, 256 * font_height * font_width,
        cells * 12, cells * 32, cells * 8>>
      \o IF ctx.screen.canvas THEN <<ctx.screen.width * ctx.screen.height * 4>> ELSE <<>>

\* The pool's pointer after an allocation, -1 once one has failed.
bump_alloc(ptr, size) ==
  LET next == ptr + (IF size % 16 = 0 THEN size ELSE (size \div 16 + 1) * 16)
  IN  IF ptr < 0 \/ next > POOL_SIZE THEN -1 ELSE next

\* Where the pool's pointer stands once init has allocated, the pool starting at base.
PoolAfter(ctx, base) ==
  FoldLeft(bump_alloc, IF base % 16 = 0 THEN 0 ELSE 16 - (base % 16), Allocations(ctx))

\* font_bool: the font's bits, and columns past the eighth as the VGA fills them.
font_bool(i, y, x) ==
  IF x < 8 THEN (Font(i, y) \div 2 ^ (7 - x)) % 2 = 1
  ELSE i \in 192..223 /\ Font(i, y) % 2 = 1

-----------------------------------------------------------------------------
(* Drawing.  A plot is the function from the words it writes to their        *)
(* colours.  (px, py) is where full_refresh puts the terminal's pixel (x, y). *)

Address(ctx, x, y) ==
  LET s == ctx.screen
      px == CASE s.rotation = 0 -> x
              [] s.rotation = 90 -> s.height - 1 - y
              [] s.rotation = 180 -> s.width - 1 - x
              [] s.rotation = 270 -> y
      py == CASE s.rotation = 0 -> y
              [] s.rotation = 90 -> x
              [] s.rotation = 180 -> s.height - 1 - y
              [] s.rotation = 270 -> s.width - 1 - x
  IN  s.framebuffer + py * s.pitch + px

\* The first word of a glyph whose corner is the pixel (x, y), and the two strides.
Walk(ctx, x, y) ==
  LET s == ctx.screen
      walk(dest, outer, inner) ==
        [dest |-> s.framebuffer + dest, outer_stride |-> outer, inner_stride |-> inner]
  IN  CASE s.rotation = 0 -> walk(x + y * s.pitch, s.pitch, 1)
        [] s.rotation = 90 -> walk(s.height - 1 - y + x * s.pitch, -1, s.pitch)
        [] s.rotation = 180 ->
             walk(s.width - 1 - x + (s.height - 1 - y) * s.pitch, -s.pitch, -1)
        [] s.rotation = 270 -> walk(y + (s.width - 1 - x) * s.pitch, 1, -s.pitch)

\* The loops all four share: each dot of the glyph gets its colour, word by word.
Dots(ctx) == (0..(ctx.glyph_width - 1)) \X (0..(ctx.glyph_height - 1))

Drawn(ctx, w, colour) ==
  {<<w.dest + d[2] * w.outer_stride + d[1] * w.inner_stride, colour[d]>> : d \in Dots(ctx)}

OffScreen(ctx, x, y) == x >= ctx.cols \/ y >= ctx.rows

CellX(ctx, x) == ctx.offset_x + x * ctx.glyph_width

CellY(ctx, y) == ctx.offset_y + y * ctx.glyph_height

CanvasAt(ctx, x, y) == <<"canvas", x + y * ctx.screen.width>>

plot_char_scaled_canvas(ctx, c, x, y) ==
  LET left == CellX(ctx, x)
      top == CellY(ctx, y)
      ink(gx, gy) == font_bool(c.c, gy \div ctx.screen.scale_y, gx \div ctx.screen.scale_x)
      through(k, gx, gy) == IF k = Transparent THEN CanvasAt(ctx, left + gx, top + gy) ELSE k
      colour == [<<gx, gy>> \in Dots(ctx) |-> through(IF ink(gx, gy) THEN c.fg ELSE c.bg, gx, gy)]
  IN  IF OffScreen(ctx, x, y) THEN {} ELSE Drawn(ctx, Walk(ctx, left, top), colour)

plot_char_scaled_uncanvas(ctx, c, x, y) ==
  LET through(k) == IF k = Transparent THEN "default_bg" ELSE k
      ink(gx, gy) == font_bool(c.c, gy \div ctx.screen.scale_y, gx \div ctx.screen.scale_x)
      colour == [<<gx, gy>> \in Dots(ctx) |-> through(IF ink(gx, gy) THEN c.fg ELSE c.bg)]
  IN  IF OffScreen(ctx, x, y) THEN {}
      ELSE Drawn(ctx, Walk(ctx, CellX(ctx, x), CellY(ctx, y)), colour)

plot_char_unscaled_canvas(ctx, c, x, y) ==
  LET left == CellX(ctx, x)
      top == CellY(ctx, y)
      through(k, fx, gy) == IF k = Transparent THEN CanvasAt(ctx, left + fx, top + gy) ELSE k
      colour == [<<fx, gy>> \in Dots(ctx) |->
                   through(IF font_bool(c.c, gy, fx) THEN c.fg ELSE c.bg, fx, gy)]
  IN  IF OffScreen(ctx, x, y) THEN {} ELSE Drawn(ctx, Walk(ctx, left, top), colour)

plot_char_unscaled_uncanvas(ctx, c, x, y) ==
  LET through(k) == IF k = Transparent THEN "default_bg" ELSE k
      colour == [<<fx, gy>> \in Dots(ctx) |-> through(IF font_bool(c.c, gy, fx) THEN c.fg ELSE c.bg)]
  IN  IF OffScreen(ctx, x, y) THEN {}
      ELSE Drawn(ctx, Walk(ctx, CellX(ctx, x), CellY(ctx, y)), colour)

\* The plot function init chooses.
plot(ctx, c, x, y) ==
  LET plain == ctx.screen.scale_x = 1 /\ ctx.screen.scale_y = 1
  IN  CASE plain /\ ~ctx.screen.canvas -> plot_char_unscaled_uncanvas(ctx, c, x, y)
        [] plain /\ ctx.screen.canvas -> plot_char_unscaled_canvas(ctx, c, x, y)
        [] ~plain /\ ~ctx.screen.canvas -> plot_char_scaled_uncanvas(ctx, c, x, y)
        [] ~plain /\ ctx.screen.canvas -> plot_char_scaled_canvas(ctx, c, x, y)

-----------------------------------------------------------------------------
\* The pixel of the real screen s a word belongs to, as column and row.
OnScreen(s, word) == word >= 0 /\ word % s.pitch < s.width /\ word \div s.pitch < s.height

\* What a pixel (x, y) of the terminal shows when the cell (cx, cy) holds c.
Shown(ctx, c, cx, cy, x, y) ==
  LET gx == (x - ctx.offset_x - cx * ctx.glyph_width) \div ctx.screen.scale_x
      gy == (y - ctx.offset_y - cy * ctx.glyph_height) \div ctx.screen.scale_y
      side == IF font_bool(c.c, gy, gx) THEN c.fg ELSE c.bg
  IN  IF side # Transparent THEN side
      ELSE IF ctx.screen.canvas THEN CanvasAt(ctx, x, y) ELSE "default_bg"

\* PixelsRight.  On every screen, with every rotation, scale and canvas, plotting the
\* character c in a cell writes exactly the words full_refresh uses for the pixels of
\* that cell, each once and with the colour the font asks for; the cell lies inside the
\* terminal and the words inside the real screen (the four plot_char functions of fb.c
\* against full_refresh and the geometry of flanterm_fb_init).  A terminal that is both
\* limited and turned sideways is left out: the offset of its window is computed with
\* the sides exchanged, and the kernel never asks for one.
PixelsRight(s, c, cx, cy) ==
  LET ctx == Context(s)
      left == CellX(ctx, cx)
      top == CellY(ctx, cy)
      cell == (left..(left + ctx.glyph_width - 1)) \X (top..(top + ctx.glyph_height - 1))
      words == plot(ctx, c, cx, cy)
  IN  IF OffScreen(ctx, cx, cy) THEN words = {}
      ELSE /\ words = {<<Address(ctx, p[1], p[2]), Shown(ctx, c, cx, cy, p[1], p[2])>> : p \in cell}
           /\ Cardinality(words) = ctx.glyph_width * ctx.glyph_height
           /\ \A p \in cell : p[1] < ctx.screen.width /\ p[2] < ctx.screen.height
           /\ \A w \in words : OnScreen(s, w[1])

\* PoolSuffices.  Without a malloc of the caller's, as framebuffer_install calls it,
\* flanterm_fb_init never runs out of its pool, whatever the size of the screen, and
\* wherever the linker puts the pool (bump_alloc and the limits of fb.c).
PoolSuffices(s, base) == ~s.malloc => PoolAfter(Context(s), base) >= 0

=============================================================================
