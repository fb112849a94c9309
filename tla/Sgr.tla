---------------------------------- MODULE Sgr ----------------------------------
(***************************************************************************)
(* The colours and attributes of the terminal: sgr() of flanterm.c and the *)
(* colour setters of fb.c.  A colour is <<kind, number>>.                  *)
(***************************************************************************)
EXTENDS Integers, Sequences, TLC

None == -1   \* current_primary and current_bg with no colour chosen

Palette(bright, k) == <<IF bright THEN "bright" ELSE "normal", k>>

\* The colours of set_text_fg_default, set_text_bg_default and their bright
\* forms; the normal background is 0xffffffff, which lets the canvas through.
DefaultOf(fg, bright) ==
  IF fg THEN <<IF bright THEN "default_fg_bright" ELSE "default_fg", 0>>
        ELSE <<IF bright THEN "default_bg_bright" ELSE "transparent", 0>>

SetSide(t, fg, colour) ==
  IF fg THEN [t EXCEPT !.text_fg = colour] ELSE [t EXCEPT !.text_bg = colour]

swap_palette(t) == [t EXCEPT !.text_fg = t.text_bg, !.text_bg = t.text_fg]

\* What reverse video makes of a side: the foreground is drawn as background.
FrontSide(t) == ~t.reverse_video
BackSide(t)  == t.reverse_video

\* Colour k of the palette, or the default of the side where none is chosen.
Show(t, fg, bright, k) ==
  SetSide(t, fg, IF k = None THEN DefaultOf(fg, bright) ELSE Palette(bright, k))

ResetAttributes(t) ==
  [t EXCEPT !.reverse_video = FALSE, !.bold = FALSE, !.bg_bold = FALSE,
            !.current_primary = None, !.current_bg = None,
            !.text_fg = DefaultOf(TRUE, FALSE), !.text_bg = DefaultOf(FALSE, FALSE)]

SetBold(t, b)   == Show([t EXCEPT !.bold = b], FrontSide(t), b, t.current_primary)
SetBgBold(t, b) == Show([t EXCEPT !.bg_bold = b], BackSide(t), b, t.current_bg)

SetPrimary(t, k, bright) ==
  SetSide([t EXCEPT !.current_primary = k], FrontSide(t), Palette(bright, k))

\* A background set without regard to reverse video.
SetBgStraight(t, k, bright) ==
  SetSide([t EXCEPT !.current_bg = k], FALSE, Palette(bright, k))

SetBg(t, k, bright) ==
  SetSide([t EXCEPT !.current_bg = k], BackSide(t), Palette(bright, k))

DefaultPrimary(t) == SetSide([t EXCEPT !.current_primary = None], FrontSide(t), DefaultOf(TRUE, t.bold))
DefaultBg(t)      == SetSide([t EXCEPT !.current_bg = None], BackSide(t), DefaultOf(FALSE, t.bg_bold))

SetReverse(t, b) ==
  IF t.reverse_video = b THEN t ELSE swap_palette([t EXCEPT !.reverse_video = b])

\* One code that takes no parameters of its own; unknown ones do nothing.
Code(t, v) ==
  CASE v = 0           -> ResetAttributes(t)
    [] v = 1           -> SetBold(t, TRUE)
    [] v = 5           -> SetBgBold(t, TRUE)
    [] v = 22          -> SetBold(t, FALSE)
    [] v = 25          -> SetBgBold(t, FALSE)
    [] v \in 30 .. 37  -> SetPrimary(t, v - 30, t.bold)
    [] v \in 40 .. 47  -> SetBg(t, v - 40, t.bg_bold)
    [] v \in 90 .. 97  -> SetPrimary(t, v - 90, TRUE)
    [] v \in 100 .. 107 -> SetBg(t, v - 100, TRUE)
    [] v = 39          -> DefaultPrimary(t)
    [] v = 49          -> DefaultBg(t)
    [] v = 7           -> SetReverse(t, TRUE)
    [] v = 27          -> SetReverse(t, FALSE)
    [] OTHER           -> t

\* 38;5;col and 48;5;col; the entries of col256 are colours of a kind of their own.
Colour256(t, fg, col) ==
  CASE col < 8   -> SetSide(t, fg, Palette(FALSE, col))
    [] col < 16  -> SetSide(t, fg, Palette(TRUE, col - 8))
    [] col < 256 -> SetSide(t, fg, <<"col256", col - 16>>)
    [] OTHER     -> t

Rgb(r, g, b) == <<"rgb", (r * 256 + g) * 256 + b>>

\* The loop of sgr from value i (counted from 1) of the n given; a 38 or 48 with
\* too few values after it ends the loop.
RECURSIVE SgrFrom(_, _, _)
SgrFrom(t, i, n) ==
  LET v == t.esc_values
      fg == v[i] = 38
  IN  IF i > n THEN t
      ELSE IF v[i] \notin {38, 48} THEN SgrFrom(Code(t, v[i]), i + 1, n)
      ELSE IF i + 1 > n THEN t
      ELSE CASE v[i + 1] = 2 ->
                  IF i + 4 > n THEN t
                  ELSE SgrFrom(SetSide(t, fg, Rgb(v[i + 2], v[i + 3], v[i + 4])), i + 5, n)
             [] v[i + 1] = 5 ->
                  IF i + 2 > n THEN t ELSE SgrFrom(Colour256(t, fg, v[i + 2]), i + 3, n)
             [] OTHER -> SgrFrom(t, i + 2, n)

sgr(t) == IF t.esc_values_i = 0 THEN ResetAttributes(t) ELSE SgrFrom(t, 1, t.esc_values_i)

-----------------------------------------------------------------------------
\* The attributes of a terminal after reinit, and after a list of codes.
Fresh == [reverse_video |-> FALSE, bold |-> FALSE, bg_bold |-> FALSE,
          current_primary |-> None, current_bg |-> None,
          text_fg |-> DefaultOf(TRUE, FALSE), text_bg |-> DefaultOf(FALSE, FALSE)]

After(codes) ==
  sgr([esc_values |-> codes, esc_values_i |-> Len(codes)] @@ Fresh)

\* Neither a weight set for a colour that is still the default, nor reverse video, nor
\* an extended colour: under reverse video these three act on the sides as drawn.
Reversible(codes) ==
  \A i \in DOMAIN codes :
    LET before == After(SubSeq(codes, 1, i - 1))
    IN  /\ codes[i] \notin {7, 27, 38, 48}
        /\ codes[i] \in {1, 22} => before.current_primary # None
        /\ codes[i] \in {5, 25} => before.current_bg # None

\* ReverseUndone.  Colours chosen while reverse video is on are those that show once it
\* is switched off again, as if it had never been on (the fg and bg branches of sgr()).
ReverseUndone(codes) ==
  LET plain == After(codes)
      turned == After(<<7>> \o codes \o <<27>>)
  IN  Reversible(codes) =>
        /\ turned.text_fg = plain.text_fg /\ turned.text_bg = plain.text_bg
        /\ turned.current_primary = plain.current_primary
        /\ turned.current_bg = plain.current_bg
=============================================================================
