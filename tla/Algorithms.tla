----------------------------- MODULE Algorithms -----------------------------
(***************************************************************************)
(* The kernel's pure functions, each against its reference: the formatter   *)
(* (Printf), the drawing and layout of the terminal (Plot), the width of a  *)
(* character (Unicode) and the colour codes (Sgr).  A behaviour picks one   *)
(* problem and stops.                                                       *)
(***************************************************************************)
EXTENDS Printf, Plot, Sgr, Unicode, FiniteSets

CONSTANTS
  Directives, BufferSizes,     \* what is formatted (a list of sets), and into which buffers
  Screens, Characters, Bases,  \* screens, characters drawn, pool addresses modulo 16
  CodePoints,                  \* what is measured
  CodeLists                    \* lists of colour codes

VARIABLE problem

Init == problem = [kind |-> "none"]

Format ==
  /\ problem.kind = "none"
  /\ \E i \in DOMAIN Directives, b \in BufferSizes : \E d \in Directives[i] :
       /\ Defined(d)
       /\ problem' = [kind |-> "format", directive |-> d, bufsz |-> b]

Draw ==
  /\ problem.kind = "none"
  /\ \E s \in Screens, c \in Characters :
       \E x \in {0, Context(s).cols - 1, Context(s).cols}, y \in {0, Context(s).rows - 1, Context(s).rows} :
         problem' = [kind |-> "draw", screen |-> s, char |-> c, x |-> x, y |-> y]

Allocate ==
  /\ problem.kind = "none"
  /\ \E s \in Screens, base \in Bases :
       problem' = [kind |-> "allocate", screen |-> s, base |-> base]

Measure ==
  /\ problem.kind = "none"
  /\ \E u \in CodePoints : problem' = [kind |-> "measure", ucs |-> u]

Colour ==
  /\ problem.kind = "none"
  /\ \E l \in CodeLists : problem' = [kind |-> "colour", codes |-> l]

Next == Format \/ Draw \/ Allocate \/ Measure \/ Colour

Spec == Init /\ [][Next]_problem

-----------------------------------------------------------------------------
\* printf's text is C's, cut to the buffer: see FormatRight (npf_vsnprintf).
FormatsRight == problem.kind = "format" => FormatRight(problem.directive, problem.bufsz)

\* A character is drawn in its cell and nowhere else: see PixelsRight (plot_char_*).
DrawingsRight ==
  problem.kind = "draw" =>
    LET s == problem.screen
    IN  \/ Sideways(s.rotation) /\ Context(s).screen.framebuffer # 0
        \/ PixelsRight(s, problem.char, problem.x, problem.y)

\* The terminal's pool is never too small: see PoolSuffices (bump_alloc).
PoolNeverFails == problem.kind = "allocate" => PoolSuffices(problem.screen, problem.base)

\* Characters are as wide as the tables say: see WidthRight (mk_wcwidth, bisearch).
WidthsRight == problem.kind = "measure" => WidthRight(problem.ucs)

\* Reverse video can be undone: see ReverseUndone (sgr).
ReverseVideoUndone == problem.kind = "colour" => ReverseUndone(problem.codes)
=============================================================================
