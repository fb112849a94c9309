------------------------------- MODULE Unicode -------------------------------
(***************************************************************************)
(* What the terminal makes of a code point: its glyph in code page 437, or *)
(* the number of cells that replace it.  The tables are flanterm.c's.      *)
(***************************************************************************)
EXTENDS Integers, Sequences

\* The code points with glyphs 1 to 31, and those with glyphs 127 to 254.
LowGlyphs == <<
  \h263a, \h263b, \h2665, \h2666, \h2663, \h2660, \h2022, \h25d8, \h25cb,
  \h25d9, \h2642, \h2640, \h266a, \h266b, \h263c, \h25ba, \h25c4, \h2195,
  \h203c, \hb6, \ha7, \h25ac, \h21a8, \h2191, \h2193, \h2192, \h2190, \h221f,
  \h2194, \h25b2, \h25bc >>

HighGlyphs == <<
  \h2302, \hc7, \hfc, \he9, \he2, \he4, \he0, \he5, \he7, \hea, \heb, \he8,
  \hef, \hee, \hec, \hc4, \hc5, \hc9, \he6, \hc6, \hf4, \hf6, \hf2, \hfb,
  \hf9, \hff, \hd6, \hdc, \ha2, \ha3, \ha5, \h20a7, \h192, \he1, \hed, \hf3,
  \hfa, \hf1, \hd1, \haa, \hba, \hbf, \h2310, \hac, \hbd, \hbc, \ha1, \hab,
  \hbb, \h2591, \h2592, \h2593, \h2502, \h2524, \h2561, \h2562, \h2556,
  \h2555, \h2563, \h2551, \h2557, \h255d, \h255c, \h255b, \h2510, \h2514,
  \h2534, \h252c, \h251c, \h2500, \h253c, \h255e, \h255f, \h255a, \h2554,
  \h2569, \h2566, \h2560, \h2550, \h256c, \h2567, \h2568, \h2564, \h2565,
  \h2559, \h2558, \h2552, \h2553, \h256b, \h256a, \h2518, \h250c, \h2588,
  \h2584, \h258c, \h2590, \h2580, \h3b1, \hdf, \h393, \h3c0, \h3a3, \h3c3,
  \hb5, \h3c4, \h3a6, \h398, \h3a9, \h3b4, \h221e, \h3c6, \h3b5, \h2229,
  \h2261, \hb1, \h2265, \h2264, \h2320, \h2321, \hf7, \h2248, \hb0, \h2219,
  \hb7, \h221a, \h207f, \hb2, \h25a0 >>

\* The code points with a glyph, and what unicode_to_cp437 answers for one.
HasGlyph(code_point) == \/ \E g \in DOMAIN LowGlyphs : LowGlyphs[g] = code_point
                        \/ \E g \in DOMAIN HighGlyphs : HighGlyphs[g] = code_point

unicode_to_cp437(code_point) ==
  IF \E g \in DOMAIN LowGlyphs : LowGlyphs[g] = code_point
  THEN CHOOSE g \in DOMAIN LowGlyphs : LowGlyphs[g] = code_point
  ELSE IF HasGlyph(code_point)
  THEN 126 + CHOOSE g \in DOMAIN HighGlyphs : HighGlyphs[g] = code_point
  ELSE -1

-----------------------------------------------------------------------------
\* Intervals of non-spacing characters: <<first, last>>.
combining == <<
  <<\h300, \h36f>>, <<\h483, \h486>>, <<\h488, \h489>>, <<\h591, \h5bd>>,
  <<\h5bf, \h5bf>>, <<\h5c1, \h5c2>>, <<\h5c4, \h5c5>>, <<\h5c7, \h5c7>>,
  <<\h600, \h603>>, <<\h610, \h615>>, <<\h64b, \h65e>>, <<\h670, \h670>>,
  <<\h6d6, \h6e4>>, <<\h6e7, \h6e8>>, <<\h6ea, \h6ed>>, <<\h70f, \h70f>>,
  <<\h711, \h711>>, <<\h730, \h74a>>, <<\h7a6, \h7b0>>, <<\h7eb, \h7f3>>,
  <<\h901, \h902>>, <<\h93c, \h93c>>, <<\h941, \h948>>, <<\h94d, \h94d>>,
  <<\h951, \h954>>, <<\h962, \h963>>, <<\h981, \h981>>, <<\h9bc, \h9bc>>,
  <<\h9c1, \h9c4>>, <<\h9cd, \h9cd>>, <<\h9e2, \h9e3>>, <<\ha01, \ha02>>,
  <<\ha3c, \ha3c>>, <<\ha41, \ha42>>, <<\ha47, \ha48>>, <<\ha4b, \ha4d>>,
  <<\ha70, \ha71>>, <<\ha81, \ha82>>, <<\habc, \habc>>, <<\hac1, \hac5>>,
  <<\hac7, \hac8>>, <<\hacd, \hacd>>, <<\hae2, \hae3>>, <<\hb01, \hb01>>,
  <<\hb3c, \hb3c>>, <<\hb3f, \hb3f>>, <<\hb41, \hb43>>, <<\hb4d, \hb4d>>,
  <<\hb56, \hb56>>, <<\hb82, \hb82>>, <<\hbc0, \hbc0>>, <<\hbcd, \hbcd>>,
  <<\hc3e, \hc40>>, <<\hc46, \hc48>>, <<\hc4a, \hc4d>>, <<\hc55, \hc56>>,
  <<\hcbc, \hcbc>>, <<\hcbf, \hcbf>>, <<\hcc6, \hcc6>>, <<\hccc, \hccd>>,
  <<\hce2, \hce3>>, <<\hd41, \hd43>>, <<\hd4d, \hd4d>>, <<\hdca, \hdca>>,
  <<\hdd2, \hdd4>>, <<\hdd6, \hdd6>>, <<\he31, \he31>>, <<\he34, \he3a>>,
  <<\he47, \he4e>>, <<\heb1, \heb1>>, <<\heb4, \heb9>>, <<\hebb, \hebc>>,
  <<\hec8, \hecd>>, <<\hf18, \hf19>>, <<\hf35, \hf35>>, <<\hf37, \hf37>>,
  <<\hf39, \hf39>>, <<\hf71, \hf7e>>, <<\hf80, \hf84>>, <<\hf86, \hf87>>,
  <<\hf90, \hf97>>, <<\hf99, \hfbc>>, <<\hfc6, \hfc6>>, <<\h102d, \h1030>>,
  <<\h1032, \h1032>>, <<\h1036, \h1037>>, <<\h1039, \h1039>>,
  <<\h1058, \h1059>>, <<\h1160, \h11ff>>, <<\h135f, \h135f>>,
  <<\h1712, \h1714>>, <<\h1732, \h1734>>, <<\h1752, \h1753>>,
  <<\h1772, \h1773>>, <<\h17b4, \h17b5>>, <<\h17b7, \h17bd>>,
  <<\h17c6, \h17c6>>, <<\h17c9, \h17d3>>, <<\h17dd, \h17dd>>,
  <<\h180b, \h180d>>, <<\h18a9, \h18a9>>, <<\h1920, \h1922>>,
  <<\h1927, \h1928>>, <<\h1932, \h1932>>, <<\h1939, \h193b>>,
  <<\h1a17, \h1a18>>, <<\h1b00, \h1b03>>, <<\h1b34, \h1b34>>,
  <<\h1b36, \h1b3a>>, <<\h1b3c, \h1b3c>>, <<\h1b42, \h1b42>>,
  <<\h1b6b, \h1b73>>, <<\h1dc0, \h1dca>>, <<\h1dfe, \h1dff>>,
  <<\h200b, \h200f>>, <<\h202a, \h202e>>, <<\h2060, \h2063>>,
  <<\h206a, \h206f>>, <<\h20d0, \h20ef>>, <<\h302a, \h302f>>,
  <<\h3099, \h309a>>, <<\ha806, \ha806>>, <<\ha80b, \ha80b>>,
  <<\ha825, \ha826>>, <<\hfb1e, \hfb1e>>, <<\hfe00, \hfe0f>>,
  <<\hfe20, \hfe23>>, <<\hfeff, \hfeff>>, <<\hfff9, \hfffb>>,
  <<\h10a01, \h10a03>>, <<\h10a05, \h10a06>>, <<\h10a0c, \h10a0f>>,
  <<\h10a38, \h10a3a>>, <<\h10a3f, \h10a3f>>, <<\h1d167, \h1d169>>,
  <<\h1d173, \h1d182>>, <<\h1d185, \h1d18b>>, <<\h1d1aa, \h1d1ad>>,
  <<\h1d242, \h1d244>>, <<\he0001, \he0001>>, <<\he0020, \he007f>>,
  <<\he0100, \he01ef>> >>

\* The search of bisearch between min and max; table is indexed from 1.
RECURSIVE Search(_, _, _, _)
Search(ucs, table, min, max) ==
  LET mid == (min + max) \div 2
  IN  IF max < min THEN FALSE
      ELSE IF ucs > table[mid + 1][2] THEN Search(ucs, table, mid + 1, max)
      ELSE IF ucs < table[mid + 1][1] THEN Search(ucs, table, min, mid - 1)
      ELSE TRUE

\* A search that gives up on the last interval left.
bisearchStopsEarly(ucs, table, max) ==
  /\ table[1][1] <= ucs /\ ucs <= table[max + 1][2]
  /\ Search(ucs, table, 0, max - 1)

bisearch(ucs, table, max) ==
  /\ table[1][1] <= ucs /\ ucs <= table[max + 1][2]
  /\ Search(ucs, table, 0, max)

\* Intervals of characters two cells wide, 0x303f aside.
Wide == { <<\h1100, \h115f>>, <<\h2329, \h232a>>, <<\h2e80, \ha4cf>>, <<\hac00, \hd7a3>>,
          <<\hf900, \hfaff>>, <<\hfe10, \hfe19>>, <<\hfe30, \hfe6f>>, <<\hff00, \hff60>>,
          <<\hffe0, \hffe6>>, <<\h20000, \h2fffd>>, <<\h30000, \h3fffd>> }

mk_wcwidth(ucs) ==
  IF ucs = 0 THEN 0
  ELSE IF ucs < 32 \/ ucs \in \h7f .. \h9f THEN 1
  ELSE IF bisearch(ucs, combining, Len(combining) - 1) THEN 0
  ELSE IF ucs # \h303f /\ \E w \in Wide : w[1] <= ucs /\ ucs <= w[2] THEN 2
  ELSE 1

-----------------------------------------------------------------------------
Within(ucs, intervals) == \E w \in intervals : w[1] <= ucs /\ ucs <= w[2]

\* WidthRight.  The binary search finds a code point exactly when some interval of the
\* table holds it, the width is the one the tables give, and every code point with a
\* glyph of its own is one cell wide (bisearch, mk_wcwidth and unicode_to_cp437).
WidthRight(ucs) ==
  LET combines == Within(ucs, {combining[i] : i \in DOMAIN combining})
  IN  /\ bisearch(ucs, combining, Len(combining) - 1) <=> combines
      /\ mk_wcwidth(ucs) = CASE ucs = 0 \/ (combines /\ ucs >= 32) -> 0
                             [] ~combines /\ ucs # \h303f /\ Within(ucs, Wide) -> 2
                             [] OTHER -> 1
      /\ ucs > 0 /\ HasGlyph(ucs) => mk_wcwidth(ucs) = 1

=============================================================================
