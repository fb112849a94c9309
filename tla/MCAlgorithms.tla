---------------------------- MODULE MCAlgorithms ----------------------------
(* Problems at the borders: every flag, zero and the largest values, screens  *)
(* around the limits, code points around every interval's ends.               *)
EXTENDS Algorithms

Part(opt, ns) == {[opt |-> opt, n |-> n] : n \in ns}
Omitted == Part("NONE", {0})

FlagLists == {<<>>} \cup {<<f>> : f \in {"-", "0", "+", " ", "#"}}
               \cup {<<"0", "-">>, <<"-", "0">>, <<" ", "+">>, <<"#", "0">>, <<"+", "0">>}

MCDirectives == <<
  [flags : FlagLists,
   width : Omitted \cup Part("LITERAL", {1, 6}) \cup Part("STAR", {6, -6}),
   prec : Omitted \cup Part("LITERAL", {0, 4}) \cup Part("STAR", {0, 3, -1}),
   mod : {<<>>, <<"h">>, <<"h", "h">>, <<"l">>},
   conv : IntegerConv \ {"i", "X"}, arg : {0, 8, 27, 127}],
  [flags : FlagLists, width : Omitted \cup Part("LITERAL", {6}), prec : Omitted,
   mod : {<<>>, <<"j">>, <<"z">>, <<"t">>, <<"l", "l">>}, conv : {"p", "i", "X"}, arg : {0, 26, 127}],
  [flags : FlagLists, width : Omitted \cup Part("LITERAL", {4}) \cup Part("STAR", {4, -4}),
   prec : Omitted \cup Part("LITERAL", {0, 1}) \cup Part("STAR", {-1}),
   mod : {<<>>}, conv : {"s"}, arg : {<<>>, <<"q", "r">>}],
  [flags : FlagLists, width : Omitted \cup Part("LITERAL", {4}), prec : Omitted,
   mod : {<<>>}, conv : {"c"}, arg : {"q"}] >>

MCScreens ==
  {[width |-> d[1], height |-> d[2], pitch |-> d[1] + pad, rotation |-> r,
    scale_x |-> sc[1], scale_y |-> sc[2], margin |-> m, canvas |-> cv, malloc |-> cv, framebuffer |-> 0] :
     d \in {<<16, 16>>, <<100, 75>>, <<1024, 768>>, <<1919, 1199>>, <<1920, 1200>>, <<1921, 1080>>,
            <<800, 1300>>, <<2559, 1440>>, <<2560, 1440>>, <<5120, 2880>>},
     pad \in {0, 16}, r \in {0, 90, 180, 270},
     sc \in {<<0, 0>>, <<1, 1>>}, m \in {0}, cv \in BOOLEAN}
  \cup
  {[width |-> 200, height |-> 150, pitch |-> 200, rotation |-> r, scale_x |-> 2, scale_y |-> 3,
    margin |-> 5, canvas |-> cv, malloc |-> TRUE, framebuffer |-> 0] : r \in {0, 90, 180, 270}, cv \in BOOLEAN}

MCCharacters ==
  {[c |-> 65, fg |-> "grey", bg |-> Transparent], [c |-> 196, fg |-> Transparent, bg |-> "red"]}

MCFont(i, y) == (i * 7 + y * 37 + 1) % 256

MCCodePoints ==
  UNION {{w[1] - 1, w[1], w[1] + 1, w[2] - 1, w[2], w[2] + 1} :
           w \in {combining[i] : i \in DOMAIN combining} \cup Wide}
  \cup (0..255) \cup {\h303e, \h303f, \h3040, \h10ffff}
  \cup {LowGlyphs[i] : i \in DOMAIN LowGlyphs} \cup {HighGlyphs[i] : i \in DOMAIN HighGlyphs}

Codes == {0, 1, 5, 22, 25, 31, 39, 42, 49, 92, 104}

MCCodeLists == UNION {[1..n -> Codes] : n \in 0..4}
=============================================================================
