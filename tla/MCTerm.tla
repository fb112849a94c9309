------------------------------- MODULE MCTerm -------------------------------
(* A terminal of three rows and four columns, and messages of every kind. *)
EXTENDS Term

Csi(s) == <<"ESC", "[">> \o s

MCMessages == {
  <<"a", "b">>, <<"a", "a", "a", "a", "a">>, <<"LF">>, <<"b", "LF", "LF", "LF", "a">>,
  <<"b", "BS", "a", "CR", "TAB", "b">>,
  <<"C3", "A9">>, <<"CC", "80">>, <<"E4", "B8", "80">>, <<"E4">>, <<"C3", "a", "80">>,
  <<"ESC">>, <<"ESC", "7">>, <<"ESC", "8", "b">>, <<"ESC", "c">>,
  <<"ESC", "D", "ESC", "E", "ESC", "M", "ESC", "M">>,
  <<"ESC", "(", "0", "a", "x", "ESC", ")", "B", "SO", "a", "SI">>,
  <<"ESC", "]", "a", "BEL", "ESC", "]", "a", "ESC", "\\", "ESC", "]", "ESC", "D">>,
  Csi(<<"2", ";", "3", "r">>), Csi(<<"1", ";", "2", "r">>), Csi(<<"r">>),
  Csi(<<"A", "b">>), Csi(<<"2", "B", "a", "b">>) \o Csi(<<"C">>) \o Csi(<<"9", "D">>),
  Csi(<<"d">>) \o Csi(<<"0", "G">>) \o Csi(<<"E">>) \o Csi(<<"F">>),
  Csi(<<"2", ";", "2", "H">>), Csi(<<";", ";", "3", "H">>),
  Csi(<<"s">>) \o Csi(<<"H", "a">>) \o Csi(<<"u", "b">>),
  Csi(<<"J">>), Csi(<<"1", "J">>), Csi(<<"2", "J">>), Csi(<<"9", "J">>),
  Csi(<<"K">>) \o Csi(<<"1", "K">>), Csi(<<"2", "K">>),
  Csi(<<"M">>), Csi(<<"L">>), Csi(<<"@">>), Csi(<<"P">>), Csi(<<"2", "X">>),
  Csi(<<"4", "h", "b">>), Csi(<<"4", "l">>), Csi(<<"?", "2", "5", "l">>), Csi(<<"?", "2", "5", "h">>),
  Csi(<<"7", "m", "a">>), Csi(<<"3", "1", ";", "1", "m", "b">>), Csi(<<"4", "8", ";", "5", ";", "1", "m", "a">>),
  Csi(<<"1", ";", "2", ";", "3", ";", "4", "5", "m">>),
  Csi(<<"3">>), Csi(<<"Q", "1", "a">>), Csi(<<"[", "a">>), Csi(<<"1", "CAN", "a">>), Csi(<<"n">>)
}
=============================================================================
