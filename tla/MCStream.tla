------------------------------ MODULE MCStream ------------------------------
(* Commands with five letters, and a buffer that takes nine characters. *)
EXTENDS Stream

list == <<47, 108, 105, 115, 116>>
MEAN == <<47, 77, 69, 65, 78>>
a == 97
b == 98

MCLines == {
  list, list \o <<NewLine>>, list \o <<13, NewLine>>,
  MEAN \o <<Blank, a, NewLine>>,
  MEAN \o <<Blank, Blank, a, NewLine>>,
  MEAN \o <<Blank, a, b, NewLine>>,
  MEAN \o <<Blank, a, b, b, NewLine>>,
  list \o <<Blank, b, NewLine>>,
  <<NewLine>> }

MCLists == {<<>>, <<69, 77, 80, 84, 89, 10, 13>>,
            <<a, a, a, a, NewLine, b, b, b, b, b, NewLine, a, NewLine>>}

MCModes == {{}, {"fragment"}, {"pipeline"}, {"pipeline", "deaf"}, {"leave"}, {"oom"}}
=============================================================================
