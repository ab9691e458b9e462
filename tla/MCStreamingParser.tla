--------------------------- MODULE MCStreamingParser ---------------------------
(***************************************************************************)
(* The lines StreamingParser.cfg feeds to the parser: one of every form    *)
(* the code tells apart, with the markers that an update reads as context  *)
(* lines when they are indented.                                           *)
(***************************************************************************)
EXTENDS StreamingParser

CONSTANTS f, g, x

MCLines == {Blank, MarkerText, x}

Line(form, arg) == [form |-> form, arg |-> arg, indented |-> FALSE]

Indented(line) == [line EXCEPT !.indented = TRUE]

Headers ==
    {Line("begin", None), Line("env", f), Line("env", g), Line("add", f), Line("delete", f),
     Line("update", f), Line("move", f), Line("end", None)}

Content == {Line(" ", Blank), Line("+", x), Line("-", x), Line("empty", None)}

MCInputLines ==
    Headers \cup Content
    \cup {Line("env", None), Line("section", None), Line("eof", None), Line("junk", None)}
    \cup {Indented(Line("end", None)), Indented(Line("section", x))}
=============================================================================
