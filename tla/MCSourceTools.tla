---- MODULE MCSourceTools ----
(***************************************************************************)
(* Two runs of the formatter, as of an editor that formats on save, and one *)
(* of the linter, on small files in which the checks of the linter depend   *)
(* on the margins the formatter takes away.                                 *)
(***************************************************************************)
EXTENDS SourceTools

CONSTANTS f1, f2, l

MCFormatters == {f1, f2}
MCLinters == {l}
Symmetry == Permutations(MCFormatters)

Word(stem, capital, tail) == [stem |-> stem, capital |-> capital, tail |-> tail]
SP == [blank |-> Space]
X == Word("other", FALSE, "none")
Line(lead, core, trail) == [lead |-> lead, core |-> core, trail |-> trail]

\* A keyword in capitals at the start of a line hides the other spelling behind it once
\* the line is indented; a margin makes a keyword at an end of a line stand alone, and
\* without it the other spelling before it comes out.  The indentation takes the first of
\* the two files to one byte beyond the limit.
MCSaves ==
  {<<Line("none", <<Word("select", TRUE, "none"), SP, Word("star", FALSE, "none"), SP,
                    Word("select", FALSE, "none"), SP, X>>, "none"),
     Line("none", <<Word("from", TRUE, "none"), SP, X, SP, Word("offset", TRUE, "none")>>, "space")>>,
   <<Line("space", <<Word("limit", FALSE, "semicolon")>>, "tab"),
     Line("none", <<Word("group", TRUE, "letters"), SP, Word("having", FALSE, "none"), SP,
                    Word("having", TRUE, "none")>>, "space")>>}
====
