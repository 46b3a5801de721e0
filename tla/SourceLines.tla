---- MODULE SourceLines ----
(***************************************************************************)
(* The formatter and the linter of src/interface/fmt and src/interface/lint *)
(* as functions of a file's lines.                                         *)
(*                                                                         *)
(* A line is its core, what trimming leaves, between the white space before *)
(* and behind it.  A core is a sequence of tokens: blanks, and words that  *)
(* are a stem with letters, a semicolon or another sign behind it.  A stem *)
(* is a keyword, in capitals or not, a star, or something else; a keyword  *)
(* in the middle of a word is not represented.                             *)
(***************************************************************************)
EXTENDS Naturals, Sequences

Keywords ==
  {"select", "from", "where", "group", "order", "having", "limit", "offset", "effects", "proof",
   "consume", "usage"}

Words ==
  [stem : Keywords \cup {"star", "other"}, capital : BOOLEAN,
   tail : {"none", "letters", "semicolon", "sign"}]

Space == "space"
Tokens == Words \cup {[blank |-> Space], [blank |-> "tab"]}

IsWord(token) == "stem" \in DOMAIN token

\* A core begins and ends with a word.
Cores ==
  {core \in Seq(Tokens) : core # <<>> => IsWord(core[1]) /\ IsWord(core[Len(core)])}

\* The white space around a core: none, some with this blank next to the core, or the
\* two spaces of the formatter.
Margins == {"none", "space", "tab", "indent"}

Lines == [lead : Margins, core : Cores, trail : Margins]
Contents == Seq(Lines)

\* The text of a content: what is left when the layout is forgotten.
Text(content) == [i \in DOMAIN content |-> content[i].core]

----------------------------------------------------------------------------
(* The formatter. *)

\* The keywords of the formatter: usage is not among them.
Indented == Keywords \ {"usage"}

\* A line starts with a keyword in capitals that no letter, digit or underscore follows.
StartsClause(core) ==
  /\ core # <<>>
  /\ core[1].stem \in Indented
  /\ core[1].capital
  /\ core[1].tail # "letters"

\* Mutant: the indentation becomes part of the line's text.
IndentsText(line) ==
  [lead |-> "none",
   core |-> IF StartsClause(line.core) THEN <<[blank |-> Space]>> \o line.core ELSE line.core,
   trail |-> "none"]

FormatLine(line) ==
  [lead |-> IF StartsClause(line.core) THEN "indent" ELSE "none", core |-> line.core,
   trail |-> "none"]

format_vqlut(content) == [i \in DOMAIN content |-> FormatLine(content[i])]

----------------------------------------------------------------------------
(* The linter: an issue is a line, a kind and, for the case of a keyword,  *)
(* the keyword.                                                            *)

Issues ==
  [line : Nat, what : {"semicolon", "case", "select star", "offset"}, word : Keywords \cup {"none"}]

Issue(line, what, word) == [line |-> line, what |-> what, word |-> word]

Margin(m) ==
  CASE m = "none" -> <<>>
    [] m = "tab"  -> <<[blank |-> "tab"]>>
    [] OTHER      -> <<[blank |-> Space]>>

Padded(line) == Margin(line.lead) \o line.core \o Margin(line.trail)

\* The places of a sequence of tokens at which the keyword stands between two spaces.
Alone(tokens, keyword) ==
  {i \in 2 .. Len(tokens) - 1 :
     /\ IsWord(tokens[i]) /\ tokens[i].stem = keyword /\ tokens[i].tail = "none"
     /\ tokens[i - 1] = [blank |-> Space]
     /\ tokens[i + 1] = [blank |-> Space]}

MissingSemicolon(line) == line.core # <<>> /\ line.core[Len(line.core)].tail # "semicolon"

\* The keyword stands alone on the line, but nowhere in capitals.
LowerKeyword(line, keyword) ==
  LET tokens == Padded(line)
      places == Alone(tokens, keyword)
  IN  places # {} /\ \A i \in places : ~tokens[i].capital

Starts(line, keyword) == line.core # <<>> /\ line.core[1].stem = keyword

SelectStar(line) ==
  /\ Starts(line, "select")
  /\ \E i \in 1 .. Len(line.core) - 2 :
       /\ IsWord(line.core[i]) /\ line.core[i].stem = "select" /\ line.core[i].tail = "none"
       /\ line.core[i + 1] = [blank |-> Space]
       /\ IsWord(line.core[i + 2]) /\ line.core[i + 2].stem = "star"

\* Mutant: OFFSET and LIMIT are looked for with the margins of their lines.
LooksAtMargins(line, keyword) == Alone(Padded(line), keyword) # {}

\* In capitals or not.
Mentions(line, keyword) == Starts(line, keyword) \/ Alone(line.core, keyword) # {}

\* The first mention of OFFSET in a content that has no LIMIT anywhere.
IsOffsetAlone(content, i) ==
  /\ Mentions(content[i], "offset")
  /\ \A j \in 1 .. i - 1 : ~Mentions(content[j], "offset")
  /\ \A j \in DOMAIN content : ~Mentions(content[j], "limit")

lint_vqlut(content) ==
  LET cases == UNION {{Issue(i, "case", k) : k \in {k \in Keywords : LowerKeyword(content[i], k)}} :
                        i \in DOMAIN content}
  IN  {Issue(i, "semicolon", "none") : i \in {i \in DOMAIN content : MissingSemicolon(content[i])}}
        \cup cases
        \cup {Issue(i, "select star", "none") : i \in {i \in DOMAIN content : SelectStar(content[i])}}
        \cup {Issue(i, "offset", "none") : i \in {i \in DOMAIN content : IsOffsetAlone(content, i)}}

\* A keyword at either end of a line: white space around the line decides whether it
\* stands alone.
AtMargin(line, keyword) ==
  line.core # <<>> /\ \E i \in {1, Len(line.core)} : line.core[i].stem = keyword

\* Two lists of issues differ in nothing but the case of such keywords.
SameButMargins(content, a, b) ==
  \A issue \in (a \ b) \cup (b \ a) :
    issue.what = "case" /\ AtMargin(content[issue.line], issue.word)
====
