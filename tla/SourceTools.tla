---- MODULE SourceTools ----
(***************************************************************************)
(* The programs vcltotal-fmt and vcltotal-lint at work on one file, beside *)
(* an editor that saves it: what the main functions of src/interface/fmt   *)
(* and src/interface/lint do to the file system, step by step.             *)
(*                                                                         *)
(* fs::read_to_string reads as often as it takes to meet the end of the    *)
(* file, and fs::write empties the file and then writes to it as often as  *)
(* it takes; each read or write moves whole lines, at the offset of the    *)
(* program's own file descriptor, whatever has become of the file          *)
(* meanwhile.  A program dies at any step, of a signal, a full disk or one *)
(* of its own expect calls, as on text torn within a character.            *)
(* A save of the editor is one step.                                       *)
(***************************************************************************)
EXTENDS SourceLines, SequencesExt, FiniteSetsExt

CONSTANTS
  Formatters, Linters,    \* the runs of the programs
  Saves,                  \* the contents an editor saves
  MaxSaves,               \* bound: saves of the editor
  MAX_FILE_BYTES

ASSUME ToolsAssumption ==
  /\ Formatters \cap Linters = {}
  /\ Saves \subseteq Contents
  /\ MaxSaves \in Nat
  /\ MAX_FILE_BYTES \in Nat

Tools == Formatters \cup Linters

VARIABLES
  file,         \* the content of the input and of the output file
  saved,        \* what the editor saved last
  saves,        \* how many times it has
  at,           \* where each program is
  target,       \* the file a formatter writes to
  content,      \* what a program has read
  cursor,       \* the lines a formatter has written
  report,       \* the issues a linter has printed
  meddled,      \* history: the steps at which a program stood when others wrote to the input
  harmed,       \* history: a write to the input was overlapped, cut off or out of date
  author        \* history: what the text was that a program read, if that is one text

toolVars ==
  <<file, saved, saves, at, target, content, cursor, report, meddled, harmed, author>>

Steps == {"start", "checked", "reading", "read", "writing", "done", "refused", "dead"}

\* Every token is one byte long here, and a margin as long as its blanks.
MarginSize(m) == CASE m = "none" -> 0 [] m = "indent" -> 2 [] OTHER -> 1
LineSize(line) == MarginSize(line.lead) + Len(line.core) + MarginSize(line.trail) + 1
Size(lines) == FoldSeq(LAMBDA line, total : total + LineSize(line), 0, lines)

\* Programs in the middle of a write to the input.
Writers == {f \in Formatters : at[f] = "writing" /\ target[f] = "input"}

\* From its check of the input to the end of its reading, and on until it writes, a program
\* depends on the input as it was.
Relying == {"checked", "reading", "read"}

\* The input changes under the programs us.
Meddle(us) ==
  meddled' = [u \in Tools |-> IF u \in us THEN meddled[u] \cup ({at[u]} \cap Relying) ELSE meddled[u]]

----------------------------------------------------------------------------
(* The editor. *)

Save ==
  /\ saves < MaxSaves
  /\ saves' = saves + 1
  /\ \E s \in Saves : saved' = s /\ file' = [file EXCEPT !["input"] = s]
  /\ Meddle(Tools)
  /\ harmed' = (Writers # {})
  /\ UNCHANGED <<at, target, content, cursor, report, author>>

----------------------------------------------------------------------------
(* What the two programs begin with.  An input beyond the limit is refused *)
(* by its size when it is looked at; what is read is what is there later.  *)

\* Mutant: the limit is off by one.
LooksPast(t) ==
  /\ at[t] = "start"
  /\ at' = [at EXCEPT ![t] = IF Size(file["input"]) > MAX_FILE_BYTES + 1
                             THEN "refused" ELSE "checked"]
  /\ meddled' = [meddled EXCEPT ![t] = {}]
  /\ UNCHANGED <<file, saved, saves, target, content, cursor, report, harmed, author>>

Stat(t) ==
  /\ at[t] = "start"
  /\ at' = [at EXCEPT ![t] = IF Size(file["input"]) > MAX_FILE_BYTES
                             THEN "refused" ELSE "checked"]
  /\ meddled' = [meddled EXCEPT ![t] = {}]
  /\ UNCHANGED <<file, saved, saves, target, content, cursor, report, harmed, author>>

\* read_to_string: a writer at work now is one that writes while the program reads.
OpenInput(t) ==
  /\ at[t] = "checked"
  /\ at' = [at EXCEPT ![t] = "reading"]
  /\ meddled' = [meddled EXCEPT ![t] = IF Writers = {} THEN @ ELSE @ \cup {"reading"}]
  /\ UNCHANGED <<file, saved, saves, target, content, cursor, report, harmed, author>>

ReadSome(t) ==
  /\ at[t] = "reading"
  /\ \E n \in Len(content[t]) + 1 .. Len(file["input"]) :
       content' = [content EXCEPT ![t] = @ \o SubSeq(file["input"], Len(@) + 1, n)]
  /\ UNCHANGED <<file, saved, saves, at, target, cursor, report, meddled, harmed, author>>

EndRead(t) ==
  /\ at[t] = "reading"
  /\ Len(content[t]) >= Len(file["input"])
  /\ at' = [at EXCEPT ![t] = "read"]
  /\ author' = [author EXCEPT ![t] =
                  IF harmed \/ "reading" \in meddled[t] THEN <<>> ELSE <<saved>>]
  /\ meddled' = [meddled EXCEPT ![t] = @ \ {"checked"}]
  /\ UNCHANGED <<file, saved, saves, target, content, cursor, report, harmed>>

----------------------------------------------------------------------------
(* The rest of the linter. *)

Lint(l) ==
  /\ at[l] = "read"
  /\ at' = [at EXCEPT ![l] = "done"]
  /\ report' = [report EXCEPT ![l] = lint_vqlut(content[l])]
  /\ meddled' = [meddled EXCEPT ![l] = {}]
  /\ UNCHANGED <<file, saved, saves, target, content, cursor, harmed, author>>

----------------------------------------------------------------------------
(* The rest of the formatter. *)

Formatted(f) == format_vqlut(content[f])

Open(f) ==
  /\ at[f] = "read"
  /\ at' = [at EXCEPT ![f] = "writing"]
  /\ file' = [file EXCEPT ![target[f]] = <<>>]
  /\ cursor' = [cursor EXCEPT ![f] = 0]
  /\ IF target[f] = "input"
     THEN Meddle(Tools \ {f}) /\ harmed' = (harmed \/ meddled[f] # {} \/ Writers # {})
     ELSE UNCHANGED <<meddled, harmed>>
  /\ UNCHANGED <<saved, saves, target, content, report, author>>

\* Bytes nobody wrote, behind the end of a file that was cut short.
Hole == [lead |-> "none", core |-> <<[stem |-> "other", capital |-> FALSE, tail |-> "sign"]>>,
         trail |-> "none"]

\* The lines of b from the i-th to the j-th, put in their place in a.
Overlay(a, b, i, j) ==
  [n \in 1 .. Max({Len(a), j}) |->
     IF n \in i .. j THEN b[n] ELSE IF n \in DOMAIN a THEN a[n] ELSE Hole]

\* The write is over when the lines are; the program then ends.
Wrote(f, n) ==
  /\ file' = [file EXCEPT ![target[f]] = Overlay(@, Formatted(f), cursor[f] + 1, n)]
  /\ cursor' = [cursor EXCEPT ![f] = n]
  /\ IF target[f] = "input" THEN Meddle(Tools \ {f}) ELSE UNCHANGED meddled

\* Mutant: the text is written once, however much of it was taken.
WriteOnce(f) ==
  /\ at[f] = "writing" /\ cursor[f] < Len(content[f])
  /\ \E n \in cursor[f] + 1 .. Len(content[f]) : Wrote(f, n)
  /\ at' = [at EXCEPT ![f] = "done"]
  /\ UNCHANGED <<saved, saves, target, content, report, harmed, author>>

WriteSome(f) ==
  /\ at[f] = "writing" /\ cursor[f] < Len(content[f])
  /\ \E n \in cursor[f] + 1 .. Len(content[f]) : Wrote(f, n)
  /\ UNCHANGED <<saved, saves, at, target, content, report, harmed, author>>

Finish(f) ==
  /\ at[f] = "writing" /\ cursor[f] = Len(content[f])
  /\ at' = [at EXCEPT ![f] = "done"]
  /\ UNCHANGED <<file, saved, saves, target, content, cursor, report, meddled, harmed, author>>

----------------------------------------------------------------------------
Dies(t) ==
  /\ at[t] \notin {"done", "refused", "dead"}
  /\ at' = [at EXCEPT ![t] = "dead"]
  /\ content' = [content EXCEPT ![t] = <<>>]
  /\ meddled' = [meddled EXCEPT ![t] = {}]
  /\ author' = [author EXCEPT ![t] = <<>>]
  /\ harmed' = (harmed \/ t \in Writers)
  /\ UNCHANGED <<file, saved, saves, target, cursor, report>>

ToolsInit ==
  /\ saved \in Saves
  /\ file = [input |-> saved, output |-> <<>>]
  /\ saves = 0
  /\ at = [t \in Tools |-> "start"]
  /\ target \in [Formatters -> {"input", "output"}]
  /\ content = [t \in Tools |-> <<>>]
  /\ cursor = [f \in Formatters |-> 0]
  /\ report = [l \in Linters |-> {}]
  /\ meddled = [t \in Tools |-> {}]
  /\ harmed = FALSE
  /\ author = [t \in Tools |-> <<>>]

Tool(t) == Stat(t) \/ OpenInput(t) \/ ReadSome(t) \/ EndRead(t) \/ Dies(t)
Formatter(f) == Open(f) \/ WriteSome(f) \/ Finish(f)

ToolsNext ==
  \/ Save
  \/ \E t \in Tools : Tool(t)
  \/ \E f \in Formatters : Formatter(f)
  \/ \E l \in Linters : Lint(l)

ToolsSpec == ToolsInit /\ [][ToolsNext]_toolVars

----------------------------------------------------------------------------
(* Properties *)

\* Every variable has its type; margins never become part of a line's text.
ToolsTypeOK ==
  /\ file \in [{"input", "output"} -> Contents]
  /\ saved \in Saves /\ saves \in 0 .. MaxSaves
  /\ at \in [Tools -> Steps]
  /\ target \in [Formatters -> {"input", "output"}]
  /\ content \in [Tools -> Contents]
  /\ cursor \in [Formatters -> Nat]
  /\ report \in [Linters -> SUBSET Issues]
  /\ \A l \in Linters : \A issue \in report[l] : issue.line \in DOMAIN content[l]
  /\ meddled \in [Tools -> SUBSET Relying] /\ harmed \in BOOLEAN
  /\ author \in [Tools -> {<<>>} \cup {<<s>> : s \in Saves}]

\* Between writes the input is what the editor saved last, as saved or formatted,
\* however often it was formatted, unless a formatter was cut off while it wrote, wrote
\* what it had read before the input changed, or wrote while others did.
TextSurvives ==
  Writers = {} /\ ~harmed =>
    /\ file["input"] \in {saved, format_vqlut(saved)}
    /\ Text(file["input"]) = Text(saved)

\* What the linter prints of an input nobody was writing are the issues of the text the
\* editor saved, at the editor's own lines, whether the formatter came first or not, but
\* for the case of keywords at the ends of lines, which formatting may hide or bring out.
ReportsTheAuthors ==
  \A l \in Linters :
    at[l] = "done" /\ author[l] # <<>> =>
      SameButMargins(author[l][1], report[l], lint_vqlut(author[l][1]))

\* A program ends its reading with more than the limit only if somebody wrote to the input
\* since it looked at the size.
ReadsGuarded ==
  [][\A t \in Tools :
       at[t] = "reading" /\ at'[t] = "read" =>
         (Size(content'[t]) > MAX_FILE_BYTES => meddled[t] # {})]_toolVars

\* A copy that no other formatter began to write is the formatted text of what was read, in full.
CopyWhole ==
  \A f \in Formatters :
    /\ at[f] = "done" /\ target[f] = "output"
    /\ \A g \in Formatters \ {f} :
         target[g] = "output" => at[g] \in {"start", "checked", "reading", "read", "refused"}
    => file["output"] = format_vqlut(content[f])
====
