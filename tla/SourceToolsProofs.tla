---- MODULE SourceToolsProofs ----
(***************************************************************************)
(* What the formatter keeps and what the linter says of its output, for    *)
(* every content; and the safety properties of the two programs, for any   *)
(* number of runs, any contents the editor saves and any limit on the size. *)
(***************************************************************************)
EXTENDS SourceTools, TLAPS

----------------------------------------------------------------------------
(* The two functions. *)

LEMMA FormatLineType ==
  ASSUME NEW line \in Lines
  PROVE  FormatLine(line) \in Lines /\ FormatLine(line).core = line.core
BY DEF FormatLine, Lines, Margins

\* A formatted content is a content again, of as many lines.
LEMMA FormatType ==
  ASSUME NEW lines \in Contents
  PROVE  /\ format_vqlut(lines) \in Contents
         /\ DOMAIN format_vqlut(lines) = DOMAIN lines
         /\ \A i \in DOMAIN lines : format_vqlut(lines)[i] = FormatLine(lines[i])
<1>1. \A i \in DOMAIN lines : lines[i] \in Lines
  BY DEF Contents
<1>2. \A i \in DOMAIN lines : FormatLine(lines[i]) \in Lines
  BY <1>1, FormatLineType
<1>3. DOMAIN lines = 1 .. Len(lines) /\ Len(lines) \in Nat
  BY DEF Contents
<1>. QED
  BY <1>2, <1>3 DEF format_vqlut, Contents

\* Formatting keeps the text of every line.
THEOREM FormatKeepsText ==
  ASSUME NEW lines \in Contents
  PROVE  Text(format_vqlut(lines)) = Text(lines)
<1>1. \A i \in DOMAIN lines : lines[i] \in Lines
  BY DEF Contents
<1>. QED
  BY <1>1, FormatLineType, FormatType DEF Text

\* Formatting a formatted lines changes nothing.
THEOREM FormatOnce ==
  ASSUME NEW lines \in Contents
  PROVE  format_vqlut(format_vqlut(lines)) = format_vqlut(lines)
<1>. DEFINE once == format_vqlut(lines)
<1>1. \A i \in DOMAIN lines : lines[i] \in Lines
  BY DEF Contents
<1>2. \A i \in DOMAIN lines : FormatLine(FormatLine(lines[i])) = FormatLine(lines[i])
  BY <1>1, FormatLineType DEF FormatLine
<1>3. once = [i \in DOMAIN lines |-> FormatLine(lines[i])]
  BY DEF format_vqlut
<1>4. format_vqlut(once) = [i \in DOMAIN once |-> FormatLine(once[i])]
  BY DEF format_vqlut
<1>. QED
  BY <1>2, <1>3, <1>4

----------------------------------------------------------------------------
(* The checks that look at the text of a line alone. *)

LEMMA TextChecks ==
  ASSUME NEW lines \in Contents
  PROVE  LET formatted == format_vqlut(lines)
         IN  \A i \in DOMAIN lines :
               /\ MissingSemicolon(formatted[i]) <=> MissingSemicolon(lines[i])
               /\ SelectStar(formatted[i]) <=> SelectStar(lines[i])
               /\ IsOffsetAlone(formatted, i) <=> IsOffsetAlone(lines, i)
<1>. DEFINE formatted == format_vqlut(lines)
<1>1. \A i \in DOMAIN lines : formatted[i].core = lines[i].core
  <2>1. \A i \in DOMAIN lines : lines[i] \in Lines
    BY DEF Contents
  <2>. QED
    BY <2>1, FormatLineType, FormatType
<1>2. \A i \in DOMAIN lines, k \in {"offset", "limit"} :
         Mentions(formatted[i], k) <=> Mentions(lines[i], k)
  BY <1>1 DEF Mentions, Starts
<1>3. DOMAIN formatted = DOMAIN lines
  BY FormatType
<1>4. \A i \in DOMAIN lines : \A j \in 1 .. i - 1 : j \in DOMAIN lines
  BY DEF Contents
<1>5. ASSUME NEW i \in DOMAIN lines
      PROVE  /\ MissingSemicolon(formatted[i]) <=> MissingSemicolon(lines[i])
             /\ SelectStar(formatted[i]) <=> SelectStar(lines[i])
  BY <1>1, <1>5 DEF MissingSemicolon, SelectStar, Starts
<1>. HIDE DEF formatted
<1>6. ASSUME NEW i \in DOMAIN lines
      PROVE  IsOffsetAlone(formatted, i) <=> IsOffsetAlone(lines, i)
  BY <1>2, <1>3, <1>4, <1>6 DEF IsOffsetAlone
<1>. QED
  BY <1>5, <1>6 DEF formatted

----------------------------------------------------------------------------
(* The check of a keyword's case. *)

LEMMA MarginShape ==
  ASSUME NEW m \in Margins
  PROVE  /\ Margin(m) \in Seq(Tokens)
         /\ Len(Margin(m)) \in {0, 1}
         /\ \A i \in 1 .. Len(Margin(m)) : ~IsWord(Margin(m)[i])
<1>. DEFINE sp == [blank |-> Space]
            tab == [blank |-> "tab"]
<1>1. sp \in Tokens /\ tab \in Tokens
  BY DEF Tokens
<1>2. "stem" \notin DOMAIN sp /\ "stem" \notin DOMAIN tab
  OBVIOUS
<1>3. Margin(m) \in {<<>>, <<sp>>, <<tab>>}
  BY DEF Margin, Margins
<1>. HIDE DEF sp, tab
<1>4. <<>> \in Seq(Tokens) /\ <<sp>> \in Seq(Tokens) /\ <<tab>> \in Seq(Tokens)
  BY <1>1
<1>5. Len(<<>>) = 0 /\ Len(<<sp>>) = 1 /\ Len(<<tab>>) = 1
      /\ <<sp>>[1] = sp /\ <<tab>>[1] = tab
  OBVIOUS
<1>6. CASE Margin(m) = <<>>
  BY <1>4, <1>5, <1>6
<1>7. CASE Margin(m) = <<sp>>
  BY <1>2, <1>4, <1>5, <1>7 DEF IsWord
<1>8. CASE Margin(m) = <<tab>>
  BY <1>2, <1>4, <1>5, <1>8 DEF IsWord
<1>. QED
  BY <1>3, <1>6, <1>7, <1>8

LEMMA Joined ==
  ASSUME NEW S, NEW a \in Seq(S), NEW b \in Seq(S)
  PROVE  /\ a \o b \in Seq(S) /\ Len(a \o b) = Len(a) + Len(b)
         /\ \A i \in 1 .. Len(a) : (a \o b)[i] = a[i]
         /\ \A i \in 1 .. Len(b) : (a \o b)[Len(a) + i] = b[i]
OBVIOUS

\* Three sequences, one behind the other.
LEMMA Glued ==
  ASSUME NEW S, NEW a \in Seq(S), NEW b \in Seq(S), NEW c \in Seq(S),
         NEW all, all = (a \o b) \o c
  PROVE  /\ Len(all) = Len(a) + Len(b) + Len(c)
         /\ \A i \in 1 .. Len(a) : all[i] = a[i]
         /\ \A i \in 1 .. Len(b) : all[Len(a) + i] = b[i]
         /\ \A i \in 1 .. Len(c) : all[Len(a) + Len(b) + i] = c[i]
<1>0. PICK ab \in Seq(S) : ab = a \o b
  BY Joined
<1>1. /\ Len(ab) = Len(a) + Len(b)
      /\ \A i \in 1 .. Len(a) : ab[i] = a[i]
      /\ \A i \in 1 .. Len(b) : ab[Len(a) + i] = b[i]
  BY <1>0, Joined
<1>2. /\ Len(all) = Len(ab) + Len(c)
      /\ \A i \in 1 .. Len(ab) : all[i] = ab[i]
      /\ \A i \in 1 .. Len(c) : all[Len(ab) + i] = c[i]
  BY <1>0
<1>3. Len(a) \in Nat /\ Len(b) \in Nat /\ Len(c) \in Nat
  OBVIOUS
<1>4. \A i \in 1 .. Len(a) : all[i] = a[i]
  <2>1. \A i \in 1 .. Len(a) : i \in 1 .. Len(ab)
    BY <1>1, <1>3
  <2>. QED
    BY <1>1, <1>2, <2>1
<1>5. \A i \in 1 .. Len(b) : all[Len(a) + i] = b[i]
  <2>1. \A i \in 1 .. Len(b) : Len(a) + i \in 1 .. Len(ab)
    BY <1>1, <1>3
  <2>. QED
    BY <1>1, <1>2, <2>1
<1>. QED
  BY <1>1, <1>2, <1>4, <1>5

\* The places of the padded line are those of its core, and more at its ends only.
LEMMA PaddedPlaces ==
  ASSUME NEW line \in Lines, NEW k \in Keywords
  PROVE  LET w == Len(Margin(line.lead))
         IN  \A i \in Alone(Padded(line), k) :
               /\ i - w \in DOMAIN line.core
               /\ Padded(line)[i] = line.core[i - w]
               /\ i - w \in Alone(line.core, k) \/ i - w \in {1, Len(line.core)}
<1>. DEFINE w == Len(Margin(line.lead))
            lead == Margin(line.lead)
            trail == Margin(line.trail)
            core == line.core
            tokens == Padded(line)
<1>1. core \in Seq(Tokens) /\ Len(core) \in Nat
  BY DEF Lines, Cores
<1>2. /\ lead \in Seq(Tokens) /\ trail \in Seq(Tokens)
      /\ w \in {0, 1} /\ Len(trail) \in {0, 1}
      /\ \A i \in 1 .. w : ~IsWord(lead[i])
      /\ \A i \in 1 .. Len(trail) : ~IsWord(trail[i])
  BY MarginShape DEF Lines
<1>. HIDE DEF lead, trail
<1>3. /\ Len(tokens) = w + Len(core) + Len(trail)
      /\ \A i \in 1 .. w : tokens[i] = lead[i]
      /\ \A i \in 1 .. Len(core) : tokens[w + i] = core[i]
      /\ \A i \in 1 .. Len(trail) : tokens[w + Len(core) + i] = trail[i]
  <2>1. tokens = (lead \o core) \o trail /\ w = Len(lead)
    BY DEF Padded, lead, trail
  <2>. HIDE DEF core, tokens, w
  <2>2. lead \in Seq(Tokens) /\ core \in Seq(Tokens) /\ trail \in Seq(Tokens)
    BY <1>1, <1>2
  <2>3. /\ Len(tokens) = Len(lead) + Len(core) + Len(trail)
        /\ \A i \in 1 .. Len(lead) : tokens[i] = lead[i]
        /\ \A i \in 1 .. Len(core) : tokens[Len(lead) + i] = core[i]
        /\ \A i \in 1 .. Len(trail) : tokens[Len(lead) + Len(core) + i] = trail[i]
    BY <2>1, <2>2, Glued
  <2>. QED
    BY <2>1, <2>3, Zenon
<1>. HIDE DEF w, core, tokens
<1>4. ASSUME NEW i \in Alone(tokens, k)
      PROVE  /\ i - w \in DOMAIN core
             /\ tokens[i] = core[i - w]
             /\ i - w \in Alone(core, k) \/ i - w \in {1, Len(core)}
  <2>1. i \in 2 .. Len(tokens) - 1 /\ IsWord(tokens[i])
        /\ tokens[i].stem = k /\ tokens[i].tail = "none"
        /\ tokens[i - 1] = [blank |-> Space] /\ tokens[i + 1] = [blank |-> Space]
    BY DEF Alone
  <2>2. i \in w + 1 .. w + Len(core)
    <3>1. CASE i <= w
      BY <1>2, <1>3, <2>1, <3>1
    <3>2. CASE i > w + Len(core)
      <4>1. i - (w + Len(core)) \in 1 .. Len(trail)
        BY <1>1, <1>2, <1>3, <2>1, <3>2
      <4>2. tokens[i] = trail[i - (w + Len(core))]
        BY <1>1, <1>2, <1>3, <2>1, <4>1
      <4>. QED
        BY <1>2, <2>1, <4>1, <4>2
    <3>. QED
      BY <1>1, <1>2, <1>3, <2>1, <3>1, <3>2
  <2>3. i - w \in 1 .. Len(core) /\ i - w \in DOMAIN core /\ tokens[i] = core[i - w]
    <3>1. i - w \in 1 .. Len(core) /\ w + (i - w) = i
      BY <1>1, <1>2, <2>1, <2>2
    <3>. QED
      BY <1>1, <1>3, <3>1
  <2>4. ASSUME i - w \notin {1, Len(core)}
        PROVE  i - w \in Alone(core, k)
    <3>1. i - w \in 2 .. Len(core) - 1
      BY <1>1, <1>2, <2>1, <2>3, <2>4
    <3>2. tokens[i - 1] = core[(i - w) - 1] /\ tokens[i + 1] = core[(i - w) + 1]
      <4>1. /\ (i - w) - 1 \in 1 .. Len(core) /\ w + ((i - w) - 1) = i - 1
            /\ (i - w) + 1 \in 1 .. Len(core) /\ w + ((i - w) + 1) = i + 1
        BY <1>1, <1>2, <2>1, <3>1
      <4>. QED
        BY <1>3, <4>1
    <3>. QED
      BY <2>1, <2>3, <3>1, <3>2 DEF Alone
  <2>. QED
    BY <2>3, <2>4
<1>. QED
  BY <1>4 DEF w, core, tokens

\* Every place of the core is one of the padded line.
LEMMA CorePlaces ==
  ASSUME NEW line \in Lines, NEW k \in Keywords, NEW i \in Alone(line.core, k)
  PROVE  LET w == Len(Margin(line.lead))
         IN  /\ w + i \in Alone(Padded(line), k)
             /\ Padded(line)[w + i] = line.core[i]
<1>. DEFINE w == Len(Margin(line.lead))
            lead == Margin(line.lead)
            trail == Margin(line.trail)
            core == line.core
            tokens == Padded(line)
<1>1. core \in Seq(Tokens) /\ Len(core) \in Nat
  BY DEF Lines, Cores
<1>2. /\ lead \in Seq(Tokens) /\ trail \in Seq(Tokens)
      /\ w \in {0, 1} /\ Len(trail) \in {0, 1}
  BY MarginShape DEF Lines
<1>. HIDE DEF lead, trail
<1>3. /\ Len(tokens) = w + Len(core) + Len(trail)
      /\ \A j \in 1 .. Len(core) : tokens[w + j] = core[j]
  <2>1. tokens = (lead \o core) \o trail /\ w = Len(lead)
    BY DEF Padded, lead, trail
  <2>. HIDE DEF core, tokens, w
  <2>2. lead \in Seq(Tokens) /\ core \in Seq(Tokens) /\ trail \in Seq(Tokens)
    BY <1>1, <1>2
  <2>. QED
    BY <2>1, <2>2, Glued
<1>. HIDE DEF w, core, tokens
<1>4. /\ i \in 2 .. Len(core) - 1 /\ IsWord(core[i])
      /\ core[i].stem = k /\ core[i].tail = "none"
      /\ core[i - 1] = [blank |-> Space] /\ core[i + 1] = [blank |-> Space]
  BY DEF Alone, core
<1>5. /\ tokens[w + i] = core[i] /\ tokens[(w + i) - 1] = core[i - 1]
      /\ tokens[(w + i) + 1] = core[i + 1] /\ w + i \in 2 .. Len(tokens) - 1
  <2>1. /\ i \in 1 .. Len(core) /\ i - 1 \in 1 .. Len(core) /\ i + 1 \in 1 .. Len(core)
        /\ w + (i - 1) = (w + i) - 1 /\ w + (i + 1) = (w + i) + 1
        /\ w + i \in 2 .. Len(tokens) - 1
    BY <1>1, <1>2, <1>3, <1>4
  <2>. QED
    BY <1>3, <2>1
<1>. QED
  BY <1>4, <1>5 DEF Alone, w, core, tokens

\* Away from the ends of a line, its margins do not decide what is said of a keyword.
LEMMA CaseOfCore ==
  ASSUME NEW line \in Lines, NEW k \in Keywords, ~AtMargin(line, k)
  PROVE  LowerKeyword(line, k)
           <=> Alone(line.core, k) # {} /\ \A i \in Alone(line.core, k) : ~line.core[i].capital
<1>. DEFINE w == Len(Margin(line.lead))
            tokens == Padded(line)
<1>1. ASSUME NEW i \in Alone(tokens, k)
      PROVE  i - w \in Alone(line.core, k) /\ tokens[i] = line.core[i - w]
  <2>1. /\ i - w \in DOMAIN line.core
        /\ tokens[i] = line.core[i - w]
        /\ i - w \in Alone(line.core, k) \/ i - w \in {1, Len(line.core)}
    BY PaddedPlaces
  <2>2. tokens[i].stem = k
    BY DEF Alone
  <2>3. line.core # <<>>
    BY <2>1
  <2>. QED
    BY <2>1, <2>2, <2>3 DEF AtMargin
<1>2. ASSUME NEW i \in Alone(line.core, k)
      PROVE  w + i \in Alone(tokens, k) /\ tokens[w + i] = line.core[i]
  BY CorePlaces
<1>. HIDE DEF w, tokens
<1>3. LowerKeyword(line, k) <=> Alone(tokens, k) # {} /\ \A i \in Alone(tokens, k) : ~tokens[i].capital
  BY DEF LowerKeyword, tokens
<1>. QED
  BY <1>1, <1>2, <1>3

\* Of a formatted content the linter says what it says of the content itself, but for the
\* case of keywords at the ends of lines.
THEOREM LintAfterFormat ==
  ASSUME NEW lines \in Contents
  PROVE  SameButMargins(lines, lint_vqlut(format_vqlut(lines)), lint_vqlut(lines))
<1>. DEFINE formatted == format_vqlut(lines)
<1>1. DOMAIN formatted = DOMAIN lines
  BY FormatType
<1>2. ASSUME NEW i \in DOMAIN lines
      PROVE  /\ lines[i] \in Lines /\ formatted[i] \in Lines
             /\ formatted[i].core = lines[i].core
  <2>1. lines[i] \in Lines
    BY DEF Contents
  <2>. QED
    BY <2>1, FormatType, FormatLineType
<1>3. ASSUME NEW i \in DOMAIN lines, NEW k \in Keywords, ~AtMargin(lines[i], k)
      PROVE  LowerKeyword(formatted[i], k) <=> LowerKeyword(lines[i], k)
  <2>1. ~AtMargin(formatted[i], k)
    BY <1>2, <1>3 DEF AtMargin
  <2>. QED
    BY <1>2, <1>3, <2>1, CaseOfCore
<1>. DEFINE Cases(c) == UNION {{Issue(i, "case", k) : k \in {k \in Keywords : LowerKeyword(c[i], k)}} :
                                i \in DOMAIN c}
            Others(c) == {Issue(i, "semicolon", "none") : i \in {i \in DOMAIN c : MissingSemicolon(c[i])}}
              \cup {Issue(i, "select star", "none") : i \in {i \in DOMAIN c : SelectStar(c[i])}}
              \cup {Issue(i, "offset", "none") : i \in {i \in DOMAIN c : IsOffsetAlone(c, i)}}
<1>4. lint_vqlut(formatted) = Cases(formatted) \cup Others(formatted)
      /\ lint_vqlut(lines) = Cases(lines) \cup Others(lines)
  BY DEF lint_vqlut
<1>5. Others(formatted) = Others(lines)
  BY <1>1, TextChecks
<1>6. \A c, issue : issue \in Cases(c) <=>
         \E i \in DOMAIN c, k \in Keywords : issue = Issue(i, "case", k) /\ LowerKeyword(c[i], k)
  OBVIOUS
<1>. HIDE DEF Cases, Others, formatted
<1>7. ASSUME NEW issue \in (Cases(formatted) \ Cases(lines)) \cup (Cases(lines) \ Cases(formatted))
      PROVE  issue.what = "case" /\ AtMargin(lines[issue.line], issue.word)
  <2>1. PICK i \in DOMAIN lines, k \in Keywords :
          issue = Issue(i, "case", k)
          /\ (LowerKeyword(formatted[i], k) \/ LowerKeyword(lines[i], k))
    BY <1>1, <1>6
  <2>2. ~(LowerKeyword(formatted[i], k) <=> LowerKeyword(lines[i], k))
    BY <1>1, <1>6, <2>1
  <2>3. AtMargin(lines[i], k)
    BY <1>3, <2>2
  <2>. QED
    BY <2>1, <2>3 DEF Issue
<1>. QED
  BY <1>4, <1>5, <1>7 DEF SameButMargins, formatted

----------------------------------------------------------------------------
(* The programs. *)

LEMMA MaxOfTwo ==
  ASSUME NEW m \in Nat, NEW n \in Nat
  PROVE  Max({m, n}) = IF m >= n THEN m ELSE n
<1>1. \E x \in {m, n} : \A y \in {m, n} : x >= y
  OBVIOUS
<1>. QED
  BY <1>1 DEF Max

LEMMA HoleType == Hole \in Lines
<1>. DEFINE w == [stem |-> "other", capital |-> FALSE, tail |-> "sign"]
            core == <<w>>
<1>1. w \in Tokens /\ IsWord(w)
  BY DEF Tokens, Words, IsWord
<1>. HIDE DEF w
<1>2. core \in Seq(Tokens) /\ Len(core) = 1 /\ core[1] = w
  BY <1>1
<1>. HIDE DEF core
<1>3. core \in Cores
  BY <1>1, <1>2 DEF Cores
<1>4. Hole = [lead |-> "none", core |-> core, trail |-> "none"]
  BY DEF Hole, core, w
<1>. QED
  BY <1>3, <1>4 DEF Lines, Margins

LEMMA OverlayType ==
  ASSUME NEW a \in Contents, NEW b \in Contents, NEW i \in Nat, NEW j \in 0 .. Len(b), i > 0
  PROVE  Overlay(a, b, i, j) \in Contents
<1>1. Len(a) \in Nat /\ Len(b) \in Nat /\ j \in Nat
  BY DEF Contents
<1>. DEFINE top == Max({Len(a), j})
<1>2. top \in Nat
  BY <1>1, MaxOfTwo
<1>3. \A n \in DOMAIN a : a[n] \in Lines
  BY DEF Contents
<1>4. \A n \in i .. j : b[n] \in Lines
  BY <1>1 DEF Contents
<1>. HIDE DEF top
<1>5. Overlay(a, b, i, j) \in [1 .. top -> Lines]
  BY <1>3, <1>4, HoleType DEF Overlay, top
<1>. QED
  BY <1>2, <1>5 DEF Contents

\* Writing the lines behind those already written.
LEMMA OverlayGrows ==
  ASSUME NEW b \in Contents, NEW c \in Nat, NEW n \in c + 1 .. Len(b)
  PROVE  Overlay(SubSeq(b, 1, c), b, c + 1, n) = SubSeq(b, 1, n)
<1>1. Len(b) \in Nat /\ n \in Nat /\ c < n /\ n <= Len(b)
  BY DEF Contents
<1>2. SubSeq(b, 1, c) = [k \in 1 .. c |-> b[k]] /\ Len(SubSeq(b, 1, c)) = c
      /\ DOMAIN SubSeq(b, 1, c) = 1 .. c
  BY <1>1 DEF Contents
<1>3. SubSeq(b, 1, n) = [k \in 1 .. n |-> b[k]]
  BY <1>1 DEF Contents
<1>4. Max({Len(SubSeq(b, 1, c)), n}) = n
  BY <1>1, <1>2, MaxOfTwo
<1>5. \A k \in 1 .. n : k \in c + 1 .. n \/ k \in 1 .. c
  BY <1>1
<1>. QED
  BY <1>2, <1>3, <1>4, <1>5 DEF Overlay

LEMMA WholeSubSeq ==
  ASSUME NEW b \in Contents
  PROVE  SubSeq(b, 1, Len(b)) = b /\ SubSeq(b, 1, 0) = <<>>
<1>1. b \in Seq(Lines) /\ Len(b) \in Nat /\ b = [k \in 1 .. Len(b) |-> b[k]]
  BY DEF Contents
<1>. QED
  BY <1>1

\* Reading on takes what was read one piece further into the file.
LEMMA ReadGrows ==
  ASSUME NEW c \in Contents, NEW b \in Contents, NEW n \in Len(c) + 1 .. Len(b)
  PROVE  /\ c \o SubSeq(b, Len(c) + 1, n) \in Contents
         /\ c = SubSeq(b, 1, Len(c)) =>
              /\ Len(c \o SubSeq(b, Len(c) + 1, n)) = n /\ n <= Len(b)
              /\ c \o SubSeq(b, Len(c) + 1, n) = SubSeq(b, 1, n)
<1>1. /\ c \in Seq(Lines) /\ b \in Seq(Lines) /\ Len(c) \in Nat /\ Len(b) \in Nat /\ n \in Nat
      /\ Len(c) + 1 <= n /\ n <= Len(b)
  BY DEF Contents
<1>. DEFINE more == SubSeq(b, Len(c) + 1, n)
<1>2. /\ more \in Seq(Lines) /\ Len(more) = n - Len(c)
      /\ \A i \in 1 .. n - Len(c) : more[i] = b[Len(c) + i]
  BY <1>1
<1>. HIDE DEF more
<1>3. c \o more \in Contents /\ Len(c \o more) = n
  BY <1>1, <1>2 DEF Contents
<1>4. ASSUME c = SubSeq(b, 1, Len(c)) PROVE c \o more = SubSeq(b, 1, n)
  <2>1. SubSeq(b, 1, n) \in Seq(Lines) /\ Len(SubSeq(b, 1, n)) = n
    BY <1>1
  <2>2. \A i \in 1 .. n : SubSeq(b, 1, n)[i] = b[i]
    BY <1>1
  <2>3. \A i \in 1 .. Len(c) : c[i] = b[i]
    BY <1>1, <1>4
  <2>4. \A i \in 1 .. n : (c \o more)[i] = b[i]
    BY <1>1, <1>2, <2>3
  <2>. QED
    BY <1>3, <2>1, <2>2, <2>4 DEF Contents
<1>. QED
  BY <1>1, <1>3, <1>4 DEF more

----------------------------------------------------------------------------
(* The inductive invariant. *)

Versions(s) == {s, format_vqlut(s)}

\* A size that was looked at is out of date only if the program was told so.
Guarded ==
  \A t \in Tools :
    at[t] \in {"checked", "reading"} => (Size(file["input"]) > MAX_FILE_BYTES => meddled[t] # {})

\* A program has read nothing before it opens the input, and of an input nobody has been
\* writing since, as much as it has read; what it read has no author before the end of it.
Reading ==
  \A t \in Tools :
    /\ at[t] \in {"start", "checked"} => content[t] = <<>>
    /\ at[t] \in {"start", "checked", "reading"} => author[t] = <<>>
    /\ at[t] = "reading" /\ "reading" \notin meddled[t] =>
         /\ Writers = {}
         /\ Len(content[t]) <= Len(file["input"])
         /\ content[t] = SubSeq(file["input"], 1, Len(content[t]))

\* While nothing is harmed, there is one writer at most; it writes a version of what was
\* saved, and the input is as much of that as it has written.  Who has read the input
\* since it last changed has read a version of it.
Intact ==
  /\ Writers = {} => file["input"] \in Versions(saved)
  /\ \A f \in Writers :
       /\ Writers = {f}
       /\ content[f] \in Versions(saved)
       /\ cursor[f] <= Len(content[f])
       /\ file["input"] = SubSeq(Formatted(f), 1, cursor[f])
  /\ \A f \in Formatters : at[f] = "read" /\ meddled[f] = {} => content[f] \in Versions(saved)

Surviving == ~harmed => Intact

\* What was read of an author's text is a version of it, and what is printed is about
\* what was read.
Authored ==
  /\ \A t \in Tools : author[t] # <<>> => content[t] \in Versions(author[t][1])
  /\ \A l \in Linters : report[l] = IF at[l] = "done" THEN lint_vqlut(content[l]) ELSE {}

Untouched(g) == target[g] = "output" => at[g] \in {"start", "checked", "reading", "read", "refused"}

\* A copy nobody else touches is as much of the formatted text as has been written.
Copying ==
  \A f \in Formatters :
    target[f] = "output" /\ (\A g \in Formatters \ {f} : Untouched(g)) =>
      /\ at[f] = "writing" => /\ cursor[f] <= Len(content[f])
                              /\ file["output"] = SubSeq(Formatted(f), 1, cursor[f])
      /\ at[f] = "done" => file["output"] = Formatted(f)

ToolsInv == ToolsTypeOK /\ Guarded /\ Reading /\ Surviving /\ Authored /\ Copying

\* What the types give of the contents at hand.
LEMMA ContentTypes ==
  ASSUME ToolsTypeOK
  PROVE  /\ saved \in Contents
         /\ file["input"] \in Contents /\ file["output"] \in Contents
         /\ \A f \in Formatters :
              /\ f \in Tools /\ content[f] \in Contents
              /\ Formatted(f) \in Contents /\ Len(Formatted(f)) = Len(content[f])
              /\ Len(content[f]) \in Nat
              /\ target[f] \in {"input", "output"} /\ cursor[f] \in Nat
         /\ \A l \in Linters : l \in Tools /\ content[l] \in Contents
<1>1. \A f \in Tools : content[f] \in Contents
  BY DEF ToolsTypeOK
<1>2. ASSUME NEW f \in Formatters
      PROVE  /\ Formatted(f) \in Contents /\ Len(Formatted(f)) = Len(content[f])
             /\ Len(content[f]) \in Nat
  <2>1. content[f] \in Contents
    BY <1>1 DEF Tools
  <2>2. Formatted(f) \in Contents /\ DOMAIN Formatted(f) = DOMAIN content[f]
    BY <2>1, FormatType DEF Formatted
  <2>. QED
    BY <2>1, <2>2 DEF Contents
<1>3. saved \in Contents
  BY ToolsAssumption DEF ToolsTypeOK
<1>. QED
  BY <1>1, <1>2, <1>3 DEF ToolsTypeOK, Tools

\* A program that depends on the input is told of a change of it.
LEMMA MeddleMarks ==
  ASSUME ToolsTypeOK, NEW us \in SUBSET Tools, Meddle(us)
  PROVE  /\ meddled' \in [Tools -> SUBSET Relying]
         /\ \A u \in us : at[u] \in {"checked", "reading", "read"} => meddled'[u] # {}
         /\ \A u \in us : at[u] = "reading" => "reading" \in meddled'[u]
         /\ \A u \in Tools \ us : meddled'[u] = meddled[u]
<1>1. \A u \in us : meddled'[u] = meddled[u] \cup ({at[u]} \cap Relying)
  BY DEF Meddle
<1>2. \A u \in us : at[u] \in {"checked", "reading", "read"} => at[u] \in meddled'[u]
  BY <1>1 DEF Relying
<1>3. meddled' \in [Tools -> SUBSET Relying]
  BY DEF Meddle, ToolsTypeOK
<1>4. \A u \in Tools \ us : meddled'[u] = meddled[u]
  BY DEF Meddle
<1>. QED
  BY <1>2, <1>3, <1>4

\* What has been read and what is there to read.
LEMMA ReadTypes ==
  ASSUME ToolsTypeOK, NEW t \in Tools
  PROVE  /\ content[t] \in Contents /\ file["input"] \in Contents
         /\ Len(content[t]) \in Nat /\ Len(file["input"]) \in Nat
BY DEF ToolsTypeOK, Contents

\* A version formatted is the formatted text.
LEMMA VersionFormatted ==
  ASSUME NEW s \in Contents, NEW v \in Versions(s)
  PROVE  format_vqlut(v) = format_vqlut(s)
BY FormatOnce DEF Versions

LEMMA IssueLines ==
  ASSUME NEW c \in Contents
  PROVE  /\ lint_vqlut(c) \subseteq Issues
         /\ \A issue \in lint_vqlut(c) : issue.line \in DOMAIN c
<1>. DEFINE cases == UNION {{Issue(i, "case", k) : k \in {k \in Keywords : LowerKeyword(c[i], k)}} :
                              i \in DOMAIN c}
            kinds == {"semicolon", "case", "select star", "offset"}
<1>1. DOMAIN c \subseteq Nat
  BY DEF Contents
<1>2. \A i \in DOMAIN c, what \in kinds, word \in Keywords \cup {"none"} :
         Issue(i, what, word).line = i /\ Issue(i, what, word) \in Issues
  BY <1>1 DEF Issue, Issues
<1>3. \A issue \in cases : \E i \in DOMAIN c, word \in Keywords : issue = Issue(i, "case", word)
  OBVIOUS
<1>. HIDE DEF cases
<1>4. \A issue \in lint_vqlut(c) :
         issue \in cases \/ \E i \in DOMAIN c, what \in kinds : issue = Issue(i, what, "none")
  BY DEF lint_vqlut, cases
<1>. HIDE DEF kinds
<1>5. "case" \in kinds
  BY DEF kinds
<1>. QED
  BY <1>2, <1>3, <1>4, <1>5

----------------------------------------------------------------------------
THEOREM ToolsInit_Inv == ToolsInit => ToolsInv
<1>. SUFFICES ASSUME ToolsInit PROVE ToolsInv
  OBVIOUS
<1>1. saved \in Contents /\ <<>> \in Contents
  BY ToolsAssumption DEF ToolsInit, Contents
<1>2. ToolsTypeOK
  <2>1. file \in [{"input", "output"} -> Contents]
    BY <1>1 DEF ToolsInit
  <2>2. /\ at \in [Tools -> Steps] /\ content \in [Tools -> Contents]
        /\ meddled \in [Tools -> SUBSET Relying]
        /\ author \in [Tools -> {<<>>} \cup {<<s>> : s \in Saves}]
    BY <1>1 DEF ToolsInit, Steps
  <2>3. /\ report \in [Linters -> SUBSET Issues]
        /\ \A l \in Linters : \A issue \in report[l] : issue.line \in DOMAIN content[l]
    BY DEF ToolsInit
  <2>4. saved \in Saves /\ harmed \in BOOLEAN /\ target \in [Formatters -> {"input", "output"}]
    BY DEF ToolsInit
  <2>5. saves \in 0 .. MaxSaves
    BY ToolsAssumption DEF ToolsInit
  <2>6. cursor \in [Formatters -> Nat]
    BY DEF ToolsInit
  <2>. QED
    BY <2>1, <2>2, <2>3, <2>4, <2>5, <2>6 DEF ToolsTypeOK
<1>3. Writers = {}
  BY DEF ToolsInit, Writers, Tools
<1>4. Guarded /\ Reading /\ Surviving /\ Authored /\ Copying
  BY <1>3 DEF ToolsInit, Guarded, Reading, Surviving, Intact, Authored, Copying, Versions, Tools
<1>. QED
  BY <1>2, <1>4 DEF ToolsInv

----------------------------------------------------------------------------
(* One lemma for each action. *)

LEMMA SaveKeeps == ToolsInv /\ Save => ToolsInv'
<1>. SUFFICES ASSUME ToolsInv, Save PROVE ToolsInv'
  OBVIOUS
<1>. USE DEF ToolsInv
<1>1. PICK s \in Saves : saved' = s /\ file' = [file EXCEPT !["input"] = s]
  BY DEF Save
<1>2. s \in Contents
  BY ToolsAssumption
<1>3. /\ UNCHANGED <<at, target, content, cursor, report, author>> /\ Writers' = Writers
      /\ harmed' = (Writers # {})
      /\ file'["input"] = s /\ file'["output"] = file["output"]
      /\ saves' = saves + 1 /\ saves < MaxSaves
  BY <1>1 DEF Save, Writers, ToolsTypeOK
<1>m. /\ meddled' \in [Tools -> SUBSET Relying]
      /\ \A u \in Tools : at[u] \in {"checked", "reading", "read"} => meddled'[u] # {}
      /\ \A u \in Tools : at[u] = "reading" => "reading" \in meddled'[u]
  <2>1. Meddle(Tools) /\ ToolsTypeOK
    BY DEF Save
  <2>. QED
    BY <2>1, MeddleMarks
<1>4. ToolsTypeOK'
  <2>1. file' \in [{"input", "output"} -> Contents]
    BY <1>1, <1>2 DEF ToolsTypeOK
  <2>2. saves' \in 0 .. MaxSaves
    BY <1>3, ToolsAssumption DEF ToolsTypeOK
  <2>. QED
    BY <1>1, <1>3, <1>m, <2>1, <2>2 DEF ToolsTypeOK
<1>5. Guarded' /\ Reading'
  BY <1>3, <1>m DEF Guarded, Reading
<1>6. Surviving'
  BY <1>1, <1>3, <1>m DEF Surviving, Intact, Versions, Tools
<1>7. Authored' /\ Copying'
  BY <1>3 DEF Authored, Copying, Untouched, Formatted
<1>. QED
  BY <1>4, <1>5, <1>6, <1>7

LEMMA StatKeeps == ASSUME NEW t \in Tools PROVE ToolsInv /\ Stat(t) => ToolsInv'
<1>. SUFFICES ASSUME ToolsInv, Stat(t) PROVE ToolsInv'
  OBVIOUS
<1>. USE DEF ToolsInv
<1>1. /\ UNCHANGED <<file, saved, saves, target, content, cursor, report, harmed, author>>
      /\ at[t] = "start" /\ meddled' = [meddled EXCEPT ![t] = {}]
      /\ at' = [at EXCEPT ![t] = IF Size(file["input"]) > MAX_FILE_BYTES THEN "refused" ELSE "checked"]
  BY DEF Stat
<1>2. /\ at'[t] \in {"refused", "checked"} /\ \A u \in Tools \ {t} : at'[u] = at[u]
      /\ at'[t] = "checked" => ~(Size(file["input"]) > MAX_FILE_BYTES)
      /\ Writers' = Writers
      /\ \A u \in Tools \ {t} : meddled'[u] = meddled[u]
  BY <1>1 DEF ToolsTypeOK, Writers, Tools
<1>3. ToolsTypeOK'
  BY <1>1 DEF ToolsTypeOK, Steps
<1>4. Guarded' /\ Reading'
  BY <1>1, <1>2 DEF Guarded, Reading
<1>5. Surviving'
  BY <1>1, <1>2 DEF Surviving, Intact, Tools, Formatted
<1>6. Authored'
  BY <1>1, <1>2 DEF Authored, Tools
<1>7. Copying'
  BY <1>1, <1>2 DEF Copying, Untouched, Formatted, Tools
<1>. QED
  BY <1>3, <1>4, <1>5, <1>6, <1>7

LEMMA OpenInputKeeps == ASSUME NEW t \in Tools PROVE ToolsInv /\ OpenInput(t) => ToolsInv'
<1>. SUFFICES ASSUME ToolsInv, OpenInput(t) PROVE ToolsInv'
  OBVIOUS
<1>. USE DEF ToolsInv
<1>1. /\ UNCHANGED <<file, saved, saves, target, content, cursor, report, harmed, author>>
      /\ at[t] = "checked" /\ at' = [at EXCEPT ![t] = "reading"]
      /\ meddled' = [meddled EXCEPT ![t] = IF Writers = {} THEN @ ELSE @ \cup {"reading"}]
  BY DEF OpenInput
<1>2. /\ at'[t] = "reading" /\ \A u \in Tools \ {t} : at'[u] = at[u]
      /\ meddled[t] \subseteq meddled'[t] /\ (Writers = {} \/ "reading" \in meddled'[t])
      /\ \A u \in Tools \ {t} : meddled'[u] = meddled[u]
      /\ Writers' = Writers
  BY <1>1 DEF ToolsTypeOK, Writers, Tools
<1>3. ToolsTypeOK'
  BY <1>1 DEF ToolsTypeOK, Steps, Relying
<1>4. Guarded'
  BY <1>1, <1>2 DEF Guarded
<1>5. Reading'
  <2>1. content[t] = <<>> /\ author[t] = <<>>
    BY <1>1 DEF Reading
  <2>2. /\ Len(content[t]) <= Len(file["input"])
        /\ content[t] = SubSeq(file["input"], 1, Len(content[t]))
    <3>1. Len(<<>>) = 0 /\ Len(file["input"]) \in Nat /\ SubSeq(file["input"], 1, 0) = <<>>
      BY ReadTypes, WholeSubSeq
    <3>. QED
      BY <2>1, <3>1
  <2>. QED
    BY <1>1, <1>2, <2>1, <2>2 DEF Reading
<1>6. Surviving'
  BY <1>1, <1>2 DEF Surviving, Intact, Tools, Formatted
<1>7. Authored'
  BY <1>1, <1>2 DEF Authored, Tools
<1>8. Copying'
  BY <1>1, <1>2 DEF Copying, Untouched, Formatted, Tools
<1>. QED
  BY <1>3, <1>4, <1>5, <1>6, <1>7, <1>8

LEMMA ReadSomeKeeps == ASSUME NEW t \in Tools PROVE ToolsInv /\ ReadSome(t) => ToolsInv'
<1>. SUFFICES ASSUME ToolsInv, ReadSome(t) PROVE ToolsInv'
  OBVIOUS
<1>. USE DEF ToolsInv
<1>0. /\ content[t] \in Contents /\ file["input"] \in Contents /\ Len(content[t]) \in Nat
      /\ Len(file["input"]) \in Nat
  BY ReadTypes
<1>1. /\ UNCHANGED <<file, saved, saves, at, target, cursor, report, meddled, harmed, author>>
      /\ at[t] = "reading" /\ Writers' = Writers
  BY DEF ReadSome, Writers
<1>2. PICK n \in Len(content[t]) + 1 .. Len(file["input"]) :
        content' = [content EXCEPT ![t] = @ \o SubSeq(file["input"], Len(@) + 1, n)]
  BY DEF ReadSome
<1>3. /\ content'[t] = content[t] \o SubSeq(file["input"], Len(content[t]) + 1, n)
      /\ \A u \in Tools \ {t} : content'[u] = content[u]
  BY <1>2 DEF ToolsTypeOK
<1>4. content'[t] \in Contents
  BY <1>0, <1>3, ReadGrows
<1>5. ToolsTypeOK'
  <2>1. content' \in [Tools -> Contents]
    BY <1>2, <1>3, <1>4 DEF ToolsTypeOK
  <2>2. \A l \in Linters : report[l] = {} \/ l # t
    BY <1>1 DEF Authored
  <2>3. \A l \in Linters : \A issue \in report'[l] : issue.line \in DOMAIN content'[l]
    BY <1>1, <1>3, <2>2 DEF ToolsTypeOK, Tools
  <2>. QED
    BY <1>1, <2>1, <2>3 DEF ToolsTypeOK
<1>6. Guarded'
  BY <1>1 DEF Guarded
<1>7. Reading'
  <2>1. ASSUME "reading" \notin meddled[t]
        PROVE  /\ Writers = {}
               /\ Len(content'[t]) <= Len(file["input"])
               /\ content'[t] = SubSeq(file["input"], 1, Len(content'[t]))
    <3>1. Writers = {} /\ content[t] = SubSeq(file["input"], 1, Len(content[t]))
      BY <1>1, <2>1 DEF Reading
    <3>. DEFINE more == content[t] \o SubSeq(file["input"], Len(content[t]) + 1, n)
    <3>2. Len(more) = n /\ n <= Len(file["input"]) /\ more = SubSeq(file["input"], 1, n)
      BY <1>0, <3>1, ReadGrows
    <3>3. content'[t] = more
      BY <1>3
    <3>. HIDE DEF more
    <3>. QED
      BY <3>1, <3>2, <3>3
  <2>2. author[t] = <<>>
    BY <1>1 DEF Reading
  <2>. QED
    BY <1>1, <1>3, <2>1, <2>2 DEF Reading
<1>8. Surviving'
  <2>1. \A f \in Formatters : f \in Tools /\ (f \in Writers \/ at[f] = "read" => f # t)
    BY <1>1 DEF Writers, Tools
  <2>2. \A f \in Writers : f \in Formatters /\ content'[f] = content[f] /\ Formatted(f)' = Formatted(f)
    BY <1>3, <2>1 DEF Formatted, Writers
  <2>3. \A f \in Formatters : at[f] = "read" => content'[f] = content[f]
    BY <1>3, <2>1
  <2>. QED
    BY <1>1, <2>2, <2>3 DEF Surviving, Intact
<1>9. Authored'
  <2>1. author[t] = <<>>
    BY <1>1 DEF Reading
  <2>. QED
    BY <1>1, <1>3, <2>1 DEF Authored, Tools
<1>10. Copying'
  <2>1. \A f \in Formatters : f # t => Formatted(f)' = Formatted(f) /\ content'[f] = content[f]
    BY <1>3 DEF Formatted, Tools
  <2>2. \A g \in Formatters : Untouched(g)' <=> Untouched(g)
    BY <1>1 DEF Untouched
  <2>. QED
    BY <1>1, <2>1, <2>2 DEF Copying
<1>. QED
  BY <1>5, <1>6, <1>7, <1>8, <1>9, <1>10

\* Who comes to the end of an input nobody has been writing has read the whole of it.
LEMMA ReadWhole ==
  ASSUME ToolsTypeOK, Reading, NEW t \in Tools, at[t] = "reading", "reading" \notin meddled[t],
         Len(content[t]) >= Len(file["input"])
  PROVE  Writers = {} /\ content[t] = file["input"]
<1>1. /\ Writers = {} /\ Len(content[t]) <= Len(file["input"])
      /\ content[t] = SubSeq(file["input"], 1, Len(content[t]))
  BY DEF Reading
<1>2. Len(content[t]) = Len(file["input"])
  BY <1>1, ReadTypes
<1>. QED
  BY <1>1, <1>2, ReadTypes, WholeSubSeq

LEMMA EndReadKeeps == ASSUME NEW t \in Tools PROVE ToolsInv /\ EndRead(t) => ToolsInv'
<1>. SUFFICES ASSUME ToolsInv, EndRead(t) PROVE ToolsInv'
  OBVIOUS
<1>. USE DEF ToolsInv
<1>1. /\ UNCHANGED <<file, saved, saves, target, content, cursor, report, harmed>>
      /\ at[t] = "reading" /\ at' = [at EXCEPT ![t] = "read"]
      /\ Len(content[t]) >= Len(file["input"])
      /\ author' = [author EXCEPT ![t] = IF harmed \/ "reading" \in meddled[t] THEN <<>> ELSE <<saved>>]
      /\ meddled' = [meddled EXCEPT ![t] = @ \ {"checked"}]
  BY DEF EndRead
<1>2. /\ at'[t] = "read" /\ \A u \in Tools \ {t} : at'[u] = at[u]
      /\ author'[t] = (IF harmed \/ "reading" \in meddled[t] THEN <<>> ELSE <<saved>>)
      /\ meddled'[t] = meddled[t] \ {"checked"} /\ \A u \in Tools \ {t} : meddled'[u] = meddled[u]
      /\ \A u \in Tools \ {t} : author'[u] = author[u]
      /\ Writers' = Writers /\ t \notin Writers
  BY <1>1 DEF ToolsTypeOK, Writers, Tools
<1>3. ~harmed /\ "reading" \notin meddled[t] => content[t] \in Versions(saved)
  BY <1>1, ReadWhole DEF Surviving, Intact
<1>4. ToolsTypeOK'
  <2>1. author' \in [Tools -> {<<>>} \cup {<<s>> : s \in Saves}]
    <3>1. author'[t] \in {<<>>} \cup {<<s>> : s \in Saves}
      BY <1>2 DEF ToolsTypeOK
    <3>. QED
      BY <1>1, <1>2, <3>1 DEF ToolsTypeOK
  <2>2. at' \in [Tools -> Steps] /\ meddled' \in [Tools -> SUBSET Relying]
    BY <1>1 DEF ToolsTypeOK, Steps
  <2>. QED
    BY <1>1, <2>1, <2>2 DEF ToolsTypeOK
<1>5. Guarded' /\ Reading'
  BY <1>1, <1>2 DEF Guarded, Reading
<1>6. Surviving'
  <2>. SUFFICES ASSUME ~harmed PROVE Intact'
    BY <1>1 DEF Surviving
  <2>1. \A f \in Formatters : f \in Tools
    BY DEF Tools
  <2>2. \A f \in Formatters : at'[f] = "read" /\ meddled'[f] = {} => content[f] \in Versions(saved)
    <3>1. "reading" # "checked"
      OBVIOUS
    <3>2. meddled'[t] = {} => content[t] \in Versions(saved)
      BY <1>2, <1>3, <3>1
    <3>. QED
      BY <1>2, <2>1, <3>2 DEF Surviving, Intact
  <2>3. \A f \in Formatters : Formatted(f)' = Formatted(f)
    BY <1>1 DEF Formatted
  <2>4. \A f \in Writers : f \in Formatters
    BY DEF Writers
  <2>. QED
    BY <1>1, <1>2, <2>2, <2>3, <2>4 DEF Surviving, Intact
<1>7. Authored'
  <2>1. author'[t] # <<>> => content'[t] \in Versions(author'[t][1])
    BY <1>1, <1>2, <1>3
  <2>2. \A u \in Tools \ {t} : author'[u] # <<>> => content'[u] \in Versions(author'[u][1])
    BY <1>1, <1>2 DEF Authored
  <2>3. \A l \in Linters : report'[l] = IF at'[l] = "done" THEN lint_vqlut(content'[l]) ELSE {}
    BY <1>1, <1>2 DEF Authored, Tools
  <2>. QED
    BY <2>1, <2>2, <2>3 DEF Authored
<1>8. Copying'
  BY <1>1, <1>2 DEF Copying, Untouched, Formatted, Tools
<1>. QED
  BY <1>4, <1>5, <1>6, <1>7, <1>8

LEMMA DiesKeeps == ASSUME NEW t \in Tools PROVE ToolsInv /\ Dies(t) => ToolsInv'
<1>. SUFFICES ASSUME ToolsInv, Dies(t) PROVE ToolsInv'
  OBVIOUS
<1>. USE DEF ToolsInv
<1>1. /\ UNCHANGED <<file, saved, saves, target, cursor, report>>
      /\ at[t] \notin {"done", "refused", "dead"} /\ at' = [at EXCEPT ![t] = "dead"]
      /\ content' = [content EXCEPT ![t] = <<>>]
      /\ meddled' = [meddled EXCEPT ![t] = {}]
      /\ author' = [author EXCEPT ![t] = <<>>]
      /\ harmed' = (harmed \/ t \in Writers)
  BY DEF Dies
<1>2. /\ at'[t] = "dead" /\ author'[t] = <<>>
      /\ \A u \in Tools \ {t} : at'[u] = at[u] /\ content'[u] = content[u]
      /\ \A u \in Tools \ {t} : meddled'[u] = meddled[u] /\ author'[u] = author[u]
      /\ ~harmed' => Writers' = Writers /\ t \notin Writers /\ ~harmed
      /\ Writers' \subseteq Writers
      /\ \A f \in Formatters : f \in Tools
      /\ \A l \in Linters : l \in Tools
  BY <1>1 DEF ToolsTypeOK, Writers, Tools
<1>3. \A l \in Linters : report[l] = {} \/ l # t
  BY <1>1 DEF Authored
<1>4. ToolsTypeOK'
  <2>1. <<>> \in Contents
    BY DEF Contents
  <2>2. content' \in [Tools -> Contents]
    BY <1>1, <2>1 DEF ToolsTypeOK
  <2>3. /\ at' \in [Tools -> Steps] /\ meddled' \in [Tools -> SUBSET Relying] /\ harmed' \in BOOLEAN
        /\ author' \in [Tools -> {<<>>} \cup {<<s>> : s \in Saves}]
    BY <1>1 DEF ToolsTypeOK, Steps
  <2>4. \A l \in Linters : \A issue \in report'[l] : issue.line \in DOMAIN content'[l]
    BY <1>1, <1>2, <1>3 DEF ToolsTypeOK
  <2>. QED
    BY <1>1, <2>2, <2>3, <2>4 DEF ToolsTypeOK
<1>5. Guarded' /\ Reading'
  BY <1>1, <1>2 DEF Guarded, Reading
<1>6. Authored'
  <2>1. \A l \in Linters : report'[l] = IF at'[l] = "done" THEN lint_vqlut(content'[l]) ELSE {}
    BY <1>1, <1>2 DEF Authored
  <2>. QED
    BY <1>2, <2>1 DEF Authored
<1>7. Surviving'
  <2>. SUFFICES ASSUME ~harmed' PROVE Intact'
    BY DEF Surviving
  <2>1. \A f \in Writers : f \in Formatters /\ f # t /\ content'[f] = content[f]
                           /\ Formatted(f)' = Formatted(f)
    BY <1>2 DEF Writers, Formatted
  <2>2. \A f \in Formatters : at'[f] = "read" => f # t
    BY <1>2
  <2>. QED
    BY <1>1, <1>2, <2>1, <2>2 DEF Surviving, Intact
<1>8. Copying'
  <2>1. \A g \in Formatters : Untouched(g)' => Untouched(g)
    BY <1>1, <1>2 DEF Untouched
  <2>2. \A g \in Formatters : at'[g] \in {"writing", "done"} =>
          at[g] = at'[g] /\ content'[g] = content[g] /\ Formatted(g)' = Formatted(g)
    BY <1>2 DEF Formatted
  <2>. QED
    BY <1>1, <2>1, <2>2 DEF Copying
<1>. QED
  BY <1>4, <1>5, <1>6, <1>7, <1>8

LEMMA LintKeeps == ASSUME NEW l \in Linters PROVE ToolsInv /\ Lint(l) => ToolsInv'
<1>. SUFFICES ASSUME ToolsInv, Lint(l) PROVE ToolsInv'
  OBVIOUS
<1>. USE DEF ToolsInv
<1>1. /\ UNCHANGED <<file, saved, saves, target, content, cursor, harmed, author>>
      /\ meddled' = [meddled EXCEPT ![l] = {}]
      /\ at[l] = "read" /\ at' = [at EXCEPT ![l] = "done"]
      /\ report' = [report EXCEPT ![l] = lint_vqlut(content[l])]
      /\ l \in Tools /\ l \notin Formatters
  BY ToolsAssumption DEF Lint, Tools
<1>2. /\ at'[l] = "done" /\ \A u \in Tools \ {l} : at'[u] = at[u]
      /\ \A u \in Tools \ {l} : meddled'[u] = meddled[u]
      /\ \A f \in Formatters : at'[f] = at[f] /\ meddled'[f] = meddled[f]
      /\ report'[l] = lint_vqlut(content[l])
      /\ \A k \in Linters \ {l} : report'[k] = report[k]
  BY <1>1 DEF ToolsTypeOK, Tools
<1>3. Writers' = Writers
  BY <1>1, <1>2 DEF Writers
<1>4. ToolsTypeOK'
  <2>1. \A k \in Linters : \A issue \in report'[k] : issue.line \in DOMAIN content[k]
    BY <1>2, ContentTypes, IssueLines DEF ToolsTypeOK
  <2>2. report' \in [Linters -> SUBSET Issues]
    BY <1>1, ContentTypes, IssueLines DEF ToolsTypeOK
  <2>. QED
    BY <1>1, <2>1, <2>2 DEF ToolsTypeOK, Steps
<1>5. Guarded' /\ Reading' /\ Authored'
  BY <1>1, <1>2, <1>3 DEF Guarded, Reading, Authored, Tools
<1>6. Surviving'
  BY <1>1, <1>2, <1>3 DEF Surviving, Intact, Formatted
<1>7. Copying'
  BY <1>1, <1>2 DEF Copying, Untouched, Formatted
<1>. QED
  BY <1>4, <1>5, <1>6, <1>7

LEMMA OpenKeeps == ASSUME NEW f \in Formatters PROVE ToolsInv /\ Open(f) => ToolsInv'
<1>. SUFFICES ASSUME ToolsInv, Open(f) PROVE ToolsInv'
  OBVIOUS
<1>. USE DEF ToolsInv
<1>0. f \in Tools /\ f \notin Linters /\ target[f] \in {"input", "output"}
  BY ToolsAssumption, ContentTypes DEF Tools
<1>1. /\ UNCHANGED <<saved, saves, target, content, report, author>>
      /\ at[f] = "read" /\ at' = [at EXCEPT ![f] = "writing"]
      /\ file' = [file EXCEPT ![target[f]] = <<>>]
      /\ cursor' = [cursor EXCEPT ![f] = 0]
      /\ IF target[f] = "input"
         THEN Meddle(Tools \ {f}) /\ harmed' = (harmed \/ meddled[f] # {} \/ Writers # {})
         ELSE UNCHANGED <<meddled, harmed>>
  BY DEF Open
<1>2. /\ at'[f] = "writing" /\ \A u \in Tools \ {f} : at'[u] = at[u]
      /\ cursor'[f] = 0 /\ \A g \in Formatters \ {f} : cursor'[g] = cursor[g]
      /\ \A l \in Linters : at'[l] = at[l]
      /\ f \notin Writers
  BY <1>0, <1>1 DEF ToolsTypeOK, Writers, Tools
<1>3. ToolsTypeOK'
  <2>1. file' \in [{"input", "output"} -> Contents]
    BY <1>0, <1>1 DEF ToolsTypeOK, Contents
  <2>2. meddled' \in [Tools -> SUBSET Relying] /\ harmed' \in BOOLEAN
    <3>1. CASE target[f] = "input"
      BY <1>1, <3>1, MeddleMarks DEF ToolsTypeOK
    <3>2. CASE target[f] # "input"
      BY <1>1, <3>2 DEF ToolsTypeOK
    <3>. QED
      BY <3>1, <3>2
  <2>3. at' \in [Tools -> Steps] /\ cursor' \in [Formatters -> Nat]
    BY <1>1 DEF ToolsTypeOK, Steps
  <2>. QED
    BY <1>1, <2>1, <2>2, <2>3 DEF ToolsTypeOK
<1>4. Authored'
  BY <1>1, <1>2 DEF Authored
<1>5. ASSUME target[f] = "input"
      PROVE  Guarded' /\ Reading' /\ Surviving' /\ Copying'
  <2>1. /\ file'["input"] = <<>> /\ file'["output"] = file["output"]
        /\ \A u \in Tools \ {f} : at[u] \in {"checked", "reading", "read"} => meddled'[u] # {}
        /\ \A u \in Tools \ {f} : at[u] = "reading" => "reading" \in meddled'[u]
        /\ Writers' = Writers \cup {f}
        /\ ~harmed' => ~harmed /\ meddled[f] = {} /\ Writers = {}
    <3>1. /\ file'["input"] = <<>> /\ file'["output"] = file["output"]
          /\ ~harmed' => ~harmed /\ meddled[f] = {} /\ Writers = {}
      BY <1>1, <1>5 DEF ToolsTypeOK
    <3>2. Writers' = Writers \cup {f}
      BY <1>0, <1>1, <1>2, <1>5 DEF Writers, Tools
    <3>3. /\ \A u \in Tools \ {f} : at[u] \in {"checked", "reading", "read"} => meddled'[u] # {}
          /\ \A u \in Tools \ {f} : at[u] = "reading" => "reading" \in meddled'[u]
      <4>1. Meddle(Tools \ {f}) /\ ToolsTypeOK
        BY <1>1, <1>5
      <4>. QED
        BY <4>1, MeddleMarks
    <3>. QED
      BY <3>1, <3>2, <3>3
  <2>2. Guarded' /\ Reading'
    BY <1>1, <1>2, <2>1 DEF Guarded, Reading
  <2>3. Surviving'
    <3>. SUFFICES ASSUME ~harmed' PROVE Intact'
      BY DEF Surviving
    <3>1. content[f] \in Versions(saved) /\ Writers' = {f}
      BY <1>1, <2>1 DEF Surviving, Intact
    <3>2. file'["input"] = SubSeq(Formatted(f), 1, 0)
      BY <2>1, ContentTypes, WholeSubSeq
    <3>3. \A g \in Formatters : g # f /\ at[g] = "read" => meddled'[g] # {}
      BY <2>1 DEF Tools
    <3>4. Formatted(f)' = Formatted(f) /\ 0 <= Len(content[f])
      BY <1>1, ContentTypes DEF Formatted
    <3>5. \A g \in Writers' :
            /\ Writers' = {g} /\ content'[g] \in Versions(saved') /\ cursor'[g] <= Len(content'[g])
            /\ file'["input"] = SubSeq(Formatted(g)', 1, cursor'[g])
      BY <1>1, <1>2, <3>1, <3>2, <3>4
    <3>6. \A g \in Formatters : ~(at'[g] = "read" /\ meddled'[g] = {})
      BY <1>2, <3>3 DEF Tools
    <3>. QED
      BY <3>1, <3>5, <3>6 DEF Intact
  <2>4. Copying'
    <3>1. \A g \in Formatters : target[g] = "output" => g # f
      BY <1>5
    <3>2. \A g \in Formatters : Untouched(g)' => Untouched(g)
      BY <1>1, <1>2, <3>1 DEF Untouched, Tools
    <3>. QED
      BY <1>1, <1>2, <2>1, <3>1, <3>2 DEF Copying, Formatted, Tools
  <2>. QED
    BY <2>2, <2>3, <2>4
<1>6. ASSUME target[f] = "output"
      PROVE  Guarded' /\ Reading' /\ Surviving' /\ Copying'
  <2>1. /\ file'["output"] = <<>> /\ file'["input"] = file["input"]
        /\ UNCHANGED <<meddled, harmed>>
        /\ Writers' = Writers
    BY <1>0, <1>1, <1>2, <1>6 DEF ToolsTypeOK, Writers, Tools
  <2>2. Guarded' /\ Reading'
    BY <1>1, <1>2, <2>1 DEF Guarded, Reading
  <2>3. Surviving'
    <3>1. \A g \in Writers : g \in Formatters /\ g # f
      BY <1>2 DEF Writers
    <3>. QED
      BY <1>1, <1>2, <2>1, <3>1 DEF Surviving, Intact, Formatted, Tools
  <2>4. Copying'
    <3>1. \A g \in Formatters \ {f} : ~(\A h \in Formatters \ {g} : Untouched(h)')
      BY <1>1, <1>2, <1>6 DEF Untouched
    <3>2. file'["output"] = SubSeq(Formatted(f), 1, 0) /\ Formatted(f)' = Formatted(f)
          /\ 0 <= Len(content[f])
      BY <1>1, <2>1, ContentTypes, WholeSubSeq DEF Formatted
    <3>. QED
      BY <1>1, <1>2, <3>1, <3>2 DEF Copying
  <2>. QED
    BY <2>2, <2>3, <2>4
<1>. QED
  BY <1>0, <1>3, <1>4, <1>5, <1>6

LEMMA WriteKeeps == ASSUME NEW f \in Formatters PROVE ToolsInv /\ WriteSome(f) => ToolsInv'
<1>. SUFFICES ASSUME ToolsInv, WriteSome(f) PROVE ToolsInv'
  OBVIOUS
<1>. USE DEF ToolsInv
<1>0. f \in Tools /\ target[f] \in {"input", "output"} /\ cursor[f] \in Nat
      /\ Len(content[f]) \in Nat /\ Formatted(f) \in Contents
      /\ Len(Formatted(f)) = Len(content[f])
  BY ContentTypes
<1>1. PICK n \in cursor[f] + 1 .. Len(content[f]) : Wrote(f, n)
  BY DEF WriteSome
<1>2. /\ UNCHANGED <<saved, saves, at, target, content, report, harmed, author>>
      /\ at[f] = "writing" /\ Writers' = Writers
      /\ n \in cursor[f] + 1 .. Len(Formatted(f)) /\ n \in 0 .. Len(Formatted(f)) /\ n \in Nat
  BY <1>0 DEF WriteSome, Writers
<1>3. /\ file' = [file EXCEPT ![target[f]] = Overlay(@, Formatted(f), cursor[f] + 1, n)]
      /\ cursor' = [cursor EXCEPT ![f] = n]
      /\ IF target[f] = "input" THEN Meddle(Tools \ {f}) ELSE UNCHANGED meddled
      /\ cursor'[f] = n /\ \A g \in Formatters \ {f} : cursor'[g] = cursor[g]
      /\ \A g \in Formatters : Formatted(g)' = Formatted(g)
  BY <1>1, <1>2 DEF Wrote, ToolsTypeOK, Formatted
<1>4. ToolsTypeOK'
  <2>0. cursor[f] + 1 \in Nat /\ cursor[f] + 1 > 0
    BY <1>0
  <2>1. ASSUME NEW a \in Contents PROVE Overlay(a, Formatted(f), cursor[f] + 1, n) \in Contents
    BY <1>0, <1>2, <2>0, OverlayType
  <2>2. file' \in [{"input", "output"} -> Contents]
    BY <1>0, <1>3, <2>1 DEF ToolsTypeOK
  <2>3. meddled' \in [Tools -> SUBSET Relying]
    <3>1. CASE target[f] = "input"
      BY <1>3, <3>1, MeddleMarks
    <3>2. CASE target[f] # "input"
      BY <1>3, <3>2 DEF ToolsTypeOK
    <3>. QED
      BY <3>1, <3>2
  <2>. QED
    BY <1>2, <1>3, <2>2, <2>3 DEF ToolsTypeOK
<1>5. Authored'
  BY <1>2 DEF Authored
<1>6. ASSUME target[f] = "input"
      PROVE  Guarded' /\ Reading' /\ Surviving' /\ Copying'
  <2>1. /\ file'["input"] = Overlay(file["input"], Formatted(f), cursor[f] + 1, n)
        /\ file'["output"] = file["output"]
        /\ \A u \in Tools \ {f} : at[u] \in {"checked", "reading", "read"} => meddled'[u] # {}
        /\ \A u \in Tools \ {f} : at[u] = "reading" => "reading" \in meddled'[u]
        /\ f \in Writers
    <3>1. /\ file'["input"] = Overlay(file["input"], Formatted(f), cursor[f] + 1, n)
          /\ file'["output"] = file["output"] /\ f \in Writers
      BY <1>0, <1>2, <1>3, <1>6 DEF ToolsTypeOK, Writers
    <3>2. Meddle(Tools \ {f}) /\ ToolsTypeOK
      BY <1>3, <1>6
    <3>. QED
      BY <3>1, <3>2, MeddleMarks
  <2>2. Guarded' /\ Reading'
    BY <1>1, <1>2, <2>1 DEF Guarded, Reading
  <2>3. Surviving'
    <3>. SUFFICES ASSUME ~harmed' PROVE Intact'
      BY DEF Surviving
    <3>1. /\ f \in Writers /\ Writers = {f} /\ content[f] \in Versions(saved)
          /\ file["input"] = SubSeq(Formatted(f), 1, cursor[f])
      BY <1>2, <1>6 DEF Surviving, Intact, Writers
    <3>2. file'["input"] = SubSeq(Formatted(f), 1, n)
      BY <1>0, <1>2, <2>1, <3>1, OverlayGrows
    <3>3. \A g \in Formatters : g # f /\ at[g] = "read" => meddled'[g] # {}
      BY <2>1 DEF Tools
    <3>4. \A g \in Writers' :
            /\ Writers' = {g} /\ content'[g] \in Versions(saved') /\ cursor'[g] <= Len(content'[g])
            /\ file'["input"] = SubSeq(Formatted(g)', 1, cursor'[g])
      BY <1>0, <1>2, <1>3, <3>1, <3>2
    <3>5. \A g \in Formatters : ~(at'[g] = "read" /\ meddled'[g] = {})
      BY <1>2, <3>3
    <3>. QED
      BY <1>2, <3>1, <3>4, <3>5 DEF Intact
  <2>4. Copying'
    <3>1. \A g \in Formatters : Untouched(g)' <=> Untouched(g)
      BY <1>2 DEF Untouched
    <3>. QED
      BY <1>2, <1>3, <1>6, <2>1, <3>1 DEF Copying
  <2>. QED
    BY <2>2, <2>3, <2>4
<1>7. ASSUME target[f] = "output"
      PROVE  Guarded' /\ Reading' /\ Surviving' /\ Copying'
  <2>1. /\ file'["output"] = Overlay(file["output"], Formatted(f), cursor[f] + 1, n)
        /\ file'["input"] = file["input"] /\ UNCHANGED meddled /\ f \notin Writers
    BY <1>0, <1>2, <1>3, <1>7 DEF ToolsTypeOK, Writers
  <2>2. Guarded' /\ Reading'
    BY <1>1, <1>2, <2>1 DEF Guarded, Reading
  <2>3. Surviving'
    <3>1. \A g \in Writers : g \in Formatters /\ g # f
      BY <2>1 DEF Writers
    <3>. QED
      BY <1>2, <1>3, <2>1, <3>1 DEF Surviving, Intact
  <2>4. Copying'
    <3>1. \A g \in Formatters : Untouched(g)' <=> Untouched(g)
      BY <1>2 DEF Untouched
    <3>2. \A g \in Formatters \ {f} : ~(\A h \in Formatters \ {g} : Untouched(h)')
      BY <1>2, <1>7, <3>1 DEF Untouched
    <3>3. (\A h \in Formatters \ {f} : Untouched(h)) =>
             file'["output"] = SubSeq(Formatted(f), 1, n)
      BY <1>0, <1>2, <1>7, <2>1, OverlayGrows DEF Copying
    <3>. QED
      BY <1>0, <1>2, <1>3, <3>1, <3>2, <3>3 DEF Copying
  <2>. QED
    BY <2>2, <2>3, <2>4
<1>. QED
  BY <1>0, <1>4, <1>5, <1>6, <1>7

LEMMA FinishKeeps == ASSUME NEW f \in Formatters PROVE ToolsInv /\ Finish(f) => ToolsInv'
<1>. SUFFICES ASSUME ToolsInv, Finish(f) PROVE ToolsInv'
  OBVIOUS
<1>. USE DEF ToolsInv
<1>0. /\ f \in Tools /\ f \notin Linters /\ target[f] \in {"input", "output"}
      /\ Formatted(f) \in Contents /\ Len(Formatted(f)) = Len(content[f]) /\ saved \in Contents
  BY ToolsAssumption, ContentTypes
<1>1. /\ UNCHANGED <<file, saved, saves, target, content, cursor, report, meddled, harmed, author>>
      /\ at[f] = "writing" /\ cursor[f] = Len(content[f])
      /\ at' = [at EXCEPT ![f] = "done"]
  BY DEF Finish
<1>2. /\ at'[f] = "done" /\ \A u \in Tools \ {f} : at'[u] = at[u]
      /\ \A l \in Linters : at'[l] = at[l]
      /\ Writers' = Writers \ {f}
      /\ SubSeq(Formatted(f), 1, cursor[f]) = Formatted(f)
  BY <1>0, <1>1, WholeSubSeq DEF ToolsTypeOK, Writers, Tools
<1>3. ToolsTypeOK'
  BY <1>1 DEF ToolsTypeOK, Steps
<1>4. Guarded' /\ Reading' /\ Authored'
  BY <1>1, <1>2 DEF Guarded, Reading, Authored
<1>5. Surviving'
  <2>. SUFFICES ASSUME ~harmed' PROVE Intact'
    BY DEF Surviving
  <2>1. \A g \in Formatters : at'[g] = "read" /\ meddled'[g] = {} => content'[g] \in Versions(saved')
    BY <1>1, <1>2 DEF Surviving, Intact, Tools
  <2>2. CASE f \in Writers
    <3>1. Writers = {f} /\ Writers' = {} /\ content[f] \in Versions(saved)
          /\ file["input"] = Formatted(f)
      BY <1>1, <1>2, <2>2 DEF Surviving, Intact
    <3>2. Formatted(f) = format_vqlut(saved)
      BY <1>0, <3>1, VersionFormatted DEF Formatted
    <3>3. file'["input"] \in Versions(saved')
      BY <1>1, <3>1, <3>2 DEF Versions
    <3>. QED
      BY <2>1, <3>1, <3>3 DEF Intact
  <2>3. CASE f \notin Writers
    BY <1>1, <1>2, <2>1, <2>3 DEF Surviving, Intact, Formatted
  <2>. QED
    BY <2>2, <2>3
<1>6. Copying'
  <2>1. \A g \in Formatters : Untouched(g)' <=> Untouched(g)
    BY <1>1, <1>2 DEF Untouched, Tools
  <2>2. \A g \in Formatters : Formatted(g)' = Formatted(g)
    BY <1>1 DEF Formatted
  <2>. QED
    BY <1>0, <1>1, <1>2, <2>1, <2>2 DEF Copying, Tools
<1>. QED
  BY <1>3, <1>4, <1>5, <1>6

THEOREM ToolsNext_Inv == ToolsInv /\ [ToolsNext]_toolVars => ToolsInv'
<1>. SUFFICES ASSUME ToolsInv, [ToolsNext]_toolVars PROVE ToolsInv'
  OBVIOUS
<1>1. CASE Save
  BY <1>1, SaveKeeps
<1>2. ASSUME NEW t \in Tools, Tool(t) PROVE ToolsInv'
  BY <1>2, StatKeeps, OpenInputKeeps, ReadSomeKeeps, EndReadKeeps, DiesKeeps DEF Tool
<1>3. ASSUME NEW f \in Formatters, Formatter(f) PROVE ToolsInv'
  BY <1>3, OpenKeeps, WriteKeeps, FinishKeeps DEF Formatter
<1>4. ASSUME NEW l \in Linters, Lint(l) PROVE ToolsInv'
  BY <1>4, LintKeeps
<1>5. CASE UNCHANGED toolVars
  BY <1>5 DEF toolVars, ToolsInv, ToolsTypeOK, Guarded, Reading, Surviving, Intact, Writers, Formatted, Authored, Copying, Untouched
<1>. QED
  BY <1>1, <1>2, <1>3, <1>4, <1>5 DEF ToolsNext

LEMMA ToolsInvariant == ToolsSpec => []ToolsInv
BY ToolsInit_Inv, ToolsNext_Inv, PTL DEF ToolsSpec

----------------------------------------------------------------------------
\* Every variable keeps its type, and what is printed is about lines that were read.
THEOREM ToolsTypes == ToolsSpec => []ToolsTypeOK
BY ToolsInvariant, PTL DEF ToolsInv

\* Formatting in place loses no text, however often, whatever the editor saves in between,
\* unless a formatter is cut off, out of date or not alone.
THEOREM TextSurvivesTheorem == ToolsSpec => []TextSurvives
<1>1. ToolsInv => TextSurvives
  <2>. SUFFICES ASSUME ToolsInv, Writers = {}, ~harmed
                PROVE  /\ file["input"] \in {saved, format_vqlut(saved)}
                       /\ Text(file["input"]) = Text(saved)
    BY DEF TextSurvives
  <2>1. file["input"] \in {saved, format_vqlut(saved)}
    BY DEF ToolsInv, Surviving, Intact, Versions
  <2>2. saved \in Contents
    BY ContentTypes DEF ToolsInv
  <2>. QED
    BY <2>1, <2>2, FormatKeepsText
<1>. QED
  BY <1>1, ToolsInvariant, PTL

\* The linter speaks of the author's text and lines, formatted in between or not.
THEOREM ReportsTheorem == ToolsSpec => []ReportsTheAuthors
<1>1. ToolsInv => ReportsTheAuthors
  <2>. SUFFICES ASSUME ToolsInv, NEW l \in Linters, at[l] = "done", author[l] # <<>>
                PROVE  SameButMargins(author[l][1], report[l], lint_vqlut(author[l][1]))
    BY DEF ReportsTheAuthors
  <2>. DEFINE s == author[l][1]
  <2>1. l \in Tools
    BY DEF Tools
  <2>2. s \in Contents
    <3>1. author[l] \in {<<>>} \cup {<<x>> : x \in Saves}
      BY <2>1 DEF ToolsInv, ToolsTypeOK
    <3>2. PICK x \in Saves : author[l] = <<x>>
      BY <3>1
    <3>. QED
      BY <3>2, ToolsAssumption
  <2>3. report[l] = lint_vqlut(content[l]) /\ content[l] \in Versions(s)
    <3>1. \A t \in Tools : author[t] # <<>> => content[t] \in Versions(author[t][1])
      BY DEF ToolsInv, Authored
    <3>2. report[l] = IF at[l] = "done" THEN lint_vqlut(content[l]) ELSE {}
      BY DEF ToolsInv, Authored
    <3>. QED
      BY <2>1, <3>1, <3>2
  <2>4. CASE content[l] = s
    <3>1. report[l] = lint_vqlut(s)
      BY <2>3, <2>4
    <3>. QED
      BY <3>1 DEF SameButMargins
  <2>5. CASE content[l] = format_vqlut(s)
    <3>1. SameButMargins(s, lint_vqlut(format_vqlut(s)), lint_vqlut(s))
      BY <2>2, LintAfterFormat
    <3>. QED
      BY <2>3, <2>5, <3>1
  <2>. QED
    BY <2>3, <2>4, <2>5 DEF Versions, s
<1>. QED
  BY <1>1, ToolsInvariant, PTL

\* A copy that nobody else writes to is the formatted text in full.
THEOREM CopyTheorem == ToolsSpec => []CopyWhole
<1>1. ToolsInv => CopyWhole
  BY DEF ToolsInv, CopyWhole, Copying, Untouched, Formatted
<1>. QED
  BY <1>1, ToolsInvariant, PTL

\* No program reads more than the limit unless the input changed behind its check.
THEOREM GuardTheorem == ToolsSpec => ReadsGuarded
<1>1. ToolsInv /\ [ToolsNext]_toolVars =>
        [\A t \in Tools :
           at[t] = "reading" /\ at'[t] = "read" =>
             (Size(content'[t]) > MAX_FILE_BYTES => meddled[t] # {})]_toolVars
  <2>. SUFFICES ASSUME ToolsInv, ToolsNext, NEW t \in Tools, at[t] = "reading", at'[t] = "read"
                PROVE  Size(content'[t]) > MAX_FILE_BYTES => meddled[t] # {}
    OBVIOUS
  <2>1. EndRead(t)
    <3>1. at \in [Tools -> Steps] /\ at' # at
      BY DEF ToolsInv, ToolsTypeOK
    <3>2. CASE Save
      BY <3>1, <3>2 DEF Save
    <3>3. ASSUME NEW u \in Tools, Tool(u) PROVE EndRead(t)
      <4>1. CASE Stat(u)
        BY <3>1, <4>1 DEF Stat
      <4>2. CASE OpenInput(u)
        BY <3>1, <4>2 DEF OpenInput
      <4>3. CASE ReadSome(u)
        BY <3>1, <4>3 DEF ReadSome
      <4>4. CASE EndRead(u)
        BY <3>1, <4>4 DEF EndRead
      <4>5. CASE Dies(u)
        BY <3>1, <4>5 DEF Dies
      <4>. QED
        BY <3>3, <4>1, <4>2, <4>3, <4>4, <4>5 DEF Tool
    <3>4. ASSUME NEW f \in Formatters, Formatter(f) PROVE EndRead(t)
      <4>1. CASE Open(f)
        BY <3>1, <4>1 DEF Open, Tools
      <4>2. CASE WriteSome(f)
        BY <3>1, <4>2 DEF WriteSome
      <4>3. CASE Finish(f)
        BY <3>1, <4>3 DEF Finish, Tools
      <4>. QED
        BY <3>4, <4>1, <4>2, <4>3 DEF Formatter
    <3>5. ASSUME NEW l \in Linters, Lint(l) PROVE EndRead(t)
      BY <3>1, <3>5 DEF Lint, Tools
    <3>. QED
      BY <3>2, <3>3, <3>4, <3>5 DEF ToolsNext
  <2>2. content'[t] = content[t] /\ Len(content[t]) >= Len(file["input"])
    BY <2>1 DEF EndRead
  <2>3. SUFFICES ASSUME meddled[t] = {} PROVE ~(Size(content'[t]) > MAX_FILE_BYTES)
    OBVIOUS
  <2>4. content[t] = file["input"]
    BY <2>2, <2>3, ReadWhole DEF ToolsInv
  <2>. QED
    BY <2>2, <2>3, <2>4 DEF ToolsInv, Guarded
<1>. QED
  BY <1>1, ToolsInvariant, PTL DEF ToolsSpec, ReadsGuarded
====
