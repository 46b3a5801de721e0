---- MODULE SafetyPipelineProofs ----
(***************************************************************************)
(* What the checker reports is what the statement passes, and is provable, *)
(* for every schema and every set of statements.                           *)
(***************************************************************************)
EXTENDS SafetyPipeline, SequenceTheorems, TLAPS

----------------------------------------------------------------------------
(* The list of levels *)

LEMMA LevelsListed ==
  /\ AllLevels \in Seq(SafetyLevels) /\ Len(AllLevels) = 11
  /\ \A n \in 0 .. 10 : AllLevels[n + 1] = n
  /\ \A i \in 1 .. 11 : AllLevels[i] \in SafetyLevels
<1>1. AllLevels \in Seq(SafetyLevels) /\ Len(AllLevels) = 11
  BY DEF AllLevels, SafetyLevels
<1>2. ASSUME NEW n \in 0 .. 10 PROVE AllLevels[n + 1] = n
  <2>1. \/ n = 0 \/ n = 1 \/ n = 2 \/ n = 3 \/ n = 4 \/ n = 5
        \/ n = 6 \/ n = 7 \/ n = 8 \/ n = 9 \/ n = 10
    OBVIOUS
  <2> QED BY <2>1 DEF AllLevels
<1>3. \A i \in 1 .. 11 : AllLevels[i] \in SafetyLevels
  <2> SUFFICES ASSUME NEW i \in 1 .. 11 PROVE AllLevels[i] \in SafetyLevels
    OBVIOUS
  <2> QED BY <1>1, ElementOfSeq
<1> QED BY <1>1, <1>2, <1>3

LEMMA NotEmpty ==
  ASSUME NEW s, Len(s) # 0
  PROVE  s # <<>>
  OBVIOUS

\* Between the levels passed and those to come lies level n.
LEMMA NextLevel ==
  ASSUME NEW n \in 0 .. 10
  PROVE  /\ SubSeq(AllLevels, n + 1, 11) # <<>>
         /\ Head(SubSeq(AllLevels, n + 1, 11)) = n
         /\ Tail(SubSeq(AllLevels, n + 1, 11)) = SubSeq(AllLevels, n + 2, 11)
         /\ Append(SubSeq(AllLevels, 1, n), n) = SubSeq(AllLevels, 1, n + 1)
<1>1. /\ Head(SubSeq(AllLevels, n + 1, 11)) = n
      /\ Tail(SubSeq(AllLevels, n + 1, 11)) = SubSeq(AllLevels, n + 2, 11)
  BY LevelsListed, HeadTailOfSubSeq, n + 1 \in 1 .. 11, 11 \in n + 1 .. 11
<1>2. Len(SubSeq(AllLevels, n + 1, 11)) = 11 - n
  <2>1. \A i \in n + 1 .. 11 : AllLevels[i] \in SafetyLevels
    BY LevelsListed
  <2> QED BY <2>1, SubSeqProperties
<1>3. SubSeq(AllLevels, 1, n + 1) = SubSeq(AllLevels, 1, n) \o <<n>>
  BY LevelsListed, SubSeqRecursiveSecond, 1 \in 1 .. 11, n + 1 \in 1 .. 11
<1>4. SubSeq(AllLevels, 1, n) \in Seq(SafetyLevels) /\ n \in SafetyLevels
  <2>1. \A i \in 1 .. n : AllLevels[i] \in SafetyLevels
    BY LevelsListed
  <2> QED BY <2>1, SubSeqProperties, n \in Int, 1 \in Int DEF SafetyLevels
<1>5. Append(SubSeq(AllLevels, 1, n), n) = SubSeq(AllLevels, 1, n) \o <<n>>
  BY <1>4, AppendIsConcat, Zenon
<1>6. SubSeq(AllLevels, n + 1, 11) # <<>>
  <2>1. Len(SubSeq(AllLevels, n + 1, 11)) # 0
    BY <1>2
  <2> QED BY <2>1, NotEmpty, Zenon
<1> QED BY <1>1, <1>3, <1>5, <1>6, Zenon

LEMMA SomePassed ==
  ASSUME NEW n \in 1 .. 11
  PROVE  SubSeq(AllLevels, 1, n) # <<>>
<1>1. \A i \in 1 .. n : AllLevels[i] \in SafetyLevels
  BY LevelsListed
<1>2. Len(SubSeq(AllLevels, 1, n)) = n
  BY <1>1, SubSeqProperties
<1>3. Len(SubSeq(AllLevels, 1, n)) # 0
  BY <1>2
<1> QED BY <1>3, NotEmpty, Zenon

----------------------------------------------------------------------------
(* The pipeline *)

LEMMA AccountedInit == Init => Accounted
<1> SUFFICES ASSUME Init PROVE Accounted
  OBVIOUS
<1>1. SubSeq(AllLevels, 1, 0) = <<>>
  BY SubSeqEmpty
<1>2. SubSeq(AllLevels, 1, 11) = AllLevels
  BY LevelsListed, SubSeqFull
<1>3. /\ state.passed = SubSeq(AllLevels, 1, 0) /\ remaining = SubSeq(AllLevels, 0 + 1, 11)
      /\ state.diags = 0 /\ result = {} /\ state \in PipelineStates
  BY <1>1, <1>2 DEF Init, PipelineStates, SafetyLevels
<1> QED BY <1>3 DEF Accounted

LEMMA AccountedStep == Accounted /\ [Next]_vars => Accounted'
<1> SUFFICES ASSUME Accounted, [Next]_vars PROVE Accounted'
  OBVIOUS
<1>1. PICK n \in 0 .. 11 :
        /\ state.passed = SubSeq(AllLevels, 1, n)
        /\ remaining = SubSeq(AllLevels, n + 1, 11)
        /\ \A k \in 0 .. n - 1 : DispatchLevel(k, stmt)
        /\ n > 0 => state.lastPassed = n - 1
        /\ result = {} => state.diags = n
        /\ result # {} =>
             /\ result = CheckResult(state)
             /\ n < 11 => ~DispatchLevel(n, stmt) /\ state.diags = n + 1
             /\ n = 11 => state.diags = 11
  BY DEF Accounted
<1>2. n = 11 <=> remaining = <<>>
  <2>1. n = 11 => remaining = <<>>
    BY <1>1, SubSeqEmpty
  <2>2. n \in 0 .. 10 => remaining # <<>>
    BY <1>1, NextLevel
  <2> QED BY <2>1, <2>2
<1>3. CASE LevelPasses
  <2>1. n \in 0 .. 10 /\ Head(remaining) = n
    <3>1. n \in 0 .. 10
      BY <1>2, <1>3 DEF LevelPasses, Running
    <3> QED BY <1>1, <3>1, NextLevel
  <2>2. /\ state'.passed = SubSeq(AllLevels, 1, n + 1)
        /\ remaining' = SubSeq(AllLevels, n + 2, 11)
    BY <1>1, <1>3, <2>1, NextLevel DEF LevelPasses
  <2>3. \A k \in 0 .. n : DispatchLevel(k, stmt')
    <3>1. DispatchLevel(n, stmt) /\ stmt' = stmt
      BY <1>3, <2>1 DEF LevelPasses
    <3>2. \A k \in 0 .. n : k \in 0 .. n - 1 \/ k = n
      OBVIOUS
    <3> QED BY <1>1, <3>1, <3>2
  <2>6. state' \in PipelineStates
    <3>1. \A i \in 1 .. n + 1 : AllLevels[i] \in SafetyLevels
      BY <2>1, LevelsListed
    <3>2. state'.passed \in Seq(SafetyLevels)
      BY <2>1, <2>2, <3>1, SubSeqProperties
    <3>3. n \in SafetyLevels /\ n + 1 \in 0 .. 11 /\ state.diags = n
      BY <1>1, <1>3, <2>1 DEF SafetyLevels, LevelPasses, Running
    <3> QED BY <1>3, <2>1, <3>2, <3>3 DEF PipelineStates, LevelPasses
  <2>4. state'.lastPassed = n /\ state'.diags = n + 1 /\ result' = {}
    BY <1>1, <1>3, <2>1 DEF LevelPasses, Running
  <2>5. n + 1 \in 0 .. 11 /\ (n + 1) - 1 = n /\ (n + 1) + 1 = n + 2
    BY <2>1
  <2> QED BY <2>2, <2>3, <2>4, <2>5, <2>6 DEF Accounted
<1>4. CASE LevelFails
  <2>1. n \in 0 .. 10 /\ ~DispatchLevel(n, stmt')
    BY <1>1, <1>2, <1>4, NextLevel DEF LevelFails, Running
  <2>2. /\ state' = [state EXCEPT !.diags = n + 1] /\ result' = CheckResult(state')
        /\ stmt' = stmt /\ remaining' = remaining
    BY <1>1, <1>4 DEF LevelFails, Running
  <2>3. /\ state'.passed = state.passed /\ state'.lastPassed = state.lastPassed
        /\ state'.diags = n + 1 /\ result' # {}
    BY <2>2 DEF CheckResult, Accounted, PipelineStates
  <2>4. state' \in PipelineStates
    <3>1. state \in PipelineStates /\ n + 1 \in 0 .. 11
      BY <2>1 DEF Accounted
    <3> QED BY <2>2, <3>1 DEF PipelineStates
  <2>5. /\ state'.passed = SubSeq(AllLevels, 1, n)
        /\ remaining' = SubSeq(AllLevels, n + 1, 11)
        /\ \A k \in 0 .. n - 1 : DispatchLevel(k, stmt')
        /\ n > 0 => state'.lastPassed = n - 1
    BY <1>1, <2>2, <2>3
  <2>6. /\ n < 11 => ~DispatchLevel(n, stmt') /\ state'.diags = n + 1
        /\ n # 11
    BY <2>1, <2>3
  <2> QED BY <2>2, <2>3, <2>4, <2>5, <2>6 DEF Accounted
<1>5. CASE AllPassed
  <2>1. n = 11 /\ result' = CheckResult(state') /\ result' # {} /\ state'.diags = 11
    BY <1>1, <1>2, <1>5 DEF AllPassed, CheckResult
  <2> QED BY <1>1, <1>5, <2>1 DEF Accounted, AllPassed
<1>6. CASE UNCHANGED vars
  BY <1>6 DEF vars, Accounted
<1> QED BY <1>3, <1>4, <1>5, <1>6 DEF Next

THEOREM AccountedAlways == Spec => []Accounted
  BY AccountedInit, AccountedStep, PTL DEF Spec

\* The report is exact: the level reported is the highest one below which every check of
\* the statement passes, and the levels and diagnostics reported are those of that run.
THEOREM HighestLevelTheorem == Spec => []HighestLevelReported
<1>1. Accounted => HighestLevelReported
  <2> SUFFICES ASSUME Accounted, NEW r \in result
               PROVE  /\ Certified(stmt, r.maxLevel)
                      /\ r.maxLevel < 10 => ~Certified(stmt, r.maxLevel + 1)
                      /\ r.levelsPassed = SubSeq(AllLevels, 1, r.maxLevel + 1)
                      /\ r.diagnostics = r.maxLevel + (IF r.maxLevel = 10 THEN 1 ELSE 2)
    BY DEF HighestLevelReported
  <2>1. PICK n \in 0 .. 11 :
          /\ state.passed = SubSeq(AllLevels, 1, n)
          /\ \A k \in 0 .. n - 1 : DispatchLevel(k, stmt)
          /\ n > 0 => state.lastPassed = n - 1
          /\ result = CheckResult(state)
          /\ n < 11 => ~DispatchLevel(n, stmt) /\ state.diags = n + 1
          /\ n = 11 => state.diags = 11
    BY DEF Accounted
  <2>2. n \in 1 .. 11
    <3>1. DispatchLevel(0, stmt)
      BY DEF DispatchLevel
    <3> QED BY <2>1, <3>1
  <2>3. r.maxLevel = n - 1 /\ r.levelsPassed = state.passed /\ r.diagnostics = state.diags
    BY <2>1, <2>2, SomePassed DEF CheckResult
  <2>4. Certified(stmt, r.maxLevel)
    BY <2>1, <2>3 DEF Certified
  <2>5. r.maxLevel < 10 => ~Certified(stmt, r.maxLevel + 1)
    <3>1. n < 11 => n \in 0 .. r.maxLevel + 1
      BY <2>2, <2>3
    <3> QED BY <2>1, <2>2, <2>3, <3>1 DEF Certified
  <2> QED BY <2>1, <2>2, <2>3, <2>4, <2>5
<1> QED BY <1>1, AccountedAlways, PTL

\* Every variable has its type, whatever statements are checked.
THEOREM PipelineTypes == Spec => []TypeOK
<1>1. Init => stmt \in Statements
  BY InputsAssumption DEF Init
<1>2. stmt \in Statements /\ [Next]_vars => (stmt \in Statements)'
  BY DEF Next, LevelPasses, LevelFails, AllPassed, vars
<1>3. stmt \in Statements /\ Accounted => TypeOK
  <2> SUFFICES ASSUME stmt \in Statements, Accounted PROVE TypeOK
    OBVIOUS
  <2>1. PICK n \in 0 .. 11 : /\ remaining = SubSeq(AllLevels, n + 1, 11)
                             /\ result # {} => result = CheckResult(state)
    BY DEF Accounted
  <2>2. \A i \in n + 1 .. 11 : AllLevels[i] \in SafetyLevels
    BY LevelsListed
  <2>3. remaining \in Seq(SafetyLevels)
    BY <2>1, <2>2, SubSeqProperties
  <2>4. state \in PipelineStates
    BY DEF Accounted
  <2>5. ASSUME NEW r \in result
        PROVE  /\ r.maxLevel \in SafetyLevels /\ r.levelsPassed \in Seq(SafetyLevels)
               /\ r.diagnostics \in 0 .. 11 /\ r.valid \in BOOLEAN
    <3>1. /\ r.maxLevel \in {0, state.lastPassed} /\ r.levelsPassed = state.passed
          /\ r.diagnostics = state.diags /\ r.valid = (state.passed # <<>>)
      BY <2>1 DEF CheckResult
    <3>2. /\ state.lastPassed \in SafetyLevels /\ 0 \in SafetyLevels
          /\ state.passed \in Seq(SafetyLevels) /\ state.diags \in 0 .. 11
      BY <2>4 DEF PipelineStates, SafetyLevels
    <3> QED BY <3>1, <3>2
  <2> QED BY <2>3, <2>4, <2>5 DEF TypeOK
<1> QED BY <1>1, <1>2, <1>3, AccountedAlways, PTL DEF Spec

----------------------------------------------------------------------------
(* From checks to certificates *)

\* The proof predicates see no reference that the checker does not see.
LEMMA NamedAreSeen ==
  ASSUME NEW s \in Statements
  PROVE  NamedFieldRefs(s) \subseteq StatementFieldRefs(s)
<1>1. /\ \A item \in s.select : item.named \subseteq item.refs
      /\ \A e \in s.where \cup s.having : e.named \subseteq e.refs
  BY DEF Statements, SelectItems, Exprs, Maybe
<1>2. UNION {item.named : item \in s.select} \subseteq UNION {item.refs : item \in s.select}
  BY <1>1
<1>3. UNION {e.named : e \in s.where} \subseteq UNION {e.refs : e \in s.where}
  BY <1>1
<1>4. UNION {e.named : e \in s.having} \subseteq UNION {e.refs : e \in s.having}
  BY <1>1
<1> QED BY <1>2, <1>3, <1>4, Zenon DEF NamedFieldRefs, StatementFieldRefs

LEMMA CheckProvable ==
  ASSUME NEW s \in Statements, NEW k \in SafetyLevels, DispatchLevel(k, s),
         k = 2 => \A e \in s.where : ExprTypeSafe(e)
  PROVE  Provable(k, s)
<1>1. CASE k = 1
  <2>1. CheckLevel1(s)
    BY <1>1 DEF DispatchLevel
  <2> QED BY <1>1, <2>1, NamedAreSeen DEF CheckLevel1, Provable
<1>2. CASE k = 2
  BY <1>2 DEF Provable
<1>3. CASE k \in {0, 3, 4, 5}
  BY <1>3 DEF Provable
<1>4. CASE k = 6
  BY <1>4 DEF DispatchLevel, CheckLevel6, Provable
<1>5. CASE k = 7
  BY <1>5 DEF DispatchLevel, CheckLevel7, Provable
<1>6. CASE k = 8
  BY <1>6 DEF DispatchLevel, CheckLevel8, Provable
<1>7. CASE k = 9
  BY <1>7 DEF DispatchLevel, CheckLevel9, Provable
<1>8. CASE k = 10
  BY <1>8 DEF DispatchLevel, CheckLevel10, Provable
<1> QED BY <1>1, <1>2, <1>3, <1>4, <1>5, <1>6, <1>7, <1>8 DEF SafetyLevels

\* What the checker passes has a certificate, unless the WHERE clause as a whole is of a
\* kind that no type-safety proof covers.
THEOREM CertificateTheorem == Spec => []CheckedHasCertificate
<1>1. TypeOK /\ HighestLevelReported => CheckedHasCertificate
  <2> SUFFICES ASSUME TypeOK, HighestLevelReported, NEW r \in result,
                      ~(r.maxLevel >= 2 /\ \E e \in stmt.where : ~ExprTypeSafe(e)),
                      NEW k \in 0 .. r.maxLevel
               PROVE  Provable(k, stmt)
    BY DEF CheckedHasCertificate, HasCertificate
  <2>1. stmt \in Statements /\ r.maxLevel \in SafetyLevels /\ DispatchLevel(k, stmt)
    BY DEF TypeOK, HighestLevelReported, Certified
  <2>2. k \in SafetyLevels /\ (k = 2 => r.maxLevel >= 2)
    BY <2>1 DEF SafetyLevels
  <2> QED BY <2>1, <2>2, CheckProvable
<1> QED BY <1>1, PipelineTypes, HighestLevelTheorem, PTL
====
