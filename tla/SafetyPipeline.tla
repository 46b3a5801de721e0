---- MODULE SafetyPipeline ----
(***************************************************************************)
(* checkQuery of src/core/Checker.idr: the level checks run in order until *)
(* one fails.  A step is one unfolding of runPipeline.                     *)
(***************************************************************************)
EXTENDS SafetyCertificates, Sequences

CONSTANT Inputs     \* the statements that may be checked

ASSUME InputsAssumption == Inputs \subseteq Statements

VARIABLES
  stmt,             \* the statement under check
  remaining,        \* levels yet to check, in ascending order
  state,            \* PipelineState: last level passed, levels passed, number of diagnostics
  result            \* the CheckResult, once there is one

vars == <<stmt, remaining, state, result>>

AllLevels == <<0, 1, 2, 3, 4, 5, 6, 7, 8, 9, 10>>

\* Mutant: the level reported is the number of levels passed.
CheckResultCounts(st) ==
  {[maxLevel |-> Len(st.passed), levelsPassed |-> st.passed, diagnostics |-> st.diags,
    valid |-> st.passed # <<>>]}

\* A CheckResult, in a set that is empty while the pipeline runs.  Nothing compares the
\* levels passed with the level the statement requests.
CheckResult(st) ==
  {[maxLevel |-> IF st.passed = <<>> THEN 0 ELSE st.lastPassed,
    levelsPassed |-> st.passed, diagnostics |-> st.diags, valid |-> st.passed # <<>>]}

Init ==
  /\ stmt \in Inputs
  /\ remaining = AllLevels
  /\ state = [lastPassed |-> 0, passed |-> <<>>, diags |-> 0]
  /\ result = {}

Running == result = {} /\ remaining # <<>>

LevelPasses ==
  /\ Running
  /\ DispatchLevel(Head(remaining), stmt)
  /\ state' = [lastPassed |-> Head(remaining), passed |-> Append(state.passed, Head(remaining)),
               diags |-> state.diags + 1]
  /\ remaining' = Tail(remaining)
  /\ UNCHANGED <<stmt, result>>

\* Mutant: the level that failed is recorded as the last one passed.
LevelFailsRecorded ==
  /\ Running
  /\ ~DispatchLevel(Head(remaining), stmt)
  /\ state' = [state EXCEPT !.diags = @ + 1, !.lastPassed = Head(remaining)]
  /\ result' = CheckResult(state')
  /\ UNCHANGED <<stmt, remaining>>

\* The first failure ends the run and adds its diagnostic.
LevelFails ==
  /\ Running
  /\ ~DispatchLevel(Head(remaining), stmt)
  /\ state' = [state EXCEPT !.diags = @ + 1]
  /\ result' = CheckResult(state')
  /\ UNCHANGED <<stmt, remaining>>

AllPassed ==
  /\ result = {}
  /\ remaining = <<>>
  /\ result' = CheckResult(state)
  /\ UNCHANGED <<stmt, remaining, state>>

Next == LevelPasses \/ LevelFails \/ AllPassed

Spec == Init /\ [][Next]_vars

----------------------------------------------------------------------------
(* Properties *)

PipelineStates ==
  [lastPassed : SafetyLevels, passed : Seq(SafetyLevels), diags : 0 .. 11]

\* Every variable has its type.
TypeOK ==
  /\ stmt \in Statements
  /\ remaining \in Seq(SafetyLevels)
  /\ state \in PipelineStates
  /\ \A r \in result :
       /\ r.maxLevel \in SafetyLevels /\ r.levelsPassed \in Seq(SafetyLevels)
       /\ r.diagnostics \in 0 .. 11 /\ r.valid \in BOOLEAN

\* Where the pipeline is: it has passed the first n levels and has the others before it,
\* and once there is a result the next check, if any, has failed.
Accounted ==
  /\ state \in PipelineStates
  /\ \E n \in 0 .. 11 :
       /\ state.passed = SubSeq(AllLevels, 1, n)
       /\ remaining = SubSeq(AllLevels, n + 1, 11)
       /\ \A k \in 0 .. n - 1 : DispatchLevel(k, stmt)
       /\ n > 0 => state.lastPassed = n - 1
       /\ result = {} => state.diags = n
       /\ result # {} =>
            /\ result = CheckResult(state)
            /\ n < 11 => ~DispatchLevel(n, stmt) /\ state.diags = n + 1
            /\ n = 11 => state.diags = 11

\* The level reported is the highest one the statement stands at: all checks up to it pass
\* and the next one, if any, does not.  The levels reported passed are exactly those up to
\* it, and one diagnostic is given for each of them and for the check that failed.
HighestLevelReported ==
  \A r \in result :
    /\ Certified(stmt, r.maxLevel)
    /\ r.maxLevel < 10 => ~Certified(stmt, r.maxLevel + 1)
    /\ r.levelsPassed = SubSeq(AllLevels, 1, r.maxLevel + 1)
    /\ r.diagnostics = r.maxLevel + (IF r.maxLevel = 10 THEN 1 ELSE 2)

\* What the checker passes, the proof predicates of Levels.idr allow: a statement reported
\* at a level has a certificate for it.  The exception is a WHERE clause that is nothing
\* but a star, a subquery or an epistemic operator, which no type-safety proof covers.
CheckedHasCertificate ==
  \A r \in result :
    \/ HasCertificate(stmt, r.maxLevel)
    \/ r.maxLevel >= 2 /\ \E e \in stmt.where : ~ExprTypeSafe(e)

\* "Every expression carries a type annotation (initially TAny, resolved during type
\* checking at Level 2+)": a statement that stops short of level 2 with all its fields
\* bound compares two operands of known types.
TypeErrorsAreClashes ==
  \A r \in result :
    r.maxLevel = 1 =>
      \E e \in stmt.where : \E p \in e.compared :
        TAny \notin {p[1], p[2]} /\ ~TypesCompatible(p[1], p[2])
====
